---------------------------- MODULE MCRateLimit ----------------------------
(* RateLimit with two threads, for TLC. *)
EXTENDS RateLimit, TLC

CONSTANTS t1, t2

TwoThreads == {t1, t2}
Symmetry == Permutations(TwoThreads)
=============================================================================
