----------------------------- MODULE MCBundles -----------------------------
(* Bounded instance of Bundles for TLC. *)
EXTENDS Bundles, TLC

CONSTANTS k1, k2, c1, c2, w1, w2

TwoVersions == {k1, k2}
TwoWorkers  == {w1, w2}
TwoPaths    == 1 .. 2

\* One archive has a file less than the other, and other bytes in the one they share.
TwoArchives == {<<c1, None>>, <<c2, c1>>}

Symmetry == Permutations(TwoVersions) \cup Permutations(TwoWorkers)
=============================================================================
