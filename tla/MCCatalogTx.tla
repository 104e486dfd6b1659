---------------------------- MODULE MCCatalogTx ----------------------------
(* Bounded instances of CatalogTx for TLC. *)
EXTENDS CatalogTx, TLC

CONSTANTS a1, a2, s1, e1, w1, w2

\* Three versions, two of them equal in semver order (1.0.0, 1.1.0, 1.1.0+a).
ThreeVersions == 1 .. 3
TiedRank      == <<1, 2, 2>>

TwoAccounts == {a1, a2}
OneSet      == {s1}
OneEmail    == {e1}
NoEmail     == {}
OneWorker   == {w1}
TwoWorkers  == {w1, w2}
Symmetry    == Permutations(Worker)
=============================================================================
