------------------------------ MODULE MCBridge ------------------------------
(* Two versions of a skill, two calls and one signing key, for TLC. *)
EXTENDS Bridge, TLC

CONSTANTS v1, v2, c1, c2, k1, a, b

TwoVersions == {v1, v2}
TwoCalls    == {c1, c2}
TwoPaths    == 1 .. 2

\* Two bundles have the same paths, and two a file in common.  One is signed.
ThreeBundles  == {<<a, None>>, <<b, None>>, <<a, a>>}
SignedBundles == k1 :> {<<a, None>>}

Symmetry == Permutations(TwoVersions) \cup Permutations(TwoCalls)
=============================================================================
