----------------------------- MODULE MCSessions -----------------------------
(* Sessions with two tabs and a user, who is an operator of the environment too,
   beside the superadmin, for TLC. *)
EXTENDS Sessions, TLC

CONSTANTS t1, t2, u1, root, k1, k2, k3, k4

TwoTabs    == {t1, t2}
TwoUsers   == {u1, root}
Root       == {root}
User1      == {u1}
FourTokens == {k1, k2, k3, k4}

\* Tokens are interchangeable too: Fresh is one of those that occur nowhere in the
\* state, and which of them changes nothing but its name.
Symmetry == Permutations(TwoTabs) \cup Permutations(FourTokens)
=============================================================================
