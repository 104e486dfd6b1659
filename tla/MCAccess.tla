------------------------------ MODULE MCAccess ------------------------------
(* Access with two replicas, one agent, a skill and a skillset, for TLC. *)
EXTENDS Access, TLC

CONSTANTS r1, r2, g1, s1

TwoReplicas == {r1, r2}
SkillAndSet == {s1, g1}
OneSkill    == {s1}
OneSet      == {g1}
Symmetry    == Permutations(TwoReplicas)
=============================================================================
