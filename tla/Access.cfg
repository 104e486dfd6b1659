CONSTANTS
  r1 = r1
  r2 = r2
  g1 = g1
  s1 = s1
  None = None
  Replica <- TwoReplicas
  Agent = {a1}
  Name <- SkillAndSet
  Skill <- OneSkill
  Skillset <- OneSet
  Jti = {j1}
  Kid = {0, 1}
  Lifetime = {0, 3}
  MaxLifetime = 2
  RevocationTTL = 1
  MaxTime = 4
SPECIFICATION Spec
SYMMETRY Symmetry
INVARIANTS
  TokensTypeOK
  SeamlessRotation
  GrantsRunOut
PROPERTY RefusedStaysRefused
