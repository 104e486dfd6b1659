CONSTANTS
  u1 = u1
  u2 = u2
  u3 = u3
  a1 = a1
  a2 = a2
  r1 = r1
  r2 = r2
  w1 = w1
  w2 = w2
  None = None
  User <- ThreeUsers
  Account <- OneAccount
  Row <- OneRow
  Operators <- ThreeUsers
  Default = a1
  Worker <- TwoWorkers
  Kinds = {"update_role", "remove_member", "moderate", "delete_user"}
  MayCrash = FALSE
SPECIFICATION InUseSpec
SYMMETRY Symmetry
INVARIANTS
  RefIntegrity
  LockedRowLives
PROPERTY StrandingNeedsRace
