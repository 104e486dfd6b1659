CONSTANTS
  u1 = u1
  u2 = u2
  u3 = u3
  a1 = a1
  a2 = a2
  r1 = r1
  r2 = r2
  w1 = w1
  w2 = w2
  None = None
  User <- ThreeUsers
  Account <- OneAccount
  Row <- OneRow
  Operators <- ThreeUsers
  Default = a1
  Worker <- OneWorker
  Kinds = {"boot", "create_user", "delete_user", "moderate", "create_account", "delete_account", "invite", "revoke", "signup", "update_role", "remove_member", "catalog"}
  MayCrash = FALSE
SPECIFICATION TxSpec
SYMMETRY Symmetry
INVARIANTS
  TxTypeOK
  RefIntegrity
PROPERTIES
  ImplementsSerial
  GuardHolds
  InheritorCanOwn
  HandoverEndsAccess
