CONSTANTS
  t1 = t1
  t2 = t2
  u1 = u1
  root = root
  k1 = k1
  k2 = k2
  k3 = k3
  k4 = k4
  None = None
  Tab <- TwoTabs
  User <- TwoUsers
  Superadmin <- Root
  EnvOperator <- User1
  Account = {a1}
  Token <- FourTokens
SPECIFICATION Spec
SYMMETRY Symmetry
INVARIANTS
  TypeOK
  FormsActAsShown
PROPERTIES
  IdentityChangesByLogin
  SessionsWereTrue
