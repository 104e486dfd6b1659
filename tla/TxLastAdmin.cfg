CONSTANTS
  u1 = u1
  u2 = u2
  u3 = u3
  a1 = a1
  a2 = a2
  r1 = r1
  r2 = r2
  w1 = w1
  w2 = w2
  None = None
  User <- TwoUsers
  Account <- OneAccount
  Row <- OneRow
  Operators <- OneUser
  Default = a1
  Worker <- TwoWorkers
  Kinds = {"update_role", "remove_member"}
  MayCrash = FALSE
SPECIFICATION InUseSpec
PROPERTY AdminsSurviveRequests
