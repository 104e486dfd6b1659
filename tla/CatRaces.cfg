CONSTANTS
  a1 = a1
  a2 = a2
  s1 = s1
  e1 = e1
  w1 = w1
  w2 = w2
  None = None
  Version <- ThreeVersions
  Rank <- TiedRank
  Account <- TwoAccounts
  Default = a1
  Skillset <- OneSet
  Email <- NoEmail
  Worker <- TwoWorkers
  Vis = {"private"}
SPECIFICATION TxSpec
SYMMETRY Symmetry
PROPERTIES
  DamageNeedsRace
  RefreshHeals
