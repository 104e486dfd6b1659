CONSTANTS
  k1 = k1
  k2 = k2
  c1 = c1
  c2 = c2
  w1 = w1
  w2 = w2
  None = None
  Pk <- TwoVersions
  Path <- TwoPaths
  Content = {c1, c2}
  Archives <- TwoArchives
  Backends = {"inline", "s3"}
  Worker <- TwoWorkers
SPECIFICATION Spec
SYMMETRY Symmetry
INVARIANTS
  TypeOK
  WholeBundles
  IndexMatchesStore
PROPERTIES
  FaithfulDownloads
  CopiesAreFaithful
