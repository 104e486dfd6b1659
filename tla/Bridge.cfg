CONSTANTS
  v1 = v1
  v2 = v2
  c1 = c1
  c2 = c2
  k1 = k1
  a = a
  b = b
  None = None
  Version <- TwoVersions
  Call <- TwoCalls
  Kid = {k1}
  Path <- TwoPaths
  Content = {a, b}
  Bundles <- ThreeBundles
  Authored <- SignedBundles
  Backends = {"inline", "s3"}
SPECIFICATION Spec
SYMMETRY Symmetry
INVARIANTS
  TypeOK
  OneVersionOnDisk
PROPERTIES
  WholeInstalls
  
