CONSTANTS
  b1 = b1
  b2 = b2
  b3 = b3
  Backends = {b1, b2, b3}
  Configs <- OnceAndTwice
  Replicas = 2
  Hashes = {0, 1, 2, 3, 4, 5, 6}
  Hashings <- Orders
SPECIFICATION Spec
INVARIANT TypeOK
PROPERTIES
  MinimalDisruption
  RefusedLeavesRing
  ImplementsSelector
CHECK_DEADLOCK FALSE
