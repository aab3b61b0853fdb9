CONSTANTS
  b1 = b1
  b2 = b2
  b3 = b3
  Backends = {b1, b2, b3}
  Configs <- SomeConfigs
  Samples <- SomeSamples
  MaxReports = 2
SPECIFICATION Spec
INVARIANTS
  TypeOK
  LeastAverage
  UntriedFirst
  RepeatedStays
PROPERTY ImplementsSelector
CHECK_DEADLOCK FALSE
