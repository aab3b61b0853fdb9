CONSTANTS
  b1 = b1
  b2 = b2
  b3 = b3
  b4 = b4
  Backends = {b1, b2, b3, b4}
  Config <- FourBackends
SPECIFICATION Spec
PROPERTY FullTurns
CHECK_DEADLOCK FALSE
