CONSTANTS
  b1 = b1
  b2 = b2
  b3 = b3
  b4 = b4
  a1 = a1
  a2 = a2
  Backends = {b1, b2, b3, b4}
  Config <- FourBackends
  Addresses = {a1, a2}
  Ports = {1, 2, 3, 4, 5, 6}
  AddressHashes = {0, 1, 2, 3, 216, 221, 1771}
  HashValues = 8192
SPECIFICATION Spec
INVARIANT OneAddressOneBackend
CHECK_DEADLOCK FALSE
