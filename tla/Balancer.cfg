CONSTANTS
  b1 = b1
  b2 = b2
  u1 = u1
  c1 = c1
  c2 = c2
  c3 = c3
  t1 = t1
  t2 = t2
  NoBackend = NoBackend
  NoClient = NoClient
  Backends = {b1, u1}
  Config <- MixedBackends
  Urls = {u1}
  Clients = {c1, c2, c3}
  Threads = {t1, t2}
SPECIFICATION FairSpec
INVARIANTS
  TypeOK
  Accounting
  RefusedIsOut
  ExhaustionReported
  ExitCodeTruthful
  StopHasCause
PROPERTIES
  WithinFactorTwo
  ExclusionHasCause
  ImplementsDispatch
  Settles
  ShutdownCompletes
  ExhaustionEnds
