CONSTANTS
  Undefined = Undefined
  Junk = Junk
  AutoThreads = AutoThreads
  Hardware = 2
  MaxThreads = 4
  Configs <- SomeConfigs
SPECIFICATION Spec
INVARIANT IpVersionHonoured
