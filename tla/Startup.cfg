CONSTANTS
  Undefined = Undefined
  Junk = Junk
  AutoThreads = AutoThreads
  Hardware = 2
  MaxThreads = 4
  Configs <- SomeConfigs
SPECIFICATION FairSpec
INVARIANTS
  TypeOK
  RunsOnlyWhenReady
  ServesAsConfigured
PROPERTIES
  ServesOrEnds
  StopEndsProcess
