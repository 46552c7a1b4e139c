SPECIFICATION FairSpec
CONSTANTS
  Configs <- LimitedOrNot
  Updates <- LoweredLimit
  Clients = {c1}
  Idle = Idle
  CountModulus = 4
  MaxTime = 4
  MaxTries = 3
  Instances = {i1, i2}
  Null = Null
  MaxJobs = 1
INVARIANTS
  NoFailureForgotten
  SupervisionInv
PROPERTIES
  ImplementsWatchdog
  FailureIsAnswered
CHECK_DEADLOCK FALSE
