SPECIFICATION Spec
CONSTANTS
  Configs <- LimitedOrNot
  Updates <- NoUpdates
  Clients = {}
  Idle = Idle
  CountModulus = 4
  MaxTime = 4
  MaxTries = 3
  Instances = {i1, i2}
  Null = Null
  MaxJobs = 1
INVARIANTS
  RestartedBecauseItMisbehaved
CHECK_DEADLOCK FALSE
