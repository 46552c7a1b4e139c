SPECIFICATION Spec
CONSTANTS
  Configs <- OneConfig
  Updates <- NoUpdates
  Clients = {c1, c2}
  Idle = Idle
  CountModulus = 4
  MaxTime = 4
  MaxTries = 8
INVARIANTS
  RestartsWithinLimit
