SPECIFICATION Spec
CONSTANTS
  both = both
  one = one
  Observees <- TwoObservees
  operationalInterval <- OperationalOf
  memoryInterval <- MemoryOf
  Slack = 1
  SlotModulus = 4
  None = None
  Nobody = Nobody
  MaxTime = 2
  MaxShutdowns = 1
INVARIANTS
  TypeOK
  NoLostWakeup
  WakesInTime
  SlotsKeepTime
  SleepIsShort
  CountersAligned
  ProbeInv
PROPERTIES
  PassesOfTheLife
CHECK_DEADLOCK FALSE
