SPECIFICATION FairSpec
CONSTANTS
  both = both
  one = one
  Observees <- TwoObservees
  operationalInterval <- OftenOf
  memoryInterval <- SeldomOf
  Slack = 1
  SlotModulus = 4
  None = None
  Nobody = Nobody
  MaxTime = 4
  MaxShutdowns = 0
PROPERTIES
  SlotsAreServed
CHECK_DEADLOCK FALSE
