SPECIFICATION Spec
CONSTANTS
  Configs <- SomeConfigs
  Updates <- SomeUpdates
  Clients = {c1, c2}
  Idle = Idle
  CountModulus = 4
  MaxTime = 5
  MaxTries = 5
INVARIANTS
  TypeOK
  BurstBounded
  IInv
PROPERTIES
  BurstIsLogarithmic
  WindowsDoNotOverlap
