SPECIFICATION Spec
CONSTANTS
  a = a
  b = b
  Callsigns = {a, b}
  Empty = Empty
  Configs <- SomeConfigs
  Requests = {r1, r2}
  MicrosPerSecond = 6
  WordModulus = 16
  MaxSamples = 1
SYMMETRY Symmetry
INVARIANTS
  TypeOK
  MapNeedsNoLock
  UpIsProbed
  SamplesAccounted
  ObservedAsConfigured
  IntervalsAreSound
  LifecycleInv
