SPECIFICATION Spec
CONSTANTS
  Instances = {i1, i2}
  Requests = {r1, r2}
  NumFields = 3
  MaxSamples = 2
  Null = Null
  Free = Free
  Evaluator = Evaluator
SYMMETRY Symmetry
INVARIANTS
  TypeOK
  NoUseAfterRelease
  NoLeak
  StatisticsWhole
  ObserveeInv
CHECK_DEADLOCK FALSE
