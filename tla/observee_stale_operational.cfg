SPECIFICATION Spec
CONSTANTS
  Instances = {i1, i2}
  Requests = {r1, r2}
  NumFields = 2
  MaxSamples = 2
  Null = Null
  Free = Free
  Evaluator = Evaluator
SYMMETRY Symmetry
INVARIANTS
  DownIsNotOperational
CHECK_DEADLOCK FALSE
