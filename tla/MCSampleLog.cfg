SPECIFICATION SampleSpec
CONSTANTS
  e1 = e1
  e2 = e2
  Engines = {e1, e2}
  a = a
  b = b
  Contexts = {a, b}
  Timings <- MCTimings
  MinSamples = 2
  Window = 2
  P95Min = 2
  MaxCycles = 4
INVARIANTS
  LossNeedsOverlap
  MeasuredFromHistory
  MissingIsNotZero
SYMMETRY MCPermutations
CHECK_DEADLOCK FALSE
