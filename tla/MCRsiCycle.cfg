CONSTANTS
  e1 = e1
  e2 = e2
  c1 = c1
  c2 = c2
  Engines <- MCEngines
  Cands <- MCCands
  NoCand = NoCand
  Receipts = {"own_v1", "separate_v2"}
  MinSamples = 1
  MaxCycles = 3
  MaxFaults = 1
SPECIFICATION CycleSpec
SYMMETRY MCSymmetry
INVARIANTS
  CycleTypeOK
  PromotionEarned
  ExecutableFromTree
  ReviewIsRecorded
  ClaimsAreMeasured
