SPECIFICATION SoakSpec
CONSTANTS
  r1 = r1
  n1 = n1
  n2 = n2
  Runs = {r1}
  Nodes = {n1, n2}
  Explanations = {"structural"}
  Metrics = {0}
  TotalCycles = 3
  CandidatesPerCycle = 1
  ExhaustedAfter = 2
  MaxNotes = 1
INVARIANTS
  ExhaustedIsSkipped
CHECK_DEADLOCK FALSE
