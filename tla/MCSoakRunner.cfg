SPECIFICATION SoakSpec
CONSTANTS
  r1 = r1
  n1 = n1
  n2 = n2
  Runs = {r1}
  Nodes = {n1, n2}
  Explanations = {"structural"}
  Metrics = {0, 1}
  TotalCycles = 3
  CandidatesPerCycle = 2
  ExhaustedAfter = 2
  MaxNotes = 1
INVARIANTS
  ManifestAccounts
  StagedIsOnLedger
  RootCoversAdmitted
  ExhaustedMeansFailed
SYMMETRY MCPermutations
CHECK_DEADLOCK FALSE
