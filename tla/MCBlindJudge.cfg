SPECIFICATION JudgeSpec
CONSTANTS
  j1 = j1
  j2 = j2
  c1 = c1
  c2 = c2
  Judges = {j1, j2}
  CycleOf <- MCCycleOf
  Cands = {c1, c2}
  Files = {"subject"}
  Subject = "subject"
  Exe = "subject"
  Contents = {0, 1}
  Policies <- MCPolicies
  Holdouts <- MCHoldouts
  Parents = {"parent"}
  Parent = "parent"
  Rss = {100}
  Iterations = 2
  MaxEdits = 2
  MaxRuns = 2
INVARIANTS
  ScoreIsOfSubject
  HoldoutsAsPinned
  AdmittedPassedAll
  PromotedWasJudged
SYMMETRY MCPermutations
CHECK_DEADLOCK FALSE
