SPECIFICATION ReviewSpec
CONSTANTS
  r1 = r1
  r2 = r2
  Ratifiers = {r1, r2}
  Proposals <- MCProposals
  UsableIds = {"p", "q"}
  Trees <- MCTrees
  FirstTree <- MCFirstTree
  ratify_roots <- MCRoots
  PROTECTED_PATHS <- MCProtected
  MaxAttempts = 3
  MaxOwner = 2
INVARIANTS
  ReviewIsOneFile
  ReviewStaysInRoots
  ReportStands
SYMMETRY MCPermutations
CHECK_DEADLOCK FALSE
