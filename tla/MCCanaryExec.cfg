CONSTANTS
  b1 = b1
  Bindings = {b1}
  Statuses <- MCStatuses
  Success = "success"
  NumRequests = 2
  Ids = {1, 2}
  Target = 2
  Capacity = 2
  MaxLines = 10
  MaxMsgs = 3
  MaxRuns = 2
  MaxFaults = 1
SPECIFICATION FairExecSpec
INVARIANTS
  NoFabricatedSuccess
  ObservedPrefix
  AdmissionSound
PROPERTIES
  NoIssueAfterFailure
  RunEnds
