CONSTANTS
  b1 = b1
  Bindings = {b1}
  Statuses <- MCStatuses
  Success = "success"
  NumRequests = 2
  Ids = {1, 2}
  Target = 1
  Capacity = 2
  MaxLines = 10
  MaxMsgs = 2
  MaxRuns = 1
  MaxFaults = 0
SPECIFICATION ExecSpec
INVARIANT RevertedNotAdmitted
