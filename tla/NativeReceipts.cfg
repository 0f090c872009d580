SPECIFICATION Spec
CONSTANTS
  Inputs = {i1}
  Keys = {k1, k2}
  Stop = stop
  MaxReceipts = 2
  MaxPendingInputs = 1
  History = 0
  Limit = 4
  PageLimit = 100
  MaxFaults = 1
CHECK_DEADLOCK FALSE
INVARIANTS
  ReceiptsHonest
  Agrees
  ReleasedIsExited
  StopHasRoom
PROPERTIES
  ExitReportedFirst
  StopSettles
