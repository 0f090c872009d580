SPECIFICATION Spec
CONSTANTS
  Inputs = {i1}
  Keys = {k1}
  Stop = stop
  MaxReceipts = 2
  MaxPendingInputs = 1
  History = 0
  Limit = 100
  PageLimit = 1
  MaxFaults = 0
CHECK_DEADLOCK FALSE
PROPERTIES
  StopSettles
