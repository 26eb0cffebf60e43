CONSTANTS
  None = None
  Second = 2
  Idle = 3
  Requests = {"method", "Abandon"}
  MaxTime = 8
  MaxQueue = 2
  OmitFaults = FALSE
  CommandFaults = TRUE
SPECIFICATION Spec
PROPERTY IdleAfterLastRequest
