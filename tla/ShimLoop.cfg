CONSTANTS
  None = None
  Second = 2
  Idle = 3
  Requests = {"poweroff", "suspend", "hibernate", "method", "Abandon"}
  MaxTime = 6
  MaxQueue = 2
  OmitFaults = TRUE
  CommandFaults = TRUE
SPECIFICATION Spec
INVARIANT TypeOK
PROPERTIES NoSleepWhileHalting SuspendIsDebounced IdleIsLongEnough
