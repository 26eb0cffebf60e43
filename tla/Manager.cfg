CONSTANTS
  Clients = {c1}
  Ops = {"StartUnit", "StopUnit", "Abandon", "unit_property", "property", "Ping"}
  Names = {"poweroff.target", "foo.service"}
  Grouped = {}
  NtpThere = FALSE
  None = None
  Crashes = TRUE
  NameFaults = TRUE
  MaxCalls = 3
SPECIFICATION FairSpec
INVARIANTS TypeOK OneAnswerPerCall JobsInStep HandledIsAnswered OneTimeout
PROPERTIES CallsInTurn EveryCallAnswered IdleProcessExits
CHECK_DEADLOCK FALSE
