CONSTANTS
  CallFaults = FALSE
  Outages = TRUE
  Races = FALSE
SPECIFICATION Spec
INVARIANTS TypeOK AgentInstalled
PROPERTY AgentKept
