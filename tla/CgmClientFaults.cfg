CONSTANTS
  CallFaults = TRUE
  Outages = FALSE
  Races = FALSE
SPECIFICATION Spec
PROPERTY AgentNotOverridden
