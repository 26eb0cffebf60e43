CONSTANTS
  user = user
  user1 = user1
  c1 = c1
  c2 = c2
  t1 = t1
  t2 = t2
  t3 = t3
  Root = Root
  Gone = Gone
  NoPath = NoPath
  NoCall = NoCall
  NoName = NoName
  Slices = {user, user1}
  Scopes = {c1}
  Within <- Nested
  Pids = {t1, t2}
  Ops = {"StartTransientUnit", "StartUnit", "StopUnit"}
  MaxQueue = 1
  MaxAgents = 0
  MaxDisturb = 5
  CgmFaults = TRUE
  Crashes = FALSE
  Races = TRUE
  ChainAgent = FALSE
  PidReuse = FALSE
  LoadFaults = FALSE
  SaveFaults = FALSE
SPECIFICATION Spec
INVARIANTS StopLeavesNoSurvivor NoOrphan
PROPERTIES KillsOnlyMembers RequestsAreBounded
SYMMETRY PidSymmetry
ACTION_CONSTRAINTS OneSliceForScopes SentWhenIdle
