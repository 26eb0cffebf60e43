CONSTANTS
  user = user
  user1 = user1
  c1 = c1
  c2 = c2
  t1 = t1
  t2 = t2
  t3 = t3
  Root = Root
  Gone = Gone
  NoPath = NoPath
  NoCall = NoCall
  NoName = NoName
  Slices = {user}
  Scopes = {c1, c2}
  Within <- Flat
  Pids = {}
  Ops = {"StartTransientUnit", "StartUnit", "StopUnit", "Abandon"}
  MaxQueue = 1
  MaxAgents = 4
  MaxDisturb = 0
  CgmFaults = FALSE
  Crashes = TRUE
  Races = TRUE
  ChainAgent = TRUE
  PidReuse = TRUE
  LoadFaults = FALSE
  SaveFaults = FALSE
SPECIFICATION Spec
INVARIANTS TypeOK StartsAreDurable
PROPERTY ServiceSpec
