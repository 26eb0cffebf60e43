CONSTANTS
  user = user
  user1 = user1
  c1 = c1
  c2 = c2
  t1 = t1
  t2 = t2
  t3 = t3
  Root = Root
  Gone = Gone
  NoPath = NoPath
  NoCall = NoCall
  NoName = NoName
  Slices = {user}
  Scopes = {c1}
  Within <- Flat
  Pids = {t1}
  Ops = {"StartTransientUnit", "StopUnit", "Abandon"}
  MaxQueue = 1
  MaxAgents = 4
  MaxDisturb = 1
  CgmFaults = FALSE
  Crashes = FALSE
  Races = FALSE
  ChainAgent = TRUE
  PidReuse = FALSE
  LoadFaults = FALSE
  SaveFaults = FALSE
SPECIFICATION FairSpec
INVARIANT StartIsDone
PROPERTIES EveryCallAnswered ReleaseCollected ReleaseForgotten
