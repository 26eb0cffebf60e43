------------------------------ MODULE CGroupUnits ------------------------------
(***************************************************************************)
(* The scopes and slices of the shim (src/src/cgroup-unit.c, the calls of  *)
(* src/src/cgmanager.c and the handlers of src/src/systemd-shim.c that     *)
(* reach them), together with what they race with: the tasks of the        *)
(* kernel's cgroups, the release agents the kernel starts when a cgroup    *)
(* becomes empty (src/src/cgroup-release-agent.c), and the end of the      *)
(* shim's own process.                                                     *)
(*                                                                         *)
(* The shim is single-threaded and its calls to cgmanager are synchronous, *)
(* so it works on one request at a time; but every call to cgmanager is a  *)
(* step of its own, and everything else runs between two of them.          *)
(***************************************************************************)
EXTENDS CGroupTree, Naturals, Sequences, FiniteSets

CONSTANTS Pids,        \* process ids
          Root,        \* the cgroup of the tasks the shim does not manage
          Gone,        \* the "cgroup" of a process id not in use
          NoPath,      \* no entry in the state file; a call that no agent makes
          NoCall,      \* the shim is not working on a request
          Ops,         \* the methods the clients call
          MaxQueue,    \* bound: requests of clients that wait at a time
          MaxAgents,   \* bound: cgroups with a release agent at a time
          MaxDisturb,  \* bound: forks and failed listings during one stop
          CgmFaults,   \* whether a call to cgmanager may fail
          Crashes,     \* whether the shim may be killed, at any moment
          Races,       \* whether a request may reach the shim just as it exits
          ChainAgent,  \* whether cgmanager's own release agent is installed
          PidReuse,    \* whether an id that a request or a list names is reused
          LoadFaults,  \* as in UnitState
          SaveFaults   \* as in UnitState

Methods == {"StartTransientUnit", "StartUnit", "StopUnit", "Abandon"}

ASSUME UnitsAssumption ==
  /\ Ops \subseteq Methods
  /\ MaxQueue \in Nat
  /\ MaxAgents \in Nat
  /\ MaxDisturb \in Nat
  /\ {CgmFaults, Crashes, Races, ChainAgent, PidReuse, LoadFaults, SaveFaults} \subseteq BOOLEAN
  /\ {Root, Gone, NoPath} \cap Path = {}
  /\ Root # Gone

VARIABLES
  \* the kernel
  cgroups,     \* the cgroups that exist
  notify,      \* those of them with notify_on_release set
  where,       \* the cgroup of each task
  dying,       \* tasks that got a SIGKILL and have not ended yet
  releases,    \* cgroups for which the kernel is about to start a release agent
  \* the processes that call the shim, and the requests on the bus
  agent,       \* the release agent that runs for each cgroup
  inbox,       \* the requests the shim has not taken up yet
  \* the shim: the request it works on and the locals of its handler
  call, step, path,
  todo,        \* the process ids still to move, or still to kill
  tries,
  \* the shim: state.c
  key_file, loaded, disk,
  \* history, read by no action
  acked,       \* the path of each unit whose start was reported and stands
  disturbed    \* forks and failed listings since the stop began

kernelVars == <<cgroups, notify, where, dying, releases>>
shimVars == <<call, step, path, todo, tries>>
stateVars == <<key_file, loaded, disk>>
vars == <<kernelVars, agent, inbox, shimVars, stateVars, acked, disturbed>>

State == INSTANCE UnitState WITH Units <- Unit, Paths <- Path

-------------------------------------------------------------------------------
(* Requests. *)

Call == [op : Methods, unit : Unit, slice : Slices \cup {NoName},
         pids : SUBSET Pids, agent : Path \cup {NoPath}]

ASSUME NoCallAssumption == NoCall \notin Call

Request(op, unit, slice, pids) ==
  [op |-> op, unit |-> unit, slice |-> slice, pids |-> pids, agent |-> NoPath]

\* The request a release agent makes: StopUnit of the cgroup's last component.
StopCall(p) ==
  [op |-> "StopUnit", unit |-> basename(p), slice |-> NoName, pids |-> {}, agent |-> p]

\* StartTransientUnit only works for a scope with a usable Slice property,
\* StartUnit only for a slice; anything else is logged, and then reported to
\* the caller as if it had been done.
ValidStart(c) ==
  \/ c.op = "StartTransientUnit" /\ c.unit \in Scopes /\ c.slice \in Slices
  \/ c.op = "StartUnit" /\ c.unit \in Slices

StartPath(c) ==
  IF c.op = "StartUnit" THEN path_of(c.unit, NoName) ELSE path_of(c.slice, c.unit)

-------------------------------------------------------------------------------
(* The kernel's cgroups. *)

TasksBelow(p) == {t \in Pids : where[t] \in Path /\ Covers(p, where[t])}

\* Those of them that nobody has killed.
Survivors(p) == TasksBelow(p) \ dying

\* A cgroup with a task or a child.
Busy(p) ==
  \/ \E t \in Pids : where[t] = p
  \/ \E q \in cgroups : q # p /\ Covers(p, q)

\* A cgroup with the flag is released when it loses its last task or child;
\* one that is removed in the meantime no longer is.
RaiseReleases ==
  releases' = (releases \cap cgroups') \cup
              {p \in cgroups \cap cgroups' \cap notify : Busy(p) /\ ~Busy(p)'}

\* rmdir of all of "gone".
RemoveCGroups(gone) ==
  /\ cgroups' = cgroups \ gone
  /\ notify' = notify \ gone
  /\ UNCHANGED <<where, dying>>
  /\ RaiseReleases

\* Process ids that a request or the shim still means to act on.
Held == todo \cup (IF call = NoCall THEN {} ELSE call.pids)
             \cup UNION {inbox[i].pids : i \in 1..Len(inbox)}

\* A new task gets an id that is free.
NewPid(t) == where[t] = Gone /\ (PidReuse \/ t \notin Held)

TaskExit(t) ==
  /\ where[t] # Gone
  /\ where' = [where EXCEPT ![t] = Gone]
  /\ dying' = dying \ {t}
  /\ UNCHANGED <<cgroups, notify, agent, inbox, shimVars, stateVars, acked, disturbed>>
  /\ RaiseReleases

\* A fork outside the cgroups of the shim.
NewTask(t) ==
  /\ NewPid(t)
  /\ where' = [where EXCEPT ![t] = Root]
  /\ UNCHANGED <<cgroups, notify, dying, releases, agent, inbox, shimVars, stateVars,
                 acked, disturbed>>

\* A fork in one of them, which counts while the shim stops that cgroup.
Fork(parent, t) ==
  /\ NewPid(t)
  /\ where[parent] \in Path
  /\ parent \notin dying
  /\ where' = [where EXCEPT ![t] = where[parent]]
  /\ IF step \in {"list", "kill", "remove"} /\ Covers(path, where[parent])
     THEN disturbed < MaxDisturb /\ disturbed' = disturbed + 1
     ELSE UNCHANGED disturbed
  /\ UNCHANGED <<cgroups, notify, dying, releases, agent, inbox, shimVars, stateVars, acked>>

-------------------------------------------------------------------------------
(* The callers. *)

\* A call that an agent for p made has not been answered.
Waiting(p) ==
  \/ call # NoCall /\ call.agent = p
  \/ \E i \in 1..Len(inbox) : inbox[i].agent = p

\* What a client may send: process ids only with a request that uses them,
\* and only of tasks that live.
ClientRequests ==
  {Request("StartTransientUnit", u, NoName, {}) : u \in Scopes} \cup
  {Request("StartTransientUnit", u, s, {}) : u \in Slices, s \in Slices} \cup
  {Request("StartTransientUnit", u, s, pids) :
     u \in Scopes, s \in Slices, pids \in SUBSET {t \in Pids : where[t] # Gone}} \cup
  {Request(op, u, NoName, {}) : op \in Methods \ {"StartTransientUnit"}, u \in Unit}

ClientCall ==
  /\ Cardinality({i \in 1..Len(inbox) : inbox[i].agent = NoPath}) < MaxQueue
  /\ \E c \in ClientRequests : c.op \in Ops /\ inbox' = Append(inbox, c)
  /\ UNCHANGED <<kernelVars, agent, shimVars, stateVars, acked, disturbed>>

\* The kernel starts the release agent of a cgroup, which calls StopUnit and
\* waits.  Bound: one agent, and one such request, per cgroup at a time.
SpawnAgent(p) ==
  /\ p \in releases
  /\ agent[p] = "none"
  /\ ~Waiting(p)
  /\ Cardinality({q \in Path : agent[q] # "none" \/ Waiting(q)}) < MaxAgents
  /\ releases' = releases \ {p}
  /\ agent' = [agent EXCEPT ![p] = "waiting"]
  /\ inbox' = Append(inbox, StopCall(p))
  /\ UNCHANGED <<cgroups, notify, where, dying, shimVars, stateVars, acked, disturbed>>

\* Mutant: the agent gives up when its call fails.
AgentTimeout_givesUp(p) ==
  /\ agent[p] = "waiting"
  /\ agent' = [agent EXCEPT ![p] = "none"]
  /\ UNCHANGED <<kernelVars, inbox, shimVars, stateVars, acked, disturbed>>

\* The agent's call fails, after its timeout or because the shim is gone; the
\* agent goes on all the same.  A request that still waits is not withdrawn.
AgentTimeout(p) ==
  /\ agent[p] = "waiting"
  /\ agent' = [agent EXCEPT ![p] = "chain"]
  /\ UNCHANGED <<kernelVars, inbox, shimVars, stateVars, acked, disturbed>>

\* The agent becomes cgmanager's agent, if there is one, which removes the
\* cgroup unless it is in use again.
Chain(p) ==
  /\ agent[p] = "chain"
  /\ agent' = [agent EXCEPT ![p] = "none"]
  /\ IF ChainAgent /\ p \in cgroups /\ ~Busy(p)
     THEN RemoveCGroups({p})
     ELSE UNCHANGED kernelVars
  /\ UNCHANGED <<inbox, shimVars, stateVars, acked, disturbed>>

-------------------------------------------------------------------------------
(* The shim takes up a request. *)

\* The requests that may be next.  Abandon is a method of a unit's object, which
\* GLib looks up in a callback of its own before the handler gets its turn:
\* what waits behind an Abandon may overtake it, unless it is another one.
\* (Manager has the two callbacks.  Here a request may overtake even if it came
\* after the first of them.)
Turn ==
  {i \in 1..Len(inbox) :
     i = 1 \/ (inbox[i].op # "Abandon" /\ \A j \in 1..(i - 1) : inbox[j].op = "Abandon")}

Take ==
  /\ step = "idle"
  /\ \E i \in Turn :
       /\ call' = inbox[i]
       /\ inbox' = SubSeq(inbox, 1, i - 1) \o SubSeq(inbox, i + 1, Len(inbox))
  /\ UNCHANGED <<kernelVars, agent, tries, acked, disturbed>>

DispatchStart ==
  /\ Take
  /\ ValidStart(call')
  /\ step' = "create"
  /\ path' = StartPath(call')
  /\ todo' = call'.pids
  /\ UNCHANGED stateVars

RefuseStart ==
  /\ Take
  /\ call'.op \in {"StartTransientUnit", "StartUnit"}
  /\ ~ValidStart(call')
  /\ step' = "reply"
  /\ path' = NoPath
  /\ todo' = {}
  /\ UNCHANGED stateVars

\* Mutant: the unit is stopped even if the state file does not know it.
DispatchStop_unchecked ==
  /\ Take
  /\ call'.op = "StopUnit"
  /\ State!state_read
  /\ path' = key_file'[call'.unit]
  /\ step' = "list"
  /\ todo' = {}

\* Mutant: the unit is forgotten first and stopped then.
DispatchStop_forgets ==
  /\ Take
  /\ call'.op = "StopUnit"
  /\ \E key \in State!state_get_key_file :
       /\ path' = key[call'.unit]
       /\ State!state_remove_unit(call'.unit)
  /\ step' = IF path' = NoPath THEN "reply" ELSE "list"
  /\ todo' = {}

\* The path comes from the state file; a unit without one is left alone.
DispatchStop ==
  /\ Take
  /\ call'.op = "StopUnit"
  /\ State!state_read
  /\ path' = key_file'[call'.unit]
  /\ step' = IF path' = NoPath THEN "reply" ELSE "list"
  /\ todo' = {}

DispatchAbandon ==
  /\ Take
  /\ call'.op = "Abandon"
  /\ State!state_read
  /\ path' = key_file'[call'.unit]
  /\ step' = IF path' = NoPath THEN "reply" ELSE "prune"
  /\ todo' = {}

-------------------------------------------------------------------------------
(* cgroup_unit_start and cgroup_unit_start_transient: cgmanager_create, call *)
(* by call and without a look at what the calls return, then the state file. *)

\* A cgroup and what is missing above it; a new one has the flag of the one
\* it is made in.
MakeCGroups(p) ==
  LET new == AncestorsOf(p) \ cgroups
      old == AncestorsOf(p) \cap cgroups
  IN /\ cgroups' = cgroups \cup new
     /\ notify' = IF \E a \in old \cap notify : \A q \in old : Covers(q, a)
                  THEN notify \cup new ELSE notify

CgmCreate ==
  /\ step = "create"
  /\ step' = "move"
  /\ \/ MakeCGroups(path)
     \/ CgmFaults /\ UNCHANGED <<cgroups, notify>>
  /\ UNCHANGED <<where, dying, releases, agent, inbox, call, path, todo, tries, stateVars,
                 acked, disturbed>>

CgmMovePid ==
  /\ step = "move"
  /\ \E t \in todo :
       /\ todo' = todo \ {t}
       /\ \/ IF path \in cgroups /\ where[t] # Gone
             THEN where' = [where EXCEPT ![t] = path]
             ELSE UNCHANGED where
          \/ CgmFaults /\ UNCHANGED where
  /\ UNCHANGED <<cgroups, notify, dying, agent, inbox, call, step, path, tries, stateVars,
                 acked, disturbed>>
  /\ RaiseReleases

\* Mutant: the calls to cgmanager are not waited for.
CgmSetNotify_async ==
  /\ step = "move"
  /\ step' = "save"
  /\ todo' = {}
  /\ notify' = notify \cup ({path} \cap cgroups)
  /\ UNCHANGED <<cgroups, where, dying, releases, agent, inbox, call, path, tries,
                 stateVars, acked, disturbed>>

CgmSetNotify ==
  /\ step = "move"
  /\ todo = {}
  /\ step' = "save"
  /\ \/ notify' = notify \cup ({path} \cap cgroups)
     \/ CgmFaults /\ UNCHANGED notify
  /\ UNCHANGED <<cgroups, where, dying, releases, agent, inbox, call, path, todo, tries,
                 stateVars, acked, disturbed>>

SaveState ==
  /\ step = "save"
  /\ step' = "reply"
  /\ State!state_set_string(call.unit, path)
  /\ acked' = [acked EXCEPT ![call.unit] = NoPath]
  /\ UNCHANGED <<kernelVars, agent, inbox, call, path, todo, tries, disturbed>>

-------------------------------------------------------------------------------
(* cgroup_unit_stop: kill and remove, six times at most, then forget. *)

\* Mutant: the code asks for the tasks of the cgroup itself only (GetTasks).
GetTasksRecursive_flat == {t \in Pids : where[t] = path}

GetTasksRecursive == TasksBelow(path)

\* Mutant: the reply is used even if the call failed and there is none.
CgmGetTasks_unchecked ==
  /\ step = "list"
  /\ step' = "kill"
  /\ \/ todo' = GetTasksRecursive
     \/ CgmFaults /\ todo' \in SUBSET Pids
  /\ UNCHANGED <<kernelVars, agent, inbox, call, path, tries, stateVars, acked, disturbed>>

\* When the listing fails, nothing is killed in this round.
CgmGetTasks ==
  /\ step = "list"
  /\ step' = "kill"
  /\ \/ todo' = GetTasksRecursive /\ UNCHANGED disturbed
     \/ /\ CgmFaults
        /\ disturbed < MaxDisturb
        /\ todo' = {}
        /\ disturbed' = disturbed + 1
  /\ UNCHANGED <<kernelVars, agent, inbox, call, path, tries, stateVars, acked>>

\* SIGKILL goes to whichever task has the id now.
Kill ==
  /\ step = "kill"
  /\ \E t \in todo :
       /\ todo' = todo \ {t}
       /\ dying' = IF where[t] = Gone THEN dying ELSE dying \cup {t}
  /\ UNCHANGED <<cgroups, notify, where, releases, agent, inbox, call, step, path, tries,
                 stateVars, acked, disturbed>>

ListKilled ==
  /\ step = "kill"
  /\ todo = {}
  /\ step' = "remove"
  /\ UNCHANGED <<kernelVars, agent, inbox, call, path, todo, tries, stateVars, acked, disturbed>>

\* Mutants: no second round; one round less; as many as it takes; a cgroup
\* that cannot be removed is not forgotten.
AfterRound_once(successful) == step' = "forget" /\ UNCHANGED tries
AfterRound_five(successful) ==
  IF tries # 1 /\ ~successful
  THEN step' = "list" /\ tries' = tries - 1
  ELSE step' = "forget" /\ UNCHANGED tries
AfterRound_forever(successful) ==
  step' = (IF successful THEN "forget" ELSE "list") /\ UNCHANGED tries
AfterRound_keep(successful) ==
  IF tries # 0 /\ ~successful
  THEN step' = "list" /\ tries' = tries - 1
  ELSE step' = (IF successful THEN "forget" ELSE "reply") /\ UNCHANGED tries

\* "while (tries-- && !successful)"
AfterRound(successful) ==
  IF tries # 0 /\ ~successful
  THEN step' = "list" /\ tries' = tries - 1
  ELSE step' = "forget" /\ UNCHANGED tries

\* Remove takes away what has no task in or below it, and succeeds when the
\* cgroup itself is gone by that; for a cgroup that was gone before, either
\* answer is possible.
CgmRemove ==
  /\ step = "remove"
  /\ \E successful \in BOOLEAN :
       /\ \/ /\ RemoveCGroups({p \in cgroups : Covers(path, p) /\ TasksBelow(p) = {}})
             /\ path \in cgroups => successful = (TasksBelow(path) = {})
          \/ CgmFaults /\ successful = FALSE /\ UNCHANGED kernelVars
       /\ AfterRound(successful)
  /\ UNCHANGED <<agent, inbox, call, path, todo, stateVars, acked, disturbed>>

\* cgroup_unit_abandon: the tasks stay, only empty cgroups go.
CgmPrune ==
  /\ step = "prune"
  /\ step' = "forget"
  /\ \/ RemoveCGroups({p \in cgroups : Covers(path, p) /\ TasksBelow(p) = {}})
     \/ CgmFaults /\ UNCHANGED kernelVars
  /\ UNCHANGED <<agent, inbox, call, path, todo, tries, stateVars, acked, disturbed>>

Forget ==
  /\ step = "forget"
  /\ step' = "reply"
  /\ State!state_remove_unit(call.unit)
  /\ acked' = [acked EXCEPT ![call.unit] = NoPath]
  /\ UNCHANGED <<kernelVars, agent, inbox, call, path, todo, tries, disturbed>>

-------------------------------------------------------------------------------
\* Every request is answered with success, whatever was done, and the locals of
\* its handler are gone.
Reply ==
  /\ step = "reply"
  /\ step' = "idle"
  /\ call' = NoCall
  /\ path' = NoPath
  /\ agent' = [p \in Path |-> IF p = call.agent /\ agent[p] = "waiting" THEN "chain" ELSE agent[p]]
  /\ acked' = IF ValidStart(call) THEN [acked EXCEPT ![call.unit] = path] ELSE acked
  /\ tries' = 5
  /\ disturbed' = 0
  /\ UNCHANGED <<kernelVars, inbox, todo, stateVars>>

\* The process ends, and with it the request in hand and those it has received;
\* the bus starts it again for the rest.
ProcessEnds(received) ==
  /\ inbox' = SubSeq(inbox, received + 1, Len(inbox))
  /\ call' = NoCall
  /\ step' = "idle"
  /\ path' = NoPath
  /\ todo' = {}
  /\ tries' = 5
  /\ disturbed' = 0
  /\ State!Restart
  /\ UNCHANGED <<kernelVars, agent, acked>>

\* After a time without requests; requests may come too late to prevent it.
exit_on_inactivity ==
  /\ step = "idle"
  /\ \E received \in 0..(IF Races THEN Len(inbox) ELSE 0) : ProcessEnds(received)

\* A kill, which may come at any moment.
ShimDies == Crashes /\ \E received \in 0..Len(inbox) : ProcessEnds(received)

-------------------------------------------------------------------------------
Init ==
  /\ cgroups = {}
  /\ notify = {}
  /\ where = [t \in Pids |-> Root]
  /\ dying = {}
  /\ releases = {}
  /\ agent = [p \in Path |-> "none"]
  /\ inbox = <<>>
  /\ call = NoCall
  /\ step = "idle"
  /\ path = NoPath
  /\ todo = {}
  /\ tries = 5
  /\ State!Init
  /\ acked = [u \in Unit |-> NoPath]
  /\ disturbed = 0

ShimStep ==
  \/ DispatchStart \/ RefuseStart \/ DispatchStop \/ DispatchAbandon
  \/ CgmCreate \/ CgmMovePid \/ CgmSetNotify \/ SaveState
  \/ CgmGetTasks \/ Kill \/ ListKilled \/ CgmRemove \/ CgmPrune \/ Forget
  \/ Reply

Next ==
  \/ ShimStep
  \/ exit_on_inactivity
  \/ ShimDies
  \/ ClientCall
  \/ \E p \in Path : SpawnAgent(p) \/ AgentTimeout(p) \/ Chain(p)
  \/ \E t \in Pids : TaskExit(t) \/ NewTask(t)
  \/ \E parent, t \in Pids : Fork(parent, t)

Spec == Init /\ [][Next]_vars

\* The shim's main loop and cgmanager keep running, and so do the kernel's
\* worker and the agents it starts.  Nothing makes a client call or a task end.
Fairness ==
  /\ WF_vars(ShimStep)
  /\ \A p \in Path : WF_vars(SpawnAgent(p)) /\ WF_vars(AgentTimeout(p)) /\ WF_vars(Chain(p))

FairSpec == Spec /\ Fairness

-------------------------------------------------------------------------------
\* What the clients are promised, as long as the state file can be read and
\* written: a request has committed when it is about to be answered.
BusyUnit == IF call = NoCall THEN {} ELSE {call.unit}

\* Where the request in hand asks for its unit to be, until it has committed.
AskedFor ==
  IF step \in {"idle", "reply"} THEN {}
  ELSE {IF ValidStart(call) THEN StartPath(call) ELSE NoPath}

Service ==
  INSTANCE UnitService WITH
    Units <- Unit, Paths <- Path,
    units <- State!Seen, busy <- BusyUnit, open <- AskedFor

TypeOK ==
  /\ cgroups \subseteq Path
  /\ notify \subseteq cgroups
  /\ where \in [Pids -> Path \cup {Root, Gone}]
  /\ dying \subseteq Pids
  /\ releases \subseteq Path
  /\ agent \in [Path -> {"none", "waiting", "chain"}]
  /\ inbox \in Seq(Call)
  /\ call \in Call \cup {NoCall}
  /\ step \in {"idle", "create", "move", "save", "list", "kill", "remove", "prune", "forget",
               "reply"}
  /\ (step = "idle") = (call = NoCall)
  /\ path \in Path \cup {NoPath}
  /\ path = NoPath => step \in {"idle", "reply"}
  /\ todo \subseteq Pids
  /\ tries \in 0..5
  /\ State!TypeOK
  /\ acked \in [Unit -> Path \cup {NoPath}]
  /\ disturbed \in 0..MaxDisturb

\* A task is never in a cgroup that does not exist, and a cgroup never
\* outlives one above it.
TreeOK ==
  /\ \A t \in Pids : where[t] \in cgroups \cup {Root, Gone}
  /\ \A p \in cgroups : AncestorsOf(p) \subseteq cgroups

\* A start that was reported to its caller survives any number of ends of the
\* process, at any step of any later request: until that unit is started or
\* stopped again, both the state file and whoever reads it next have its path.
\* (state_set_string is done, and the file written, before the reply.)
StartsAreDurable ==
  ~(LoadFaults \/ SaveFaults) =>
    \A u \in Unit : acked[u] # NoPath => disk[u] = acked[u] /\ State!Seen[u] = acked[u]

\* All of this, the cache, the steps of a request, the release agents and the
\* end of the process between any two steps, behaves as one service that
\* commits what a request asked for to the entry of its own unit, once, before
\* its answer, and loses nothing that it committed: a caller without an answer
\* finds the unit as it was or as it asked for.
ServiceSpec == Service!Spec

\* When StopUnit forgets a unit, whatever it left alive at or below the
\* unit's cgroup, it tried six times: each of its rounds of listing, killing
\* and removing met a fork in that cgroup or a listing that failed.
StopLeavesNoSurvivor ==
  step = "forget" /\ call.op = "StopUnit" => Survivors(path) = {} \/ disturbed >= 6

\* Up to five such disturbances, without Abandon, without the process being
\* killed, and with every scope always in the same slice: whatever lives in a
\* cgroup of the shim's is covered by an entry of the state file, so that a
\* StopUnit can still reach it, also in a later process, after any number of
\* idle exits.  (Only a request under way may be ahead of the file.)
NoOrphan ==
  \A t \in Pids :
    where[t] \in Path /\ t \notin dying =>
      \/ \E u \in Unit : State!Seen[u] # NoPath /\ Covers(State!Seen[u], where[t])
      \/ step # "idle" /\ path # NoPath /\ Covers(path, where[t])

\* StopUnit kills nothing outside the cgroup it stops, although the list of
\* ids is as old as the call that returned it (as long as no id on the list
\* is used again before it is killed).
KillsOnlyMembers ==
  [][\A t \in dying' \ dying : where[t] \in Path /\ Covers(path, where[t])]_vars

\* How many steps the request in hand still takes at most: what is left after a
\* step, the process ids to go through, and the rounds of a stop.
StepsAfter == [idle |-> 0, reply |-> 1, save |-> 2, forget |-> 2, prune |-> 3, move |-> 3,
               create |-> 4, remove |-> 3, kill |-> 4, list |-> 5 + Cardinality(Pids)]
Round == Cardinality(Pids) + 3
StepsLeft ==
  StepsAfter[step] + (IF step \in {"create", "move", "kill"} THEN Cardinality(todo) ELSE 0)
                   + (IF step \in {"list", "kill", "remove"} THEN tries * Round ELSE 0)

\* Whatever forks, ends or fails meanwhile, a request is through after a number
\* of steps that depends on nothing but the number of process ids: a call to
\* cgmanager is never repeated for ever, though a killed task need not end and a
\* cgroup need not become empty.
RequestsAreBounded ==
  /\ [](StepsLeft <= 6 * Cardinality(Pids) + 20)
  /\ [][step # "idle" => StepsLeft' < StepsLeft \/ UNCHANGED shimVars]_vars

\* When a start is reported, the tasks it named are in the unit's cgroup or
\* have ended, and the cgroup will announce when it becomes empty: unless a
\* release agent of an earlier use has removed it in the meantime.
StartIsDone ==
  step = "reply" /\ ValidStart(call) /\ path \in cgroups =>
    /\ \A t \in call.pids : where[t] \in {path, Gone}
    /\ path \in notify

\* A request in hand is answered: in particular StopUnit gives up on a cgroup
\* that it cannot empty, even if the tasks it killed never end.
EveryCallAnswered == (step # "idle") ~> (step = "idle")

\* A cgroup whose release the kernel announces is removed or in use again,
\* whether or not the shim knows a unit for it.
ReleaseCollected == \A p \in Path : (p \in releases) ~> (p \notin cgroups \/ Busy(p))

\* Once an agent has called for a unit's cgroup, the unit is forgotten, even
\* if the agent does not wait for it.
ReleaseForgotten ==
  \A p \in Path :
    (agent[p] = "waiting" /\ disk[basename(p)] = p) ~> (disk[basename(p)] # p)
===============================================================================
