-------------------------- MODULE CGroupUnits_proofs --------------------------
(***************************************************************************)
(* Theorems about CGroupUnits, for every set of units, nesting of slices   *)
(* and set of process ids, for every bound, and with or without faults.    *)
(***************************************************************************)
EXTENDS CGroupUnits, SequenceTheorems, FiniteSetTheorems, TLAPS

(* Paths. *)

\* A scope and a slice have a path.
LEMMA PathsExist ==
  /\ \A s \in Slices : path_of(s, NoName) \in Path
  /\ \A s \in Slices, c \in Scopes : path_of(s, c) \in Path
BY DEF path_of, Path

\* The last component of a path is a unit.
LEMMA BasenameIsUnit == \A p \in Path : basename(p) \in Unit
BY DEF basename, Path, Unit

\* What lies below a cgroup that lies below another lies below that one.
LEMMA CoversTransitive ==
  ASSUME NEW p \in Path, NEW q \in Path, NEW r \in Path, Covers(p, q), Covers(q, r)
  PROVE  Covers(p, r)
BY TreeAssumption DEF Covers, Path

-------------------------------------------------------------------------------
(* Requests. *)

\* What the callers send is a request.
LEMMA CallsAreCalls ==
  /\ ClientRequests \subseteq Call
  /\ \A p \in Path : StopCall(p) \in Call
<1>1. ClientRequests \subseteq Call
  BY DEF ClientRequests, Request, Call, Methods, Unit
<1>2. \A p \in Path : StopCall(p) \in Call
  BY BasenameIsUnit DEF StopCall, Call, Methods
<1>3. QED
  BY <1>1, <1>2

\* A start that is carried out has a path.
LEMMA StartPathIsPath ==
  ASSUME NEW c \in Call, ValidStart(c)
  PROVE  StartPath(c) \in Path
BY PathsExist DEF StartPath, ValidStart, Call

-------------------------------------------------------------------------------
(* The requests that wait. *)

\* What is taken up waited, and what waits then waited before.
LEMMA TakenFromInbox ==
  ASSUME inbox \in Seq(Call), Take
  PROVE  /\ call' \in Call
         /\ inbox' \in Seq(Call)
         /\ \E i \in 1..Len(inbox) : call' = inbox[i]
         /\ \A k \in 1..Len(inbox') : \E i \in 1..Len(inbox) : inbox'[k] = inbox[i]
<1> DEFINE n == Len(inbox)
<1>1. n \in Nat /\ \A k \in 1..n : inbox[k] \in Call
  BY LenProperties, ElementOfSeq
<1>2. PICK i \in 1..n : /\ call' = inbox[i]
                        /\ inbox' = SubSeq(inbox, 1, i - 1) \o SubSeq(inbox, i + 1, n)
  BY DEF Take, Turn
<1> DEFINE before == SubSeq(inbox, 1, i - 1)
           after == SubSeq(inbox, i + 1, n)
<1> HIDE DEF n
<1>3. /\ before \in Seq(Call)
      /\ Len(before) = i - 1
      /\ \A k \in 1..i - 1 : before[k] = inbox[k]
  <2>1. \A k \in 1..i - 1 : k \in 1..n
    BY <1>1
  <2>2. QED
    BY <1>1, <2>1, SubSeqProperties
<1>4. /\ after \in Seq(Call)
      /\ Len(after) = n - i
      /\ \A k \in 1..n - i : after[k] = inbox[i + k]
  <2>1. \A k \in i + 1..n : k \in 1..n
    BY <1>1
  <2>2. QED
    BY <1>1, <2>1, SubSeqProperties
<1> HIDE DEF before, after
<1>5. /\ before \o after \in Seq(Call)
      /\ Len(before \o after) = n - 1
      /\ \A k \in 1..n - 1 :
           (before \o after)[k] = IF k <= i - 1 THEN before[k] ELSE after[k - (i - 1)]
  <2>1. Len(before) + Len(after) = n - 1
    BY <1>1, <1>3, <1>4
  <2>2. /\ before \o after \in Seq(Call)
        /\ Len(before \o after) = Len(before) + Len(after)
        /\ \A k \in 1..Len(before) + Len(after) :
             (before \o after)[k] = IF k <= Len(before) THEN before[k] ELSE after[k - Len(before)]
    BY <1>3, <1>4, ConcatProperties
  <2>3. QED
    BY <1>3, <2>1, <2>2
<1>6. inbox' = before \o after
  BY <1>2 DEF before, after
<1>7. ASSUME NEW k \in 1..Len(inbox')
      PROVE  \E l \in 1..n : inbox'[k] = inbox[l]
  <2>1. k \in 1..n - 1
    BY <1>5, <1>6
  <2>2. CASE k <= i - 1
    BY <1>1, <1>3, <1>5, <1>6, <2>1, <2>2
  <2>3. CASE ~(k <= i - 1)
    <3>1. k - (i - 1) \in 1..n - i /\ i + (k - (i - 1)) = k + 1 /\ k + 1 \in 1..n
      BY <1>1, <2>1, <2>3
    <3>2. QED
      BY <1>4, <1>5, <1>6, <2>1, <2>3, <3>1
  <2>4. QED
    BY <2>2, <2>3
<1>8. QED
  BY <1>1, <1>2, <1>5, <1>6, <1>7 DEF n

\* When the process ends, what waits then waited before.
LEMMA LeftInInbox ==
  ASSUME inbox \in Seq(Call), exit_on_inactivity \/ ShimDies
  PROVE  /\ inbox' \in Seq(Call)
         /\ \A k \in 1..Len(inbox') : \E i \in 1..Len(inbox) : inbox'[k] = inbox[i]
<1> DEFINE n == Len(inbox)
<1>1. n \in Nat /\ \A k \in 1..n : inbox[k] \in Call
  BY LenProperties, ElementOfSeq
<1>2. PICK received \in 0..n : inbox' = SubSeq(inbox, received + 1, n)
  BY <1>1 DEF exit_on_inactivity, ShimDies, ProcessEnds
<1> HIDE DEF n
<1>3. \A k \in received + 1..n : k \in 1..n
  BY <1>1
<1>4. /\ inbox' \in Seq(Call)
      /\ Len(inbox') = n - received
      /\ \A k \in 1..n - received : inbox'[k] = inbox[received + k]
  <2>1. received + 1 \in Int /\ n \in Int
    BY <1>1
  <2>2. /\ inbox' \in Seq(Call)
        /\ Len(inbox') = IF received + 1 <= n THEN n - (received + 1) + 1 ELSE 0
        /\ \A k \in 1..n - (received + 1) + 1 : inbox'[k] = inbox[received + 1 + k - 1]
    BY <1>1, <1>2, <1>3, <2>1, SubSeqProperties
  <2>3. /\ n - (received + 1) + 1 = n - received
        /\ (IF received + 1 <= n THEN n - (received + 1) + 1 ELSE 0) = n - received
        /\ \A k \in Int : received + 1 + k - 1 = received + k
    BY <1>1
  <2>4. QED
    BY <2>2, <2>3
<1>5. \A k \in 1..n - received : received + k \in 1..n
  BY <1>1
<1>6. QED
  BY <1>4, <1>5 DEF n

-------------------------------------------------------------------------------
(* Type correctness. *)

\* The requests on the bus and the progress of the release agents.
BusOK ==
  /\ agent \in [Path -> {"none", "waiting", "chain"}]
  /\ inbox \in Seq(Call)

KernelOK ==
  /\ cgroups \subseteq Path
  /\ notify \subseteq cgroups
  /\ where \in [Pids -> Path \cup {Root, Gone}]
  /\ dying \subseteq Pids
  /\ releases \subseteq Path

\* The request under way and the locals of its handler.
ShimOK ==
  /\ call \in Call \cup {NoCall}
  /\ step \in {"idle", "create", "move", "save", "list", "kill", "remove", "prune", "forget",
               "reply"}
  /\ (step = "idle") = (call = NoCall)
  /\ path \in Path \cup {NoPath}
  /\ path = NoPath => step \in {"idle", "reply"}
  /\ todo \subseteq Pids
  /\ tries \in 0..5

HistoryOK ==
  /\ acked \in [Unit -> Path \cup {NoPath}]
  /\ disturbed \in 0..MaxDisturb

LEMMA TypeParts == TypeOK <=> BusOK /\ KernelOK /\ ShimOK /\ State!TypeOK /\ HistoryOK
BY DEF TypeOK, BusOK, KernelOK, ShimOK, HistoryOK

\* The requests stay requests.
LEMMA BusStep == TypeOK /\ [Next]_vars => BusOK'
<1> SUFFICES ASSUME TypeOK, [Next]_vars
             PROVE  BusOK'
  OBVIOUS
<1>0. BusOK
  BY TypeParts
<1>1. CASE UNCHANGED <<agent, inbox>>
  BY <1>0, <1>1 DEF BusOK
<1>2. CASE Take /\ UNCHANGED agent
  BY <1>0, <1>2, TakenFromInbox DEF BusOK
<1>3. CASE Reply
  BY <1>0, <1>3 DEF BusOK, Reply
<1>4. CASE exit_on_inactivity \/ ShimDies
  <2>1. UNCHANGED agent
    BY <1>4 DEF exit_on_inactivity, ShimDies, ProcessEnds
  <2>2. QED
    BY <1>0, <1>4, <2>1, LeftInInbox DEF BusOK
<1>5. CASE ClientCall
  BY <1>0, <1>5, CallsAreCalls, AppendProperties DEF BusOK, ClientCall
<1>6. ASSUME NEW p \in Path, SpawnAgent(p)
      PROVE  BusOK'
  BY <1>0, <1>6, CallsAreCalls, AppendProperties DEF BusOK, SpawnAgent
<1>7. ASSUME NEW p \in Path, AgentTimeout(p) \/ Chain(p)
      PROVE  BusOK'
  BY <1>0, <1>7 DEF BusOK, AgentTimeout, Chain
<1>8. ShimStep => (Take /\ UNCHANGED agent) \/ UNCHANGED <<agent, inbox>> \/ Reply
  BY DEF ShimStep, DispatchStart, RefuseStart, DispatchStop, DispatchAbandon, Take, CgmCreate,
         CgmMovePid, CgmSetNotify, SaveState, CgmGetTasks, Kill, ListKilled, CgmRemove, CgmPrune,
         Forget
<1>9. ASSUME NEW parent \in Pids, NEW t \in Pids, TaskExit(t) \/ NewTask(t) \/ Fork(parent, t)
      PROVE  UNCHANGED <<agent, inbox>>
  BY <1>9 DEF TaskExit, NewTask, Fork
<1>10. QED
  BY <1>1, <1>2, <1>3, <1>4, <1>5, <1>6, <1>7, <1>8, <1>9 DEF Next, vars

\* Only existing cgroups have a flag or are released.
LEMMA KernelStep == TypeOK /\ [Next]_vars => KernelOK'
<1> SUFFICES ASSUME TypeOK, [Next]_vars
             PROVE  KernelOK'
  OBVIOUS
<1>0. KernelOK /\ ShimOK
  BY TypeParts
<1> USE DEF KernelOK
<1>1. CASE UNCHANGED kernelVars
  BY <1>0, <1>1 DEF kernelVars
<1>2. ASSUME NEW gone \in SUBSET Path, RemoveCGroups(gone)
      PROVE  KernelOK'
  BY <1>0, <1>2 DEF RemoveCGroups, RaiseReleases
<1>3. CASE CgmCreate
  <2>1. cgroups' \subseteq Path /\ notify' \subseteq cgroups'
    BY <1>0, <1>3 DEF CgmCreate, MakeCGroups, AncestorsOf
  <2>2. QED
    BY <1>0, <1>3, <2>1 DEF CgmCreate
<1>4. CASE CgmMovePid
  <2>1. where' \in [Pids -> Path \cup {Root, Gone}]
    BY <1>0, <1>4 DEF CgmMovePid
  <2>2. releases' \subseteq Path
    BY <1>0, <1>4 DEF CgmMovePid, RaiseReleases
  <2>3. QED
    BY <1>0, <1>4, <2>1, <2>2 DEF CgmMovePid
<1>5. CASE CgmSetNotify
  BY <1>0, <1>5 DEF CgmSetNotify
<1>6. CASE Kill
  BY <1>0, <1>6 DEF Kill, ShimOK
<1>7. CASE CgmRemove \/ CgmPrune
  <2>1. {p \in cgroups : Covers(path, p) /\ TasksBelow(p) = {}} \in SUBSET Path
    BY <1>0
  <2>2. QED
    BY <1>1, <1>2, <1>7, <2>1 DEF CgmRemove, CgmPrune
<1>8. ASSUME NEW p \in Path, SpawnAgent(p) \/ AgentTimeout(p) \/ Chain(p)
      PROVE  KernelOK'
  <2>1. CASE SpawnAgent(p)
    BY <1>0, <2>1 DEF SpawnAgent
  <2>2. CASE AgentTimeout(p) \/ Chain(p)
    BY <1>1, <1>2, <2>2 DEF AgentTimeout, Chain
  <2>3. QED
    BY <1>8, <2>1, <2>2
<1>9. ASSUME NEW t \in Pids, TaskExit(t)
      PROVE  KernelOK'
  BY <1>0, <1>9 DEF TaskExit, RaiseReleases
<1>10. ASSUME NEW t \in Pids, NewTask(t)
      PROVE  KernelOK'
  BY <1>0, <1>10 DEF NewTask
<1>11. ASSUME NEW parent \in Pids, NEW t \in Pids, Fork(parent, t)
      PROVE  KernelOK'
  BY <1>0, <1>11 DEF Fork
<1>12. ShimStep \/ exit_on_inactivity \/ ShimDies \/ ClientCall =>
         \/ UNCHANGED kernelVars
         \/ CgmCreate \/ CgmMovePid \/ CgmSetNotify \/ Kill \/ CgmRemove \/ CgmPrune
  BY DEF ShimStep, DispatchStart, RefuseStart, DispatchStop, DispatchAbandon, Take, SaveState,
         CgmGetTasks, ListKilled, Forget, Reply, exit_on_inactivity, ShimDies, ProcessEnds, ClientCall
<1>13. QED
  BY <1>1, <1>3, <1>4, <1>5, <1>6, <1>7, <1>8, <1>9, <1>10, <1>11, <1>12 DEF Next, vars

\* The handler has a path whenever it needs one.
LEMMA HandlerStep == TypeOK /\ [Next]_vars => ShimOK'
<1> SUFFICES ASSUME TypeOK, [Next]_vars
             PROVE  ShimOK'
  OBVIOUS
<1>0. ShimOK /\ BusOK /\ State!TypeOK
  BY TypeParts
<1> USE DEF ShimOK
<1>1. CASE UNCHANGED shimVars
  BY <1>0, <1>1 DEF shimVars
<1>2. ASSUME Take
      PROVE  /\ call' \in Call
             /\ call' # NoCall
             /\ tries' \in 0..5
  BY <1>0, <1>2, TakenFromInbox, NoCallAssumption DEF Take, BusOK
<1>3. CASE DispatchStart
  <2>1. path' \in Path
    BY <1>2, <1>3, StartPathIsPath DEF DispatchStart
  <2>2. path' # NoPath
    BY <2>1, UnitsAssumption
  <2>3. todo' \subseteq Pids
    BY <1>2, <1>3 DEF DispatchStart, Call
  <2>4. QED
    BY <1>2, <1>3, <2>1, <2>2, <2>3 DEF DispatchStart
<1>4. CASE RefuseStart
  BY <1>2, <1>4 DEF RefuseStart
<1>5. CASE DispatchStop \/ DispatchAbandon
  <2>1. key_file' \in [Unit -> Path \cup {NoPath}]
    BY <1>0, <1>5 DEF DispatchStop, DispatchAbandon, State!state_read, State!state_get_key_file,
                      State!TypeOK, State!Content, State!Empty
  <2>2. path' \in Path \cup {NoPath}
    BY <1>2, <1>5, <2>1 DEF DispatchStop, DispatchAbandon, Call
  <2>3. QED
    BY <1>2, <1>5, <2>2 DEF DispatchStop, DispatchAbandon
<1>6. CASE CgmCreate \/ CgmMovePid \/ CgmSetNotify
  BY <1>0, <1>6 DEF CgmCreate, CgmMovePid, CgmSetNotify
<1>7. CASE SaveState \/ Forget
  BY <1>0, <1>7 DEF SaveState, Forget
<1>8. CASE CgmGetTasks
  BY <1>0, <1>8 DEF CgmGetTasks, GetTasksRecursive, TasksBelow
<1>9. CASE Kill \/ ListKilled \/ CgmPrune
  BY <1>0, <1>9 DEF Kill, ListKilled, CgmPrune
<1>10. CASE CgmRemove
  BY <1>0, <1>10 DEF CgmRemove, AfterRound
<1>11. CASE Reply
  BY <1>0, <1>11 DEF Reply
<1>12. CASE exit_on_inactivity \/ ShimDies
  BY <1>12 DEF exit_on_inactivity, ShimDies, ProcessEnds
<1>13. (\/ ClientCall
        \/ \E p \in Path : SpawnAgent(p) \/ AgentTimeout(p) \/ Chain(p)
        \/ \E t \in Pids : TaskExit(t) \/ NewTask(t)
        \/ \E parent, t \in Pids : Fork(parent, t)) => UNCHANGED shimVars
  BY DEF ClientCall, SpawnAgent, AgentTimeout, Chain, TaskExit, NewTask, Fork
<1>14. QED
  BY <1>1, <1>3, <1>4, <1>5, <1>6, <1>7, <1>8, <1>9, <1>10, <1>11, <1>12, <1>13
     DEF Next, ShimStep, vars

\* What the registry of state.c holds, and the history.
LEMMA RecordStep == TypeOK /\ [Next]_vars => State!TypeOK' /\ HistoryOK'
<1> SUFFICES ASSUME TypeOK, [Next]_vars
             PROVE  State!TypeOK' /\ HistoryOK'
  OBVIOUS
<1>0. ShimOK /\ State!TypeOK /\ HistoryOK /\ BusOK
  BY TypeParts
<1> USE DEF HistoryOK, State!TypeOK, State!Content, State!Empty
<1>1. ASSUME NEW kf \in State!state_get_key_file
      PROVE  kf \in [Unit -> Path \cup {NoPath}]
  BY <1>0, <1>1 DEF State!state_get_key_file
<1>2. CASE UNCHANGED <<stateVars, acked, disturbed>>
  BY <1>0, <1>2 DEF stateVars
<1>3. CASE Take /\ (State!state_read \/ UNCHANGED stateVars)
  BY <1>0, <1>1, <1>3 DEF Take, State!state_read, stateVars
<1>4. CASE SaveState
  <2>1. call \in Call /\ path \in Path
    BY <1>0, <1>4 DEF ShimOK, SaveState
  <2>2. PICK kf \in State!state_get_key_file : key_file' = [kf EXCEPT ![call.unit] = path]
    BY <1>4 DEF SaveState, State!state_set_string
  <2>3. key_file' \in [Unit -> Path \cup {NoPath}]
    BY <1>1, <2>1, <2>2
  <2>4. State!TypeOK'
    BY <1>0, <1>4, <2>3 DEF SaveState, State!state_set_string, State!state_sync
  <2>5. QED
    BY <1>0, <1>4, <2>1, <2>4 DEF SaveState
<1>5. CASE Forget
  <2>1. PICK kf \in State!state_get_key_file : key_file' = [kf EXCEPT ![call.unit] = NoPath]
    BY <1>5 DEF Forget, State!state_remove_unit
  <2>2. key_file' \in [Unit -> Path \cup {NoPath}]
    BY <1>1, <2>1
  <2>3. State!TypeOK'
    BY <1>0, <1>5, <2>2 DEF Forget, State!state_remove_unit, State!state_sync
  <2>4. QED
    BY <1>0, <1>5, <2>3 DEF Forget
<1>6. CASE CgmGetTasks
  <2>1. disturbed' \in 0..MaxDisturb
    BY <1>0, <1>6, UnitsAssumption DEF CgmGetTasks
  <2>2. QED
    BY <1>0, <1>6, <2>1 DEF CgmGetTasks, stateVars
<1>7. CASE Reply
  <2>1. acked' \in [Unit -> Path \cup {NoPath}]
    BY <1>0, <1>7 DEF Reply, ShimOK
  <2>2. QED
    BY <1>0, <1>7, <2>1, UnitsAssumption DEF Reply, stateVars
<1>8. CASE exit_on_inactivity \/ ShimDies
  <2>1. State!TypeOK'
    BY <1>0, <1>8 DEF exit_on_inactivity, ShimDies, ProcessEnds, State!Restart
  <2>2. HistoryOK'
    BY <1>0, <1>8, UnitsAssumption DEF exit_on_inactivity, ShimDies, ProcessEnds
  <2>3. QED
    BY <2>1, <2>2
<1>9. ASSUME NEW parent \in Pids, NEW t \in Pids, Fork(parent, t)
      PROVE  State!TypeOK' /\ HistoryOK'
  <2>1. disturbed' \in 0..MaxDisturb
    BY <1>0, <1>9, UnitsAssumption DEF Fork
  <2>2. QED
    BY <1>0, <1>9, <2>1 DEF Fork, stateVars
<1>10. (\/ CgmCreate \/ CgmMovePid \/ CgmSetNotify \/ Kill \/ ListKilled \/ CgmRemove
        \/ CgmPrune \/ ClientCall
        \/ \E p \in Path : SpawnAgent(p) \/ AgentTimeout(p) \/ Chain(p)
        \/ \E t \in Pids : TaskExit(t) \/ NewTask(t)) => UNCHANGED <<stateVars, acked, disturbed>>
  BY DEF CgmCreate, CgmMovePid, CgmSetNotify, Kill, ListKilled, CgmRemove, CgmPrune, ClientCall,
         SpawnAgent, AgentTimeout, Chain, TaskExit, NewTask
<1>11. DispatchStart \/ RefuseStart \/ DispatchStop \/ DispatchAbandon =>
         Take /\ (State!state_read \/ UNCHANGED stateVars)
  BY DEF DispatchStart, RefuseStart, DispatchStop, DispatchAbandon
<1>12. QED
  BY <1>2, <1>3, <1>4, <1>5, <1>6, <1>7, <1>8, <1>9, <1>10, <1>11 DEF Next, ShimStep, vars

\* Every variable keeps its type; in particular the handler never works on a
\* unit without a path.
THEOREM TypeCorrect == Spec => []TypeOK
<1>1. Init => TypeOK
  <2> SUFFICES ASSUME Init
               PROVE  TypeOK
    OBVIOUS
  <2>1. BusOK /\ KernelOK
    BY EmptySeq DEF Init, BusOK, KernelOK
  <2>2. ShimOK /\ HistoryOK
    BY UnitsAssumption DEF Init, ShimOK, HistoryOK
  <2>3. State!TypeOK
    BY DEF Init, State!Init, State!TypeOK, State!Content, State!Empty
  <2>4. QED
    BY <2>1, <2>2, <2>3, TypeParts
<1>2. TypeOK /\ [Next]_vars => TypeOK'
  <2> SUFFICES ASSUME TypeOK, [Next]_vars
               PROVE  TypeOK'
    OBVIOUS
  <2>1. BusOK' /\ KernelOK' /\ ShimOK' /\ State!TypeOK' /\ HistoryOK'
    BY BusStep, KernelStep, HandlerStep, RecordStep
  <2>2. QED
    BY <2>1 DEF TypeOK, BusOK, KernelOK, ShimOK, HistoryOK
<1>3. QED
  BY <1>1, <1>2, PTL DEF Spec

-------------------------------------------------------------------------------
(* The tree of cgroups. *)

\* Removing cgroups with no task in or below them, together with all that is
\* below them, leaves a tree and no task without a cgroup.
LEMMA RemovalKeepsTree ==
  ASSUME KernelOK, TreeOK, NEW gone \in SUBSET cgroups, RemoveCGroups(gone),
         \A p \in gone, q \in cgroups : Covers(p, q) => q \in gone,
         \A p \in gone : TasksBelow(p) = {}
  PROVE  TreeOK'
<1>1. \A p \in gone : Covers(p, p)
  BY DEF Covers
<1>2. \A t \in Pids : where[t] \notin gone
  BY <1>1 DEF TasksBelow, KernelOK
<1>3. ASSUME NEW p \in cgroups', NEW a \in AncestorsOf(p)
      PROVE  a \in cgroups'
  BY <1>3 DEF RemoveCGroups, TreeOK, AncestorsOf
<1>4. QED
  BY <1>2, <1>3 DEF RemoveCGroups, TreeOK

\* What Remove and Prune take away is closed downwards.
LEMMA EmptyPartIsClosed ==
  ASSUME KernelOK, NEW root \in Path
  PROVE  LET gone == {p \in cgroups : Covers(root, p) /\ TasksBelow(p) = {}}
         IN  \A p \in gone, q \in cgroups : Covers(p, q) => q \in gone
<1> SUFFICES ASSUME NEW p \in cgroups, Covers(root, p), TasksBelow(p) = {},
                    NEW q \in cgroups, Covers(p, q)
             PROVE  Covers(root, q) /\ TasksBelow(q) = {}
  OBVIOUS
<1>1. p \in Path /\ q \in Path
  BY DEF KernelOK
<1>2. Covers(root, q)
  BY <1>1, CoversTransitive
<1>3. TasksBelow(q) \subseteq TasksBelow(p)
  BY <1>1, CoversTransitive DEF TasksBelow
<1>4. QED
  BY <1>2, <1>3

\* A cgroup never outlives one above it and a task never loses its cgroup,
\* whatever the shim, the agents and the tasks do at the same time.
LEMMA TreeStays == Spec => []TreeOK
<1>1. Init => TreeOK
  BY DEF Init, TreeOK
<1>2. TypeOK /\ TreeOK /\ [Next]_vars => TreeOK'
  <2> SUFFICES ASSUME TypeOK, TreeOK, [Next]_vars
               PROVE  TreeOK'
    OBVIOUS
  <2>0. KernelOK /\ ShimOK
    BY TypeParts
  <2>1. CASE UNCHANGED <<cgroups, where>>
    BY <2>1 DEF TreeOK
  <2>2. CASE CgmCreate
    <3>1. path \in Path /\ UNCHANGED where
      BY <2>0, <2>2 DEF CgmCreate, ShimOK
    <3>2. CASE UNCHANGED cgroups
      BY <2>1, <3>1, <3>2
    <3>3. CASE cgroups' = cgroups \cup AncestorsOf(path)
      <4>1. ASSUME NEW p \in AncestorsOf(path), NEW a \in AncestorsOf(p)
            PROVE  a \in AncestorsOf(path)
        BY <3>1, <4>1, CoversTransitive DEF AncestorsOf
      <4>2. QED
        BY <3>1, <3>3, <4>1 DEF TreeOK
    <3>4. QED
      BY <2>2, <3>2, <3>3 DEF CgmCreate, MakeCGroups
  <2>3. CASE CgmMovePid
    <3>1. \A t \in Pids : where'[t] \in {where[t], path} /\ (where'[t] = where[t] \/ path \in cgroups)
      BY <2>0, <2>3 DEF CgmMovePid, KernelOK
    <3>2. QED
      BY <2>3, <3>1 DEF CgmMovePid, TreeOK
  <2>4. CASE CgmRemove \/ CgmPrune
    <3>1. path \in Path
      BY <2>0, <2>4 DEF CgmRemove, CgmPrune, ShimOK
    <3> DEFINE gone == {p \in cgroups : Covers(path, p) /\ TasksBelow(p) = {}}
    <3>2. CASE RemoveCGroups(gone)
      <4>1. \A p \in gone, q \in cgroups : Covers(p, q) => q \in gone
        BY <2>0, <3>1, EmptyPartIsClosed
      <4>2. gone \in SUBSET cgroups /\ \A p \in gone : TasksBelow(p) = {}
        OBVIOUS
      <4> HIDE DEF gone
      <4>3. QED
        BY <2>0, <3>2, <4>1, <4>2, RemovalKeepsTree
    <3>3. CASE UNCHANGED kernelVars
      BY <2>1, <3>3 DEF kernelVars
    <3>4. QED
      BY <2>4, <3>2, <3>3 DEF CgmRemove, CgmPrune
  <2>5. ASSUME NEW p \in Path, Chain(p)
        PROVE  TreeOK'
    <3>1. CASE RemoveCGroups({p}) /\ p \in cgroups /\ ~Busy(p)
      <4>1. \A q \in cgroups : Covers(p, q) => q = p
        BY <3>1 DEF Busy
      <4>2. TasksBelow(p) = {}
        <5>1. SUFFICES ASSUME NEW t \in TasksBelow(p)
                       PROVE  FALSE
          OBVIOUS
        <5>2. where[t] \in cgroups /\ Covers(p, where[t])
          BY UnitsAssumption DEF TasksBelow, TreeOK
        <5>3. QED
          BY <3>1, <4>1, <5>2 DEF Busy, TasksBelow
      <4>3. QED
        BY <2>0, <3>1, <4>1, <4>2, RemovalKeepsTree
    <3>2. CASE UNCHANGED kernelVars
      BY <2>1, <3>2 DEF kernelVars
    <3>3. QED
      BY <2>5, <3>1, <3>2 DEF Chain
  <2>6. ASSUME NEW t \in Pids, TaskExit(t) \/ NewTask(t)
        PROVE  TreeOK'
    BY <2>0, <2>6 DEF TaskExit, NewTask, TreeOK, KernelOK
  <2>7. ASSUME NEW parent \in Pids, NEW t \in Pids, Fork(parent, t)
        PROVE  TreeOK'
    BY <2>0, <2>7 DEF Fork, TreeOK, KernelOK
  <2>8. ASSUME NEW p \in Path, SpawnAgent(p) \/ AgentTimeout(p)
        PROVE  TreeOK'
    BY <2>1, <2>8 DEF SpawnAgent, AgentTimeout, kernelVars
  <2>9. ShimStep \/ exit_on_inactivity \/ ShimDies \/ ClientCall =>
          \/ UNCHANGED <<cgroups, where>>
          \/ CgmCreate \/ CgmMovePid \/ CgmRemove \/ CgmPrune
    BY DEF ShimStep, DispatchStart, RefuseStart, DispatchStop, DispatchAbandon, Take, CgmSetNotify,
           SaveState, CgmGetTasks, Kill, ListKilled, Forget, Reply, exit_on_inactivity, ShimDies, ProcessEnds, ClientCall, kernelVars
  <2>10. QED
    BY <2>1, <2>2, <2>3, <2>4, <2>5, <2>6, <2>7, <2>8, <2>9 DEF Next, vars, kernelVars
<1>3. QED
  BY <1>1, <1>2, TypeCorrect, PTL DEF Spec

-------------------------------------------------------------------------------
(* What was reported is on disk. *)

\* Stopping and abandoning are not starting.
Undoing == {"list", "kill", "remove", "prune", "forget"}

\* The shim works on what it was asked for, and the state file is ahead of every
\* report: it has the path of the start that is about to be reported, too.
Recorded ==
  /\ step \in Undoing => ~ValidStart(call)
  /\ step \in {"create", "move", "save"} => ValidStart(call) /\ path = StartPath(call)
  /\ ~(LoadFaults \/ SaveFaults) =>
       /\ loaded => key_file = disk
       /\ \A u \in Unit : acked[u] # NoPath => disk[u] = acked[u]
       /\ step = "reply" /\ ValidStart(call) => disk[call.unit] = path

\* No step takes the state file behind what was reported.
LEMMA RecordedStays == Spec => []Recorded
<1>1. Init => Recorded
  BY DEF Init, Recorded, Undoing, State!Init
<1>2. TypeOK /\ Recorded /\ [Next]_vars => Recorded'
  <2> SUFFICES ASSUME TypeOK, Recorded, [Next]_vars
               PROVE  Recorded'
    OBVIOUS
  <2>0. ShimOK /\ State!TypeOK /\ HistoryOK
    BY TypeParts
  <2> USE DEF Recorded, Undoing
  <2>1. CASE UNCHANGED <<call, step, path, stateVars, acked>>
    BY <2>1 DEF stateVars, ValidStart, StartPath
  <2>2. CASE DispatchStart \/ RefuseStart
    <3>1. \/ step' = "create" /\ ValidStart(call') /\ path' = StartPath(call')
          \/ step' = "reply" /\ ~ValidStart(call')
      BY <2>2 DEF DispatchStart, RefuseStart
    <3>2. ValidStart(call') = ValidStart(call)' /\ StartPath(call') = StartPath(call)'
      BY DEF ValidStart, StartPath
    <3>3. UNCHANGED <<disk, key_file, loaded, acked>>
      BY <2>2 DEF DispatchStart, RefuseStart, Take, stateVars
    <3>4. QED
      BY <3>1, <3>2, <3>3
  <2>3. CASE DispatchStop \/ DispatchAbandon
    <3>1. ~ValidStart(call')
      BY <2>3 DEF DispatchStop, DispatchAbandon, ValidStart
    <3>2. ~(LoadFaults \/ SaveFaults) => key_file' = disk'
      BY <2>3 DEF DispatchStop, DispatchAbandon, State!state_read, State!state_get_key_file
    <3>3. UNCHANGED <<disk, acked>>
      BY <2>3 DEF DispatchStop, DispatchAbandon, Take, State!state_read
    <3>4. step' \in {"reply", "list", "prune"}
      BY <2>3 DEF DispatchStop, DispatchAbandon
    <3>5. QED
      BY <3>1, <3>2, <3>3, <3>4 DEF ValidStart
  <2>4. CASE CgmCreate \/ CgmMovePid \/ CgmSetNotify
    BY <2>4 DEF CgmCreate, CgmMovePid, CgmSetNotify, stateVars, StartPath, ValidStart
  <2>5. CASE SaveState
    <3>1. call \in Call
      BY <2>0, <2>5 DEF SaveState, ShimOK
    <3> SUFFICES ASSUME ~LoadFaults, ~SaveFaults
                 PROVE  /\ key_file' = disk'
                        /\ \A u \in Unit : acked'[u] # NoPath => disk'[u] = acked'[u]
                        /\ disk'[call.unit] = path
      BY <2>5 DEF SaveState
    <3>2. key_file' = [disk EXCEPT ![call.unit] = path] /\ disk' = key_file'
      BY <2>5 DEF SaveState, State!state_set_string, State!state_get_key_file, State!state_sync
    <3>3. call.unit \in Unit
      BY <3>1 DEF Call
    <3>4. QED
      BY <2>0, <2>5, <3>2, <3>3 DEF SaveState, State!TypeOK, State!Content, HistoryOK
  <2>6. CASE CgmGetTasks \/ Kill \/ ListKilled \/ CgmRemove \/ CgmPrune
    <3>1. /\ UNCHANGED <<call, stateVars, acked>>
          /\ step \in Undoing /\ step' \in Undoing
      BY <2>6 DEF CgmGetTasks, Kill, ListKilled, CgmRemove, AfterRound, CgmPrune
    <3>2. QED
      BY <3>1 DEF stateVars, ValidStart
  <2>7. CASE Forget
    <3>1. call \in Call
      BY <2>0, <2>7 DEF Forget, ShimOK
    <3> SUFFICES ASSUME ~LoadFaults, ~SaveFaults
                 PROVE  /\ key_file' = disk'
                        /\ \A u \in Unit : acked'[u] # NoPath => disk'[u] = acked'[u]
      BY <2>7 DEF Forget
    <3>2. key_file' = [disk EXCEPT ![call.unit] = NoPath] /\ disk' = key_file'
      BY <2>7 DEF Forget, State!state_remove_unit, State!state_get_key_file, State!state_sync
    <3>3. call.unit \in Unit
      BY <3>1 DEF Call
    <3>4. QED
      BY <2>0, <2>7, <3>2, <3>3 DEF Forget, State!TypeOK, State!Content, HistoryOK
  <2>8. CASE Reply
    <3>1. call \in Call
      BY <2>0, <2>8 DEF Reply, ShimOK
    <3>2. \A u \in Unit : acked'[u] = IF ValidStart(call) /\ u = call.unit THEN path ELSE acked[u]
      BY <2>0, <2>8 DEF Reply, HistoryOK
    <3>3. UNCHANGED stateVars /\ step' = "idle"
      BY <2>8 DEF Reply
    <3>4. QED
      BY <2>8, <3>2, <3>3 DEF Reply, stateVars
  <2>9. CASE exit_on_inactivity \/ ShimDies
    BY <2>9 DEF exit_on_inactivity, ShimDies, ProcessEnds, State!Restart
  <2>10. (\/ ClientCall
          \/ \E p \in Path : SpawnAgent(p) \/ AgentTimeout(p) \/ Chain(p)
          \/ \E t \in Pids : TaskExit(t) \/ NewTask(t)
          \/ \E parent, t \in Pids : Fork(parent, t)) => UNCHANGED <<call, step, path, stateVars, acked>>
    BY DEF ClientCall, SpawnAgent, AgentTimeout, Chain, TaskExit, NewTask, Fork, shimVars
  <2>11. QED
    BY <2>1, <2>2, <2>3, <2>4, <2>5, <2>6, <2>7, <2>8, <2>9, <2>10
       DEF Next, ShimStep, vars, shimVars
<1>3. QED
  BY <1>1, <1>2, TypeCorrect, PTL DEF Spec

\* A reported start survives the end of the process at any later step.
THEOREM StartsSurvive == Spec => []StartsAreDurable
<1>1. Recorded => StartsAreDurable
  BY DEF Recorded, StartsAreDurable, State!Seen
<1>2. QED
  BY <1>1, RecordedStays, PTL

-------------------------------------------------------------------------------
(* The service that the clients are promised. *)

\* As long as the state file can be read and written, every step of the shim,
\* of the agents and of the kernel is a step of UnitService or invisible to it.
THEOREM ServiceRefined ==
  ASSUME ~LoadFaults, ~SaveFaults
  PROVE  Spec => ServiceSpec
<1>1. Init => Service!Init
  BY DEF Init, State!Init, State!Empty, State!Seen, BusyUnit, AskedFor, Service!Init
<1>2. TypeOK /\ Recorded /\ [Next]_vars => [Service!Next]_(Service!serviceVars)
  <2> SUFFICES ASSUME TypeOK, Recorded, [Next]_vars
               PROVE  [Service!Next]_(Service!serviceVars)
    OBVIOUS
  <2>0. /\ ShimOK /\ State!TypeOK
        /\ loaded => key_file = disk
        /\ State!Seen = disk
        /\ step \in {"create", "move", "save"} => ValidStart(call) /\ path = StartPath(call)
        /\ step \in Undoing => ~ValidStart(call)
    BY TypeParts DEF Recorded, State!Seen
  <2>1. call # NoCall => call.unit \in Unit
    BY <2>0 DEF ShimOK, Call
  <2>2. ASSUME UNCHANGED <<call, disk>>, State!Seen' = disk,
               step = step' \/ {step, step'} \cap {"idle", "reply"} = {}
        PROVE  UNCHANGED Service!serviceVars
    BY <2>0, <2>2 DEF BusyUnit, AskedFor, ValidStart, StartPath, Service!serviceVars
  <2>3. CASE UNCHANGED <<call, step, stateVars>>
    BY <2>0, <2>2, <2>3 DEF stateVars, State!Seen
  <2>4. CASE DispatchStart \/ RefuseStart \/ DispatchStop \/ DispatchAbandon
    <3>1. /\ call = NoCall
          /\ call' \in Call
      BY <2>0, <2>4, TypeParts, TakenFromInbox
         DEF DispatchStart, RefuseStart, DispatchStop, DispatchAbandon, Take, ShimOK, BusOK
    <3>2. State!Seen' = State!Seen
      BY <2>0, <2>4 DEF DispatchStart, RefuseStart, DispatchStop, DispatchAbandon,
         State!state_read, State!state_get_key_file, State!Seen, stateVars
    <3>3. AskedFor' = {} \/ AskedFor' \in {{p} : p \in Path \cup {NoPath}}
      BY <3>1, StartPathIsPath DEF AskedFor, ValidStart, StartPath
    <3>4. Service!Begin(call'.unit)
      BY <3>1, <3>2, <3>3, NoCallAssumption DEF BusyUnit, Service!Begin
    <3>5. QED
      BY <3>1, <3>4 DEF Call, Service!Next
  <2>5. CASE CgmCreate \/ CgmMovePid \/ CgmSetNotify \/ CgmGetTasks \/ Kill \/ ListKilled
             \/ CgmRemove \/ CgmPrune
    <3>1. UNCHANGED <<call, stateVars>> /\ {step, step'} \cap {"idle", "reply"} = {}
      BY <2>5 DEF CgmCreate, CgmMovePid, CgmSetNotify, CgmGetTasks, Kill, ListKilled, CgmRemove,
                  AfterRound, CgmPrune
    <3>2. QED
      BY <2>0, <2>2, <3>1 DEF stateVars, State!Seen
  <2>6. CASE SaveState \/ Forget
    <3>1. PICK p \in AskedFor : /\ p \in Path \cup {NoPath}
                               /\ State!Seen' = [State!Seen EXCEPT ![call.unit] = p]
      <4>1. CASE SaveState
        <5>1. AskedFor = {path} /\ path \in Path
          BY <2>0, <4>1 DEF SaveState, AskedFor, ShimOK
        <5>2. State!Seen' = [State!Seen EXCEPT ![call.unit] = path]
          BY <2>0, <4>1 DEF SaveState, State!state_set_string, State!state_get_key_file, State!Seen
        <5>3. QED
          BY <5>1, <5>2
      <4>2. CASE Forget
        <5>1. AskedFor = {NoPath}
          BY <2>0, <4>2 DEF Forget, AskedFor, Undoing
        <5>2. State!Seen' = [State!Seen EXCEPT ![call.unit] = NoPath]
          BY <2>0, <4>2 DEF Forget, State!state_remove_unit, State!state_get_key_file, State!Seen
        <5>3. QED
          BY <5>1, <5>2
      <4>3. QED
        BY <2>6, <4>1, <4>2
    <3>2. /\ call' = call /\ call # NoCall
          /\ step \notin {"idle", "reply"} /\ step' = "reply"
      BY <2>0, <2>6 DEF SaveState, Forget, ShimOK
    <3>3. BusyUnit = {call.unit} /\ BusyUnit' = BusyUnit /\ AskedFor' = {}
      BY <3>2 DEF BusyUnit, AskedFor
    <3>4. Service!Commit(call.unit, p)
      BY <3>1, <3>3 DEF Service!Commit
    <3>5. QED
      BY <2>1, <3>1, <3>2, <3>4 DEF Service!Next
  <2>7. CASE Reply
    <3>1. Service!Answer
      BY <2>7 DEF Reply, stateVars, State!Seen, BusyUnit, AskedFor, Service!Answer
    <3>2. QED
      BY <3>1 DEF Service!Next
  <2>8. CASE exit_on_inactivity \/ ShimDies
    <3>1. Service!End
      BY <2>0, <2>8 DEF exit_on_inactivity, ShimDies, ProcessEnds, State!Restart, State!Seen,
                        BusyUnit, AskedFor, Service!End
    <3>2. QED
      BY <3>1 DEF Service!Next
  <2>9. (\/ ClientCall
         \/ \E p \in Path : SpawnAgent(p) \/ AgentTimeout(p) \/ Chain(p)
         \/ \E t \in Pids : TaskExit(t) \/ NewTask(t)
         \/ \E parent, t \in Pids : Fork(parent, t)) => UNCHANGED <<call, step, stateVars>>
    BY DEF ClientCall, SpawnAgent, AgentTimeout, Chain, TaskExit, NewTask, Fork, shimVars
  <2>10. QED
    BY <2>3, <2>4, <2>5, <2>6, <2>7, <2>8, <2>9 DEF Next, ShimStep, vars, shimVars
<1>3. QED
  BY <1>1, <1>2, TypeCorrect, RecordedStays, PTL DEF Spec, ServiceSpec, Service!Spec

-------------------------------------------------------------------------------
(* What StopUnit leaves behind. *)

\* Each round that did not empty the cgroup was disturbed.  Within a round,
\* what lives is on the list of those to be killed, or the round is disturbed
\* already.
Rounds ==
  /\ step = "idle" => tries = 5
  /\ step \in {"create", "move", "save", "prune"} => call.op # "StopUnit"
  /\ step = "list" => Survivors(path) = {} \/ disturbed >= 5 - tries
  /\ step = "kill" => \/ disturbed >= 6 - tries
                      \/ /\ Survivors(path) \subseteq todo
                         /\ Survivors(path) = {} \/ disturbed >= 5 - tries
  /\ step = "remove" => Survivors(path) = {} \/ disturbed >= 6 - tries
  /\ StopLeavesNoSurvivor

\* A removal that succeeds leaves no task; and then nobody survives.
LEMMA RemovedIsEmpty ==
  ASSUME TypeOK, TreeOK, path \in Path, path \notin cgroups
  PROVE  TasksBelow(path) = {}
<1> SUFFICES ASSUME NEW t \in TasksBelow(path)
             PROVE  FALSE
  OBVIOUS
<1>1. where[t] \in cgroups /\ Covers(path, where[t])
  BY UnitsAssumption DEF TasksBelow, TreeOK
<1>2. path \in AncestorsOf(where[t])
  BY <1>1 DEF AncestorsOf
<1>3. QED
  BY <1>1, <1>2 DEF TreeOK

\* Only a fork in the cgroup, by a task that itself survives, adds to its
\* survivors.
LEMMA SurvivorsShrink ==
  /\ \A t \in Pids : TypeOK /\ (TaskExit(t) \/ NewTask(t)) => Survivors(path)' \subseteq Survivors(path)
  /\ \A parent, t \in Pids :
       TypeOK /\ Fork(parent, t) /\ ~(Survivors(path)' \subseteq Survivors(path))
         => Covers(path, where[parent]) /\ parent \in Survivors(path)
<1>1. ASSUME TypeOK, NEW t \in Pids, TaskExit(t) \/ NewTask(t), NEW s \in Survivors(path)'
      PROVE  s \in Survivors(path)
  <2>1. where'[s] \in Path /\ Covers(path, where'[s]) /\ s \notin dying' /\ path' = path
    BY <1>1 DEF Survivors, TasksBelow, TaskExit, NewTask, shimVars
  <2>2. s # t
    BY <1>1, <2>1, UnitsAssumption DEF TypeOK, TaskExit, NewTask
  <2>3. where'[s] = where[s] /\ s \notin dying
    BY <1>1, <2>1, <2>2 DEF TypeOK, TaskExit, NewTask, Survivors, TasksBelow
  <2>4. QED
    BY <1>1, <2>1, <2>3 DEF Survivors, TasksBelow
<1>2. ASSUME TypeOK, NEW parent \in Pids, NEW t \in Pids, Fork(parent, t),
             NEW s \in Survivors(path)', s \notin Survivors(path)
      PROVE  Covers(path, where[parent]) /\ parent \in Survivors(path)
  <2>1. where'[s] \in Path /\ Covers(path, where'[s]) /\ s \notin dying /\ s \in Pids
    BY <1>2 DEF Survivors, TasksBelow, Fork, shimVars
  <2>2. where'[s] # where[s]
    BY <1>2, <2>1 DEF Survivors, TasksBelow
  <2>3. where'[s] = where[parent]
    BY <1>2, <2>1, <2>2 DEF Fork, TypeOK
  <2>4. QED
    BY <1>2, <2>1, <2>3 DEF Fork, Survivors, TasksBelow
<1>3. QED
  BY <1>1, <1>2

\* "tries" rounds are left, so at least 5 - tries were disturbed.
LEMMA RoundsStay == Spec => []Rounds
<1>1. Init => Rounds
  BY DEF Init, Rounds, StopLeavesNoSurvivor
<1>2. TypeOK /\ TreeOK /\ Rounds /\ [Next]_vars => Rounds'
  <2> SUFFICES ASSUME TypeOK, TreeOK, Rounds, [Next]_vars
               PROVE  Rounds'
    OBVIOUS
  <2>0. /\ ShimOK /\ KernelOK
        /\ tries \in 0..5 /\ disturbed \in Nat /\ MaxDisturb \in Nat
    BY TypeParts, UnitsAssumption DEF ShimOK, HistoryOK
  <2> USE DEF Rounds, StopLeavesNoSurvivor
  <2>1. ASSUME UNCHANGED <<call, step, path, todo, tries, disturbed>>,
               Survivors(path)' \subseteq Survivors(path)
        PROVE  Rounds'
    BY <2>1
  <2>2. CASE DispatchStart \/ RefuseStart
    BY <2>0, <2>2 DEF DispatchStart, RefuseStart, Take, ValidStart
  <2>3. CASE DispatchStop \/ DispatchAbandon
    <3>1. /\ UNCHANGED <<tries, disturbed>> /\ tries = 5
          /\ step' \in {"reply", "list", "prune"}
          /\ step' = "prune" => call'.op # "StopUnit"
      BY <2>3 DEF DispatchStop, DispatchAbandon, Take
    <3>2. QED
      BY <2>0, <3>1
  <2>4. CASE CgmCreate \/ CgmMovePid \/ CgmSetNotify \/ SaveState
    BY <2>4 DEF CgmCreate, CgmMovePid, CgmSetNotify, SaveState
  <2>5. CASE CgmGetTasks
    <3>1. Survivors(path)' = Survivors(path)
      BY <2>5 DEF CgmGetTasks, kernelVars, Survivors, TasksBelow
    <3>2. CASE todo' = GetTasksRecursive /\ UNCHANGED disturbed
      BY <2>0, <2>5, <3>1, <3>2 DEF CgmGetTasks, GetTasksRecursive, Survivors
    <3>3. CASE todo' = {} /\ disturbed' = disturbed + 1
      BY <2>0, <2>5, <3>1, <3>3 DEF CgmGetTasks
    <3>4. QED
      BY <2>5, <3>2, <3>3 DEF CgmGetTasks
  <2>6. CASE Kill
    <3>1. PICK t \in todo : /\ todo' = todo \ {t}
                            /\ dying' = IF where[t] = Gone THEN dying ELSE dying \cup {t}
      BY <2>6 DEF Kill
    <3>2. Survivors(path)' \subseteq Survivors(path)
      BY <2>6, <3>1 DEF Kill, Survivors, TasksBelow
    <3>3. t \notin Survivors(path)'
      BY <2>6, <3>1, UnitsAssumption DEF Kill, Survivors, TasksBelow
    <3>4. Survivors(path) \subseteq todo => Survivors(path)' \subseteq todo'
      BY <3>1, <3>2, <3>3
    <3>5. QED
      BY <2>6, <3>2, <3>4 DEF Kill
  <2>7. CASE ListKilled
    <3>1. Survivors(path)' = Survivors(path)
      BY <2>7 DEF ListKilled, kernelVars, Survivors, TasksBelow
    <3>2. QED
      BY <2>7, <3>1 DEF ListKilled
  <2>8. CASE CgmRemove
    <3>1. Survivors(path)' = Survivors(path)
      BY <2>8 DEF CgmRemove, RemoveCGroups, kernelVars, Survivors, TasksBelow
    <3>2. PICK successful \in BOOLEAN :
            /\ successful /\ path \in cgroups => TasksBelow(path) = {}
            /\ AfterRound(successful)
      BY <2>8 DEF CgmRemove
    <3>3. path \in Path
      BY <2>0, <2>8 DEF CgmRemove, ShimOK
    <3>4. successful => Survivors(path) = {}
      BY <3>2, <3>3, RemovedIsEmpty DEF Survivors
    <3>5. UNCHANGED <<call, path, disturbed>>
      BY <2>8 DEF CgmRemove
    <3>6. QED
      BY <2>0, <2>8, <3>1, <3>2, <3>4, <3>5 DEF CgmRemove, AfterRound
  <2>9. CASE CgmPrune
    BY <2>9 DEF CgmPrune
  <2>10. CASE Forget \/ Reply \/ exit_on_inactivity \/ ShimDies
    BY <2>10 DEF Forget, Reply, exit_on_inactivity, ShimDies, ProcessEnds
  <2>11. ASSUME NEW t \in Pids, TaskExit(t) \/ NewTask(t)
         PROVE  Rounds'
    BY <2>1, <2>11, SurvivorsShrink DEF TaskExit, NewTask, shimVars
  <2>12. ASSUME NEW parent \in Pids, NEW t \in Pids, Fork(parent, t)
         PROVE  Rounds'
    <3>1. UNCHANGED shimVars /\ disturbed' >= disturbed /\ disturbed' \in Nat
      BY <2>0, <2>12 DEF Fork
    <3>2. CASE Survivors(path)' \subseteq Survivors(path)
      BY <2>0, <3>1, <3>2 DEF shimVars
    <3>3. CASE ~(Survivors(path)' \subseteq Survivors(path))
      <4>1. Covers(path, where[parent]) /\ Survivors(path) # {}
        BY <2>12, <3>3, SurvivorsShrink
      <4>2. step \in {"list", "kill", "remove"} => disturbed' = disturbed + 1
        BY <2>12, <4>1 DEF Fork
      <4>3. QED
        BY <2>0, <3>1, <4>1, <4>2 DEF shimVars
    <3>4. QED
      BY <3>2, <3>3
  <2>13. ASSUME \/ ClientCall
                \/ \E p \in Path : SpawnAgent(p) \/ AgentTimeout(p) \/ Chain(p)
         PROVE  Rounds'
    <3>1. UNCHANGED <<where, dying, call, step, path, todo, tries, disturbed>>
      BY <2>13 DEF ClientCall, SpawnAgent, AgentTimeout, Chain, RemoveCGroups, kernelVars, shimVars
    <3>2. Survivors(path)' = Survivors(path)
      BY <3>1 DEF Survivors, TasksBelow
    <3>3. QED
      BY <2>1, <3>1, <3>2
  <2>14. CASE UNCHANGED vars
    BY <2>1, <2>14 DEF vars, kernelVars, shimVars, Survivors, TasksBelow
  <2>15. QED
    BY <2>2, <2>3, <2>4, <2>5, <2>6, <2>7, <2>8, <2>9, <2>10, <2>11, <2>12, <2>13, <2>14
       DEF Next, ShimStep
<1>3. QED
  BY <1>1, <1>2, TypeCorrect, TreeStays, PTL DEF Spec

\* StopUnit gives up on a cgroup with survivors only after six rounds that
\* were all disturbed.
THEOREM StopIsThorough == Spec => []StopLeavesNoSurvivor
<1>1. Rounds => StopLeavesNoSurvivor
  BY DEF Rounds
<1>2. QED
  BY <1>1, RoundsStay, PTL

-------------------------------------------------------------------------------
(* What StopUnit kills. *)

\* Whoever is still on the list has ended, or is where the list was made of:
\* only the shim moves tasks, and nobody else gets an id that is on the list.
Listed ==
  step = "kill" =>
    \A t \in todo : where[t] = Gone \/ (where[t] \in Path /\ Covers(path, where[t]))

LEMMA ListedStays ==
  ASSUME ~PidReuse
  PROVE  Spec => []Listed
<1>1. Init => Listed
  BY DEF Init, Listed
<1>2. TypeOK /\ Listed /\ [Next]_vars => Listed'
  <2> SUFFICES ASSUME TypeOK, Listed, [Next]_vars
               PROVE  Listed'
    OBVIOUS
  <2>0. ShimOK /\ KernelOK
    BY TypeParts
  <2> USE DEF Listed
  <2>1. CASE UNCHANGED <<where, step, path, todo>>
    BY <2>1
  <2>2. step' # "kill" => Listed'
    OBVIOUS
  <2>3. CASE CgmGetTasks
    BY <2>3 DEF CgmGetTasks, GetTasksRecursive, TasksBelow, kernelVars
  <2>4. CASE Kill
    BY <2>4 DEF Kill
  <2>5. CASE CgmMovePid
    BY <2>5 DEF CgmMovePid
  <2>6. ASSUME NEW t \in Pids, TaskExit(t) \/ NewTask(t)
        PROVE  Listed'
    <3>1. UNCHANGED <<step, path, todo>> /\ \A s \in Pids \ {t} : where'[s] = where[s]
      BY <2>0, <2>6 DEF TaskExit, NewTask, shimVars, KernelOK
    <3>2. t \in todo => where'[t] = Gone
      BY <2>0, <2>6 DEF TaskExit, NewTask, NewPid, Held, KernelOK
    <3>3. QED
      BY <2>0, <3>1, <3>2 DEF ShimOK
  <2>7. ASSUME NEW parent \in Pids, NEW t \in Pids, Fork(parent, t)
        PROVE  Listed'
    <3>1. UNCHANGED <<step, path, todo>> /\ \A s \in Pids \ {t} : where'[s] = where[s]
      BY <2>0, <2>7 DEF Fork, shimVars, KernelOK
    <3>2. t \notin todo
      BY <2>7 DEF Fork, NewPid, Held
    <3>3. QED
      BY <2>0, <3>1, <3>2 DEF ShimOK
  <2>8. CASE \/ DispatchStart \/ RefuseStart \/ DispatchStop \/ DispatchAbandon
             \/ CgmCreate \/ CgmSetNotify \/ SaveState \/ ListKilled \/ CgmRemove \/ CgmPrune
             \/ Forget \/ Reply \/ exit_on_inactivity \/ ShimDies
    <3>1. step' # "kill"
      BY <2>8 DEF DispatchStart, RefuseStart, DispatchStop, DispatchAbandon, CgmCreate,
                  CgmSetNotify, SaveState, ListKilled, CgmRemove, AfterRound, CgmPrune, Forget,
                  Reply, exit_on_inactivity, ShimDies, ProcessEnds
    <3>2. QED
      BY <2>2, <3>1
  <2>9. ASSUME \/ ClientCall
               \/ \E p \in Path : SpawnAgent(p) \/ AgentTimeout(p) \/ Chain(p)
               \/ UNCHANGED vars
        PROVE  Listed'
    <3>1. UNCHANGED <<where, step, path, todo>>
      BY <2>9 DEF ClientCall, SpawnAgent, AgentTimeout, Chain, RemoveCGroups, kernelVars, shimVars,
                  vars
    <3>2. QED
      BY <2>1, <3>1
  <2>10. QED
    BY <2>3, <2>4, <2>5, <2>6, <2>7, <2>8, <2>9 DEF Next, ShimStep
<1>3. QED
  BY <1>1, <1>2, TypeCorrect, PTL DEF Spec

\* As long as no id on the list is used again, a stop kills only what is in the
\* cgroup it stops, or below it.
THEOREM KillsMembers ==
  ASSUME ~PidReuse
  PROVE  Spec => KillsOnlyMembers
<1>1. TypeOK /\ Listed /\ [Next]_vars =>
        [\A t \in dying' \ dying : where[t] \in Path /\ Covers(path, where[t])]_vars
  <2> SUFFICES ASSUME TypeOK, Listed, Next, NEW t \in dying' \ dying
               PROVE  where[t] \in Path /\ Covers(path, where[t])
    OBVIOUS
  <2>1. CASE Kill
    BY <2>1 DEF Kill, Listed
  <2>2. ~Kill => dying' \subseteq dying
    BY DEF Next, ShimStep, DispatchStart, RefuseStart, DispatchStop, DispatchAbandon, Take,
           CgmCreate, CgmMovePid, CgmSetNotify, SaveState, CgmGetTasks, ListKilled, CgmRemove,
           CgmPrune, RemoveCGroups, Forget, Reply, exit_on_inactivity, ShimDies, ProcessEnds, ClientCall, SpawnAgent, AgentTimeout,
           Chain, TaskExit, NewTask, Fork, kernelVars
  <2>3. QED
    BY <2>1, <2>2
<1>2. QED
  BY <1>1, TypeCorrect, ListedStays, PTL DEF Spec, KillsOnlyMembers

-------------------------------------------------------------------------------
(* What a reported start has done. *)

\* While a start is carried out: the tasks that are off the list are where they
\* belong, and the flag is set after the last of them - unless the cgroup is
\* gone, which it then stays.
Started ==
  /\ step \in {"create", "move", "save"} => ValidStart(call)
  /\ step = "create" => todo = call.pids
  /\ step = "save" => todo = {}
  /\ step \in {"move", "save", "reply"} /\ ValidStart(call) /\ path \in cgroups =>
       \A t \in call.pids \ (IF step = "move" THEN todo ELSE {}) : where[t] \in {path, Gone}
  /\ step \in {"save", "reply"} /\ ValidStart(call) /\ path \in cgroups => path \in notify

\* If no call to cgmanager fails and no process id is used again, a start that is
\* reported is done, or undone by an agent.
THEOREM StartDone ==
  ASSUME ~CgmFaults, ~PidReuse
  PROVE  Spec => []StartIsDone
<1>1. Init => Started
  BY DEF Init, Started
<1>2. TypeOK /\ Recorded /\ Started /\ [Next]_vars => Started'
  <2> SUFFICES ASSUME TypeOK, Recorded, Started, [Next]_vars
               PROVE  Started'
    OBVIOUS
  <2>0. /\ ShimOK /\ KernelOK
        /\ step \in Undoing => ~ValidStart(call)
    BY TypeParts DEF Recorded
  <2> USE DEF Started
  <2>1. ASSUME UNCHANGED <<call, step, path, todo>>,
               cgroups' \subseteq cgroups, notify \cap cgroups' \subseteq notify',
               step \in {"move", "save", "reply"} =>
                 \A t \in call.pids : where'[t] = where[t] \/ where'[t] = Gone
        PROVE  Started'
    <3>1. ValidStart(call)' = ValidStart(call)
      BY <2>1 DEF ValidStart
    <3>2. QED
      BY <2>1, <3>1
  <2>2. CASE DispatchStart
    BY <2>2 DEF DispatchStart, Take
  <2>3. CASE RefuseStart \/ DispatchStop \/ DispatchAbandon
    <3>1. ~ValidStart(call')
      BY <2>3 DEF RefuseStart, DispatchStop, DispatchAbandon, ValidStart
    <3>2. step' \notin {"create", "move", "save"}
      BY <2>3 DEF RefuseStart, DispatchStop, DispatchAbandon
    <3>3. QED
      BY <3>1, <3>2 DEF ValidStart
  <2>4. CASE CgmCreate
    BY <2>4 DEF CgmCreate, ValidStart
  <2>5. CASE CgmMovePid
    <3>1. PICK t \in todo : /\ todo' = todo \ {t}
                            /\ IF path \in cgroups /\ where[t] # Gone
                               THEN where' = [where EXCEPT ![t] = path]
                               ELSE UNCHANGED where
      BY <2>5 DEF CgmMovePid
    <3>2. UNCHANGED <<cgroups, notify, call, step, path>> /\ step = "move"
      BY <2>5 DEF CgmMovePid
    <3>3. \A s \in Pids : path \in cgroups =>
            where'[s] = IF s = t /\ where[t] # Gone THEN path ELSE where[s]
      BY <2>0, <3>1 DEF KernelOK
    <3>4. ValidStart(call) /\ call.pids \subseteq Pids
      BY <2>0, <3>2 DEF ShimOK, Call
    <3>5. QED
      BY <3>1, <3>2, <3>3, <3>4 DEF ValidStart
  <2>6. CASE CgmSetNotify
    BY <2>6 DEF CgmSetNotify, ValidStart
  <2>7. CASE SaveState
    BY <2>7 DEF SaveState, kernelVars, ValidStart
  <2>8. CASE CgmGetTasks \/ Kill \/ ListKilled \/ CgmRemove \/ CgmPrune \/ Forget
    <3>1. ~ValidStart(call) /\ UNCHANGED call
      BY <2>0, <2>8 DEF CgmGetTasks, Kill, ListKilled, CgmRemove, CgmPrune, Forget, Undoing
    <3>2. step' \notin {"create", "move", "save"}
      BY <2>8 DEF CgmGetTasks, Kill, ListKilled, CgmRemove, AfterRound, CgmPrune, Forget
    <3>3. QED
      BY <3>1, <3>2 DEF ValidStart
  <2>9. CASE Reply \/ exit_on_inactivity \/ ShimDies
    BY <2>9 DEF Reply, exit_on_inactivity, ShimDies, ProcessEnds
  <2>10. ASSUME NEW t \in Pids, TaskExit(t)
         PROVE  Started'
    <3>1. \A s \in Pids : where'[s] = where[s] \/ where'[s] = Gone
      BY <2>0, <2>10 DEF TaskExit, KernelOK
    <3>2. step # "idle" => call.pids \subseteq Pids
      BY <2>0 DEF ShimOK, Call
    <3>3. UNCHANGED <<cgroups, notify, call, step, path, todo>>
      BY <2>10 DEF TaskExit, shimVars
    <3>4. QED
      BY <2>1, <3>1, <3>2, <3>3
  <2>11. ASSUME NEW t \in Pids, NEW q, NewPid(t), where' = [where EXCEPT ![t] = q],
                UNCHANGED <<cgroups, notify, call, step, path, todo>>
         PROVE  Started'
    <3>1. step # "idle" => t \notin call.pids
      BY <2>0, <2>11 DEF NewPid, Held, ShimOK
    <3>2. step # "idle" => \A s \in call.pids : where'[s] = where[s]
      BY <2>0, <2>11, <3>1 DEF KernelOK, ShimOK, Call
    <3>3. QED
      BY <2>1, <2>11, <3>2
  <2>12. ASSUME NEW parent \in Pids, NEW t \in Pids, NewTask(t) \/ Fork(parent, t)
         PROVE  Started'
    BY <2>11, <2>12 DEF NewTask, Fork, shimVars
  <2>13. ASSUME NEW p \in Path, SpawnAgent(p) \/ AgentTimeout(p) \/ Chain(p)
         PROVE  Started'
    <3>1. UNCHANGED <<where, call, step, path, todo>>
      BY <2>13 DEF SpawnAgent, AgentTimeout, Chain, RemoveCGroups, kernelVars, shimVars
    <3>2. cgroups' \subseteq cgroups /\ notify \cap cgroups' \subseteq notify'
      BY <2>13 DEF SpawnAgent, AgentTimeout, Chain, RemoveCGroups, kernelVars
    <3>3. QED
      BY <2>1, <3>1, <3>2
  <2>14. CASE ClientCall \/ UNCHANGED vars
    BY <2>1, <2>14 DEF ClientCall, vars, kernelVars, shimVars
  <2>15. QED
    BY <2>2, <2>3, <2>4, <2>5, <2>6, <2>7, <2>8, <2>9, <2>10, <2>12, <2>13, <2>14
       DEF Next, ShimStep
<1>3. Started => StartIsDone
  BY DEF Started, StartIsDone
<1>4. QED
  BY <1>1, <1>2, <1>3, TypeCorrect, RecordedStays, PTL DEF Spec

-------------------------------------------------------------------------------
(* Nothing is out of reach. *)

\* Only starts and stops: a stop works on what the entry of its unit says, a
\* start on a unit that can be started, and what a stop left has no survivors.
Tidy ==
  /\ \A i \in 1..Len(inbox) : inbox[i].op # "Abandon"
  /\ step # "prune"
  /\ step \in {"list", "kill", "remove", "forget"} =>
       call.op = "StopUnit" /\ disk[call.unit] = path
  /\ path # NoPath /\ call.op # "StopUnit" => ValidStart(call)
  /\ step = "reply" /\ path # NoPath /\ call.op = "StopUnit" => Survivors(path) = {}

\* A task is covered by an entry, or by the request under way.
Reached(t) ==
  \/ \E u \in Unit : disk[u] # NoPath /\ Covers(disk[u], where[t])
  \/ step # "idle" /\ path # NoPath /\ Covers(path, where[t])

AllReached == \A t \in Pids : where[t] \in Path /\ t \notin dying => Reached(t)

\* No start finds its unit in the state file with another path: a scope that is
\* known is not started again in another slice.
NeverMoved == step = "save" => disk[call.unit] \in {NoPath, path}

\* Nobody calls Abandon, and a stop stays with the entry it read.
LEMMA TidyStep ==
  ASSUME ~LoadFaults, ~SaveFaults, "Abandon" \notin Ops, MaxDisturb <= 5
  PROVE  TypeOK /\ Recorded /\ Rounds /\ Tidy /\ [Next]_vars => Tidy'
<1> SUFFICES ASSUME TypeOK, Recorded, Rounds, Tidy, [Next]_vars
             PROVE  Tidy'
  OBVIOUS
<1>0. /\ ShimOK /\ KernelOK /\ BusOK /\ State!TypeOK
      /\ loaded => key_file = disk
      /\ step \in Undoing => ~ValidStart(call)
      /\ disturbed \in Nat /\ disturbed <= 5
  BY TypeParts, UnitsAssumption DEF Recorded, HistoryOK
<1> USE DEF Tidy
<1>1. ASSUME UNCHANGED <<inbox, call, path, disk>>,
             step' = step \/ step' \notin {"prune", "list", "kill", "remove", "forget", "reply"},
             step' = "reply" => Survivors(path)' \subseteq Survivors(path)
      PROVE  Tidy'
  BY <1>1 DEF ValidStart
<1>2. CASE Take /\ (DispatchStart \/ RefuseStart \/ DispatchStop \/ DispatchAbandon)
  <2>1. /\ call' \in Call
        /\ call'.op # "Abandon"
        /\ \A i \in 1..Len(inbox') : inbox'[i].op # "Abandon"
    BY <1>0, <1>2, TakenFromInbox DEF BusOK
  <2>2. CASE DispatchStart
    <3>1. /\ step' = "create" /\ path' = StartPath(call') /\ ValidStart(call')
          /\ disk' = disk
      BY <2>2 DEF DispatchStart, stateVars
    <3>2. QED
      BY <2>1, <3>1 DEF ValidStart
  <2>3. CASE RefuseStart
    BY <2>1, <2>3 DEF RefuseStart, stateVars
  <2>4. CASE DispatchStop
    <3>1. key_file' = disk /\ disk' = disk
      BY <1>0, <2>4 DEF DispatchStop, State!state_read, State!state_get_key_file
    <3>2. path' = disk[call'.unit] /\ call'.unit \in Unit
      BY <2>1, <2>4, <3>1 DEF DispatchStop, Call
    <3>3. step' = (IF path' = NoPath THEN "reply" ELSE "list") /\ call'.op = "StopUnit"
      BY <2>4 DEF DispatchStop
    <3>4. QED
      BY <2>1, <3>1, <3>2, <3>3
  <2>5. QED
    BY <1>2, <2>1, <2>2, <2>3, <2>4 DEF DispatchAbandon
<1>3. CASE CgmCreate \/ CgmMovePid \/ CgmSetNotify
  BY <1>1, <1>3 DEF CgmCreate, CgmMovePid, CgmSetNotify, stateVars
<1>4. CASE SaveState
  <2>1. call \in Call /\ path \in Path /\ call.op # "StopUnit"
    BY <1>0, <1>4 DEF SaveState, ShimOK, Rounds
  <2>2. UNCHANGED <<inbox, call, path>> /\ step' = "reply"
    BY <1>4 DEF SaveState
  <2>3. QED
    BY <2>1, <2>2 DEF ValidStart
<1>5. CASE CgmGetTasks \/ Kill \/ ListKilled \/ CgmRemove
  <2>1. /\ UNCHANGED <<inbox, call, path, disk>>
        /\ call.op = "StopUnit" /\ disk[call.unit] = path
        /\ step' \notin {"prune", "reply"}
    BY <1>5 DEF CgmGetTasks, Kill, ListKilled, CgmRemove, AfterRound, stateVars
  <2>2. QED
    BY <2>1
<1>6. CASE Forget
  <2>1. call \in Call /\ call.op = "StopUnit"
    BY <1>0, <1>6 DEF Forget, ShimOK
  <2>2. UNCHANGED <<inbox, call, path>> /\ step' = "reply"
    BY <1>6 DEF Forget
  <2>3. Survivors(path) = {}
    BY <1>0, <1>6, <2>1 DEF Forget, Rounds, StopLeavesNoSurvivor
  <2>4. Survivors(path)' = {}
    BY <1>6, <2>3 DEF Forget, kernelVars, Survivors, TasksBelow
  <2>5. QED
    BY <2>1, <2>2, <2>4
<1>7. CASE Reply
  BY <1>7 DEF Reply, stateVars
<1>8. CASE exit_on_inactivity \/ ShimDies
  <2>1. \A i \in 1..Len(inbox') : inbox'[i].op # "Abandon"
    BY <1>0, <1>8, LeftInInbox DEF BusOK
  <2>2. QED
    BY <1>8, <2>1 DEF exit_on_inactivity, ShimDies, ProcessEnds
<1>9. ASSUME NEW c \in Call, c.op # "Abandon", inbox' = Append(inbox, c),
             UNCHANGED <<where, dying, shimVars, stateVars>>
      PROVE  Tidy'
  <2>1. \A i \in 1..Len(inbox') : inbox'[i].op # "Abandon"
    BY <1>0, <1>9, AppendProperties, LenProperties DEF BusOK
  <2>2. Survivors(path)' = Survivors(path)
    BY <1>9 DEF Survivors, TasksBelow, shimVars
  <2>3. QED
    BY <1>9, <2>1, <2>2 DEF shimVars, stateVars, ValidStart
<1>10. CASE ClientCall
  <2>1. PICK c \in ClientRequests : c.op \in Ops /\ inbox' = Append(inbox, c)
    BY <1>10 DEF ClientCall
  <2>2. QED
    BY <1>9, <1>10, <2>1, CallsAreCalls DEF ClientCall, kernelVars
<1>11. ASSUME NEW p \in Path, SpawnAgent(p)
       PROVE  Tidy'
  <2>1. StopCall(p) \in Call /\ StopCall(p).op # "Abandon"
    BY CallsAreCalls DEF StopCall
  <2>2. QED
    BY <1>9, <1>11, <2>1 DEF SpawnAgent
<1>12. ASSUME NEW p \in Path, AgentTimeout(p) \/ Chain(p)
       PROVE  Tidy'
  <2>1. UNCHANGED <<where, dying, inbox, shimVars, stateVars>>
    BY <1>12 DEF AgentTimeout, Chain, RemoveCGroups, kernelVars
  <2>2. Survivors(path)' = Survivors(path)
    BY <2>1 DEF Survivors, TasksBelow, shimVars
  <2>3. QED
    BY <1>1, <2>1, <2>2 DEF shimVars, stateVars
<1>13. ASSUME NEW t \in Pids, TaskExit(t) \/ NewTask(t)
       PROVE  Tidy'
  BY <1>1, <1>13, SurvivorsShrink DEF TaskExit, NewTask, shimVars, stateVars
<1>14. ASSUME NEW parent \in Pids, NEW t \in Pids, Fork(parent, t)
       PROVE  Tidy'
  <2>1. UNCHANGED <<inbox, shimVars, stateVars>>
    BY <1>14 DEF Fork
  <2>2. Survivors(path) = {} => Survivors(path)' = {}
    BY <1>14, SurvivorsShrink
  <2>3. QED
    BY <2>1, <2>2 DEF shimVars, stateVars, ValidStart
<1>15. CASE UNCHANGED vars
  BY <1>1, <1>15 DEF vars, kernelVars, shimVars, stateVars, Survivors, TasksBelow
<1>16. DispatchStart \/ RefuseStart \/ DispatchStop \/ DispatchAbandon => Take
  BY DEF DispatchStart, RefuseStart, DispatchStop, DispatchAbandon
<1>17. QED
  BY <1>2, <1>3, <1>4, <1>5, <1>6, <1>7, <1>8, <1>10, <1>11, <1>12, <1>13, <1>14, <1>15, <1>16
     DEF Next, ShimStep, CgmPrune

\* A step that leaves the entries alone, and the tasks where they were or takes
\* them where they can be reached, keeps everything within reach.
LEMMA ReachStays ==
  ASSUME AllReached, UNCHANGED <<disk, path>>, step # "idle" => step' # "idle",
         \A t \in Pids : where'[t] \in Path /\ t \notin dying' =>
           \/ Reached(t)'
           \/ \E s \in Pids : where'[t] = where[s] /\ where[s] \in Path /\ s \notin dying
  PROVE  AllReached'
BY DEF AllReached, Reached

\* As long as the state file can be read and written, nobody kills the shim or
\* calls Abandon (it may exit, and start again, whenever it is idle), a stop is disturbed five times at most and no start moves a
\* unit, a StopUnit can reach whatever lives in a cgroup of the shim, however
\* the slices are nested.
THEOREM NothingOrphaned ==
  ASSUME ~LoadFaults, ~SaveFaults, ~Crashes, "Abandon" \notin Ops, MaxDisturb <= 5
  PROVE  Spec /\ []NeverMoved => []NoOrphan
<1>1. Init => Tidy /\ AllReached
  BY UnitsAssumption DEF Init, State!Init, State!Empty, Tidy, AllReached
<1>2. TypeOK /\ Recorded /\ Rounds /\ Tidy /\ NeverMoved /\ AllReached /\ [Next]_vars
      => AllReached'
  <2> SUFFICES ASSUME TypeOK, Recorded, Rounds, Tidy, NeverMoved, AllReached, [Next]_vars
               PROVE  AllReached'
    OBVIOUS
  <2>0. /\ ShimOK /\ KernelOK /\ State!TypeOK
        /\ loaded => key_file = disk
        /\ step = "reply" /\ ValidStart(call) => disk[call.unit] = path
    BY TypeParts DEF Recorded
  <2>1. ASSUME UNCHANGED <<disk, path, where, dying>>, step # "idle" => step' # "idle"
        PROVE  AllReached'
    BY <2>1, ReachStays
  <2>2. CASE DispatchStart \/ RefuseStart \/ DispatchStop \/ DispatchAbandon
    <3>1. /\ path = NoPath \/ step = "idle"
          /\ UNCHANGED <<where, dying, disk>>
      BY <2>2 DEF DispatchStart, RefuseStart, DispatchStop, DispatchAbandon, Take, kernelVars,
                  stateVars, State!state_read
    <3>2. QED
      BY <3>1 DEF AllReached, Reached
  <2>3. CASE CgmMovePid
    <3>1. PICK t \in todo : where' = [where EXCEPT ![t] = path] \/ UNCHANGED where
      BY <2>3 DEF CgmMovePid
    <3>2. /\ UNCHANGED <<disk, path, dying, step>> /\ step = "move"
      BY <2>3 DEF CgmMovePid, stateVars
    <3>3. path # NoPath /\ path \in Path
      BY <2>0, <3>2 DEF ShimOK
    <3>4. ASSUME NEW s \in Pids, where'[s] # where[s]
          PROVE  Reached(s)'
      <4>1. where'[s] = path
        BY <2>0, <3>1, <3>4 DEF KernelOK
      <4>2. QED
        BY <3>2, <3>3, <4>1 DEF Reached, Covers
    <3>5. QED
      BY <3>2, <3>4, ReachStays
  <2>4. CASE Kill
    <3>1. dying \subseteq dying' /\ UNCHANGED <<disk, path, where, step>>
      BY <2>4 DEF Kill, stateVars
    <3>2. QED
      BY <3>1, ReachStays
  <2>5. CASE SaveState \/ Forget
    <3>1. /\ call \in Call /\ path \in Path /\ path # NoPath
          /\ UNCHANGED <<where, dying, path>> /\ step' = "reply"
      BY <2>0, <2>5 DEF SaveState, Forget, ShimOK, kernelVars
    <3>2. PICK p : disk' = [disk EXCEPT ![call.unit] = p]
      BY <2>0, <2>5 DEF SaveState, State!state_set_string, Forget, State!state_remove_unit,
                        State!state_get_key_file, State!state_sync
    <3>3. ASSUME NEW u \in Unit
          PROVE  disk'[u] = disk[u] \/ disk[u] = NoPath \/ disk[u] = path
      <4>1. CASE u # call.unit
        BY <2>0, <3>2, <4>1 DEF State!TypeOK, State!Content
      <4>2. CASE u = call.unit
        BY <2>5, <4>2 DEF SaveState, Forget, Tidy, NeverMoved
      <4>3. QED
        BY <4>1, <4>2
    <3>4. QED
      BY <3>1, <3>3 DEF AllReached, Reached
  <2>6. CASE Reply
    <3>1. UNCHANGED <<disk, where, dying>>
      BY <2>6 DEF Reply, kernelVars, stateVars
    <3>2. ASSUME NEW t \in Pids, where[t] \in Path, t \notin dying, path # NoPath,
                 Covers(path, where[t])
          PROVE  \E u \in Unit : disk[u] # NoPath /\ Covers(disk[u], where[t])
      <4>1. call \in Call /\ step = "reply"
        BY <2>0, <2>6 DEF Reply, ShimOK
      <4>2. t \in Survivors(path)
        BY <3>2 DEF Survivors, TasksBelow
      <4>3. disk[call.unit] = path
        BY <2>0, <3>2, <4>1, <4>2 DEF Tidy
      <4>4. QED
        BY <3>2, <4>1, <4>3 DEF Call
    <3>3. QED
      BY <3>1, <3>2 DEF AllReached, Reached
  <2>7. ASSUME NEW t \in Pids, TaskExit(t) \/ NewTask(t)
        PROVE  AllReached'
    <3>1. UNCHANGED <<disk, path, step>>
      BY <2>7 DEF TaskExit, NewTask, shimVars, stateVars
    <3>2. ASSUME NEW s \in Pids, where'[s] \in Path, s \notin dying'
          PROVE  where'[s] = where[s] /\ s \notin dying
      <4>1. s # t
        BY <2>0, <2>7, <3>2, UnitsAssumption DEF TaskExit, NewTask, KernelOK
      <4>2. QED
        BY <2>0, <2>7, <3>2, <4>1 DEF TaskExit, NewTask, KernelOK
    <3>3. QED
      BY <3>1, <3>2, ReachStays
  <2>8. ASSUME NEW parent \in Pids, NEW t \in Pids, Fork(parent, t)
        PROVE  AllReached'
    <3>1. UNCHANGED <<disk, path, step, dying>> /\ where[parent] \in Path /\ parent \notin dying
      BY <2>8 DEF Fork, shimVars, stateVars
    <3>2. \A s \in Pids : where'[s] = where[s] \/ where'[s] = where[parent]
      BY <2>0, <2>8 DEF Fork, KernelOK
    <3>3. QED
      BY <3>1, <3>2, ReachStays
  <2>9. CASE \/ CgmCreate \/ CgmSetNotify \/ CgmGetTasks \/ ListKilled \/ CgmRemove \/ CgmPrune
             \/ ClientCall \/ UNCHANGED vars
             \/ \E p \in Path : SpawnAgent(p) \/ AgentTimeout(p) \/ Chain(p)
    <3>1. UNCHANGED <<disk, path, where, dying>> /\ (step # "idle" => step' # "idle")
      BY <2>9 DEF CgmCreate, CgmSetNotify, CgmGetTasks, ListKilled, CgmRemove, AfterRound, CgmPrune,
                  RemoveCGroups, ClientCall, SpawnAgent, AgentTimeout, Chain, vars, kernelVars,
                  shimVars, stateVars
    <3>2. QED
      BY <2>1, <3>1
  <2>10. CASE exit_on_inactivity
    <3>1. step = "idle" /\ UNCHANGED <<disk, where, dying>>
      BY <2>10 DEF exit_on_inactivity, ProcessEnds, State!Restart, kernelVars
    <3>2. QED
      BY <3>1 DEF AllReached, Reached
  <2>11. QED
    BY <2>2, <2>3, <2>4, <2>5, <2>6, <2>7, <2>8, <2>9, <2>10 DEF Next, ShimStep, ShimDies
<1>3. Recorded /\ AllReached => NoOrphan
  BY DEF Recorded, AllReached, Reached, NoOrphan, State!Seen
<1>4. QED
  BY <1>1, <1>2, <1>3, TidyStep, TypeCorrect, RecordedStays, RoundsStay, PTL DEF Spec

\* The path of a unit whose scopes have one slice each.
HomePath(home, u) == IF u \in Slices THEN path_of(u, NoName) ELSE path_of(home[u], u)

\* The clients start each scope in its own slice only.
AskedAtHome(home) ==
  \A i \in 1..Len(inbox) :
    inbox[i].op = "StartTransientUnit" /\ ValidStart(inbox[i]) =>
      inbox[i].slice = home[inbox[i].unit]

SettledAtHome(home) ==
  /\ loaded => key_file = disk
  /\ \A u \in Unit : disk[u] # NoPath => disk[u] = HomePath(home, u)
  /\ step \in {"create", "move", "save"} => path = HomePath(home, call.unit)

\* Every unit then stays where it was first put, and so everything within reach.
THEOREM NothingOrphanedAtHome ==
  ASSUME ~LoadFaults, ~SaveFaults, ~Crashes, "Abandon" \notin Ops, MaxDisturb <= 5,
         NEW home \in [Scopes -> Slices]
  PROVE  Spec /\ []AskedAtHome(home) => []NoOrphan
<1> DEFINE Asked == AskedAtHome(home)
           Settled == SettledAtHome(home)
<1>1. Init => Settled
  BY DEF Init, State!Init, State!Empty, SettledAtHome
<1>2. TypeOK /\ Settled /\ Asked /\ [Next]_vars => Settled'
  <2> SUFFICES ASSUME TypeOK, SettledAtHome(home), AskedAtHome(home), [Next]_vars
               PROVE  SettledAtHome(home)'
    OBVIOUS
  <2>0. ShimOK /\ BusOK /\ State!TypeOK /\ (loaded => key_file = disk)
    BY TypeParts DEF SettledAtHome
  <2>1. ASSUME UNCHANGED <<call, path, stateVars>>,
               step' = step \/ step' \notin {"create", "move", "save"}
                            \/ step \in {"create", "move"}
        PROVE  SettledAtHome(home)'
    BY <2>1 DEF SettledAtHome, stateVars, HomePath
  <2>2. CASE DispatchStart
    <3>1. /\ call' \in Call /\ \E i \in 1..Len(inbox) : call' = inbox[i]
          /\ ValidStart(call') /\ path' = StartPath(call') /\ UNCHANGED stateVars
      BY <2>0, <2>2, TakenFromInbox DEF DispatchStart, BusOK
    <3>2. call'.op = "StartTransientUnit" => call'.slice = home[call'.unit]
      BY <3>1 DEF AskedAtHome
    <3>3. path' = HomePath(home, call'.unit)
      BY <3>1, <3>2, TreeAssumption DEF StartPath, ValidStart, HomePath
    <3>4. QED
      BY <3>1, <3>3 DEF SettledAtHome, stateVars
  <2>3. CASE RefuseStart \/ DispatchStop \/ DispatchAbandon
    <3>1. /\ step' \notin {"create", "move", "save"} /\ disk' = disk
          /\ loaded' => key_file' = disk'
      BY <2>0, <2>3 DEF RefuseStart, DispatchStop, DispatchAbandon, stateVars,
                        State!state_read, State!state_get_key_file
    <3>2. QED
      BY <3>1 DEF SettledAtHome
  <2>4. CASE SaveState \/ Forget
    <3>1. PICK p : /\ disk' = [disk EXCEPT ![call.unit] = p] /\ key_file' = disk'
                   /\ p = NoPath \/ (p = path /\ step = "save")
      BY <2>0, <2>4 DEF SaveState, State!state_set_string, Forget, State!state_remove_unit,
                        State!state_get_key_file, State!state_sync
    <3>2. UNCHANGED call /\ step' = "reply"
      BY <2>4 DEF SaveState, Forget
    <3>3. \A u \in Unit : disk'[u] = IF u = call.unit THEN p ELSE disk[u]
      BY <2>0, <3>1 DEF State!TypeOK, State!Content
    <3>4. QED
      BY <3>1, <3>2, <3>3 DEF SettledAtHome
  <2>5. CASE \/ CgmCreate \/ CgmMovePid \/ CgmSetNotify \/ CgmGetTasks \/ Kill \/ ListKilled
             \/ CgmRemove \/ CgmPrune
    <3>1. UNCHANGED <<call, path, stateVars>>
      BY <2>5 DEF CgmCreate, CgmMovePid, CgmSetNotify, CgmGetTasks, Kill, ListKilled, CgmRemove,
                  CgmPrune
    <3>2. step' = step \/ step' \notin {"create", "move", "save"} \/ step \in {"create", "move"}
      BY <2>5 DEF CgmCreate, CgmMovePid, CgmSetNotify, CgmGetTasks, Kill, ListKilled, CgmRemove,
                  AfterRound, CgmPrune
    <3>3. QED
      BY <2>1, <3>1, <3>2
  <2>6. CASE Reply \/ exit_on_inactivity \/ ShimDies
    <3>1. /\ step' \notin {"create", "move", "save"} /\ disk' = disk
          /\ loaded' => key_file' = disk'
      BY <2>0, <2>6 DEF Reply, exit_on_inactivity, ShimDies, ProcessEnds, stateVars, State!Restart
    <3>2. QED
      BY <3>1 DEF SettledAtHome
  <2>7. CASE \/ ClientCall \/ UNCHANGED vars
             \/ \E p \in Path : SpawnAgent(p) \/ AgentTimeout(p) \/ Chain(p)
             \/ \E t \in Pids : TaskExit(t) \/ NewTask(t)
             \/ \E parent, t \in Pids : Fork(parent, t)
    <3>1. UNCHANGED <<shimVars, stateVars>>
      BY <2>7 DEF ClientCall, SpawnAgent, AgentTimeout, Chain, TaskExit, NewTask, Fork, vars
    <3>2. QED
      BY <2>1, <3>1 DEF shimVars
  <2>8. QED
    BY <2>2, <2>3, <2>4, <2>5, <2>6, <2>7 DEF Next, ShimStep
<1>3. TypeOK /\ Settled => NeverMoved
  <2> SUFFICES ASSUME TypeOK, SettledAtHome(home), step = "save"
               PROVE  disk[call.unit] \in {NoPath, path}
    BY DEF NeverMoved
  <2> QED
    BY TypeParts DEF SettledAtHome, ShimOK, Call
<1>4. QED
  BY <1>1, <1>2, <1>3, NothingOrphaned, TypeCorrect, PTL DEF Spec

-------------------------------------------------------------------------------
(* Every request ends. *)

\* The rounds of a stop, one by one, which leaves nothing to multiply.
LEMMA RoundByRound ==
  ASSUME NEW n \in Nat, NEW k \in 0..5
  PROVE  /\ k * n \in Nat
         /\ k * n <= 5 * n
         /\ k # 0 => k - 1 \in 0..5 /\ (k - 1) * n = k * n - n
<1>1. k \in {0, 1, 2, 3, 4, 5}
  OBVIOUS
<1>2. 0 * n = 0 /\ 1 * n = n /\ 2 * n = n + n /\ 3 * n = n + n + n
  OBVIOUS
<1>3. 4 * n = n + n + n + n /\ 5 * n = n + n + n + n + n
  OBVIOUS
<1> QED
  BY <1>1, <1>2, <1>3

\* Whatever happens around it, the shim needs a number of steps for a request
\* that depends on nothing but the number of process ids.
THEOREM RequestsEnd ==
  ASSUME IsFiniteSet(Pids)
  PROVE  Spec => RequestsAreBounded
<1> DEFINE N == Cardinality(Pids)
<1>1. N \in Nat /\ Round = N + 3 /\ Round \in Nat
  BY FS_CardinalityType DEF Round
<1> HIDE DEF N
<1>2. ASSUME NEW T \in SUBSET Pids
      PROVE  /\ Cardinality(T) \in 0..N
             /\ \A t \in T : Cardinality(T \ {t}) = Cardinality(T) - 1
  <2>1. IsFiniteSet(T) /\ Cardinality(T) <= N
    BY FS_Subset DEF N
  <2>2. Cardinality(T) \in Nat
    BY <2>1, FS_CardinalityType
  <2>3. \A t \in T : Cardinality(T \ {t}) = Cardinality(T) - 1
    BY <2>1, FS_RemoveElement
  <2> QED
    BY <1>1, <2>1, <2>2, <2>3
<1>3. /\ StepsAfter["idle"] = 0 /\ StepsAfter["reply"] = 1 /\ StepsAfter["save"] = 2
      /\ StepsAfter["forget"] = 2 /\ StepsAfter["prune"] = 3 /\ StepsAfter["move"] = 3
      /\ StepsAfter["create"] = 4 /\ StepsAfter["remove"] = 3 /\ StepsAfter["kill"] = 4
      /\ StepsAfter["list"] = 5 + N
  BY DEF StepsAfter, N
<1> DEFINE Todo == Cardinality(todo)
           Togo == tries * Round
           Counted ==
             /\ Todo \in 0..N /\ Togo \in Nat /\ Togo <= 5 * N + 15
             /\ step = "idle" => StepsLeft = 0
             /\ step = "reply" => StepsLeft = 1
             /\ step \in {"save", "forget"} => StepsLeft = 2
             /\ step = "prune" => StepsLeft = 3
             /\ step = "move" => StepsLeft = 3 + Todo
             /\ step = "create" => StepsLeft = 4 + Todo
             /\ step = "remove" => StepsLeft = 3 + Togo
             /\ step = "kill" => StepsLeft = 4 + Todo + Togo
             /\ step = "list" => StepsLeft = 5 + N + Togo
<1>4. ShimOK => Counted
  <2> SUFFICES ASSUME ShimOK
               PROVE  Counted
    OBVIOUS
  <2>1. Todo \in 0..N /\ tries \in 0..5
    BY <1>2 DEF ShimOK
  <2>2. Togo \in Nat /\ Togo <= 5 * Round /\ 5 * Round = 5 * N + 15
    BY <1>1, <2>1, RoundByRound
  <2> HIDE DEF Todo, Togo
  <2>3. StepsLeft = StepsAfter[step] + (IF step \in {"create", "move", "kill"} THEN Todo ELSE 0)
                      + (IF step \in {"list", "kill", "remove"} THEN Togo ELSE 0)
    BY DEF StepsLeft, Todo, Togo
  <2> QED
    BY <1>1, <1>3, <2>1, <2>2, <2>3
<1>5. TypeOK => StepsLeft <= 6 * Cardinality(Pids) + 20
  <2> SUFFICES ASSUME ShimOK
               PROVE  StepsLeft <= 6 * N + 20
    BY TypeParts DEF N
  <2> HIDE DEF Todo, Togo
  <2> QED
    BY <1>1, <1>4 DEF ShimOK
<1> HIDE DEF Counted
<1>6. ShimOK /\ Counted /\ Counted' /\ [Next]_vars =>
        [step # "idle" => StepsLeft' < StepsLeft \/ UNCHANGED shimVars]_vars
  <2> SUFFICES ASSUME ShimOK, Counted, Counted', [Next]_vars, step # "idle"
               PROVE  StepsLeft' < StepsLeft \/ UNCHANGED shimVars
    OBVIOUS
  <2> HIDE DEF Todo, Togo
  <2>1. /\ Todo \in 0..N /\ Togo \in Nat
        /\ Todo' \in 0..N /\ Togo' \in Nat
    BY DEF Counted
  <2> USE DEF Counted
  <2>2. CASE CgmCreate
    <3>1. Todo' = Todo /\ step = "create" /\ step' = "move"
      BY <2>2 DEF CgmCreate, Todo
    <3> QED
      BY <2>1, <3>1
  <2>3. CASE CgmMovePid
    <3>1. step = "move" /\ step' = "move" /\ todo \subseteq Pids
      BY <2>3 DEF CgmMovePid, ShimOK
    <3>2. Todo' = Todo - 1
      BY <1>2, <2>3, <3>1 DEF CgmMovePid, Todo
    <3> QED
      BY <2>1, <3>1, <3>2
  <2>4. CASE CgmSetNotify
    <3>1. step = "move" /\ step' = "save"
      BY <2>4 DEF CgmSetNotify
    <3> QED
      BY <2>1, <3>1
  <2>5. CASE SaveState \/ Forget
    <3>1. step \in {"save", "forget"} /\ step' = "reply"
      BY <2>5 DEF SaveState, Forget
    <3> QED
      BY <3>1
  <2>6. CASE CgmGetTasks
    <3>1. step = "list" /\ step' = "kill" /\ Togo' = Togo
      BY <2>6 DEF CgmGetTasks, Togo
    <3>2. StepsLeft = 5 + N + Togo /\ StepsLeft' = 4 + Todo' + Togo
      BY <3>1
    <3>3. \A i \in 0..N, k \in Nat : 4 + i + k < 5 + N + k
      BY <1>1
    <3>4. 4 + Todo' + Togo < 5 + N + Togo
      BY <2>1, <3>3
    <3> QED
      BY <3>2, <3>4
  <2>7. CASE Kill
    <3>1. step = "kill" /\ step' = "kill" /\ Togo' = Togo /\ todo \subseteq Pids
      BY <2>7 DEF Kill, ShimOK, Togo
    <3>2. Todo' = Todo - 1
      BY <1>2, <2>7, <3>1 DEF Kill, Todo
    <3> QED
      BY <2>1, <3>1, <3>2
  <2>8. CASE ListKilled
    <3>1. step = "kill" /\ step' = "remove" /\ Togo' = Togo
      BY <2>8 DEF ListKilled, Togo
    <3> QED
      BY <2>1, <3>1
  <2>9. CASE CgmRemove
    <3>1. /\ step = "remove"
          /\ step' = "forget" \/ (step' = "list" /\ tries # 0 /\ tries' = tries - 1)
      BY <2>9 DEF CgmRemove, AfterRound
    <3>2. tries # 0 /\ tries' = tries - 1 => Togo' = Togo - Round
      BY <1>1, RoundByRound DEF Togo, ShimOK, Round
    <3> QED
      BY <1>1, <2>1, <3>1, <3>2
  <2>10. CASE CgmPrune
    <3>1. step = "prune" /\ step' = "forget"
      BY <2>10 DEF CgmPrune
    <3> QED
      BY <3>1
  <2>11. CASE Reply \/ exit_on_inactivity \/ ShimDies
    <3>1. step' = "idle"
      BY <2>11 DEF Reply, exit_on_inactivity, ShimDies, ProcessEnds
    <3>2. StepsLeft' = 0 /\ StepsLeft \in Nat \ {0}
      BY <1>1, <2>1, <3>1 DEF ShimOK
    <3> QED
      BY <3>2
  <2>12. CASE \/ ClientCall \/ UNCHANGED vars
              \/ \E p \in Path : SpawnAgent(p) \/ AgentTimeout(p) \/ Chain(p)
              \/ \E t \in Pids : TaskExit(t) \/ NewTask(t)
              \/ \E parent, t \in Pids : Fork(parent, t)
    BY <2>12 DEF ClientCall, SpawnAgent, AgentTimeout, Chain, TaskExit, NewTask, Fork, vars
  <2>13. ~(DispatchStart \/ RefuseStart \/ DispatchStop \/ DispatchAbandon)
    BY DEF DispatchStart, RefuseStart, DispatchStop, DispatchAbandon, Take
  <2> QED
    BY <2>2, <2>3, <2>4, <2>5, <2>6, <2>7, <2>8, <2>9, <2>10, <2>11, <2>12, <2>13
       DEF Next, ShimStep
<1>7. TypeOK => ShimOK
  BY TypeParts
<1>8. QED
  BY <1>4, <1>5, <1>6, <1>7, TypeCorrect, PTL DEF Spec, RequestsAreBounded
===============================================================================
