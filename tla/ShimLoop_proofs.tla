---------------------------- MODULE ShimLoop_proofs ----------------------------
(***************************************************************************)
(* Theorems about ShimLoop, for every length of a second, every idle       *)
(* timeout that is no shorter, and with no bound on the clock that matters.*)
(***************************************************************************)
EXTENDS ShimLoop, SequenceTheorems, TLAPS

\* Every variable keeps its type; a process that is at work exists, and the
\* machine sleeps exactly while the handler waits for it.
THEOREM TypeCorrect == Spec => []TypeOK
<1>1. Init => TypeOK
  <2> SUFFICES ASSUME Init
               PROVE  TypeOK
    OBVIOUS
  <2>1. PowerOK
    BY DEF Init, PowerInit, PowerOK
  <2>2. inbox \in Seq(Kinds)
    BY EmptySeq DEF Init
  <2>3. QED
    BY <2>1, <2>2 DEF Init, PowerInit, TypeOK
<1>2. TypeOK /\ [Next]_vars => TypeOK'
  <2> SUFFICES ASSUME TypeOK, [Next]_vars
               PROVE  TypeOK'
    OBVIOUS
  <2> USE PowerAssumption, LoopAssumption DEF TypeOK, PowerOK
  <2>1. CASE Tick
    BY <2>1 DEF Tick, powerVars, loopVars
  <2>2. CASE Request
    <3>1. inbox' \in Seq(Kinds)
      BY <2>2, AppendProperties DEF Request
    <3>2. QED
      BY <2>2, <3>1 DEF Request, powerVars
  <2>3. CASE Take
    <3>1. inbox' \in Seq(Kinds) /\ action' \in Kinds
      BY <2>3, HeadTailProperties DEF Take
    <3>2. timer' \in Nat \cup {None}
      BY <2>3 DEF Take, Later
    <3>3. step' \in {"omit", "sleep", "reply", "work"} /\ in_shutdown' \in BOOLEAN
      BY <2>3 DEF Take, StartHalt, StartSleep
    <3>4. QED
      BY <2>3, <3>1, <3>2, <3>3 DEF Take
  <2>4. CASE Work
    BY <2>4 DEF Work, loopVars
  <2>5. CASE PowerRuns
    <3>1. CASE WriteOmitFile \/ RunHalt \/ FallAsleep \/ SleepFails \/ Stamp
      BY <2>5, <3>1 DEF PowerRuns, WriteOmitFile, RunHalt, FallAsleep, SleepFails, Stamp, loopVars
    <3>2. CASE Wake
      <4>1. woke' \in [Sleeps -> Nat \cup {None}]
        BY <3>2 DEF Wake
      <4>2. QED
        BY <2>5, <3>2, <4>1 DEF PowerRuns, Wake, loopVars
    <3>3. QED
      BY <2>5, <3>1, <3>2 DEF PowerRuns, PowerStep
  <2>6. CASE Reply
    <3>1. timer' \in Nat \cup {None}
      BY <2>6 DEF Reply, Later
    <3>2. QED
      BY <2>6, <3>1 DEF Reply
  <2>7. ASSUME ProcessEnds, machine # "asleep" \/ step = "idle"
        PROVE  TypeOK'
    <3>1. PICK received \in 0..Len(inbox) : inbox' = SubSeq(inbox, received + 1, Len(inbox))
      BY <2>7 DEF ProcessEnds
    <3>2. Len(inbox) \in Nat /\ \A i \in received + 1..Len(inbox) : inbox[i] \in Kinds
      BY LenProperties, ElementOfSeq
    <3>3. inbox' \in Seq(Kinds)
      BY <3>1, <3>2, SubSeqProperties
    <3>4. QED
      BY <2>7, <3>3 DEF ProcessEnds
  <2>8. CASE exit_on_inactivity
    <3>1. CASE in_shutdown
      BY <2>8, <3>1 DEF exit_on_inactivity, powerVars
    <3>2. CASE ~in_shutdown
      BY <2>7, <2>8, <3>2 DEF exit_on_inactivity, TimerDue
    <3>3. QED
      BY <3>1, <3>2
  <2>9. CASE Sendsigs
    BY <2>7, <2>9 DEF Sendsigs
  <2>10. CASE CancelHalt
    BY <2>10 DEF CancelHalt, loopVars
  <2>11. CASE UNCHANGED vars
    BY <2>11 DEF vars, powerVars, loopVars
  <2>12. QED
    BY <2>1, <2>2, <2>3, <2>4, <2>5, <2>6, <2>8, <2>9, <2>10, <2>11 DEF Next
<1>3. QED
  BY <1>1, <1>2, PTL DEF Spec

-------------------------------------------------------------------------------
(* A halting machine is not sent to sleep. *)

\* A halt that sendsigs did not spare the process from is never forgotten.
LEMMA UnsparedForGood ==
  ASSUME TypeOK, [Next]_vars, ~unspared'
  PROVE  ~unspared
<1>1. CASE PowerRuns
  BY <1>1 DEF PowerRuns, PowerStep, WriteOmitFile, RunHalt, FallAsleep, SleepFails, Wake, Stamp,
              TypeOK, PowerOK
<1>2. CASE exit_on_inactivity
  BY <1>2 DEF exit_on_inactivity, ProcessEnds, powerVars
<1>3. QED
  BY <1>1, <1>2 DEF Next, Tick, Request, Take, Work, Reply, Sendsigs, ProcessEnds, CancelHalt,
                    vars, powerVars

\* The process that halts the machine remembers it, and sendsigs spares it
\* from before the shutdown begins; a sleep that was let through was let
\* through before the process knew of any shutdown.
Remembered ==
  ~unspared =>
    /\ step = "omit" => in_shutdown
    /\ step = "command" => in_shutdown /\ omitted
    /\ machine = "halting" => in_shutdown /\ omitted
    /\ step \in {"sleep", "asleep"} => ~in_shutdown

LEMMA RememberedAlways == Spec => []Remembered
<1>1. Init => Remembered
  BY DEF Init, PowerInit, Remembered
<1>2. TypeOK /\ Remembered /\ [Next]_vars => Remembered'
  <2> SUFFICES ASSUME TypeOK, Remembered, [Next]_vars, ~unspared'
               PROVE  Remembered'
    BY DEF Remembered
  <2>0. ~unspared
    BY UnsparedForGood
  <2> USE <2>0 DEF Remembered
  <2>1. CASE UNCHANGED powerVars
    BY <2>1 DEF powerVars
  <2>2. CASE Take
    BY <2>2 DEF Take, StartHalt, StartSleep, Refused, TypeOK, PowerOK
  <2>3. CASE Work \/ Reply
    BY <2>3 DEF Work, Reply
  <2>4. CASE PowerRuns
    BY <2>4 DEF PowerRuns, PowerStep, WriteOmitFile, RunHalt, FallAsleep, SleepFails, Wake, Stamp
  <2>5. CASE exit_on_inactivity
    BY <2>1, <2>5 DEF exit_on_inactivity, ProcessEnds
  <2>6. CASE Sendsigs
    BY <2>6 DEF Sendsigs
  <2>7. CASE CancelHalt
    BY <2>7 DEF CancelHalt
  <2>8. Tick \/ Request \/ UNCHANGED vars => UNCHANGED powerVars
    BY DEF Tick, Request, vars
  <2>9. QED
    BY <2>1, <2>2, <2>3, <2>4, <2>5, <2>6, <2>7, <2>8 DEF Next
<1>3. QED
  BY <1>1, <1>2, TypeCorrect, PTL DEF Spec

\* Whatever is requested during a shutdown, and however long it takes, the
\* shim does not suspend or hibernate the machine.
THEOREM HaltingStaysAwake == Spec => NoSleepWhileHalting
<1>1. TypeOK /\ Remembered /\ [Next]_vars =>
        [~unspared /\ machine = "halting" => machine' # "asleep"]_vars
  <2> SUFFICES ASSUME TypeOK, Remembered, Next, ~unspared, machine = "halting"
               PROVE  machine' # "asleep"
    OBVIOUS
  <2>1. CASE PowerRuns
    BY <2>1 DEF Remembered, PowerRuns, PowerStep, WriteOmitFile, RunHalt, FallAsleep, SleepFails,
                Wake, Stamp
  <2>2. CASE exit_on_inactivity
    BY <2>2 DEF exit_on_inactivity, ProcessEnds, powerVars
  <2>3. QED
    BY <2>1, <2>2 DEF Next, Tick, Request, Take, Work, Reply, Sendsigs, ProcessEnds, CancelHalt,
                      powerVars
<1>2. QED
  BY <1>1, TypeCorrect, RememberedAlways, PTL DEF Spec, NoSleepWhileHalting

-------------------------------------------------------------------------------
(* A suspend is not repeated within a second. *)

\* The last suspend, if it is not a second old.
Recent == woke["suspend"] # None /\ now < woke["suspend"] + Second

\* A recent suspend is being noted or has been noted by the process that
\* runs; that process does not exit before the second is over; and no other
\* suspend has been let through meanwhile.
Debounced ==
  ~unspared =>
    /\ woke["suspend"] # None => woke["suspend"] \in Nat /\ woke["suspend"] <= now
    /\ Recent =>
         /\ \/ step = "stamp" /\ action = "suspend"
            \/ last_suspend_time >= woke["suspend"]
         /\ \/ step \in {"stamp", "reply"} /\ action = "suspend"
            \/ timer # None /\ timer >= woke["suspend"] + Second
         /\ ~(step \in {"sleep", "asleep"} /\ action = "suspend")

LEMMA DebouncedAlways == Spec => []Debounced
<1>1. Init => Debounced
  BY DEF Init, PowerInit, Debounced, Recent, Sleeps
<1>2. TypeOK /\ Remembered /\ Debounced /\ [Next]_vars => Debounced'
  <2> SUFFICES ASSUME TypeOK, Remembered, Debounced, [Next]_vars, ~unspared'
               PROVE  Debounced'
    BY DEF Debounced
  <2>u. ~unspared
    BY UnsparedForGood
  <2>0. /\ now \in Nat /\ Second \in Nat /\ Idle \in Nat /\ Idle >= Second
        /\ last_suspend_time \in Nat /\ timer \in Nat \cup {None} /\ None \notin Nat
        /\ woke \in [Sleeps -> Nat \cup {None}]
    BY PowerAssumption, LoopAssumption DEF TypeOK, PowerOK
  <2> USE <2>u DEF Debounced, Recent
  <2>1. CASE UNCHANGED vars
    BY <2>1 DEF vars, powerVars, loopVars
  <2>2. CASE Tick
    BY <2>0, <2>2 DEF Tick, powerVars, loopVars
  <2>3. CASE Request \/ CancelHalt
    BY <2>3 DEF Request, CancelHalt, powerVars, loopVars
  <2>4. CASE Take
    <3>1. UNCHANGED <<now, last_suspend_time, woke>> /\ step = "idle"
      BY <2>4 DEF Take
    <3>2. timer' = timer \/ timer' = now + Idle
      BY <2>4 DEF Take, Later
    <3>3. ~(Recent /\ step' \in {"sleep", "asleep"} /\ action' = "suspend")
      BY <2>0, <2>4, <3>1 DEF Take, StartHalt, StartSleep, Refused, Halts, Sleeps
    <3>4. QED
      BY <2>0, <3>1, <3>2, <3>3
  <2>5. CASE Work
    BY <2>5 DEF Work, loopVars
  <2>6. CASE PowerRuns
    <3>1. CASE WriteOmitFile \/ RunHalt
      BY <2>6, <3>1 DEF PowerRuns, WriteOmitFile, RunHalt, loopVars
    <3>2. CASE FallAsleep \/ SleepFails
      BY <2>6, <3>2 DEF PowerRuns, FallAsleep, SleepFails, loopVars
    <3>3. CASE Wake
      <4>1. CASE action = "suspend"
        BY <2>0, <2>6, <3>3, <4>1 DEF PowerRuns, Wake, loopVars, Sleeps
      <4>2. CASE action # "suspend"
        <5>1. woke'["suspend"] = woke["suspend"]
          BY <2>0, <3>3, <4>2 DEF Wake, Sleeps
        <5>2. QED
          BY <2>0, <2>6, <3>3, <4>2, <5>1 DEF PowerRuns, Wake, loopVars
      <4>3. QED
        BY <4>1, <4>2
    <3>4. CASE Stamp
      BY <2>0, <2>6, <3>4 DEF PowerRuns, Stamp, loopVars
    <3>5. QED
      BY <2>6, <3>1, <3>2, <3>3, <3>4 DEF PowerRuns, PowerStep
  <2>7. CASE Reply
    <3>1. UNCHANGED <<now, last_suspend_time, woke, action>> /\ step = "reply" /\ step' = "idle"
      BY <2>7 DEF Reply
    <3>2. timer' = timer \/ timer' = now + Idle
      BY <2>7 DEF Reply, Later
    <3>3. action = "suspend" => timer' = now + Idle
      BY <2>7 DEF Reply, EarlyActivity, Later
    <3>4. QED
      BY <2>0, <3>1, <3>2, <3>3
  <2>8. CASE exit_on_inactivity
    <3>1. step = "idle" /\ timer # None /\ now >= timer
      BY <2>8 DEF exit_on_inactivity, TimerDue
    <3>2. ~Recent /\ UNCHANGED <<now, woke>>
      BY <2>0, <2>8, <3>1 DEF exit_on_inactivity, ProcessEnds, powerVars
    <3>3. QED
      BY <3>2
  <2>9. CASE Sendsigs
    BY <2>9 DEF Sendsigs, Remembered
  <2>10. QED
    BY <2>1, <2>2, <2>3, <2>4, <2>5, <2>6, <2>7, <2>8, <2>9 DEF Next
<1>3. QED
  BY <1>1, <1>2, TypeCorrect, RememberedAlways, PTL DEF Spec

\* Two suspends are a second apart even if the process exits between them.
THEOREM SuspendsAreApart == Spec => SuspendIsDebounced
<1>1. TypeOK /\ Debounced =>
        [~unspared /\ FallAsleep /\ action = "suspend" =>
           woke["suspend"] = None \/ now >= woke["suspend"] + Second]_vars
  BY PowerAssumption DEF TypeOK, PowerOK, Debounced, Recent, FallAsleep, Sleeps
<1>2. QED
  BY <1>1, TypeCorrect, DebouncedAlways, PTL DEF SuspendIsDebounced

-------------------------------------------------------------------------------
(* The timeout counts from the end of a request. *)

\* An idle process whose last request counted when it was done has a timeout
\* that is due no earlier than the whole time after that, or none any more.
Rested ==
  step = "idle" /\ finished # None /\ action \notin EarlyActivity =>
    timer = None \/ timer >= finished + Idle

LEMMA RestedAlways == Spec => []Rested
<1>1. Init => Rested
  BY DEF Init, Rested
<1>2. TypeOK /\ Rested /\ [Next]_vars => Rested'
  <2> SUFFICES ASSUME TypeOK, Rested, [Next]_vars
               PROVE  Rested'
    OBVIOUS
  <2> USE DEF Rested
  <2>1. CASE UNCHANGED <<step, action, timer, finished>>
    BY <2>1
  <2>2. CASE Take
    BY <2>2 DEF Take, StartHalt, StartSleep
  <2>3. CASE Work \/ PowerRuns
    BY <2>3 DEF Work, PowerRuns, PowerStep, WriteOmitFile, RunHalt, FallAsleep, SleepFails, Wake,
                Stamp, TypeOK, PowerOK
  <2>4. CASE Reply
    BY <2>4, LoopAssumption DEF Reply, Later, TypeOK, PowerOK
  <2>5. CASE exit_on_inactivity \/ Sendsigs
    BY <2>5 DEF exit_on_inactivity, Sendsigs, ProcessEnds, powerVars
  <2>6. Tick \/ Request \/ CancelHalt \/ UNCHANGED vars => UNCHANGED <<step, action, timer, finished>>
    BY DEF Tick, Request, CancelHalt, vars, powerVars, loopVars
  <2>7. QED
    BY <2>1, <2>2, <2>3, <2>4, <2>5, <2>6 DEF Next
<1>3. QED
  BY <1>1, <1>2, TypeCorrect, PTL DEF Spec

\* However long a method of the manager takes, the process stays for the whole
\* timeout after it.
THEOREM StaysLongEnough == Spec => IdleIsLongEnough
<1>1. TypeOK /\ Rested =>
        [TimerDue /\ finished # None /\ finished' = None /\ action \notin EarlyActivity =>
           now >= finished + Idle]_vars
  BY LoopAssumption, PowerAssumption DEF TypeOK, PowerOK, Rested, TimerDue
<1>2. QED
  BY <1>1, TypeCorrect, RestedAlways, PTL DEF IdleIsLongEnough
===============================================================================
