------------------------------- MODULE ShimLoop -------------------------------
(***************************************************************************)
(* The life of the shim's process (src/src/systemd-shim.c): a request on   *)
(* the bus starts it, it handles one request at a time, and when nothing   *)
(* was requested for a while it exits, unless it has shut the machine down *)
(* (src/src/power-unit.c, PowerUnit), which only the process remembers.    *)
(***************************************************************************)
EXTENDS PowerUnit, Sequences

CONSTANTS Idle,       \* the inactivity timeout (10000 ms), in ticks
          Requests,   \* the kinds of requests that are made
          MaxTime,    \* bound: when the clock stops
          MaxQueue    \* bound: requests that wait at a time

\* The methods of the manager other than those that start a power unit, the
\* Abandon method of a unit, and the reading of a property.
Kinds == Halts \cup Sleeps \cup {"method", "Abandon", "property"}

ASSUME LoopAssumption ==
  /\ Idle \in Nat
  /\ Idle >= Second
  /\ Requests \subseteq Kinds
  /\ MaxTime \in Nat
  /\ MaxQueue \in Nat

VARIABLES
          running,   \* there is a process
          inbox,     \* the requests it has not taken up
          timer,     \* when the inactivity timeout is due
          finished   \* history: when the process was done with its last request

loopVars == <<running, inbox, timer, finished>>
vars == <<now, powerVars, loopVars>>

Later == now + Idle

Init ==
  /\ PowerInit
  /\ action = None
  /\ running = FALSE
  /\ inbox = <<>>
  /\ timer = None
  /\ finished = None

Tick ==
  /\ now < MaxTime
  /\ now' = now + 1
  /\ UNCHANGED <<powerVars, loopVars>>

\* A request: the bus starts the shim for it if need be.
Request ==
  /\ Len(inbox) < MaxQueue
  /\ \E r \in Requests : inbox' = Append(inbox, r)
  /\ running' = TRUE
  /\ UNCHANGED <<now, powerVars, timer, finished>>

\* Calls to a unit and properties are counted as activity when they begin,
\* methods of the manager when they are done.
EarlyActivity == {"Abandon", "property"}

Take ==
  /\ running
  /\ step = "idle"
  /\ inbox # <<>>
  /\ inbox' = Tail(inbox)
  /\ action' = Head(inbox)
  /\ timer' = IF action' \in EarlyActivity THEN Later ELSE timer
  /\ \/ action' \in Halts /\ StartHalt
     \/ action' \in Sleeps /\ StartSleep(action')
     \/ /\ action' \in Kinds \ (Halts \cup Sleeps)
        /\ step' = "work"
        /\ UNCHANGED in_shutdown
  /\ UNCHANGED <<now, machine, last_suspend_time, omitted, unspared, woke, running, finished>>

\* Whatever the other requests do, it takes its time and then it is done.
Work ==
  /\ step = "work"
  /\ step' = "reply"
  /\ UNCHANGED <<now, machine, action, in_shutdown, last_suspend_time, omitted, unspared, woke, loopVars>>

PowerRuns == PowerStep /\ UNCHANGED loopVars

\* Mutant: a power action is no activity.
Reply_unnoticed ==
  /\ step = "reply"
  /\ step' = "idle"
  /\ timer' = IF action = "method" \/ timer = None THEN Later ELSE timer
  /\ finished' = now
  /\ UNCHANGED <<now, machine, action, in_shutdown, last_suspend_time, omitted, unspared, woke, running, inbox>>

Reply ==
  /\ step = "reply"
  /\ step' = "idle"
  /\ timer' = IF action \in EarlyActivity THEN timer ELSE Later
  /\ finished' = now
  /\ UNCHANGED <<now, machine, action, in_shutdown, last_suspend_time, omitted, unspared, woke, running, inbox>>

-------------------------------------------------------------------------------
(* The end of the process. *)

\* Mutant: nobody starts another one for the requests that are left.
ProcessEnds_silently ==
  /\ \E received \in 0..Len(inbox) : inbox' = SubSeq(inbox, received + 1, Len(inbox))
  /\ running' = FALSE
  /\ step' = "idle"
  /\ timer' = None
  /\ UNCHANGED <<now, machine, action, in_shutdown, last_suspend_time, omitted, unspared, woke, finished>>

\* The process is gone, with the requests it has received; the bus starts
\* another one if there are requests left, or with the next one.
ProcessEnds ==
  /\ \E received \in 0..Len(inbox) : inbox' = SubSeq(inbox, received + 1, Len(inbox))
  /\ running' = (inbox' # <<>>)
  /\ step' = "idle"
  /\ action' = None
  /\ in_shutdown' = FALSE
  /\ last_suspend_time' = 0
  /\ omitted' = FALSE
  /\ timer' = None
  /\ finished' = None
  /\ UNCHANGED <<now, machine, unspared, woke>>

TimerDue == running /\ step = "idle" /\ timer # None /\ now >= timer

\* Mutant: the process exits in the middle of a shutdown, too.
exit_on_inactivity_always == TimerDue /\ ProcessEnds

\* The timeout is not armed again after it was due during a shutdown.
exit_on_inactivity ==
  /\ TimerDue
  /\ IF in_shutdown
     THEN timer' = None /\ UNCHANGED <<now, powerVars, running, inbox, finished>>
     ELSE ProcessEnds

\* The shutdown kills every process that sendsigs.omit.d does not name.
Sendsigs ==
  /\ machine = "halting"
  /\ running
  /\ ~omitted
  /\ ProcessEnds

\* Somebody calls the shutdown off.
CancelHalt ==
  /\ machine = "halting"
  /\ machine' = "up"
  /\ UNCHANGED <<now, step, action, in_shutdown, last_suspend_time, omitted, unspared, woke, loopVars>>

Next ==
  \/ Tick \/ Request \/ Take \/ Work \/ PowerRuns \/ Reply
  \/ exit_on_inactivity \/ Sendsigs \/ CancelHalt

Spec == Init /\ [][Next]_vars

-------------------------------------------------------------------------------
TypeOK ==
  /\ PowerOK
  /\ action \in Kinds \cup {None}
  /\ running \in BOOLEAN
  /\ inbox \in Seq(Kinds)
  /\ timer \in Nat \cup {None}
  /\ finished \in Nat \cup {None}
  /\ step # "idle" \/ inbox # <<>> => running
  /\ timer # None => running

\* Unless the shim could not tell sendsigs to spare it, a machine that it has
\* been told to halt is not sent to sleep, whatever was requested meanwhile
\* and however long the halt takes: neither the idle timeout nor the
\* shutdown's own signals end the process that remembers.
NoSleepWhileHalting ==
  [][~unspared /\ machine = "halting" => machine' # "asleep"]_vars

\* The machine is not suspended within a second of having woken from the
\* previous suspend, although a new process does not remember that one: the
\* old one only exits when that is long past (unless a shutdown killed it).
SuspendIsDebounced ==
  [][~unspared /\ FallAsleep /\ action = "suspend" =>
       woke["suspend"] = None \/ now >= woke["suspend"] + Second]_vars

\* power-unit.c:84: "if we are being asked to perform a suspend or hibernate
\* action within 1 second of the previous one, don't do it."
SleepIsDebounced ==
  [][FallAsleep =>
       \A a \in Sleeps : woke[a] = None \/ now >= woke[a] + Second]_vars

\* After a method of the manager, and a suspend in particular, the process
\* stays for the whole timeout, however long the method took.
IdleIsLongEnough ==
  [][TimerDue /\ finished # None /\ finished' = None /\ action \notin EarlyActivity => now >= finished + Idle]_vars

\* NEWS:60: 'adjust the definition of "inactivity" to be 10 seconds after done
\* processing the last request instead of 10 seconds after we started'.
IdleAfterLastRequest ==
  [][TimerDue /\ finished # None /\ finished' = None => now >= finished + Idle]_vars
===============================================================================
