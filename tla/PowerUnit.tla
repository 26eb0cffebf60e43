------------------------------- MODULE PowerUnit -------------------------------
(***************************************************************************)
(* src/src/power-unit.c: power_unit_start for the four power actions, and  *)
(* the machine it acts on.  The commands it runs are waited for, so a      *)
(* suspend lasts until the machine has woken up again.  ShimLoop, the main *)
(* loop, takes up the requests and goes on when step is "reply".           *)
(***************************************************************************)
EXTENDS Naturals

CONSTANTS None,           \* no time, no request
          Second,         \* G_TIME_SPAN_SECOND, in ticks of the clock
          OmitFaults,     \* whether the sendsigs.omit.d file may not be written
          CommandFaults   \* whether a command or /sys/power/state may fail

ASSUME PowerAssumption ==
  /\ None \notin Nat
  /\ Second \in Nat
  /\ OmitFaults \in BOOLEAN
  /\ CommandFaults \in BOOLEAN

Halts == {"poweroff", "reboot"}
Sleeps == {"suspend", "hibernate"}

VARIABLES
  now,                \* g_get_monotonic_time, 0 when the machine was started
  machine,            \* what the machine is doing
  step,               \* where the handler is
  action,             \* the request it handles, or handled last
  in_shutdown,
  last_suspend_time,
  omitted,            \* sendsigs.omit.d names the shim's process
  unspared,           \* history: a halt went ahead although it could not be named there
  woke                \* history: per action, when the machine last woke from it

powerVars == <<machine, step, action, in_shutdown, last_suspend_time, omitted, unspared, woke>>

PowerOK ==
  /\ now \in Nat
  /\ machine \in {"up", "asleep", "halting"}
  /\ step \in {"idle", "work", "omit", "command", "sleep", "asleep", "stamp", "reply"}
  /\ in_shutdown \in BOOLEAN
  /\ last_suspend_time \in Nat
  /\ omitted \in BOOLEAN
  /\ unspared \in BOOLEAN
  /\ woke \in [Sleeps -> Nat \cup {None}]
  /\ (machine = "asleep") = (step = "asleep")

PowerInit ==
  /\ now = 0
  /\ machine = "up"
  /\ step = "idle"
  /\ in_shutdown = FALSE
  /\ last_suspend_time = 0
  /\ omitted = FALSE
  /\ unspared = FALSE
  /\ woke = [a \in Sleeps |-> None]

-------------------------------------------------------------------------------
(* Powering off and rebooting. *)

\* in_shutdown comes first and nothing ever clears it.
StartHalt ==
  /\ step' = "omit"
  /\ in_shutdown' = TRUE

WriteOmitFile ==
  /\ step = "omit"
  /\ step' = "command"
  /\ \/ omitted' = TRUE /\ UNCHANGED unspared
     \/ OmitFaults /\ unspared' = TRUE /\ UNCHANGED omitted
  /\ UNCHANGED <<now, machine, action, in_shutdown, last_suspend_time, woke>>

RunHalt ==
  /\ step = "command"
  /\ step' = "reply"
  /\ \/ machine' = "halting"
     \/ CommandFaults /\ UNCHANGED machine
  /\ UNCHANGED <<now, action, in_shutdown, last_suspend_time, omitted, unspared, woke>>

-------------------------------------------------------------------------------
(* Sleeping. *)

\* Mutant: any suspend goes ahead.
Refused_not(a) == in_shutdown

\* Only the suspend is compared with the previous one.
Refused(a) ==
  \/ in_shutdown
  \/ a = "suspend" /\ last_suspend_time + Second > now

StartSleep(a) ==
  /\ step' = IF Refused(a) THEN "reply" ELSE "sleep"
  /\ UNCHANGED in_shutdown

FallAsleep ==
  /\ step = "sleep"
  /\ step' = "asleep"
  /\ machine' = "asleep"
  /\ UNCHANGED <<now, action, in_shutdown, last_suspend_time, omitted, unspared, woke>>

\* The command, or the write, fails (it is still the last one to be noted);
\* or /sys/power/state cannot be opened, and nothing is noted.
SleepFails ==
  /\ CommandFaults
  /\ step = "sleep"
  /\ step' \in {"stamp", "reply"}
  /\ UNCHANGED <<now, machine, action, in_shutdown, last_suspend_time, omitted, unspared, woke>>

Wake ==
  /\ step = "asleep"
  /\ step' = "stamp"
  /\ machine' = "up"
  /\ woke' = [woke EXCEPT ![action] = now]
  /\ UNCHANGED <<now, action, in_shutdown, last_suspend_time, omitted, unspared>>

Stamp ==
  /\ step = "stamp"
  /\ step' = "reply"
  /\ last_suspend_time' = IF action = "suspend" THEN now ELSE last_suspend_time
  /\ UNCHANGED <<now, machine, action, in_shutdown, omitted, unspared, woke>>

PowerStep == WriteOmitFile \/ RunHalt \/ FallAsleep \/ SleepFails \/ Wake \/ Stamp
===============================================================================
