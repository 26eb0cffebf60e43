-------------------------------- MODULE Manager --------------------------------
(***************************************************************************)
(* The D-Bus side of the shim (src/src/systemd-shim.c, src/src/unit.c):    *)
(* how a call is dispatched and answered, which signals follow, when the   *)
(* inactivity timeout is armed, and how the process comes and goes.        *)
(*                                                                         *)
(* The main loop handles one call at a time.  What it sends is queued and  *)
(* written to the bus by the worker thread of the connection, which runs   *)
(* at any time.  The bus keeps account of the calls that wait for an       *)
(* answer, starts the process for a call, and answers itself what the      *)
(* process leaves behind when it ends.                                     *)
(***************************************************************************)
EXTENDS Integers, Sequences, FiniteSets

CONSTANTS Clients,    \* connections that call the shim
          Ops,        \* the calls they make
          Names,      \* the unit names they make them with
          Grouped,    \* those of them that end in ".slice" or ".scope"
          NtpThere,   \* whether the NTP unit exists on this machine
          None,       \* no call, no unit name
          Crashes,    \* whether the process may be killed
          NameFaults, \* whether the bus name may be refused
          MaxCalls    \* bound: calls made in all

\* The manager's methods that name a unit, and Abandon, whose object does.
Jobs == {"StartUnit", "StartTransientUnit"}
UnitOps == Jobs \cup {"StopUnit", "GetUnitFileState", "Abandon"}

\* "stub" stands for EnableUnitFiles, DisableUnitFiles, Reload, Subscribe and
\* Unsubscribe; "property" for the properties of the manager and the listing of
\* the units; "Ping" for what GLib answers by itself.
Methods == UnitOps \cup {"stub", "property", "unit_property", "Ping"}

\* The calls to the object of a unit.  Those objects are a subtree, so that the
\* main loop has two callbacks for such a call: one finds its handler, and puts
\* that behind everything that is queued by then.
UnitObject == {"Abandon", "unit_property"}

ASSUME ManagerAssumption ==
  /\ Ops \subseteq Methods
  /\ Grouped \subseteq Names
  /\ None \notin Names
  /\ {NtpThere, Crashes, NameFaults} \subseteq BOOLEAN
  /\ MaxCalls \in Nat

Call == [serial : 1..MaxCalls, client : Clients, op : Methods, unit : Names \cup {None}]

ASSUME NoCallAssumption == None \notin Call

VARIABLES
  \* the bus
  pending,             \* the calls that wait for an answer
  sent,                \* how many calls were made
  \* the process
  status,              \* "down", "starting" (no bus name yet) or "up"
  inbox,               \* the calls it has not taken up
  dispatched,          \* those of them whose handler was found
  call, step,          \* the call it handles, and where the handler is
  outbox,              \* the messages its worker thread has not written yet
  sources,             \* the timeouts its main loop knows
  inactivity_timeout,  \* the identifier had_activity remembers, 0 at first
  in_shutdown,
  \* history, read by no action
  handled,             \* the calls whose handler has done its work
  unanswered,          \* the calls the bus had to answer
  owed,                \* per client: jobs it was told of, less those reported removed
  cut                  \* the calls in the middle of which the process was killed

busVars == <<pending, sent>>
loopVars == <<status, inbox, dispatched, call, step>>
timerVars == <<sources, inactivity_timeout>>
historyVars == <<handled, unanswered, owed, cut>>
vars == <<busVars, loopVars, outbox, timerVars, in_shutdown, historyVars>>

-------------------------------------------------------------------------------
(* lookup_unit. *)

NtpNames == {"ntpd.service", "systemd-timesyncd.service"}
Halts == {"reboot.target", "shutdown.target", "poweroff.target"}
PowerNames == Halts \cup {"suspend.target", "hibernate.target"}

lookup_unit(n) ==
  \/ n \in NtpNames /\ NtpThere
  \/ n \in PowerNames
  \/ n \in Grouped

\* A call that is about a unit fails if there is no such unit, and no other does.
Succeeds(c) == c.op \in UnitOps => lookup_unit(c.unit)

\* The signal that follows a reply: to the caller that a job was removed (the
\* work is done, and there are no jobs), to everybody that a unit was.
SignalOf(c) ==
  IF ~Succeeds(c) THEN {}
  ELSE IF c.op \in Jobs THEN {"JobRemoved"}
  ELSE IF c.op = "StopUnit" THEN {"UnitRemoved"} ELSE {}

Answers == {"reply", "error"}
Message == [kind : Answers \cup {"JobRemoved", "UnitRemoved"}, call : Call]

-------------------------------------------------------------------------------
(* The inactivity timeout. *)

\* An identifier that was not used before, as far as anybody remembers.
NewSource ==
  CHOOSE id \in 1..(Cardinality(sources) + 2) : id \notin sources \cup {inactivity_timeout}

\* Mutant: the previous timeout stays armed.
had_activity_leaks ==
  /\ inactivity_timeout' = NewSource
  /\ sources' = sources \cup {NewSource}

had_activity ==
  /\ inactivity_timeout' = NewSource
  /\ sources' = (sources \ {inactivity_timeout}) \cup {NewSource}

\* Methods of the manager are activity when they are done, everything else
\* when it begins.
Early == UnitObject \cup {"property"}

-------------------------------------------------------------------------------
(* The clients and the bus. *)

\* The bus starts the process for a call if it has to.
ClientCall ==
  /\ sent < MaxCalls
  /\ sent' = sent + 1
  /\ \E c \in Call :
       /\ c.serial = sent'
       /\ c.op \in Ops
       /\ c.op \in UnitOps <=> c.unit # None
       /\ inbox' = Append(inbox, c)
       /\ pending' = pending \cup {c}
  /\ status' = IF status = "down" THEN "starting" ELSE status
  /\ UNCHANGED <<dispatched, call, step, outbox, timerVars, in_shutdown, historyVars>>

\* The objects are registered before the name is asked for.
shim_bus_acquired ==
  /\ status = "starting"
  /\ status' = "up"
  /\ UNCHANGED <<busVars, inbox, dispatched, call, step, outbox, timerVars, in_shutdown, historyVars>>

\* The end of the process: all that is not on the bus is gone, and the bus tells
\* those who wait.
ProcessEnds ==
  /\ status' = "down"
  /\ inbox' = <<>>
  /\ dispatched' = {}
  /\ call' = None
  /\ step' = "idle"
  /\ outbox' = <<>>
  /\ sources' = {}
  /\ inactivity_timeout' = 0
  /\ in_shutdown' = FALSE
  /\ pending' = {}
  /\ unanswered' = unanswered \cup pending
  /\ UNCHANGED <<sent, handled, owed>>

shim_name_lost ==
  /\ NameFaults
  /\ status = "starting"
  /\ ProcessEnds
  /\ UNCHANGED cut

Kill ==
  /\ Crashes
  /\ status # "down"
  /\ ProcessEnds
  /\ cut' = cut \cup {outbox[i].call : i \in 1..Len(outbox)} \cup ({call} \ {None})

-------------------------------------------------------------------------------
(* The main loop. *)

Idle == status = "up" /\ step = "idle"

\* The first callback for a call to the object of a unit.
shim_units_dispatch ==
  /\ Idle
  /\ inbox # <<>>
  /\ Head(inbox).op \in UnitObject
  /\ Head(inbox) \notin dispatched
  /\ inbox' = Append(Tail(inbox), Head(inbox))
  /\ dispatched' = dispatched \cup {Head(inbox)}
  /\ had_activity
  /\ UNCHANGED <<busVars, status, call, step, outbox, in_shutdown, historyVars>>

\* The callback that is next runs the handler of the call.
Ready(c) == c.op # "Ping" /\ (c.op \in UnitObject => c \in dispatched)

\* Mutant: the caller gets its reply before the work is done.
Take_repliesFirst ==
  /\ Idle
  /\ inbox # <<>>
  /\ Ready(Head(inbox))
  /\ call' = Head(inbox)
  /\ inbox' = Tail(inbox)
  /\ dispatched' = dispatched \ {call'}
  /\ step' = "reply"
  /\ IF call'.op \in Early THEN had_activity ELSE UNCHANGED timerVars
  /\ UNCHANGED <<busVars, status, outbox, in_shutdown, historyVars>>

Take ==
  /\ Idle
  /\ inbox # <<>>
  /\ Ready(Head(inbox))
  /\ call' = Head(inbox)
  /\ inbox' = Tail(inbox)
  /\ dispatched' = dispatched \ {call'}
  /\ step' = "work"
  /\ IF call'.op \in Early THEN had_activity ELSE UNCHANGED timerVars
  /\ UNCHANGED <<busVars, status, outbox, in_shutdown, historyVars>>

\* GLib answers the call without the help of the shim.
GlibAnswers ==
  /\ Idle
  /\ inbox # <<>>
  /\ Head(inbox).op = "Ping"
  /\ inbox' = Tail(inbox)
  /\ outbox' = Append(outbox, [kind |-> "reply", call |-> Head(inbox)])
  /\ UNCHANGED <<busVars, status, dispatched, call, step, timerVars, in_shutdown, historyVars>>

\* The work of the unit; a class that lacks the method does nothing and says so
\* in its log only.
Work ==
  /\ step = "work"
  /\ step' = "reply"
  /\ in_shutdown' = (in_shutdown \/ (call.op = "StartUnit" /\ call.unit \in Halts))
  /\ handled' = handled \cup {call}
  /\ UNCHANGED <<busVars, status, inbox, dispatched, call, outbox, timerVars, unanswered, owed, cut>>

\* Mutants: the error is not sent; the signals go first.
Reply_onlySuccess ==
  /\ step = "reply"
  /\ step' = IF SignalOf(call) = {} THEN "finish" ELSE "signal"
  /\ outbox' = IF Succeeds(call) THEN Append(outbox, [kind |-> "reply", call |-> call]) ELSE outbox
  /\ UNCHANGED <<busVars, status, inbox, dispatched, call, timerVars, in_shutdown, historyVars>>
Reply_afterSignal ==
  /\ step = "reply"
  /\ step' = "finish"
  /\ outbox' = (IF SignalOf(call) = {"JobRemoved"}
                THEN Append(outbox, [kind |-> "JobRemoved", call |-> call]) ELSE outbox)
               \o <<[kind |-> IF Succeeds(call) THEN "reply" ELSE "error", call |-> call]>>
  /\ UNCHANGED <<busVars, status, inbox, dispatched, call, timerVars, in_shutdown, historyVars>>

Reply ==
  /\ step = "reply"
  /\ step' = IF SignalOf(call) = {} THEN "finish" ELSE "signal"
  /\ outbox' = Append(outbox, [kind |-> IF Succeeds(call) THEN "reply" ELSE "error", call |-> call])
  /\ UNCHANGED <<busVars, status, inbox, dispatched, call, timerVars, in_shutdown, historyVars>>

Signal ==
  /\ step = "signal"
  /\ step' = "finish"
  /\ \E kind \in SignalOf(call) : outbox' = Append(outbox, [kind |-> kind, call |-> call])
  /\ UNCHANGED <<busVars, status, inbox, dispatched, call, timerVars, in_shutdown, historyVars>>

\* Mutant: a method that fails returns early.
Finish_onlySuccess ==
  /\ step = "finish"
  /\ step' = "idle"
  /\ call' = None
  /\ IF call.op \notin Early /\ Succeeds(call) THEN had_activity ELSE UNCHANGED timerVars
  /\ UNCHANGED <<busVars, status, inbox, dispatched, outbox, in_shutdown, historyVars>>

Finish ==
  /\ step = "finish"
  /\ step' = "idle"
  /\ call' = None
  /\ IF call.op \notin Early THEN had_activity ELSE UNCHANGED timerVars
  /\ UNCHANGED <<busVars, status, inbox, dispatched, outbox, in_shutdown, historyVars>>

Handler == shim_units_dispatch \/ Take \/ GlibAnswers \/ Work \/ Reply \/ Signal \/ Finish

\* Mutant: the timeout is noticed while a call is handled.
exit_on_inactivity_nested ==
  /\ status = "up"
  /\ \E id \in sources :
       IF in_shutdown
       THEN sources' = sources \ {id} /\ UNCHANGED step
       ELSE step' = "flush" /\ UNCHANGED sources
  /\ UNCHANGED <<busVars, status, inbox, dispatched, call, outbox, inactivity_timeout, in_shutdown, historyVars>>

\* Ten idle seconds are over.  During a shutdown the timeout is gone with that,
\* and inactivity_timeout keeps its identifier.
exit_on_inactivity ==
  /\ Idle
  /\ \E id \in sources :
       IF in_shutdown
       THEN sources' = sources \ {id} /\ UNCHANGED step
       ELSE step' = "flush" /\ UNCHANGED sources
  /\ UNCHANGED <<busVars, status, inbox, dispatched, call, outbox, inactivity_timeout, in_shutdown, historyVars>>

\* Mutant: the process does not wait for its worker thread.
Exit_unflushed == step = "flush" /\ ProcessEnds /\ UNCHANGED cut

\* g_dbus_connection_flush_sync returns, and the process exits.
Exit ==
  /\ step = "flush"
  /\ outbox = <<>>
  /\ ProcessEnds
  /\ UNCHANGED cut

\* The worker thread writes the next message, and the bus passes it on.
WorkerSends ==
  /\ outbox # <<>>
  /\ outbox' = Tail(outbox)
  /\ LET m == Head(outbox)
         job == m.call.op \in Jobs
     IN /\ pending' = IF m.kind \in Answers THEN pending \ {m.call} ELSE pending
        /\ owed' = IF m.kind = "reply" /\ job THEN [owed EXCEPT ![m.call.client] = @ + 1]
                   ELSE IF m.kind = "JobRemoved" THEN [owed EXCEPT ![m.call.client] = @ - 1]
                   ELSE owed
  /\ UNCHANGED <<sent, loopVars, timerVars, in_shutdown, handled, unanswered, cut>>

Init ==
  /\ pending = {}
  /\ sent = 0
  /\ status = "down"
  /\ inbox = <<>>
  /\ dispatched = {}
  /\ call = None
  /\ step = "idle"
  /\ outbox = <<>>
  /\ sources = {}
  /\ inactivity_timeout = 0
  /\ in_shutdown = FALSE
  /\ handled = {}
  /\ unanswered = {}
  /\ owed = [c \in Clients |-> 0]
  /\ cut = {}

Next ==
  \/ ClientCall \/ shim_bus_acquired \/ shim_name_lost \/ Kill
  \/ Handler \/ exit_on_inactivity \/ Exit \/ WorkerSends

Spec == Init /\ [][Next]_vars

\* The main loop and the worker thread run, time passes, and the bus says
\* whether the process gets its name.
Fairness ==
  /\ WF_vars(shim_bus_acquired \/ shim_name_lost)
  /\ WF_vars(Handler)
  /\ WF_vars(WorkerSends)
  /\ WF_vars(exit_on_inactivity)
  /\ WF_vars(Exit)

FairSpec == Spec /\ Fairness

-------------------------------------------------------------------------------
TypeOK ==
  /\ pending \subseteq Call
  /\ sent \in 0..MaxCalls
  /\ status \in {"down", "starting", "up"}
  /\ inbox \in Seq(Call)
  /\ dispatched \subseteq {c \in Call : c.op \in UnitObject}
  /\ call \in Call \cup {None}
  /\ step \in {"idle", "work", "reply", "signal", "finish", "flush"}
  /\ (step \in {"idle", "flush"}) = (call = None)
  /\ outbox \in Seq(Message)
  /\ sources \subseteq Nat \ {0}
  /\ inactivity_timeout \in Nat
  /\ in_shutdown \in BOOLEAN
  /\ handled \subseteq Call
  /\ unanswered \subseteq Call
  /\ owed \in [Clients -> Int]
  /\ cut \subseteq Call
  /\ status # "up" => step = "idle" /\ outbox = <<>> /\ sources = {}

\* Where the process keeps a call that waits for an answer.
Places(c) ==
  {<<"inbox", i>> : i \in {j \in 1..Len(inbox) : inbox[j] = c}} \cup
  {<<"handler", x.serial>> : x \in {call} \cap (IF step \in {"work", "reply"} THEN {c} ELSE {})} \cup
  {<<"outbox", i>> : i \in {j \in 1..Len(outbox) : outbox[j].kind \in Answers /\ outbox[j].call = c}}

\* Every call that the bus waits for is in the process exactly once, to be
\* taken up, to be handled, or to be answered; and what is answered is waited
\* for.  So no path through shim_method_call answers twice or not at all.
OneAnswerPerCall ==
  /\ \A c \in pending : Cardinality(Places(c)) = 1
  /\ \A i \in 1..Len(outbox) : outbox[i].kind \in Answers => outbox[i].call \in pending

\* All jobs have the path "/", so that a client can only match JobRemoved with
\* the last job it was told of.  It never arrives before that job's reply, and
\* never later than the reply to the next one, as long as nobody kills the
\* process: in particular it is not left behind when an idle process exits.
JobsInStep == \A c \in Clients \ {d.client : d \in cut} : owed[c] \in {0, 1}

\* NEWS:56, "flush bus before exiting on idle": what the shim has done it also
\* answers; a call that the bus answers instead was not begun.
HandledIsAnswered == handled \cap unanswered \subseteq cut

\* There is never more than one timeout, the one that the last activity armed,
\* and it is gone early only in a shutdown: no older one cuts the ten seconds
\* short.  (g_source_remove then gets an identifier that is gone.)
OneTimeout ==
  /\ sources \subseteq {inactivity_timeout}
  /\ inactivity_timeout # 0 /\ ~in_shutdown => sources = {inactivity_timeout}

Service == INSTANCE CallService WITH
  Calls <- Call, ByGlib <- {c \in Call : c.op = "Ping"},
  Late <- {c \in Call : c.op \in UnitObject}, Killable <- Crashes,
  asked <- sent, waiting <- pending, done <- handled, failed <- unanswered, lost <- cut

\* With the queues, the two callbacks of a call to a unit's object, the worker
\* thread, the timeout and the ends of the process, the shim is a service that
\* works on the calls in the order in which they came, but that a call to a
\* unit's object may be overtaken by calls that are none.  It answers each of
\* them after that, in the same order, and leaves to the bus only what it has
\* not worked on, or was killed in the middle of.
CallsInTurn == Service!Spec

\* Every call is answered, by the shim or, if it ends, by the bus.
EveryCallAnswered == \A n \in 1..MaxCalls :
  (\E c \in pending : c.serial = n) ~> (\A c \in pending : c.serial # n)

\* A process that has handled a call, even one that failed, does not stay when
\* the calls have stopped, unless it has to remember a shutdown.
IdleProcessExits == (call # None) ~> (status = "down" \/ in_shutdown)
===============================================================================
