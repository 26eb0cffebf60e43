---------------------------- MODULE Manager_proofs ----------------------------
(***************************************************************************)
(* Theorems about Manager, for every set of clients, calls and unit names, *)
(* any number of calls, and with or without faults.                        *)
(***************************************************************************)
EXTENDS Manager, SequenceTheorems, FiniteSetTheorems, TLAPS

(* Queues. *)

\* What happens to a queue at its two ends.
LEMMA QueueTail ==
  ASSUME NEW S, NEW s \in Seq(S), s # <<>>
  PROVE  /\ Head(s) = s[1] /\ s[1] \in S
         /\ Len(s) \in Nat \ {0} /\ Len(Tail(s)) = Len(s) - 1
         /\ Tail(s) = <<>> <=> Len(s) = 1
         /\ \A i \in 1..Len(s) - 1 : Tail(s)[i] = s[i + 1]
<1>1. /\ Len(s) \in Nat \ {0} /\ Len(Tail(s)) = Len(s) - 1
      /\ Head(s) = s[1] /\ Tail(s) \in Seq(S)
      /\ \A i \in 1..Len(Tail(s)) : Tail(s)[i] = s[i + 1]
  BY HeadTailProperties, LenProperties, EmptySeq
<1>2. s[1] \in S
  BY <1>1, ElementOfSeq
<1>3. Tail(s) = <<>> <=> Len(Tail(s)) = 0
  BY <1>1, EmptySeq
<1>4. QED
  BY <1>1, <1>2, <1>3

LEMMA QueueAppend ==
  ASSUME NEW S, NEW s \in Seq(S), NEW m \in S
  PROVE  /\ Len(s) \in Nat /\ Len(Append(s, m)) = Len(s) + 1
         /\ s = <<>> <=> Len(s) = 0
         /\ Append(s, m) # <<>>
         /\ \A i \in 1..Len(s) : Append(s, m)[i] = s[i]
         /\ Append(s, m)[Len(s) + 1] = m
BY AppendProperties, LenProperties, EmptySeq

\* A queue whose head is put behind the rest.
Turned(s) == Append(Tail(s), Head(s))

LEMMA QueueTurn ==
  ASSUME NEW S, NEW s \in Seq(S), s # <<>>
  PROVE  /\ Head(s) = s[1] /\ s[1] \in S
         /\ Turned(s) \in Seq(S)
         /\ Len(s) \in Nat \ {0} /\ Len(Turned(s)) = Len(s)
         /\ \A i \in 1..Len(s) - 1 : Turned(s)[i] = s[i + 1]
         /\ Turned(s)[Len(s)] = s[1]
<1>1. /\ Head(s) = s[1] /\ s[1] \in S /\ Tail(s) \in Seq(S)
      /\ Len(s) \in Nat \ {0} /\ Len(Tail(s)) = Len(s) - 1
      /\ \A i \in 1..Len(s) - 1 : Tail(s)[i] = s[i + 1]
  BY QueueTail, HeadTailProperties
<1>2. ASSUME NEW t \in Seq(S), NEW m \in S
      PROVE  /\ Append(t, m) \in Seq(S) /\ Len(Append(t, m)) = Len(t) + 1
             /\ \A i \in 1..Len(t) : Append(t, m)[i] = t[i]
             /\ Append(t, m)[Len(t) + 1] = m
  BY AppendProperties
<1>3. /\ Turned(s) \in Seq(S)
      /\ Len(Turned(s)) = Len(Tail(s)) + 1
      /\ \A i \in 1..Len(Tail(s)) : Turned(s)[i] = Tail(s)[i]
      /\ Turned(s)[Len(Tail(s)) + 1] = Head(s)
  BY <1>1, <1>2, Zenon DEF Turned
<1>4. QED
  BY <1>1, <1>3

\* It holds what it held, in no other places than before.
LEMMA TurnKeeps ==
  ASSUME NEW S, NEW s \in Seq(S), s # <<>>
  PROVE  /\ \A i \in 1..Len(Turned(s)) : \E k \in 1..Len(s) : Turned(s)[i] = s[k]
         /\ \A k \in 1..Len(s) : \E i \in 1..Len(Turned(s)) : Turned(s)[i] = s[k]
<1> DEFINE r == Turned(s)
<1>1. /\ Len(s) \in Nat \ {0} /\ Len(r) = Len(s)
      /\ \A i \in 1..Len(s) - 1 : r[i] = s[i + 1]
      /\ r[Len(s)] = s[1]
  BY QueueTurn
<1> HIDE DEF r
<1>2. ASSUME NEW i \in 1..Len(r)
      PROVE  \E k \in 1..Len(s) : r[i] = s[k]
  <2>1. CASE i = Len(s)
    <3>1. 1 \in 1..Len(s)
      BY <1>1
    <3>2. QED
      BY <1>1, <2>1, <3>1
  <2>2. CASE i # Len(s)
    <3>1. i \in 1..Len(s) - 1 /\ i + 1 \in 1..Len(s)
      BY <1>1, <2>2
    <3>2. QED
      BY <1>1, <3>1
  <2>3. QED
    BY <2>1, <2>2
<1>3. ASSUME NEW k \in 1..Len(s)
      PROVE  \E i \in 1..Len(r) : r[i] = s[k]
  <2>1. CASE k = 1
    <3>1. Len(s) \in 1..Len(r)
      BY <1>1
    <3>2. QED
      BY <1>1, <2>1, <3>1
  <2>2. CASE k # 1
    <3>1. k - 1 \in 1..Len(s) - 1 /\ k - 1 \in 1..Len(r) /\ (k - 1) + 1 = k
      BY <1>1, <2>2
    <3>2. QED
      BY <1>1, <3>1
  <2>3. QED
    BY <2>1, <2>2
<1>4. QED
  BY <1>2, <1>3 DEF r

-------------------------------------------------------------------------------
(* Types. *)

\* The process: what it has in hand, and that it has nothing if it does not run.
LoopOK ==
  /\ status \in {"down", "starting", "up"}
  /\ inbox \in Seq(Call)
  /\ dispatched \subseteq {c \in Call : c.op \in UnitObject}
  /\ call \in Call \cup {None}
  /\ step \in {"idle", "work", "reply", "signal", "finish", "flush"}
  /\ (step \in {"idle", "flush"}) = (call = None)
  /\ outbox \in Seq(Message)
  /\ status # "up" => step = "idle" /\ outbox = <<>> /\ sources = {}

TimerOK ==
  /\ sources \subseteq Nat \ {0}
  /\ inactivity_timeout \in Nat
  /\ in_shutdown \in BOOLEAN

\* The bus, and the history.
AccountOK ==
  /\ pending \subseteq Call
  /\ sent \in 0..MaxCalls
  /\ handled \subseteq Call
  /\ unanswered \subseteq Call
  /\ owed \in [Clients -> Int]
  /\ cut \subseteq Call

LEMMA TypeParts == TypeOK <=> LoopOK /\ TimerOK /\ AccountOK
BY DEF TypeOK, LoopOK, TimerOK, AccountOK

\* What is sent is a message.
LEMMA MessagesAreMessages ==
  ASSUME NEW c \in Call, NEW kind \in Answers \cup SignalOf(c)
  PROVE  [kind |-> kind, call |-> c] \in Message
BY DEF Message, SignalOf, Answers

\* The main loop and the worker thread keep the types of what they pass on.
LEMMA LoopStep == TypeOK /\ [Next]_vars => LoopOK'
<1> SUFFICES ASSUME TypeOK, [Next]_vars
             PROVE  LoopOK'
  OBVIOUS
<1>0. LoopOK
  BY TypeParts
<1> USE DEF LoopOK
<1>1. CASE UNCHANGED <<loopVars, outbox, sources>>
  BY <1>0, <1>1 DEF loopVars
<1>2. CASE ClientCall
  <2>1. inbox' \in Seq(Call)
    BY <1>0, <1>2, AppendProperties DEF ClientCall
  <2>2. QED
    BY <1>0, <1>2, <2>1 DEF ClientCall, timerVars
<1>3. CASE shim_bus_acquired
  BY <1>0, <1>3 DEF shim_bus_acquired, timerVars
<1>4. CASE ProcessEnds
  BY <1>4, EmptySeq DEF ProcessEnds
<1>5. CASE Take
  <2>1. inbox' \in Seq(Call) /\ call' \in Call
    BY <1>0, <1>5, HeadTailProperties DEF Take
  <2>2. QED
    BY <1>0, <1>5, <2>1, NoCallAssumption DEF Take, Idle
<1>6. CASE GlibAnswers
  <2>1. inbox' \in Seq(Call) /\ Head(inbox) \in Call
    BY <1>0, <1>6, HeadTailProperties DEF GlibAnswers
  <2>2. outbox' \in Seq(Message)
    BY <1>0, <1>6, <2>1, MessagesAreMessages, AppendProperties DEF GlibAnswers, Answers
  <2>3. QED
    BY <1>0, <1>6, <2>1, <2>2 DEF GlibAnswers, Idle, timerVars
<1>7. CASE Work
  BY <1>0, <1>7 DEF Work, timerVars
<1>8. CASE Reply
  <2>1. call \in Call
    BY <1>0, <1>8 DEF Reply
  <2>2. outbox' \in Seq(Message)
    BY <1>0, <1>8, <2>1, MessagesAreMessages, AppendProperties DEF Reply, Answers
  <2>3. QED
    BY <1>0, <1>8, <2>2 DEF Reply, timerVars
<1>9. CASE Signal
  <2>1. call \in Call
    BY <1>0, <1>9 DEF Signal
  <2>2. outbox' \in Seq(Message)
    BY <1>0, <1>9, <2>1, MessagesAreMessages, AppendProperties DEF Signal
  <2>3. QED
    BY <1>0, <1>9, <2>2 DEF Signal, timerVars
<1>10. CASE Finish
  BY <1>0, <1>10 DEF Finish
<1>11. CASE exit_on_inactivity
  BY <1>0, <1>11 DEF exit_on_inactivity, Idle
<1>12. CASE WorkerSends
  <2>1. outbox' \in Seq(Message)
    BY <1>0, <1>12, HeadTailProperties DEF WorkerSends
  <2>2. QED
    BY <1>0, <1>12, <2>1 DEF WorkerSends, loopVars, timerVars
<1>13. CASE shim_units_dispatch
  <2>1. inbox' \in Seq(Call) /\ Head(inbox) \in Call
    <3>1. inbox # <<>> /\ inbox' = Turned(inbox)
      BY <1>13 DEF shim_units_dispatch, Turned
    <3>2. QED
      BY <1>0, <3>1, QueueTurn
  <2>2. QED
    BY <1>0, <1>13, <2>1 DEF shim_units_dispatch, Idle
<1>14. QED
  BY <1>1, <1>2, <1>3, <1>4, <1>5, <1>6, <1>7, <1>8, <1>9, <1>10, <1>11, <1>12, <1>13
     DEF Next, Handler, shim_name_lost, Kill, Exit, vars, timerVars

\* The bus only accounts for calls.
LEMMA AccountStep == TypeOK /\ [Next]_vars => AccountOK'
<1> SUFFICES ASSUME TypeOK, [Next]_vars
             PROVE  AccountOK'
  OBVIOUS
<1>0. LoopOK /\ AccountOK
  BY TypeParts
<1> USE DEF AccountOK
<1>1. CASE UNCHANGED <<busVars, historyVars>>
  BY <1>0, <1>1 DEF busVars, historyVars
<1>2. CASE ClientCall
  <2>1. sent' \in 0..MaxCalls
    BY <1>0, <1>2, ManagerAssumption DEF ClientCall
  <2>2. QED
    BY <1>0, <1>2, <2>1 DEF ClientCall, historyVars
<1>3. ASSUME ProcessEnds, UNCHANGED cut
      PROVE  AccountOK'
  BY <1>0, <1>3 DEF ProcessEnds
<1>4. CASE Kill
  <2>1. \A i \in 1..Len(outbox) : outbox[i].call \in Call
    <3> SUFFICES ASSUME NEW i \in 1..Len(outbox)
                 PROVE  outbox[i].call \in Call
      OBVIOUS
    <3>1. outbox[i] \in Message
      BY <1>0, ElementOfSeq DEF LoopOK
    <3>2. QED
      BY <3>1 DEF Message
  <2>2. cut' \subseteq Call
    BY <1>0, <1>4, <2>1 DEF Kill, LoopOK
  <2>3. QED
    BY <1>0, <1>4, <2>2 DEF Kill, ProcessEnds
<1>5. CASE Work
  BY <1>0, <1>5 DEF Work, LoopOK, busVars
<1>6. CASE WorkerSends
  <2>1. Head(outbox) \in Message
    BY <1>0, <1>6, HeadTailProperties DEF WorkerSends, LoopOK
  <2>2. Head(outbox).call.client \in Clients
    BY <2>1 DEF Message, Call
  <2>3. owed' \in [Clients -> Int]
    BY <1>0, <1>6, <2>2 DEF WorkerSends
  <2>4. pending' \subseteq pending
    BY <1>6 DEF WorkerSends
  <2>5. QED
    BY <1>0, <1>6, <2>3, <2>4 DEF WorkerSends
<1>7. shim_bus_acquired \/ shim_units_dispatch \/ Take \/ GlibAnswers \/ Reply \/ Signal \/ Finish \/ exit_on_inactivity
        => UNCHANGED <<busVars, historyVars>>
  BY DEF shim_bus_acquired, shim_units_dispatch, Take, GlibAnswers, Reply, Signal, Finish, exit_on_inactivity
<1>8. QED
  BY <1>1, <1>2, <1>3, <1>4, <1>5, <1>6, <1>7 DEF Next, Handler, shim_name_lost, Exit, vars

-------------------------------------------------------------------------------
(* The timeout. *)

\* As long as there is one timeout at most, the next one gets an identifier of
\* its own, and is the only one.
LEMMA ActivityRenews ==
  ASSUME TimerOK, sources \subseteq {inactivity_timeout}, had_activity
  PROVE  /\ inactivity_timeout' \in Nat \ {0}
         /\ sources' = {inactivity_timeout'}
<1>1. Cardinality(sources) \in Nat
  <2>1. CASE sources = {}
    BY <2>1, FS_EmptySet
  <2>2. CASE sources = {inactivity_timeout}
    BY <2>2, FS_Singleton
  <2>3. QED
    BY <2>1, <2>2
<1>2. \E id \in 1..(Cardinality(sources) + 2) : id \notin sources \cup {inactivity_timeout}
  <2>1. 1 \in 1..(Cardinality(sources) + 2) /\ 2 \in 1..(Cardinality(sources) + 2)
    BY <1>1
  <2>2. 1 # inactivity_timeout \/ 2 # inactivity_timeout
    OBVIOUS
  <2>3. QED
    BY <2>1, <2>2
<1>3. NewSource \in 1..(Cardinality(sources) + 2)
  BY <1>2 DEF NewSource
<1>4. QED
  BY <1>1, <1>3 DEF had_activity

\* The types and the one timeout, which need each other: an identifier can be
\* new only among finitely many.
TimeoutInv == TypeOK /\ OneTimeout

LEMMA TimeoutStep == TimeoutInv /\ [Next]_vars => TimerOK' /\ OneTimeout'
<1> SUFFICES ASSUME TypeOK, OneTimeout, [Next]_vars
             PROVE  TimerOK' /\ OneTimeout'
  BY DEF TimeoutInv
<1>0. TimerOK /\ LoopOK
  BY TypeParts
<1> USE DEF TimerOK, OneTimeout
<1>1. CASE UNCHANGED <<timerVars, in_shutdown>>
  BY <1>0, <1>1 DEF timerVars
<1>2. CASE had_activity /\ UNCHANGED in_shutdown
  BY <1>0, <1>2, ActivityRenews
<1>3. CASE ProcessEnds
  BY <1>3 DEF ProcessEnds
<1>4. CASE Work
  <2>1. in_shutdown' \in BOOLEAN /\ (in_shutdown => in_shutdown')
    BY <1>4 DEF Work
  <2>2. QED
    BY <1>0, <1>4, <2>1 DEF Work, timerVars
<1>5. CASE exit_on_inactivity
  BY <1>0, <1>5 DEF exit_on_inactivity
<1>6. shim_units_dispatch \/ Take \/ Finish =>
        UNCHANGED in_shutdown /\ (had_activity \/ UNCHANGED timerVars)
  BY DEF shim_units_dispatch, Take, Finish
<1>7. ClientCall \/ shim_bus_acquired \/ GlibAnswers \/ Reply \/ Signal \/ WorkerSends
        => UNCHANGED <<timerVars, in_shutdown>>
  BY DEF ClientCall, shim_bus_acquired, GlibAnswers, Reply, Signal, WorkerSends
<1>8. QED
  BY <1>1, <1>2, <1>3, <1>4, <1>5, <1>6, <1>7
     DEF Next, Handler, shim_name_lost, Kill, Exit, vars

LEMMA TimeoutStays == Spec => []TimeoutInv
<1>1. Init => TimeoutInv
  <2> SUFFICES ASSUME Init
               PROVE  TimeoutInv
    OBVIOUS
  <2>1. inbox \in Seq(Call) /\ outbox \in Seq(Message)
    BY EmptySeq DEF Init
  <2>2. LoopOK
    BY <2>1 DEF Init, LoopOK
  <2>3. AccountOK
    BY ManagerAssumption DEF Init, AccountOK
  <2>4. TimerOK /\ OneTimeout
    BY DEF Init, TimerOK, OneTimeout
  <2>5. QED
    BY <2>2, <2>3, <2>4, TypeParts DEF TimeoutInv
<1>2. TimeoutInv /\ [Next]_vars => TimeoutInv'
  <2> SUFFICES ASSUME TimeoutInv, [Next]_vars
               PROVE  TimeoutInv'
    OBVIOUS
  <2>1. LoopOK' /\ TimerOK' /\ AccountOK' /\ OneTimeout'
    BY LoopStep, AccountStep, TimeoutStep DEF TimeoutInv
  <2>2. QED
    BY <2>1 DEF TimeoutInv, TypeOK, LoopOK, TimerOK, AccountOK
<1>3. QED
  BY <1>1, <1>2, PTL DEF Spec

\* Every variable keeps its type; in particular the timeout never ends a call
\* that is being handled.
THEOREM TypeCorrect == Spec => []TypeOK
BY TimeoutStays, PTL DEF TimeoutInv

\* There is one timeout at most, that of the last activity, and it is missing
\* only in a shutdown or before the first activity.
THEOREM TimeoutIsOne == Spec => []OneTimeout
BY TimeoutStays, PTL DEF TimeoutInv

-------------------------------------------------------------------------------
(* What was done is answered. *)

\* Serial numbers are given out in order, so the call that is made next is none
\* of those that anybody knows.
Numbered ==
  /\ \A c \in pending \cup handled \cup unanswered \cup dispatched : c.serial <= sent
  /\ \A i \in 1..Len(inbox) : inbox[i].serial <= sent
  /\ call # None => call.serial <= sent

\* What the process still has to take up, and what it is working on, nobody else
\* has answered.
Fresh ==
  /\ \A i \in 1..Len(inbox) : inbox[i] \notin unanswered
  /\ call \notin unanswered

\* A call that was handled and waits for its answer is in the handler, or its
\* answer is on the way.
OnTheWay ==
  \A c \in pending \cap handled :
    \/ c = call /\ step = "reply"
    \/ \E i \in 1..Len(outbox) : outbox[i].kind \in Answers /\ outbox[i].call = c

AnswersInv == Numbered /\ Fresh /\ OnTheWay /\ HandledIsAnswered

\* The numbers of the calls.
LEMMA NumberedStep == TypeOK /\ Numbered /\ [Next]_vars => Numbered'
<1> SUFFICES ASSUME TypeOK, Numbered, [Next]_vars
             PROVE  Numbered'
  OBVIOUS
<1>0. LoopOK /\ AccountOK /\ LoopOK' /\ AccountOK'
  BY TypeParts, LoopStep, AccountStep
<1> USE DEF Numbered
<1>1. CASE UNCHANGED <<busVars, handled, unanswered, inbox, dispatched, call>>
  BY <1>1 DEF busVars
<1>2. CASE ClientCall
  <2>1. PICK c \in Call : c.serial = sent' /\ inbox' = Append(inbox, c) /\ pending' = pending \cup {c}
    BY <1>2 DEF ClientCall
  <2>2. sent \in Int /\ sent' = sent + 1
    BY <1>0, <1>2 DEF ClientCall, AccountOK
  <2>3. \A d \in Call : d.serial \in Int
    BY ManagerAssumption DEF Call
  <2>4. \A i \in 1..Len(inbox') : inbox'[i].serial <= sent'
    <3> SUFFICES ASSUME NEW i \in 1..Len(inbox')
                 PROVE  inbox'[i].serial <= sent'
      OBVIOUS
    <3>1. CASE i \in 1..Len(inbox)
      <4>1. inbox'[i] = inbox[i] /\ inbox[i] \in Call
        BY <1>0, <2>1, <3>1, AppendProperties, ElementOfSeq DEF LoopOK
      <4>2. inbox[i].serial <= sent
        BY <3>1
      <4>3. QED
        BY <2>2, <2>3, <4>1, <4>2
    <3>2. CASE i = Len(inbox) + 1
      <4>1. inbox'[i] = c
        BY <1>0, <2>1, <3>2, AppendProperties DEF LoopOK
      <4>2. QED
        BY <2>1, <2>2, <4>1
    <3>3. QED
      BY <1>0, <2>1, <3>1, <3>2, AppendProperties, LenProperties DEF LoopOK
  <2>5. \A d \in pending' \cup handled' \cup unanswered' \cup dispatched' : d.serial <= sent'
    BY <1>0, <1>2, <2>1, <2>2, <2>3 DEF ClientCall, historyVars, AccountOK, LoopOK
  <2>6. call' # None => call'.serial <= sent'
    BY <1>0, <1>2, <2>2, <2>3 DEF ClientCall, LoopOK
  <2>7. QED
    BY <2>4, <2>5, <2>6
<1>3. CASE ProcessEnds
  BY <1>3 DEF ProcessEnds
<1>4. CASE Take \/ GlibAnswers
  <2>1. /\ inbox # <<>> /\ inbox' = Tail(inbox)
        /\ UNCHANGED <<busVars, handled, unanswered>>
        /\ call' = Head(inbox) \/ call' = call
        /\ dispatched' \subseteq dispatched
    BY <1>4 DEF Take, GlibAnswers, historyVars
  <2>2. /\ Head(inbox) = inbox[1] /\ 1 \in 1..Len(inbox)
        /\ \A i \in 1..Len(inbox') : inbox'[i] = inbox[i + 1] /\ i + 1 \in 1..Len(inbox)
    BY <1>0, <2>1, HeadTailProperties, LenProperties, EmptySeq DEF LoopOK
  <2>3. QED
    BY <2>1, <2>2 DEF busVars
<1>5. CASE Work
  BY <1>0, <1>5 DEF Work, LoopOK, busVars
<1>6. CASE WorkerSends
  <2>1. pending' \subseteq pending /\ UNCHANGED <<sent, handled, unanswered, inbox, dispatched, call>>
    BY <1>6 DEF WorkerSends, loopVars
  <2>2. QED
    BY <2>1
<1>7. shim_bus_acquired \/ Reply \/ Signal \/ exit_on_inactivity
        => UNCHANGED <<busVars, handled, unanswered, inbox, dispatched, call>>
  BY DEF shim_bus_acquired, Reply, Signal, exit_on_inactivity, historyVars
<1>8. CASE Finish
  BY <1>8 DEF Finish, busVars, historyVars
<1>9. CASE shim_units_dispatch
  <2>1. /\ inbox # <<>> /\ inbox' = Turned(inbox)
        /\ dispatched' = dispatched \cup {Head(inbox)}
        /\ UNCHANGED <<busVars, handled, unanswered, call>>
    BY <1>9 DEF shim_units_dispatch, historyVars, Turned
  <2>2. \A i \in 1..Len(inbox') : \E k \in 1..Len(inbox) : inbox'[i] = inbox[k]
    BY <1>0, <2>1, TurnKeeps DEF LoopOK
  <2>3. Head(inbox) = inbox[1] /\ 1 \in 1..Len(inbox)
    BY <1>0, <2>1, QueueTail DEF LoopOK
  <2>4. QED
    BY <2>1, <2>2, <2>3 DEF busVars
<1>10. QED
  BY <1>1, <1>2, <1>3, <1>4, <1>5, <1>6, <1>7, <1>8, <1>9
     DEF Next, Handler, shim_name_lost, Kill, Exit, vars, loopVars, historyVars

\* A call is either still in the process or answered by the bus: the bus answers
\* when the process ends and has forgotten everything.
LEMMA FreshStep == TypeOK /\ Numbered /\ Fresh /\ [Next]_vars => Fresh'
<1> SUFFICES ASSUME TypeOK, Numbered, Fresh, [Next]_vars
             PROVE  Fresh'
  OBVIOUS
<1>0. LoopOK /\ AccountOK
  BY TypeParts
<1> USE DEF Fresh
<1>1. CASE UNCHANGED <<inbox, call, unanswered>>
  BY <1>1
<1>2. CASE ClientCall
  <2>1. PICK c \in Call : c.serial = sent' /\ inbox' = Append(inbox, c)
    BY <1>2 DEF ClientCall
  <2>2. sent \in Int /\ sent' = sent + 1 /\ UNCHANGED <<call, unanswered>>
    BY <1>0, <1>2 DEF ClientCall, AccountOK, historyVars
  <2>3. c \notin unanswered
    BY <2>1, <2>2 DEF Numbered
  <2>4. ASSUME NEW i \in 1..Len(inbox')
        PROVE  inbox'[i] \notin unanswered
    <3>1. CASE i \in 1..Len(inbox)
      BY <1>0, <2>1, <3>1, AppendProperties DEF LoopOK
    <3>2. CASE i = Len(inbox) + 1
      BY <1>0, <2>1, <2>3, <3>2, AppendProperties DEF LoopOK
    <3>3. QED
      BY <1>0, <2>1, <3>1, <3>2, AppendProperties, LenProperties DEF LoopOK
  <2>5. QED
    BY <2>2, <2>4
<1>3. CASE ProcessEnds
  <2>1. None \notin unanswered'
    BY <1>0, <1>3, NoCallAssumption DEF ProcessEnds, AccountOK
  <2>2. QED
    BY <1>3, <2>1 DEF ProcessEnds
<1>4. CASE Take \/ GlibAnswers
  <2>1. /\ inbox # <<>> /\ inbox' = Tail(inbox)
        /\ UNCHANGED unanswered
        /\ call' = Head(inbox) \/ call' = call
    BY <1>4 DEF Take, GlibAnswers, historyVars
  <2>2. /\ Head(inbox) = inbox[1] /\ 1 \in 1..Len(inbox)
        /\ \A i \in 1..Len(inbox') : inbox'[i] = inbox[i + 1] /\ i + 1 \in 1..Len(inbox)
    BY <1>0, <2>1, HeadTailProperties, LenProperties, EmptySeq DEF LoopOK
  <2>3. QED
    BY <2>1, <2>2
<1>5. CASE Finish
  <2>1. None \notin unanswered'
    BY <1>0, <1>5, NoCallAssumption DEF Finish, historyVars, AccountOK
  <2>2. QED
    BY <1>5, <2>1 DEF Finish, historyVars
<1>6. shim_bus_acquired \/ Work \/ Reply \/ Signal \/ exit_on_inactivity \/ WorkerSends
        => UNCHANGED <<inbox, call, unanswered>>
  BY DEF shim_bus_acquired, Work, Reply, Signal, exit_on_inactivity, WorkerSends, historyVars,
         loopVars
<1>7. CASE shim_units_dispatch
  <2>1. /\ inbox # <<>> /\ inbox' = Turned(inbox)
        /\ UNCHANGED <<call, unanswered>>
    BY <1>7 DEF shim_units_dispatch, historyVars, Turned
  <2>2. \A i \in 1..Len(inbox') : \E k \in 1..Len(inbox) : inbox'[i] = inbox[k]
    BY <1>0, <2>1, TurnKeeps DEF LoopOK
  <2>3. QED
    BY <2>1, <2>2
<1>8. QED
  BY <1>1, <1>2, <1>3, <1>4, <1>5, <1>6, <1>7
     DEF Next, Handler, shim_name_lost, Kill, Exit, vars, loopVars, historyVars

\* Whatever is appended to the messages, what is on the way stays there.
LEMMA AppendKeeps ==
  ASSUME NEW S, NEW s \in Seq(S), NEW m \in S
  PROVE  /\ \A i \in 1..Len(s) : i \in 1..Len(Append(s, m)) /\ Append(s, m)[i] = s[i]
         /\ Len(Append(s, m)) \in 1..Len(Append(s, m))
         /\ Append(s, m)[Len(Append(s, m))] = m
BY AppendProperties, LenProperties

\* No step loses the answer to a call that was handled, but one that ends the
\* process.
LEMMA OnTheWayStep == TypeOK /\ Numbered /\ OnTheWay /\ [Next]_vars => OnTheWay'
<1> SUFFICES ASSUME TypeOK, Numbered, OnTheWay, [Next]_vars
             PROVE  OnTheWay'
  OBVIOUS
<1>0. LoopOK /\ AccountOK
  BY TypeParts
<1>1. CASE UNCHANGED <<pending, handled, outbox>> /\ (step # "reply" \/ UNCHANGED <<step, call>>)
  BY <1>1 DEF OnTheWay
<1>2. CASE ClientCall
  <2>1. PICK c \in Call : c.serial = sent' /\ pending' = pending \cup {c}
    BY <1>2 DEF ClientCall
  <2>2. sent \in Int /\ sent' = sent + 1 /\ UNCHANGED <<call, step, outbox, handled>>
    BY <1>0, <1>2 DEF ClientCall, AccountOK, historyVars
  <2>3. c \notin handled
    BY <2>1, <2>2 DEF Numbered
  <2>4. QED
    BY <2>1, <2>2, <2>3 DEF OnTheWay
<1>3. CASE ProcessEnds
  BY <1>3 DEF ProcessEnds, OnTheWay
<1>4. CASE GlibAnswers
  <2>1. Head(inbox) \in Call
    BY <1>0, <1>4, HeadTailProperties DEF GlibAnswers, LoopOK
  <2>2. /\ [kind |-> "reply", call |-> Head(inbox)] \in Message
        /\ outbox' = Append(outbox, [kind |-> "reply", call |-> Head(inbox)])
        /\ step # "reply" /\ UNCHANGED <<pending, handled>>
    BY <1>4, <2>1, MessagesAreMessages DEF GlibAnswers, Answers, Idle, busVars, historyVars
  <2>3. \A i \in 1..Len(outbox) : i \in 1..Len(outbox') /\ outbox'[i] = outbox[i]
    BY <1>0, <2>2, AppendKeeps DEF LoopOK
  <2>4. QED
    BY <2>2, <2>3 DEF OnTheWay
<1>5. CASE Work
  BY <1>5 DEF Work, OnTheWay, busVars
<1>6. CASE Reply
  <2> DEFINE m == [kind |-> IF Succeeds(call) THEN "reply" ELSE "error", call |-> call]
  <2>1. call \in Call
    BY <1>0, <1>6 DEF Reply, LoopOK
  <2>2. /\ m \in Message /\ m.kind \in Answers /\ m.call = call
        /\ outbox' = Append(outbox, m)
        /\ UNCHANGED <<pending, handled, call>>
    BY <1>6, <2>1, MessagesAreMessages DEF Reply, Answers, busVars, historyVars
  <2> HIDE DEF m
  <2>3. /\ \A i \in 1..Len(outbox) : i \in 1..Len(outbox') /\ outbox'[i] = outbox[i]
        /\ Len(outbox') \in 1..Len(outbox') /\ outbox'[Len(outbox')] = m
    BY <1>0, <2>2, AppendKeeps DEF LoopOK
  <2>4. QED
    BY <2>2, <2>3 DEF OnTheWay
<1>7. CASE Signal
  <2>1. call \in Call
    BY <1>0, <1>7 DEF Signal, LoopOK
  <2>2. PICK kind \in SignalOf(call) : outbox' = Append(outbox, [kind |-> kind, call |-> call])
    BY <1>7 DEF Signal
  <2>3. [kind |-> kind, call |-> call] \in Message
    BY <2>1, MessagesAreMessages
  <2>4. \A i \in 1..Len(outbox) : i \in 1..Len(outbox') /\ outbox'[i] = outbox[i]
    BY <1>0, <2>2, <2>3, AppendKeeps DEF LoopOK
  <2>5. step = "signal" /\ UNCHANGED <<pending, handled>>
    BY <1>7 DEF Signal, busVars, historyVars
  <2>6. QED
    BY <2>4, <2>5 DEF OnTheWay
<1>8. CASE WorkerSends
  <2>1. /\ outbox # <<>> /\ outbox' = Tail(outbox)
        /\ UNCHANGED <<call, step, handled>>
        /\ pending' = IF Head(outbox).kind \in Answers THEN pending \ {Head(outbox).call} ELSE pending
    BY <1>8 DEF WorkerSends, loopVars
  <2>2. /\ Head(outbox) = outbox[1]
        /\ \A i \in 1..Len(outbox) : i # 1 => i - 1 \in 1..Len(outbox') /\ outbox'[i - 1] = outbox[i]
    BY <1>0, <2>1, HeadTailProperties, LenProperties, EmptySeq DEF LoopOK
  <2>3. ASSUME NEW c \in pending' \cap handled', ~(c = call' /\ step' = "reply")
        PROVE  \E i \in 1..Len(outbox') : outbox'[i].kind \in Answers /\ outbox'[i].call = c
    <3>1. PICK i \in 1..Len(outbox) : outbox[i].kind \in Answers /\ outbox[i].call = c
      BY <2>1, <2>3 DEF OnTheWay
    <3>2. i # 1
      BY <2>1, <2>2, <2>3, <3>1
    <3>3. QED
      BY <2>2, <3>1, <3>2
  <2>4. QED
    BY <2>3 DEF OnTheWay
<1>9. shim_units_dispatch \/ Take \/ Finish \/ shim_bus_acquired \/ exit_on_inactivity =>
        UNCHANGED <<pending, handled, outbox>> /\ (step # "reply" \/ UNCHANGED <<step, call>>)
  BY DEF shim_units_dispatch, Take, Finish, shim_bus_acquired, exit_on_inactivity, Idle, busVars, historyVars
<1>10. QED
  BY <1>1, <1>2, <1>3, <1>4, <1>5, <1>6, <1>7, <1>8, <1>9
     DEF Next, Handler, shim_name_lost, Kill, Exit, vars, busVars, loopVars, historyVars

\* What the shim has done it also answers, unless somebody kills it: the process
\* never ends by itself with an answer on the way.
THEOREM HandledAreAnswered == Spec => []HandledIsAnswered
<1>1. Init => AnswersInv
  BY ManagerAssumption, NoCallAssumption
     DEF Init, AnswersInv, Numbered, Fresh, OnTheWay, HandledIsAnswered
<1>2. TypeOK /\ AnswersInv /\ [Next]_vars => AnswersInv'
  <2> SUFFICES ASSUME TypeOK, AnswersInv, [Next]_vars
               PROVE  AnswersInv'
    OBVIOUS
  <2>0. LoopOK /\ AccountOK
    BY TypeParts
  <2>1. Numbered' /\ Fresh' /\ OnTheWay'
    BY NumberedStep, FreshStep, OnTheWayStep DEF AnswersInv
  <2>2. HandledIsAnswered'
    <3> USE DEF AnswersInv, HandledIsAnswered
    <3>1. CASE UNCHANGED <<handled, unanswered, cut>>
      BY <3>1
    <3>2. CASE Work
      <4>1. call \notin unanswered
        BY DEF Fresh
      <4>2. QED
        BY <3>2, <4>1 DEF Work
    <3>3. CASE Kill
      <4>1. pending \cap handled \subseteq cut'
        BY <2>0, <3>3, NoCallAssumption DEF OnTheWay, Kill, LoopOK, AccountOK
      <4>2. QED
        BY <3>3, <4>1 DEF Kill, ProcessEnds
    <3>4. CASE shim_name_lost \/ Exit
      <4>1. outbox = <<>> /\ step # "reply"
        BY <2>0, <3>4 DEF shim_name_lost, Exit, LoopOK
      <4>2. pending \cap handled = {}
        BY <4>1 DEF OnTheWay
      <4>3. QED
        BY <3>4, <4>2 DEF shim_name_lost, Exit, ProcessEnds
    <3>5. ClientCall \/ shim_bus_acquired \/ shim_units_dispatch \/ Take \/ GlibAnswers \/ Reply \/ Signal \/ Finish
          \/ exit_on_inactivity \/ WorkerSends => UNCHANGED <<handled, unanswered, cut>>
      BY DEF ClientCall, shim_bus_acquired, shim_units_dispatch, Take, GlibAnswers, Reply, Signal, Finish,
             exit_on_inactivity, WorkerSends, historyVars
    <3>6. QED
      BY <3>1, <3>2, <3>3, <3>4, <3>5 DEF Next, Handler, vars, historyVars
  <2>3. QED
    BY <2>1, <2>2 DEF AnswersInv
<1>3. QED
  BY <1>1, <1>2, TypeCorrect, PTL DEF Spec, AnswersInv

-------------------------------------------------------------------------------
(* Jobs are reported in step. *)

Replied(c) == [kind |-> "reply", call |-> c]
Removed(c) == [kind |-> "JobRemoved", call |-> c]

\* The handler has replied to a job and not yet reported it removed.
Reporting == step = "signal" /\ call.op \in Jobs

\* A reply that names a job is followed by the report of that job at once, in
\* the queue or by the next step of the handler; and a report by itself is
\* that of a job whose reply was written last.
Paired ==
  /\ \A i \in 1..Len(outbox) : outbox[i].kind = "reply" /\ outbox[i].call.op \in Jobs =>
       IF i < Len(outbox) THEN outbox[i + 1] = Removed(outbox[i].call)
       ELSE Reporting /\ call = outbox[i].call
  /\ \A i \in 1..Len(outbox) - 1 : outbox[i + 1].kind = "JobRemoved" =>
       outbox[i + 1].call.op \in Jobs /\ outbox[i] = Replied(outbox[i + 1].call)
  /\ Reporting /\ outbox # <<>> => outbox[Len(outbox)] = Replied(call)

\* The next report that is written is c's, without a reply before it.
ReportIsNext(c) ==
  IF outbox = <<>> THEN Reporting /\ call.client = c
  ELSE outbox[1].kind = "JobRemoved" /\ outbox[1].call.client = c

CutOff == {d.client : d \in cut}

Owed == \A c \in Clients \ CutOff : owed[c] = IF ReportIsNext(c) THEN 1 ELSE 0

\* The order in which the handler queues messages.
LEMMA PairedStep == TypeOK /\ Paired /\ [Next]_vars => Paired'
<1> SUFFICES ASSUME TypeOK, Paired, [Next]_vars
             PROVE  Paired'
  OBVIOUS
<1>0. LoopOK /\ outbox \in Seq(Message)
  BY TypeParts DEF LoopOK
<1>1. CASE outbox' = <<>>
  BY <1>1, EmptySeq DEF Paired
<1>2. ASSUME NEW m \in Message, outbox' = Append(outbox, m), ~Reporting,
             m.kind # "JobRemoved",
             IF m.kind = "reply" /\ m.call.op \in Jobs
             THEN Reporting' /\ call' = m.call /\ m = Replied(m.call)
             ELSE ~Reporting'
      PROVE  Paired'
  <2>1. /\ Len(outbox) \in Nat /\ Len(outbox') = Len(outbox) + 1
        /\ \A i \in 1..Len(outbox) : outbox'[i] = outbox[i]
        /\ outbox'[Len(outbox) + 1] = m
    BY <1>0, <1>2, QueueAppend
  <2>2. QED
    BY <1>2, <2>1 DEF Paired
<1>3. CASE GlibAnswers
  <2>1. Head(inbox) \in Call /\ Head(inbox).op = "Ping"
    BY <1>0, <1>3, QueueTail DEF GlibAnswers, LoopOK
  <2>2. Replied(Head(inbox)) \in Message
    BY <2>1, MessagesAreMessages DEF Replied, Answers
  <2>3. ~Reporting /\ ~Reporting' /\ outbox' = Append(outbox, Replied(Head(inbox)))
    BY <1>3 DEF GlibAnswers, Idle, Reporting, Replied
  <2>4. QED
    BY <1>2, <2>1, <2>2, <2>3 DEF Replied, Jobs
<1>4. CASE Reply
  <2> DEFINE m == [kind |-> IF Succeeds(call) THEN "reply" ELSE "error", call |-> call]
  <2>1. call \in Call /\ m \in Message
    BY <1>0, <1>4, MessagesAreMessages DEF Reply, LoopOK, Answers
  <2>2. step = "reply" /\ outbox' = Append(outbox, m) /\ UNCHANGED call
    BY <1>4 DEF Reply
  <2>3. step' = "signal" <=> SignalOf(call) # {}
    BY <1>4 DEF Reply
  <2>4. ~Reporting /\ (Reporting' <=> Succeeds(call) /\ call.op \in Jobs)
    BY <2>2, <2>3 DEF Reporting, SignalOf
  <2>5. QED
    BY <1>2, <2>1, <2>2, <2>4 DEF Replied
<1>5. CASE Signal
  <2>1. call \in Call /\ UNCHANGED call /\ step = "signal" /\ ~Reporting'
    BY <1>0, <1>5 DEF Signal, LoopOK, Reporting
  <2>2. PICK kind \in SignalOf(call) : outbox' = Append(outbox, [kind |-> kind, call |-> call])
    BY <1>5 DEF Signal
  <2> DEFINE m == [kind |-> kind, call |-> call]
  <2>3. m \in Message
    BY <2>1, MessagesAreMessages
  <2>4. /\ Len(outbox) \in Nat /\ Len(outbox') = Len(outbox) + 1
        /\ outbox = <<>> <=> Len(outbox) = 0
        /\ \A i \in 1..Len(outbox) : outbox'[i] = outbox[i]
        /\ outbox'[Len(outbox) + 1] = m
    BY <1>0, <2>2, <2>3, QueueAppend
  <2>5. IF Reporting THEN m = Removed(call) ELSE m.kind = "UnitRemoved"
    BY <2>1 DEF SignalOf, Reporting, Removed, Jobs
  <2> HIDE DEF m
  <2>6. CASE Reporting
    <3>1. m.kind = "JobRemoved" /\ m.call = call /\ call.op \in Jobs
      BY <2>5, <2>6 DEF Removed, Reporting
    <3>2. \A i \in 1..Len(outbox') : outbox'[i].kind = "reply" /\ outbox'[i].call.op \in Jobs =>
            i < Len(outbox') /\ outbox'[i + 1] = Removed(outbox'[i].call)
      BY <2>4, <2>5, <2>6, <3>1 DEF Paired
    <3>3. \A i \in 1..Len(outbox') - 1 : outbox'[i + 1].kind = "JobRemoved" =>
            outbox'[i + 1].call.op \in Jobs /\ outbox'[i] = Replied(outbox'[i + 1].call)
      BY <2>4, <2>6, <3>1 DEF Paired
    <3>4. QED
      BY <2>1, <3>2, <3>3 DEF Paired
  <2>7. CASE ~Reporting
    BY <2>1, <2>4, <2>5, <2>7 DEF Paired
  <2>8. QED
    BY <2>6, <2>7
<1>6. CASE WorkerSends
  <2>1. /\ outbox # <<>> /\ outbox' = Tail(outbox)
        /\ UNCHANGED <<call, step>>
    BY <1>6 DEF WorkerSends, loopVars
  <2>2. /\ Len(outbox) \in Nat \ {0} /\ Len(outbox') = Len(outbox) - 1
        /\ outbox' = <<>> <=> Len(outbox) = 1
        /\ \A i \in 1..Len(outbox) - 1 : outbox'[i] = outbox[i + 1]
    BY <1>0, <2>1, QueueTail
  <2>3. (Reporting' <=> Reporting) /\ (outbox' # <<>> => outbox'[Len(outbox')] = outbox[Len(outbox)])
    BY <2>1, <2>2 DEF Reporting
  <2>4. \A i \in 1..Len(outbox') : i + 1 \in 1..Len(outbox) /\ outbox'[i] = outbox[i + 1]
    BY <2>2
  <2>5. \A i \in 1..Len(outbox') : outbox'[i].kind = "reply" /\ outbox'[i].call.op \in Jobs =>
          IF i < Len(outbox') THEN outbox'[i + 1] = Removed(outbox'[i].call)
          ELSE Reporting /\ call = outbox'[i].call
    BY <2>2, <2>4 DEF Paired
  <2>6. \A i \in 1..Len(outbox') - 1 : outbox'[i + 1].kind = "JobRemoved" =>
          outbox'[i + 1].call.op \in Jobs /\ outbox'[i] = Replied(outbox'[i + 1].call)
    BY <2>2, <2>4 DEF Paired
  <2>7. QED
    BY <2>1, <2>3, <2>5, <2>6 DEF Paired
<1>7. CASE shim_units_dispatch \/ Take \/ Work \/ Finish \/ exit_on_inactivity
  <2>1. UNCHANGED outbox /\ ~Reporting /\ ~Reporting'
    BY <1>7 DEF shim_units_dispatch, Take, Work, Finish, exit_on_inactivity, Idle, Reporting
  <2>2. QED
    BY <2>1 DEF Paired
<1>8. CASE ClientCall \/ shim_bus_acquired \/ UNCHANGED vars
  <2>1. UNCHANGED <<outbox, step, call>>
    BY <1>8 DEF ClientCall, shim_bus_acquired, vars, loopVars
  <2>2. QED
    BY <2>1 DEF Paired, Reporting
<1>9. shim_name_lost \/ Kill \/ Exit => outbox' = <<>>
  BY DEF shim_name_lost, Kill, Exit, ProcessEnds
<1>10. QED
  BY <1>1, <1>3, <1>4, <1>5, <1>6, <1>7, <1>8, <1>9 DEF Next, Handler

\* Who is owed a report, whoever writes the messages and whenever.
LEMMA OwedStep == TypeOK /\ Paired /\ Owed /\ [Next]_vars => Owed'
<1> SUFFICES ASSUME TypeOK, Paired, Owed, [Next]_vars
             PROVE  Owed'
  OBVIOUS
<1>0. LoopOK /\ AccountOK /\ outbox \in Seq(Message)
  BY TypeParts DEF LoopOK
<1>1. ASSUME UNCHANGED <<owed, cut>>, \A c \in Clients : ReportIsNext(c)' <=> ReportIsNext(c)
      PROVE  Owed'
  BY <1>1 DEF Owed, CutOff
<1>2. ASSUME NEW m \in Message, outbox' = Append(outbox, m), UNCHANGED <<owed, cut>>,
             outbox = <<>> =>
               \A c \in Clients : Reporting /\ call.client = c <=>
                                  m.kind = "JobRemoved" /\ m.call.client = c
      PROVE  Owed'
  <2>1. /\ outbox' # <<>>
        /\ outbox = <<>> <=> Len(outbox) = 0
        /\ Len(outbox) \in Nat
        /\ outbox'[1] = IF outbox = <<>> THEN m ELSE outbox[1]
    BY <1>0, <1>2, QueueAppend
  <2>2. QED
    BY <1>1, <1>2, <2>1 DEF ReportIsNext
<1>3. CASE GlibAnswers
  <2>1. Head(inbox) \in Call
    BY <1>0, <1>3, QueueTail DEF GlibAnswers, LoopOK
  <2>2. Replied(Head(inbox)) \in Message
    BY <2>1, MessagesAreMessages DEF Replied, Answers
  <2>3. ~Reporting /\ outbox' = Append(outbox, Replied(Head(inbox))) /\ UNCHANGED <<owed, cut>>
    BY <1>3 DEF GlibAnswers, Idle, Reporting, Replied, historyVars
  <2>4. QED
    BY <1>2, <2>2, <2>3 DEF Replied
<1>4. CASE Reply
  <2> DEFINE m == [kind |-> IF Succeeds(call) THEN "reply" ELSE "error", call |-> call]
  <2>1. m \in Message
    BY <1>0, <1>4, MessagesAreMessages DEF Reply, LoopOK, Answers
  <2>2. ~Reporting /\ outbox' = Append(outbox, m) /\ UNCHANGED <<owed, cut>>
    BY <1>4 DEF Reply, Reporting, historyVars
  <2>3. m.kind # "JobRemoved"
    OBVIOUS
  <2>4. QED
    BY <1>2, <2>1, <2>2, <2>3
<1>5. CASE Signal
  <2>1. call \in Call /\ step = "signal" /\ UNCHANGED <<owed, cut>>
    BY <1>0, <1>5 DEF Signal, LoopOK, historyVars
  <2>2. PICK kind \in SignalOf(call) : outbox' = Append(outbox, [kind |-> kind, call |-> call])
    BY <1>5 DEF Signal
  <2>3. [kind |-> kind, call |-> call] \in Message
    BY <2>1, MessagesAreMessages
  <2>4. Reporting <=> kind = "JobRemoved"
    BY <2>1 DEF Reporting, SignalOf, Jobs
  <2>5. QED
    BY <1>2, <2>1, <2>2, <2>3, <2>4
<1>6. CASE WorkerSends
  <2> DEFINE m == Head(outbox)
  <2>1. /\ outbox # <<>> /\ outbox' = Tail(outbox)
        /\ UNCHANGED <<call, step, cut>>
        /\ owed' = IF m.kind = "reply" /\ m.call.op \in Jobs
                   THEN [owed EXCEPT ![m.call.client] = @ + 1]
                   ELSE IF m.kind = "JobRemoved" THEN [owed EXCEPT ![m.call.client] = @ - 1]
                   ELSE owed
    BY <1>6 DEF WorkerSends, loopVars
  <2>2. /\ m = outbox[1] /\ m \in Message
        /\ Len(outbox) \in Nat \ {0}
        /\ outbox' = <<>> <=> Len(outbox) = 1
        /\ Len(outbox) > 1 => outbox'[1] = outbox[2]
    BY <1>0, <2>1, QueueTail
  <2>3. m.call.client \in Clients
    BY <2>2 DEF Message, Call
  <2> HIDE DEF m
  <2>4. \A c \in Clients \ CutOff :
          owed[c] = IF m.kind = "JobRemoved" /\ m.call.client = c THEN 1 ELSE 0
    BY <2>1, <2>2 DEF Owed, ReportIsNext
  <2>5. ASSUME NEW c \in Clients
        PROVE  ReportIsNext(c)' <=> m.kind = "reply" /\ m.call.op \in Jobs /\ m.call.client = c
    <3>1. CASE Len(outbox) = 1
      <4>1. m.kind = "reply" /\ m.call.op \in Jobs => Reporting /\ call = m.call
        BY <2>2, <3>1 DEF Paired
      <4>2. Reporting => m = Replied(call)
        BY <2>1, <2>2, <3>1 DEF Paired
      <4>3. Reporting => m.kind = "reply" /\ m.call.op \in Jobs /\ m.call = call
        BY <4>2 DEF Reporting, Replied
      <4>4. ReportIsNext(c)' <=> Reporting /\ call.client = c
        BY <2>1, <2>2, <3>1 DEF ReportIsNext, Reporting
      <4>5. QED
        BY <4>1, <4>3, <4>4
    <3>2. CASE Len(outbox) > 1
      <4>1. 1 \in 1..Len(outbox) /\ 1 \in 1..Len(outbox) - 1
        BY <2>2, <3>2
      <4>2. m.kind = "reply" /\ m.call.op \in Jobs => outbox[2] = Removed(m.call)
        BY <2>2, <3>2, <4>1 DEF Paired
      <4>3. outbox[2].kind = "JobRemoved" =>
              outbox[2].call.op \in Jobs /\ m = Replied(outbox[2].call)
        BY <2>2, <4>1 DEF Paired
      <4>4. m.kind = "reply" /\ m.call.op \in Jobs =>
              outbox[2].kind = "JobRemoved" /\ outbox[2].call = m.call
        BY <4>2 DEF Removed
      <4>5. outbox[2].kind = "JobRemoved" =>
              m.kind = "reply" /\ m.call = outbox[2].call /\ m.call.op \in Jobs
        BY <4>3 DEF Replied
      <4>6. QED
        BY <2>2, <3>2, <4>4, <4>5 DEF ReportIsNext
    <3>3. Len(outbox) = 1 \/ Len(outbox) > 1
      <4>1. ASSUME NEW n \in Nat \ {0}
            PROVE  n = 1 \/ n > 1
        OBVIOUS
      <4>2. QED
        BY <2>2, <4>1
    <3>4. QED
      BY <3>1, <3>2, <3>3
  <2>6. ASSUME NEW c \in Clients \ CutOff
        PROVE  owed'[c] = IF ReportIsNext(c)' THEN 1 ELSE 0
    BY <1>0, <2>1, <2>3, <2>4, <2>5 DEF AccountOK
  <2>7. QED
    BY <2>1, <2>6 DEF Owed, CutOff
<1>7. CASE shim_name_lost \/ Exit
  <2>1. /\ outbox = <<>> /\ ~Reporting /\ outbox' = <<>> /\ ~Reporting'
        /\ UNCHANGED <<owed, cut>>
    BY <1>0, <1>7 DEF shim_name_lost, Exit, ProcessEnds, LoopOK, Reporting
  <2>2. QED
    BY <1>1, <2>1 DEF ReportIsNext
<1>8. CASE Kill
  <2>1. /\ outbox' = <<>> /\ ~Reporting' /\ UNCHANGED owed
        /\ CutOff \subseteq CutOff'
        /\ \A i \in 1..Len(outbox) : outbox[i].call.client \in CutOff'
        /\ call # None => call.client \in CutOff'
    BY <1>8 DEF Kill, ProcessEnds, Reporting, CutOff
  <2>2. ASSUME NEW c \in Clients \ CutOff'
        PROVE  ~ReportIsNext(c)
    <3>1. outbox # <<>> => 1 \in 1..Len(outbox)
      BY <1>0, QueueTail
    <3>2. Reporting => call # None
      BY <1>0 DEF Reporting, LoopOK
    <3>3. CASE outbox = <<>>
      BY <2>1, <2>2, <3>2, <3>3 DEF ReportIsNext
    <3>4. CASE outbox # <<>>
      <4>1. outbox[1].call.client \in CutOff'
        BY <2>1, <3>1, <3>4
      <4>2. QED
        BY <2>2, <3>4, <4>1 DEF ReportIsNext
    <3>5. QED
      BY <3>3, <3>4
  <2>3. QED
    BY <2>1, <2>2 DEF Owed, ReportIsNext
<1>9. CASE shim_units_dispatch \/ Take \/ Work \/ Finish \/ exit_on_inactivity
  <2>1. UNCHANGED <<outbox, owed, cut>> /\ ~Reporting /\ ~Reporting'
    BY <1>9 DEF shim_units_dispatch, Take, Work, Finish, exit_on_inactivity, Idle, Reporting, historyVars
  <2>2. QED
    BY <1>1, <2>1 DEF ReportIsNext
<1>10. CASE ClientCall \/ shim_bus_acquired \/ UNCHANGED vars
  <2>1. UNCHANGED <<outbox, step, call, owed, cut>>
    BY <1>10 DEF ClientCall, shim_bus_acquired, vars, loopVars, historyVars
  <2>2. QED
    BY <1>1, <2>1 DEF ReportIsNext, Reporting
<1>11. QED
  BY <1>3, <1>4, <1>5, <1>6, <1>7, <1>8, <1>9, <1>10 DEF Next, Handler

\* A client that nobody cut off is told of the end of each job after it was told
\* of the job, and before it is told of the next one.
THEOREM JobsAreInStep == Spec => []JobsInStep
<1>1. Init => Paired /\ Owed
  BY EmptySeq DEF Init, Paired, Owed, CutOff, ReportIsNext, Reporting
<1>2. TypeOK /\ Paired /\ Owed /\ [Next]_vars => Paired' /\ Owed'
  BY PairedStep, OwedStep
<1>3. Owed => JobsInStep
  BY DEF Owed, JobsInStep, CutOff
<1>4. QED
  BY <1>1, <1>2, <1>3, TypeCorrect, PTL DEF Spec

-------------------------------------------------------------------------------
(* One answer per call. *)

InHand == step \in {"work", "reply"}

\* No two places have the same call.
Distinct ==
  /\ \A i, j \in 1..Len(inbox) : inbox[i] = inbox[j] => i = j
  /\ \A i, j \in 1..Len(outbox) :
       outbox[i].kind \in Answers /\ outbox[j].kind \in Answers /\ outbox[i].call = outbox[j].call
         => i = j
  /\ \A i \in 1..Len(inbox), j \in 1..Len(outbox) :
       outbox[j].kind \in Answers => inbox[i] # outbox[j].call
  /\ InHand =>
       /\ \A i \in 1..Len(inbox) : inbox[i] # call
       /\ \A j \in 1..Len(outbox) : outbox[j].kind \in Answers => outbox[j].call # call

\* The calls that have a place are those the bus waits for.
Waits ==
  /\ \A i \in 1..Len(inbox) : inbox[i] \in pending
  /\ InHand => call \in pending
  /\ \A i \in 1..Len(outbox) : outbox[i].kind \in Answers => outbox[i].call \in pending

Placed ==
  \A c \in pending :
    \/ \E i \in 1..Len(inbox) : inbox[i] = c
    \/ InHand /\ call = c
    \/ \E i \in 1..Len(outbox) : outbox[i].kind \in Answers /\ outbox[i].call = c

PlacesInv == Distinct /\ Waits /\ Placed

\* A call moves from one place to the next, and leaves the last one when the bus
\* no longer waits for it.
LEMMA PlacesStep == TypeOK /\ Numbered /\ PlacesInv /\ [Next]_vars => PlacesInv'
<1> SUFFICES ASSUME TypeOK, Numbered, PlacesInv, [Next]_vars
             PROVE  PlacesInv'
  OBVIOUS
<1>0. /\ LoopOK /\ AccountOK
      /\ inbox \in Seq(Call) /\ outbox \in Seq(Message)
      /\ Len(inbox) \in Nat /\ Len(outbox) \in Nat
  BY TypeParts, LenProperties DEF LoopOK
<1> USE DEF PlacesInv
<1>1. ASSUME UNCHANGED <<inbox, outbox, pending>>, InHand' <=> InHand, InHand => UNCHANGED call
      PROVE  PlacesInv'
  <2>1. Distinct'
    BY <1>1 DEF Distinct
  <2>2. Waits'
    BY <1>1 DEF Waits
  <2>3. Placed'
    BY <1>1 DEF Placed
  <2>4. QED
    BY <2>1, <2>2, <2>3
<1>2. CASE ClientCall
  <2>1. PICK c \in Call : /\ c.serial = sent + 1
                          /\ inbox' = Append(inbox, c)
                          /\ pending' = pending \cup {c}
    BY <1>2 DEF ClientCall
  <2>2. UNCHANGED <<outbox, call, step>> /\ sent \in Int
    BY <1>0, <1>2 DEF ClientCall, AccountOK
  <2>3. c \notin pending
    BY <2>1, <2>2 DEF Numbered
  <2>4. /\ Len(inbox') = Len(inbox) + 1
        /\ \A i \in 1..Len(inbox) : inbox'[i] = inbox[i]
        /\ inbox'[Len(inbox) + 1] = c
    BY <1>0, <2>1, QueueAppend
  <2>5. \A i \in 1..Len(inbox') : i \in 1..Len(inbox) \/ i = Len(inbox) + 1
    BY <1>0, <2>4
  <2>6. Distinct'
    BY <1>0, <2>2, <2>3, <2>4, <2>5 DEF Distinct, Waits, InHand
  <2>7. Waits'
    BY <2>1, <2>2, <2>4, <2>5 DEF Waits, InHand
  <2>8. Len(inbox) + 1 \in 1..Len(inbox') /\ \A i \in 1..Len(inbox) : i \in 1..Len(inbox')
    BY <1>0, <2>4
  <2>9. Placed'
    BY <2>1, <2>2, <2>4, <2>8 DEF Placed, InHand
  <2>10. QED
    BY <2>6, <2>7, <2>9
<1>3. CASE ProcessEnds
  <2>1. /\ inbox' = <<>> /\ outbox' = <<>> /\ pending' = {} /\ ~InHand'
        /\ Len(<<>>) = 0
    BY <1>3, EmptySeq DEF ProcessEnds, InHand
  <2>2. QED
    BY <2>1 DEF Distinct, Waits, Placed
<1>4. CASE Take \/ GlibAnswers
  <2> DEFINE c == Head(inbox)
  <2>1. /\ inbox # <<>> /\ inbox' = Tail(inbox) /\ UNCHANGED pending
        /\ ~InHand
    BY <1>4 DEF Take, GlibAnswers, busVars, Idle, InHand
  <2>2. /\ c = inbox[1] /\ c \in Call
        /\ Len(inbox) \in Nat \ {0} /\ Len(inbox') = Len(inbox) - 1
        /\ \A i \in 1..Len(inbox) - 1 : inbox'[i] = inbox[i + 1]
    BY <1>0, <2>1, QueueTail
  <2>3. /\ 1 \in 1..Len(inbox)
        /\ \A i \in 1..Len(inbox') : i + 1 \in 1..Len(inbox) /\ inbox'[i] = inbox[i + 1]
        /\ \A i \in 1..Len(inbox) : i = 1 \/ (i - 1 \in 1..Len(inbox') /\ inbox'[i - 1] = inbox[i])
    BY <2>2
  <2>4. CASE Take
    <3>1. call' = c /\ InHand' /\ UNCHANGED outbox
      BY <2>4 DEF Take, InHand
    <3> HIDE DEF c
    <3>2. Distinct'
      <4>1. \A i \in 1..Len(inbox') : inbox'[i] # c
        BY <2>2, <2>3 DEF Distinct
      <4>2. \A j \in 1..Len(outbox) : outbox[j].kind \in Answers => outbox[j].call # c
        BY <2>2, <2>3 DEF Distinct
      <4>3. \A i, j \in 1..Len(inbox') : inbox'[i] = inbox'[j] => i = j
        BY <2>3 DEF Distinct
      <4>4. \A i \in 1..Len(inbox'), j \in 1..Len(outbox) :
              outbox[j].kind \in Answers => inbox'[i] # outbox[j].call
        BY <2>3 DEF Distinct
      <4>5. QED
        BY <3>1, <4>1, <4>2, <4>3, <4>4 DEF Distinct
    <3>3. Waits'
      BY <2>1, <2>2, <2>3, <3>1 DEF Waits
    <3>4. Placed'
      BY <2>1, <2>2, <2>3, <3>1 DEF Placed
    <3>5. QED
      BY <3>2, <3>3, <3>4
  <2>5. CASE GlibAnswers
    <3>1. ~InHand' /\ outbox' = Append(outbox, Replied(c))
      BY <2>5 DEF GlibAnswers, Idle, InHand, Replied
    <3>2. Replied(c) \in Message
      BY <2>2, MessagesAreMessages DEF Replied, Answers
    <3> HIDE DEF c
    <3>3. /\ Len(outbox') = Len(outbox) + 1
          /\ \A i \in 1..Len(outbox) : outbox'[i] = outbox[i]
          /\ outbox'[Len(outbox) + 1].call = c /\ outbox'[Len(outbox) + 1].kind \in Answers
      BY <1>0, <3>1, <3>2, QueueAppend DEF Replied, Answers
    <3>4. /\ \A i \in 1..Len(outbox') : i \in 1..Len(outbox) \/ i = Len(outbox) + 1
          /\ \A i \in 1..Len(outbox) : i \in 1..Len(outbox')
          /\ Len(outbox) + 1 \in 1..Len(outbox')
      BY <1>0, <3>3
    <3>5. Distinct'
      <4>1. \A i \in 1..Len(outbox) : outbox[i].kind \in Answers => outbox[i].call # c
        BY <2>2, <2>3 DEF Distinct
      <4>2. \A i, j \in 1..Len(outbox') :
              outbox'[i].kind \in Answers /\ outbox'[j].kind \in Answers
                /\ outbox'[i].call = outbox'[j].call => i = j
        BY <3>3, <3>4, <4>1 DEF Distinct
      <4>3. \A i \in 1..Len(inbox') : inbox'[i] # c
        BY <2>2, <2>3 DEF Distinct
      <4>4. \A i \in 1..Len(inbox'), j \in 1..Len(outbox') :
              outbox'[j].kind \in Answers => inbox'[i] # outbox'[j].call
        <5> SUFFICES ASSUME NEW i \in 1..Len(inbox'), NEW j \in 1..Len(outbox'),
                            outbox'[j].kind \in Answers
                     PROVE  inbox'[i] # outbox'[j].call
          OBVIOUS
        <5>1. CASE j \in 1..Len(outbox)
          <6>1. outbox'[j] = outbox[j] /\ i + 1 \in 1..Len(inbox) /\ inbox'[i] = inbox[i + 1]
            BY <2>3, <3>3, <5>1
          <6>2. QED
            BY <5>1, <6>1 DEF Distinct
        <5>2. CASE j = Len(outbox) + 1
          BY <3>3, <4>3, <5>2
        <5>3. QED
          BY <3>4, <5>1, <5>2
      <4>5. \A i, j \in 1..Len(inbox') : inbox'[i] = inbox'[j] => i = j
        BY <2>3 DEF Distinct
      <4>6. QED
        BY <3>1, <4>2, <4>4, <4>5 DEF Distinct
    <3>6. Waits'
      BY <2>1, <2>2, <2>3, <3>1, <3>3, <3>4 DEF Waits
    <3>7. Placed'
      BY <2>1, <2>2, <2>3, <3>1, <3>3, <3>4 DEF Placed
    <3>8. QED
      BY <3>5, <3>6, <3>7
  <2>6. QED
    BY <1>4, <2>4, <2>5
<1>5. ASSUME NEW m \in Message, outbox' = Append(outbox, m), UNCHANGED <<inbox, pending, call>>,
             ~InHand',
             IF m.kind \in Answers THEN InHand /\ call = m.call ELSE ~InHand
      PROVE  PlacesInv'
  <2>1. /\ Len(outbox') = Len(outbox) + 1
        /\ \A i \in 1..Len(outbox) : outbox'[i] = outbox[i]
        /\ outbox'[Len(outbox) + 1] = m
    BY <1>0, <1>5, QueueAppend
  <2>2. /\ \A i \in 1..Len(outbox') : i \in 1..Len(outbox) \/ i = Len(outbox) + 1
        /\ \A i \in 1..Len(outbox) : i \in 1..Len(outbox')
        /\ Len(outbox) + 1 \in 1..Len(outbox')
    BY <1>0, <2>1
  <2>3. Distinct'
    BY <1>5, <2>1, <2>2 DEF Distinct
  <2>4. Waits'
    BY <1>5, <2>1, <2>2 DEF Waits
  <2>5. Placed'
    BY <1>5, <2>1, <2>2 DEF Placed
  <2>6. QED
    BY <2>3, <2>4, <2>5
<1>6. CASE Reply
  <2> DEFINE m == [kind |-> IF Succeeds(call) THEN "reply" ELSE "error", call |-> call]
  <2>1. m \in Message /\ m.kind \in Answers /\ m.call = call
    BY <1>0, <1>6, MessagesAreMessages DEF Reply, LoopOK, Answers
  <2>2. /\ InHand /\ ~InHand' /\ outbox' = Append(outbox, m)
        /\ UNCHANGED <<inbox, pending, call>>
    BY <1>6 DEF Reply, InHand, busVars
  <2> HIDE DEF m
  <2>3. QED
    BY <1>5, <2>1, <2>2
<1>7. CASE Signal
  <2>1. call \in Call /\ ~InHand /\ ~InHand' /\ UNCHANGED <<inbox, pending, call>>
    BY <1>0, <1>7 DEF Signal, LoopOK, InHand, busVars
  <2>2. PICK kind \in SignalOf(call) : outbox' = Append(outbox, [kind |-> kind, call |-> call])
    BY <1>7 DEF Signal
  <2>3. [kind |-> kind, call |-> call] \in Message /\ kind \notin Answers
    BY <2>1, MessagesAreMessages DEF SignalOf, Answers
  <2>4. QED
    BY <1>5, <2>1, <2>2, <2>3
<1>8. CASE WorkerSends
  <2> DEFINE m == Head(outbox)
  <2>1. /\ outbox # <<>> /\ outbox' = Tail(outbox)
        /\ UNCHANGED <<inbox, call, step>>
        /\ pending' = IF m.kind \in Answers THEN pending \ {m.call} ELSE pending
    BY <1>8 DEF WorkerSends, loopVars
  <2>2. /\ m = outbox[1]
        /\ Len(outbox) \in Nat \ {0} /\ Len(outbox') = Len(outbox) - 1
        /\ \A i \in 1..Len(outbox) - 1 : outbox'[i] = outbox[i + 1]
    BY <1>0, <2>1, QueueTail
  <2> HIDE DEF m
  <2>3. /\ 1 \in 1..Len(outbox)
        /\ \A i \in 1..Len(outbox') : i + 1 \in 1..Len(outbox) /\ outbox'[i] = outbox[i + 1]
        /\ \A i \in 1..Len(outbox) : i = 1 \/ (i - 1 \in 1..Len(outbox') /\ outbox'[i - 1] = outbox[i])
    BY <2>2
  <2>4. Distinct'
    <3>1. \A i, j \in 1..Len(outbox') :
            outbox'[i].kind \in Answers /\ outbox'[j].kind \in Answers
              /\ outbox'[i].call = outbox'[j].call => i = j
      BY <2>3 DEF Distinct
    <3>2. QED
      BY <2>1, <2>3, <3>1 DEF Distinct, InHand
  <2>5. Waits'
    BY <2>1, <2>2, <2>3 DEF Waits, Distinct, InHand
  <2>6. Placed'
    <3> SUFFICES ASSUME NEW c \in pending', ~\E i \in 1..Len(inbox) : inbox[i] = c,
                        ~(InHand /\ call = c)
                 PROVE  \E i \in 1..Len(outbox') : outbox'[i].kind \in Answers /\ outbox'[i].call = c
      BY <2>1 DEF Placed, InHand
    <3>1. PICK i \in 1..Len(outbox) : outbox[i].kind \in Answers /\ outbox[i].call = c
      BY <2>1 DEF Placed
    <3>2. i # 1
      BY <2>1, <2>2, <3>1
    <3>3. QED
      BY <2>3, <3>1, <3>2
  <2>7. QED
    BY <2>4, <2>5, <2>6
<1>9. CASE Work \/ Finish \/ exit_on_inactivity \/ shim_bus_acquired \/ UNCHANGED vars
  <2>1. UNCHANGED <<inbox, outbox, pending>> /\ (InHand' <=> InHand) /\ (InHand => UNCHANGED call)
    BY <1>9 DEF Work, Finish, exit_on_inactivity, shim_bus_acquired, vars, busVars, loopVars, Idle,
                InHand
  <2>2. QED
    BY <1>1, <2>1
<1>10. CASE shim_units_dispatch
  <2>1. /\ inbox # <<>> /\ inbox' = Turned(inbox)
        /\ UNCHANGED <<outbox, pending, call, step>>
    BY <1>10 DEF shim_units_dispatch, busVars, Turned
  <2>2. /\ Len(inbox) \in Nat \ {0} /\ Len(inbox') = Len(inbox)
        /\ \A i \in 1..Len(inbox) - 1 : inbox'[i] = inbox[i + 1]
        /\ inbox'[Len(inbox)] = inbox[1]
    BY <1>0, <2>1, QueueTurn
  <2>3. /\ \A i \in 1..Len(inbox') : \E k \in 1..Len(inbox) : inbox'[i] = inbox[k]
        /\ \A k \in 1..Len(inbox) : \E i \in 1..Len(inbox') : inbox'[i] = inbox[k]
    BY <1>0, <2>1, TurnKeeps
  <2>4. ASSUME NEW i \in 1..Len(inbox'), NEW j \in 1..Len(inbox'), inbox'[i] = inbox'[j]
        PROVE  i = j
    <3>1. \A k \in 1..Len(inbox') :
            k = Len(inbox) \/ (k \in 1..Len(inbox) - 1 /\ k + 1 \in 1..Len(inbox) /\ k + 1 # 1)
      BY <2>2
    <3>2. 1 \in 1..Len(inbox)
      BY <2>2
    <3>3. \A k, l \in 1..Len(inbox) : inbox[k] = inbox[l] => k = l
      BY DEF Distinct
    <3>4. CASE i = Len(inbox) /\ j # Len(inbox)
      BY <2>2, <2>4, <3>1, <3>2, <3>3, <3>4
    <3>5. CASE i # Len(inbox) /\ j = Len(inbox)
      BY <2>2, <2>4, <3>1, <3>2, <3>3, <3>5
    <3>6. CASE i # Len(inbox) /\ j # Len(inbox)
      <4>1. inbox[i + 1] = inbox[j + 1] /\ i + 1 \in 1..Len(inbox) /\ j + 1 \in 1..Len(inbox)
        BY <2>2, <2>4, <3>1, <3>6
      <4>2. i + 1 = j + 1
        BY <3>3, <4>1
      <4>3. QED
        BY <4>2
    <3>7. QED
      BY <3>4, <3>5, <3>6
  <2>5. Distinct'
    BY <2>1, <2>3, <2>4 DEF Distinct, InHand
  <2>6. Waits'
    BY <2>1, <2>3 DEF Waits, InHand
  <2>7. Placed'
    BY <2>1, <2>3 DEF Placed, InHand
  <2>8. QED
    BY <2>5, <2>6, <2>7
<1>11. QED
  BY <1>2, <1>3, <1>4, <1>6, <1>7, <1>8, <1>9, <1>10 DEF Next, Handler, shim_name_lost, Kill, Exit

\* So a call that the bus waits for has one place, whichever it is.
LEMMA OnePlaceEach == LoopOK /\ PlacesInv => OneAnswerPerCall
<1> SUFFICES ASSUME LoopOK, Distinct, Waits, Placed
             PROVE  OneAnswerPerCall
  BY DEF PlacesInv
<1>1. ASSUME NEW c \in pending
      PROVE  \E x : Places(c) = {x}
  <2>1. CASE InHand /\ call = c
    <3>1. /\ \A i \in 1..Len(inbox) : inbox[i] # c
          /\ \A i \in 1..Len(outbox) : ~(outbox[i].kind \in Answers /\ outbox[i].call = c)
      BY <2>1 DEF Distinct
    <3>2. Places(c) = {<<"handler", c.serial>>}
      BY <2>1, <3>1 DEF Places, InHand
    <3>3. QED
      BY <3>2
  <2>2. ASSUME NEW i \in 1..Len(inbox), inbox[i] = c
        PROVE  \E x : Places(c) = {x}
    <3>1. /\ \A j \in 1..Len(inbox) : inbox[j] = c => j = i
          /\ \A j \in 1..Len(outbox) : ~(outbox[j].kind \in Answers /\ outbox[j].call = c)
          /\ ~(InHand /\ call = c)
      BY <2>2 DEF Distinct
    <3>2. {call} \cap (IF step \in {"work", "reply"} THEN {c} ELSE {}) = {}
      BY <3>1 DEF InHand
    <3>3. Places(c) = {<<"inbox", i>>}
      BY <2>2, <3>1, <3>2 DEF Places
    <3>4. QED
      BY <3>3
  <2>3. ASSUME NEW i \in 1..Len(outbox), outbox[i].kind \in Answers, outbox[i].call = c
        PROVE  \E x : Places(c) = {x}
    <3>1. /\ \A j \in 1..Len(inbox) : inbox[j] # c
          /\ \A j \in 1..Len(outbox) : outbox[j].kind \in Answers /\ outbox[j].call = c => j = i
          /\ ~(InHand /\ call = c)
      BY <2>3 DEF Distinct
    <3>2. {call} \cap (IF step \in {"work", "reply"} THEN {c} ELSE {}) = {}
      BY <3>1 DEF InHand
    <3>3. Places(c) = {<<"outbox", i>>}
      BY <2>3, <3>1, <3>2 DEF Places
    <3>4. QED
      BY <3>3
  <2>4. QED
    BY <2>1, <2>2, <2>3 DEF Placed
<1>2. \A c \in pending : Cardinality(Places(c)) = 1
  BY <1>1, FS_Singleton
<1>3. QED
  BY <1>2 DEF Waits, OneAnswerPerCall

LEMMA NumberedStays == Spec => []Numbered
<1>1. Init => Numbered
  BY ManagerAssumption DEF Init, Numbered
<1>2. QED
  BY <1>1, NumberedStep, TypeCorrect, PTL DEF Spec

\* No path through the handlers answers a call twice or loses it.
THEOREM AnsweredOnce == Spec => []OneAnswerPerCall
<1>1. Init => PlacesInv
  BY EmptySeq DEF Init, PlacesInv, Distinct, Waits, Placed, InHand
<1>2. TypeOK /\ PlacesInv => OneAnswerPerCall
  BY OnePlaceEach, TypeParts
<1>3. QED
  BY <1>1, <1>2, PlacesStep, NumberedStays, TypeCorrect, PTL DEF Spec

-------------------------------------------------------------------------------
(* The service. *)

\* One call may be worked on before the other.
Ahead(c, d) == c.serial < d.serial \/ (d.op \in UnitObject /\ c.op \notin UnitObject)

\* From the oldest answer to the newest call, the process has the calls in an
\* order in which they may be worked on.  Those in the queue whose handler was
\* found are older than the others, and both kinds have the order in which they
\* were made.
InOrder ==
  /\ \A i, j \in 1..Len(inbox) : i < j =>
       IF inbox[i] \notin dispatched /\ inbox[j] \in dispatched
       THEN inbox[j].serial < inbox[i].serial
       ELSE inbox[i].serial < inbox[j].serial
  /\ \A i, j \in 1..Len(outbox) :
       outbox[i].kind \in Answers /\ outbox[j].kind \in Answers /\ i < j
         => Ahead(outbox[i].call, outbox[j].call)
  /\ \A i \in 1..Len(inbox), j \in 1..Len(outbox) :
       outbox[j].kind \in Answers => Ahead(outbox[j].call, inbox[i])
  /\ InHand =>
       /\ \A i \in 1..Len(inbox) : Ahead(call, inbox[i])
       /\ \A j \in 1..Len(outbox) : outbox[j].kind \in Answers => Ahead(outbox[j].call, call)

\* What is answered was worked on first, if there is work to do.
DoneFirst ==
  /\ step = "work" => call.op # "Ping"
  /\ step = "reply" => call \in handled
  /\ \A i \in 1..Len(outbox) :
       outbox[i].kind \in Answers => outbox[i].call \in handled \/ outbox[i].call.op = "Ping"

\* No call overtakes another on its way through the process, but calls to a
\* unit's object may be overtaken by others while their handler is looked for.
LEMMA InOrderStep == TypeOK /\ Numbered /\ Waits /\ InOrder /\ [Next]_vars => InOrder'
<1> SUFFICES ASSUME TypeOK, Numbered, Waits, InOrder, [Next]_vars
             PROVE  InOrder'
  OBVIOUS
<1>0. /\ LoopOK /\ AccountOK
      /\ inbox \in Seq(Call) /\ outbox \in Seq(Message)
      /\ Len(inbox) \in Nat /\ Len(outbox) \in Nat
  BY TypeParts, LenProperties DEF LoopOK
<1>1. ASSUME UNCHANGED <<inbox, dispatched, outbox>>, InHand' => InHand /\ UNCHANGED call
      PROVE  InOrder'
  BY <1>1 DEF InOrder
<1>2. CASE ClientCall
  <2>1. PICK c \in Call : c.serial = sent + 1 /\ inbox' = Append(inbox, c)
    BY <1>2 DEF ClientCall
  <2>2. UNCHANGED <<outbox, dispatched, call, step>> /\ sent \in Int
    BY <1>0, <1>2 DEF ClientCall, AccountOK
  <2>3. /\ Len(inbox') = Len(inbox) + 1
        /\ \A i \in 1..Len(inbox) : inbox'[i] = inbox[i]
        /\ inbox'[Len(inbox) + 1] = c
    BY <1>0, <2>1, QueueAppend
  <2>4. \A d \in Call : d.serial \in Int
    BY ManagerAssumption DEF Call
  <2>5. \A i \in 1..Len(inbox) : inbox[i].serial < c.serial
    <3> SUFFICES ASSUME NEW i \in 1..Len(inbox)
                 PROVE  inbox[i].serial < c.serial
      OBVIOUS
    <3>1. inbox[i] \in Call /\ inbox[i].serial <= sent
      BY <1>0, ElementOfSeq DEF Numbered
    <3>2. QED
      BY <2>1, <2>2, <2>4, <3>1
  <2>6. \A j \in 1..Len(outbox) : outbox[j].kind \in Answers => outbox[j].call.serial < c.serial
    <3> SUFFICES ASSUME NEW j \in 1..Len(outbox), outbox[j].kind \in Answers
                 PROVE  outbox[j].call.serial < c.serial
      OBVIOUS
    <3>1. outbox[j].call \in Call /\ outbox[j].call.serial <= sent
      BY <1>0 DEF Waits, Numbered, AccountOK
    <3>2. QED
      BY <2>1, <2>2, <2>4, <3>1
  <2>7. InHand => call.serial < c.serial
    <3>1. InHand => call \in Call /\ call.serial <= sent
      BY <1>0 DEF Waits, InHand, Numbered, AccountOK
    <3>2. QED
      BY <2>1, <2>2, <2>4, <3>1
  <2>8. \A i \in 1..Len(inbox') : i \in 1..Len(inbox) \/ i = Len(inbox) + 1
    BY <1>0, <2>3
  <2>9. \A i, j \in 1..Len(inbox') : i < j =>
          IF inbox'[i] \notin dispatched /\ inbox'[j] \in dispatched
          THEN inbox'[j].serial < inbox'[i].serial
          ELSE inbox'[i].serial < inbox'[j].serial
    <3> SUFFICES ASSUME NEW i \in 1..Len(inbox'), NEW j \in 1..Len(inbox'), i < j
                 PROVE  IF inbox'[i] \notin dispatched /\ inbox'[j] \in dispatched
                        THEN inbox'[j].serial < inbox'[i].serial
                        ELSE inbox'[i].serial < inbox'[j].serial
      OBVIOUS
    <3>1. i \in 1..Len(inbox)
      BY <1>0, <2>3
    <3>2. CASE j \in 1..Len(inbox)
      BY <2>3, <3>1, <3>2 DEF InOrder
    <3>3. CASE j = Len(inbox) + 1
      <4>1. c \notin dispatched
        BY <2>1, <2>2 DEF Numbered
      <4>2. QED
        BY <2>3, <2>5, <3>1, <3>3, <4>1
    <3>4. QED
      BY <2>8, <3>2, <3>3
  <2>10. /\ \A i \in 1..Len(inbox'), j \in 1..Len(outbox) :
              outbox[j].kind \in Answers => Ahead(outbox[j].call, inbox'[i])
         /\ InHand => \A i \in 1..Len(inbox') : Ahead(call, inbox'[i])
    BY <2>3, <2>6, <2>7, <2>8 DEF InOrder, Ahead
  <2>11. QED
    BY <2>2, <2>9, <2>10 DEF InOrder, InHand
<1>3. CASE ProcessEnds
  BY <1>3, EmptySeq DEF ProcessEnds, InOrder, InHand
<1>4. ASSUME inbox # <<>>, inbox' = Tail(inbox), ~InHand,
             Head(inbox) \in dispatched \/ Head(inbox).op \notin UnitObject,
             \/ UNCHANGED outbox /\ call' = Head(inbox) /\ dispatched' = dispatched \ {call'}
             \/ /\ outbox' = Append(outbox, Replied(Head(inbox))) /\ ~InHand'
                /\ UNCHANGED dispatched
      PROVE  InOrder'
  <2> DEFINE c == Head(inbox)
  <2>1. /\ c = inbox[1] /\ c \in Call
        /\ Len(inbox) \in Nat \ {0} /\ Len(inbox') = Len(inbox) - 1
        /\ \A i \in 1..Len(inbox) - 1 : inbox'[i] = inbox[i + 1]
    BY <1>0, <1>4, QueueTail
  <2>2. /\ 1 \in 1..Len(inbox)
        /\ \A i \in 1..Len(inbox') : i + 1 \in 1..Len(inbox) /\ 1 < i + 1 /\ inbox'[i] = inbox[i + 1]
        /\ \A i, j \in 1..Len(inbox') : i < j => i + 1 < j + 1
    BY <2>1
  <2>3. \A i \in 1..Len(inbox') : inbox'[i] \in Call /\ inbox'[i].serial # c.serial
    <3> SUFFICES ASSUME NEW i \in 1..Len(inbox')
                 PROVE  inbox'[i] \in Call /\ inbox'[i].serial # c.serial
      OBVIOUS
    <3>1. inbox[i + 1] \in Call /\ inbox'[i] = inbox[i + 1]
      BY <1>0, <2>2, ElementOfSeq
    <3>2. inbox[i + 1].serial < c.serial \/ c.serial < inbox[i + 1].serial
      BY <2>1, <2>2 DEF InOrder
    <3>3. \A d \in Call : d.serial \in Int
      BY ManagerAssumption DEF Call
    <3>4. QED
      BY <2>1, <3>1, <3>2, <3>3
  <2>4. /\ \A i, j \in 1..Len(inbox') : i < j =>
             IF inbox'[i] \notin dispatched' /\ inbox'[j] \in dispatched'
             THEN inbox'[j].serial < inbox'[i].serial
             ELSE inbox'[i].serial < inbox'[j].serial
        /\ \A j \in 1..Len(outbox) : outbox[j].kind \in Answers => Ahead(outbox[j].call, c)
        /\ \A i \in 1..Len(inbox'), j \in 1..Len(outbox) :
             outbox[j].kind \in Answers => Ahead(outbox[j].call, inbox'[i])
    <3>1. \A i \in 1..Len(inbox') : inbox'[i] \in dispatched' <=> inbox[i + 1] \in dispatched
      BY <1>4, <2>2, <2>3
    <3>2. ASSUME NEW i \in 1..Len(inbox'), NEW j \in 1..Len(inbox'), i < j
          PROVE  IF inbox'[i] \notin dispatched' /\ inbox'[j] \in dispatched'
                 THEN inbox'[j].serial < inbox'[i].serial
                 ELSE inbox'[i].serial < inbox'[j].serial
      <4>1. /\ i + 1 \in 1..Len(inbox) /\ j + 1 \in 1..Len(inbox) /\ i + 1 < j + 1
            /\ inbox'[i] = inbox[i + 1] /\ inbox'[j] = inbox[j + 1]
        BY <2>2, <3>2
      <4>2. IF inbox[i + 1] \notin dispatched /\ inbox[j + 1] \in dispatched
            THEN inbox[j + 1].serial < inbox[i + 1].serial
            ELSE inbox[i + 1].serial < inbox[j + 1].serial
        BY <4>1 DEF InOrder
      <4>3. QED
        BY <3>1, <4>1, <4>2
    <3>3. \A j \in 1..Len(outbox) : outbox[j].kind \in Answers => Ahead(outbox[j].call, c)
      BY <2>1, <2>2 DEF InOrder
    <3>4. ASSUME NEW i \in 1..Len(inbox'), NEW j \in 1..Len(outbox), outbox[j].kind \in Answers
          PROVE  Ahead(outbox[j].call, inbox'[i])
      BY <2>2, <3>4 DEF InOrder
    <3>5. QED
      BY <3>2, <3>3, <3>4
  <2>5. ASSUME NEW i \in 1..Len(inbox')
        PROVE  Ahead(c, inbox'[i])
    <3>1. (c \notin dispatched /\ inbox[i + 1] \in dispatched) \/ c.serial < inbox[i + 1].serial
      BY <2>1, <2>2 DEF InOrder
    <3>2. CASE c \notin dispatched /\ inbox[i + 1] \in dispatched
      <4>1. inbox[i + 1].op \in UnitObject /\ c.op \notin UnitObject
        BY <1>0, <1>4, <3>2 DEF LoopOK
      <4>2. QED
        BY <2>2, <4>1 DEF Ahead
    <3>3. CASE c.serial < inbox[i + 1].serial
      BY <2>2, <3>3 DEF Ahead
    <3>4. QED
      BY <3>1, <3>2, <3>3
  <2>6. CASE UNCHANGED outbox /\ call' = c
    BY <2>4, <2>5, <2>6 DEF InOrder
  <2>7. CASE outbox' = Append(outbox, Replied(c)) /\ ~InHand'
    <3>1. Replied(c) \in Message
      BY <2>1, MessagesAreMessages DEF Replied, Answers
    <3> HIDE DEF c
    <3>2. /\ Len(outbox') = Len(outbox) + 1
          /\ \A i \in 1..Len(outbox) : outbox'[i] = outbox[i]
          /\ outbox'[Len(outbox) + 1].call = c
      BY <1>0, <2>7, <3>1, QueueAppend DEF Replied
    <3>3. /\ \A i \in 1..Len(outbox') : i \in 1..Len(outbox) \/ i = Len(outbox) + 1
          /\ \A i, j \in 1..Len(outbox') : i < j => i \in 1..Len(outbox)
      BY <1>0, <3>2
    <3>4. \A i, j \in 1..Len(outbox') :
            outbox'[i].kind \in Answers /\ outbox'[j].kind \in Answers /\ i < j
              => Ahead(outbox'[i].call, outbox'[j].call)
      <4> SUFFICES ASSUME NEW i \in 1..Len(outbox'), NEW j \in 1..Len(outbox'), i < j,
                          outbox'[i].kind \in Answers, outbox'[j].kind \in Answers
                   PROVE  Ahead(outbox'[i].call, outbox'[j].call)
        OBVIOUS
      <4>1. CASE j \in 1..Len(outbox)
        BY <3>2, <3>3, <4>1 DEF InOrder
      <4>2. CASE j = Len(outbox) + 1
        BY <2>4, <3>2, <3>3, <4>2
      <4>3. QED
        BY <3>3, <4>1, <4>2
    <3>5. \A i \in 1..Len(inbox'), j \in 1..Len(outbox') :
            outbox'[j].kind \in Answers => Ahead(outbox'[j].call, inbox'[i])
      BY <2>4, <2>5, <3>2, <3>3
    <3>6. QED
      BY <2>4, <2>7, <3>4, <3>5 DEF InOrder
  <2>8. QED
    BY <1>4, <2>6, <2>7
<1>5. ASSUME NEW m \in Message, outbox' = Append(outbox, m), UNCHANGED <<inbox, dispatched>>, ~InHand',
             m.kind \in Answers => InHand /\ call = m.call
      PROVE  InOrder'
  <2>1. /\ Len(outbox') = Len(outbox) + 1
        /\ \A i \in 1..Len(outbox) : outbox'[i] = outbox[i]
        /\ outbox'[Len(outbox) + 1] = m
    BY <1>0, <1>5, QueueAppend
  <2>2. \A i \in 1..Len(outbox') : i \in 1..Len(outbox) \/ i = Len(outbox) + 1
    BY <1>0, <2>1
  <2>3. QED
    BY <1>0, <1>5, <2>1, <2>2 DEF InOrder
<1>6. CASE Reply
  <2> DEFINE m == [kind |-> IF Succeeds(call) THEN "reply" ELSE "error", call |-> call]
  <2>1. m \in Message /\ m.call = call
    BY <1>0, <1>6, MessagesAreMessages DEF Reply, LoopOK, Answers
  <2>2. InHand /\ ~InHand' /\ outbox' = Append(outbox, m) /\ UNCHANGED <<inbox, dispatched>>
    BY <1>6 DEF Reply, InHand
  <2> HIDE DEF m
  <2>3. QED
    BY <1>5, <2>1, <2>2
<1>7. CASE Signal
  <2>1. call \in Call /\ ~InHand' /\ UNCHANGED <<inbox, dispatched>>
    BY <1>0, <1>7 DEF Signal, LoopOK, InHand
  <2>2. PICK kind \in SignalOf(call) : outbox' = Append(outbox, [kind |-> kind, call |-> call])
    BY <1>7 DEF Signal
  <2>3. [kind |-> kind, call |-> call] \in Message /\ kind \notin Answers
    BY <2>1, MessagesAreMessages DEF SignalOf, Answers
  <2>4. QED
    BY <1>5, <2>1, <2>2, <2>3
<1>8. CASE WorkerSends
  <2>1. outbox # <<>> /\ outbox' = Tail(outbox) /\ UNCHANGED <<inbox, dispatched, call, step>>
    BY <1>8 DEF WorkerSends, loopVars
  <2>2. /\ Len(outbox) \in Nat \ {0} /\ Len(outbox') = Len(outbox) - 1
        /\ \A i \in 1..Len(outbox) - 1 : outbox'[i] = outbox[i + 1]
    BY <1>0, <2>1, QueueTail
  <2>3. /\ \A i \in 1..Len(outbox') : i + 1 \in 1..Len(outbox) /\ outbox'[i] = outbox[i + 1]
        /\ \A i, j \in 1..Len(outbox') : i < j => i + 1 < j + 1
    BY <2>2
  <2>4. QED
    BY <2>1, <2>3 DEF InOrder, InHand
<1>9. CASE Work \/ Finish \/ exit_on_inactivity \/ shim_bus_acquired \/ UNCHANGED vars
  <2>1. UNCHANGED <<inbox, dispatched, outbox>> /\ (InHand' => InHand /\ UNCHANGED call)
    BY <1>9 DEF Work, Finish, exit_on_inactivity, shim_bus_acquired, vars, loopVars, Idle, InHand
  <2>2. QED
    BY <1>1, <2>1
<1>10. Take \/ GlibAnswers =>
         /\ inbox # <<>> /\ inbox' = Tail(inbox) /\ ~InHand
         /\ Head(inbox) \in dispatched \/ Head(inbox).op \notin UnitObject
         /\ \/ UNCHANGED outbox /\ call' = Head(inbox) /\ dispatched' = dispatched \ {call'}
            \/ /\ outbox' = Append(outbox, Replied(Head(inbox))) /\ ~InHand'
               /\ UNCHANGED dispatched
  BY DEF Take, GlibAnswers, Ready, Idle, InHand, Replied, UnitObject
<1>11. CASE shim_units_dispatch
  <2> DEFINE c == Head(inbox)
  <2>1. /\ inbox # <<>> /\ inbox' = Turned(inbox)
        /\ c \notin dispatched /\ dispatched' = dispatched \cup {c}
        /\ UNCHANGED <<outbox, call, step>> /\ ~InHand'
    BY <1>11 DEF shim_units_dispatch, Turned, Idle, InHand
  <2>2. /\ c = inbox[1]
        /\ Len(inbox) \in Nat \ {0} /\ Len(inbox') = Len(inbox)
        /\ \A i \in 1..Len(inbox) - 1 : inbox'[i] = inbox[i + 1]
        /\ inbox'[Len(inbox)] = c
    BY <1>0, <2>1, QueueTurn
  <2>3. /\ 1 \in 1..Len(inbox)
        /\ \A i \in 1..Len(inbox) - 1 : i + 1 \in 1..Len(inbox) /\ 1 < i + 1
        /\ \A i, j \in 1..Len(inbox') : i < j =>
             i \in 1..Len(inbox) - 1 /\ i + 1 < j + 1 /\ (j = Len(inbox) \/ j \in 1..Len(inbox) - 1)
    BY <2>2
  <2> HIDE DEF c
  <2>4. ASSUME NEW i \in 1..Len(inbox')
        PROVE  \E k \in 1..Len(inbox) : inbox'[i] = inbox[k]
    BY <1>0, <2>1, TurnKeeps
  <2>5. \A i \in 1..Len(inbox) - 1 :
          /\ inbox'[i] \in Call /\ inbox'[i] # c
          /\ IF inbox'[i] \in dispatched THEN inbox'[i].serial < c.serial
             ELSE c.serial < inbox'[i].serial
    <3> SUFFICES ASSUME NEW i \in 1..Len(inbox) - 1
                 PROVE  /\ inbox'[i] \in Call /\ inbox'[i] # c
                        /\ IF inbox'[i] \in dispatched THEN inbox'[i].serial < c.serial
                           ELSE c.serial < inbox'[i].serial
      OBVIOUS
    <3>1. inbox'[i] = inbox[i + 1] /\ inbox[i + 1] \in Call
      BY <1>0, <2>2, <2>3, ElementOfSeq
    <3>2. IF inbox[i + 1] \in dispatched THEN inbox[i + 1].serial < c.serial
          ELSE c.serial < inbox[i + 1].serial
      BY <2>1, <2>2, <2>3 DEF InOrder
    <3>3. \A d \in Call : d.serial \in Int
      BY ManagerAssumption DEF Call
    <3>4. QED
      BY <3>1, <3>2, <3>3
  <2>6. \A i, j \in 1..Len(inbox') : i < j =>
          IF inbox'[i] \notin dispatched' /\ inbox'[j] \in dispatched'
          THEN inbox'[j].serial < inbox'[i].serial
          ELSE inbox'[i].serial < inbox'[j].serial
    <3> SUFFICES ASSUME NEW i \in 1..Len(inbox'), NEW j \in 1..Len(inbox'), i < j
                 PROVE  IF inbox'[i] \notin dispatched' /\ inbox'[j] \in dispatched'
                        THEN inbox'[j].serial < inbox'[i].serial
                        ELSE inbox'[i].serial < inbox'[j].serial
      OBVIOUS
    <3>1. i \in 1..Len(inbox) - 1 /\ (inbox'[i] \in dispatched' <=> inbox'[i] \in dispatched)
      BY <2>1, <2>3, <2>5
    <3>2. CASE j = Len(inbox)
      BY <2>1, <2>2, <2>5, <3>1, <3>2
    <3>3. CASE j \in 1..Len(inbox) - 1
      <4>1. inbox'[j] \in dispatched' <=> inbox'[j] \in dispatched
        BY <2>1, <2>5, <3>3
      <4>2. /\ inbox'[i] = inbox[i + 1] /\ inbox'[j] = inbox[j + 1]
            /\ i + 1 \in 1..Len(inbox) /\ j + 1 \in 1..Len(inbox) /\ i + 1 < j + 1
        BY <2>2, <2>3, <3>1, <3>3
      <4>3. QED
        BY <3>1, <4>1, <4>2 DEF InOrder
    <3>4. QED
      BY <2>3, <3>2, <3>3
  <2>7. \A i \in 1..Len(inbox'), j \in 1..Len(outbox) :
          outbox[j].kind \in Answers => Ahead(outbox[j].call, inbox'[i])
    BY <2>4 DEF InOrder
  <2>8. QED
    BY <2>1, <2>6, <2>7 DEF InOrder
<1>12. QED
  BY <1>2, <1>3, <1>4, <1>6, <1>7, <1>8, <1>9, <1>10, <1>11
     DEF Next, Handler, shim_name_lost, Kill, Exit

\* An answer comes from a handler that has done its work, or from GLib.
LEMMA DoneFirstStep == TypeOK /\ DoneFirst /\ [Next]_vars => DoneFirst'
<1> SUFFICES ASSUME TypeOK, DoneFirst, [Next]_vars
             PROVE  DoneFirst'
  OBVIOUS
<1>0. /\ LoopOK
      /\ inbox \in Seq(Call) /\ outbox \in Seq(Message)
      /\ Len(outbox) \in Nat
  BY TypeParts, LenProperties DEF LoopOK
<1>1. ASSUME UNCHANGED outbox, handled \subseteq handled',
             step' = "work" => call'.op # "Ping", step' = "reply" => call' \in handled'
      PROVE  DoneFirst'
  BY <1>1 DEF DoneFirst
<1>2. ASSUME NEW m \in Message, outbox' = Append(outbox, m), UNCHANGED handled,
             step' \notin {"work", "reply"},
             m.kind \in Answers => m.call \in handled \/ m.call.op = "Ping"
      PROVE  DoneFirst'
  <2>1. /\ Len(outbox') = Len(outbox) + 1
        /\ \A i \in 1..Len(outbox) : outbox'[i] = outbox[i]
        /\ outbox'[Len(outbox) + 1] = m
    BY <1>0, <1>2, QueueAppend
  <2>2. \A i \in 1..Len(outbox') : i \in 1..Len(outbox) \/ i = Len(outbox) + 1
    BY <1>0, <2>1
  <2>3. QED
    BY <1>2, <2>1, <2>2 DEF DoneFirst
<1>3. CASE ProcessEnds
  BY <1>3, EmptySeq DEF ProcessEnds, DoneFirst
<1>4. CASE Take
  BY <1>1, <1>4 DEF Take, Ready, historyVars
<1>5. CASE GlibAnswers
  <2>1. inbox # <<>> /\ Head(inbox) \in Call /\ Head(inbox).op = "Ping"
    BY <1>0, <1>5, QueueTail DEF GlibAnswers
  <2>2. Replied(Head(inbox)) \in Message
    BY <2>1, MessagesAreMessages DEF Replied, Answers
  <2>3. /\ outbox' = Append(outbox, Replied(Head(inbox))) /\ UNCHANGED handled
        /\ step' \notin {"work", "reply"}
    BY <1>5 DEF GlibAnswers, Idle, Replied, historyVars
  <2>4. Replied(Head(inbox)).call.op = "Ping"
    BY <2>1 DEF Replied
  <2>5. QED
    BY <1>2, <2>2, <2>3, <2>4
<1>6. CASE Work
  BY <1>1, <1>6 DEF Work
<1>7. CASE Reply
  <2> DEFINE m == [kind |-> IF Succeeds(call) THEN "reply" ELSE "error", call |-> call]
  <2>1. m \in Message /\ m.call = call /\ call \in handled
    BY <1>0, <1>7, MessagesAreMessages DEF Reply, LoopOK, Answers, DoneFirst
  <2>2. outbox' = Append(outbox, m) /\ UNCHANGED handled /\ step' \notin {"work", "reply"}
    BY <1>7 DEF Reply, historyVars
  <2> HIDE DEF m
  <2>3. QED
    BY <1>2, <2>1, <2>2
<1>8. CASE Signal
  <2>1. call \in Call /\ UNCHANGED handled /\ step' \notin {"work", "reply"}
    BY <1>0, <1>8 DEF Signal, LoopOK, historyVars
  <2>2. PICK kind \in SignalOf(call) : outbox' = Append(outbox, [kind |-> kind, call |-> call])
    BY <1>8 DEF Signal
  <2>3. [kind |-> kind, call |-> call] \in Message /\ kind \notin Answers
    BY <2>1, MessagesAreMessages DEF SignalOf, Answers
  <2>4. QED
    BY <1>2, <2>1, <2>2, <2>3
<1>9. CASE WorkerSends
  <2>1. outbox # <<>> /\ outbox' = Tail(outbox) /\ UNCHANGED <<handled, call, step>>
    BY <1>9 DEF WorkerSends, loopVars
  <2>2. /\ Len(outbox) \in Nat \ {0} /\ Len(outbox') = Len(outbox) - 1
        /\ \A i \in 1..Len(outbox) - 1 : outbox'[i] = outbox[i + 1]
    BY <1>0, <2>1, QueueTail
  <2>3. \A i \in 1..Len(outbox') : i + 1 \in 1..Len(outbox) /\ outbox'[i] = outbox[i + 1]
    BY <2>2
  <2>4. QED
    BY <2>1, <2>3 DEF DoneFirst
<1>10. CASE ClientCall \/ shim_units_dispatch \/ Finish \/ exit_on_inactivity \/ shim_bus_acquired \/ UNCHANGED vars
  <2>1. /\ UNCHANGED <<outbox, handled>>
        /\ step' \notin {"work", "reply"} \/ UNCHANGED <<step, call>>
    BY <1>10 DEF ClientCall, shim_units_dispatch, Finish, exit_on_inactivity, shim_bus_acquired, vars, loopVars,
                 historyVars, Idle
  <2>2. QED
    BY <1>1, <2>1 DEF DoneFirst
<1>11. QED
  BY <1>3, <1>4, <1>5, <1>6, <1>7, <1>8, <1>9, <1>10
     DEF Next, Handler, shim_name_lost, Kill, Exit

ServiceInv ==
  TypeOK /\ Numbered /\ PlacesInv /\ OnTheWay /\ InOrder /\ DoneFirst

\* Each step of the process, the bus and the worker thread is one of the service,
\* or none that the callers see.
LEMMA StepsAreInTurn == ServiceInv /\ [Next]_vars => [Service!Next]_(Service!serviceVars)
<1> SUFFICES ASSUME ServiceInv, [Next]_vars
             PROVE  Service!Next \/ UNCHANGED Service!serviceVars
  OBVIOUS
<1>0. /\ LoopOK /\ AccountOK /\ Numbered /\ Waits /\ Placed /\ OnTheWay /\ InOrder /\ DoneFirst
      /\ inbox \in Seq(Call) /\ outbox \in Seq(Message)
      /\ \A c \in Call : c.serial \in Int
  BY TypeParts, ManagerAssumption DEF ServiceInv, PlacesInv, LoopOK, Call
<1>1. CASE UNCHANGED <<busVars, historyVars>>
  BY <1>1 DEF busVars, historyVars, Service!serviceVars
<1>2. CASE ClientCall
  <2>1. Service!Ask
    BY <1>2 DEF ClientCall, historyVars, Service!Ask
  <2>2. QED
    BY <2>1 DEF Service!Next
<1>3. ProcessEnds => Service!End
  BY DEF ProcessEnds, Service!End
<1>4. CASE shim_name_lost \/ Exit
  <2>1. outbox = <<>> /\ step # "reply" /\ ProcessEnds
    BY <1>0, <1>4 DEF shim_name_lost, Exit, LoopOK
  <2>2. pending \cap handled = {}
    BY <1>0, <2>1, EmptySeq DEF OnTheWay
  <2>3. QED
    BY <1>3, <1>4, <2>1, <2>2 DEF Service!Next, Service!Exit, shim_name_lost, Exit
<1>5. CASE Kill
  <2>1. pending \cap handled \subseteq cut'
    BY <1>0, <1>5, NoCallAssumption DEF OnTheWay, Kill, LoopOK, AccountOK
  <2>2. QED
    BY <1>3, <1>5, <2>1 DEF Kill, Service!Next, Service!Kill
<1>6. CASE Work
  <2>1. call \in pending /\ call \in Call /\ call.op # "Ping" /\ InHand
    BY <1>0, <1>6 DEF Work, Waits, InHand, AccountOK, DoneFirst
  <2>2. ASSUME NEW d \in pending, d.op # "Ping", d.serial < call.serial,
               d.op \in UnitObject => call.op \in UnitObject
        PROVE  d \in handled
    <3>1. d \in Call
      BY <1>0 DEF AccountOK
    <3>2. d # call
      BY <1>0, <2>1, <2>2, <3>1
    <3>3. \A i \in 1..Len(inbox) : inbox[i] # d
      <4>1. \A i \in 1..Len(inbox) : Ahead(call, inbox[i])
        BY <1>0, <2>1 DEF InOrder
      <4>2. QED
        BY <1>0, <2>1, <2>2, <3>1, <4>1 DEF Ahead
    <3>4. PICK i \in 1..Len(outbox) : outbox[i].kind \in Answers /\ outbox[i].call = d
      BY <1>0, <3>2, <3>3 DEF Placed
    <3>5. QED
      BY <1>0, <2>2, <3>4 DEF DoneFirst
  <2>3. Service!Before(call) \subseteq handled
    BY <1>0, <2>2 DEF Service!Before, AccountOK
  <2>4. Service!Do(call)
    BY <1>6, <2>1, <2>3 DEF Work, busVars, Service!Do
  <2>5. QED
    BY <2>1, <2>4 DEF Service!Next
<1>7. CASE WorkerSends
  <2> DEFINE m == Head(outbox)
  <2>1. /\ outbox # <<>> /\ UNCHANGED <<sent, handled, unanswered, cut>>
        /\ pending' = IF m.kind \in Answers THEN pending \ {m.call} ELSE pending
    BY <1>7 DEF WorkerSends
  <2>2. m = outbox[1] /\ 1 \in 1..Len(outbox)
    BY <1>0, <2>1, QueueTail
  <2> HIDE DEF m
  <2>3. CASE m.kind \notin Answers
    BY <2>1, <2>3 DEF Service!serviceVars
  <2>4. CASE m.kind \in Answers
    <3>1. m.call \in pending /\ m.call \in Call /\ (m.call \in handled \/ m.call.op = "Ping")
      BY <1>0, <2>2, <2>4 DEF Waits, AccountOK, DoneFirst
    <3>2. ASSUME NEW d \in pending, d.serial < m.call.serial,
                 d.op \in UnitObject => m.call.op \in UnitObject
          PROVE  FALSE
      <4>1. d \in Call
        BY <1>0 DEF AccountOK
      <4>2. \A i \in 1..Len(inbox) : Ahead(m.call, inbox[i])
        BY <1>0, <2>2, <2>4 DEF InOrder
      <4>3. InHand => Ahead(m.call, call)
        BY <1>0, <2>2, <2>4 DEF InOrder
      <4>4. PICK i \in 1..Len(outbox) : outbox[i].kind \in Answers /\ outbox[i].call = d
        BY <1>0, <3>1, <3>2, <4>1, <4>2, <4>3 DEF Placed, Ahead
      <4>5. i # 1 => Ahead(m.call, d)
        <5>1. i # 1 => 1 < i
          BY <1>0, LenProperties
        <5>2. QED
          BY <1>0, <2>2, <2>4, <4>4, <5>1 DEF InOrder
      <4>6. i = 1 => m.call = d
        BY <2>2, <4>4
      <4>7. QED
        BY <1>0, <3>1, <3>2, <4>1, <4>5, <4>6 DEF Ahead
    <3>3. Service!Before(m.call) = {}
      BY <1>0, <3>1, <3>2 DEF Service!Before, AccountOK
    <3>4. Service!Answer(m.call)
      BY <2>1, <2>4, <3>1, <3>3 DEF Service!Answer
    <3>5. QED
      BY <3>1, <3>4 DEF Service!Next
  <2>5. QED
    BY <2>3, <2>4
<1>8. shim_bus_acquired \/ shim_units_dispatch \/ Take \/ GlibAnswers \/ Reply \/ Signal \/ Finish \/ exit_on_inactivity
        => UNCHANGED <<busVars, historyVars>>
  BY DEF shim_bus_acquired, shim_units_dispatch, Take, GlibAnswers, Reply, Signal, Finish, exit_on_inactivity
<1>9. QED
  BY <1>1, <1>2, <1>4, <1>5, <1>6, <1>7, <1>8 DEF Next, Handler, vars, Service!serviceVars

\* The shim works on the calls in the order in which they came, but that a call
\* to a unit's object may be overtaken by calls that are none; it answers each of
\* them after that and in its turn, and fails only what it has not worked on, or
\* was killed in the middle of: it implements the service its callers rely on.
THEOREM CallsAreInTurn == Spec => CallsInTurn
<1>1. Init => PlacesInv /\ InOrder /\ DoneFirst /\ OnTheWay
  BY EmptySeq DEF Init, PlacesInv, Distinct, Waits, Placed, InHand, InOrder, DoneFirst, OnTheWay
<1>2. Init => Service!Init
  BY DEF Init, Service!Init
<1>3. TypeOK /\ Numbered /\ PlacesInv /\ OnTheWay /\ InOrder /\ DoneFirst => ServiceInv
  BY DEF ServiceInv
<1>4. PlacesInv => Waits
  BY DEF PlacesInv
<1>5. QED
  BY <1>1, <1>2, <1>3, <1>4, PlacesStep, OnTheWayStep, InOrderStep, DoneFirstStep, StepsAreInTurn,
     NumberedStays, TypeCorrect, PTL DEF Spec, CallsInTurn, Service!Spec
===============================================================================
