------------------------------ MODULE CallService ------------------------------
(***************************************************************************)
(* What the callers of the shim may rely on, without queues, callbacks,    *)
(* threads, timeouts and the life of the process: a call is worked on when *)
(* those before it were, it is answered after that and in its turn, and    *)
(* when the process ends by itself only what nobody worked on may fail.    *)
(* Manager implements it.                                                  *)
(***************************************************************************)
EXTENDS Naturals

CONSTANTS Calls,     \* numbered in the order in which they are made
          ByGlib,    \* those that need no work of the shim
          Late,      \* those that the others may overtake
          Killable   \* whether the process may be killed

VARIABLES asked,     \* how many calls were made
          waiting,   \* those that wait for an answer
          done,      \* those that were worked on
          failed,    \* those the process left behind when it ended
          lost       \* those in the middle of which it was killed

serviceVars == <<asked, waiting, done, failed, lost>>

Init == asked = 0 /\ waiting = {} /\ done = {} /\ failed = {} /\ lost = {}

\* The calls that the shim has to work on before this one.
Before(c) == {d \in waiting \ ByGlib : d.serial < c.serial /\ (d \in Late => c \in Late)}

Ask ==
  /\ asked' = asked + 1
  /\ \E c \in Calls : c.serial = asked' /\ waiting' = waiting \cup {c}
  /\ UNCHANGED <<done, failed, lost>>

Do(c) ==
  /\ c \notin ByGlib
  /\ Before(c) \subseteq done
  /\ done' = done \cup {c}
  /\ UNCHANGED <<asked, waiting, failed, lost>>

Answer(c) ==
  /\ c \in ByGlib \/ (c \in done /\ Before(c) = {})
  /\ waiting' = waiting \ {c}
  /\ UNCHANGED <<asked, done, failed, lost>>

\* The process ends, and the bus tells those who wait.
End ==
  /\ waiting' = {}
  /\ failed' = failed \cup waiting
  /\ UNCHANGED <<asked, done>>

Exit == waiting \cap done = {} /\ End /\ UNCHANGED lost

Kill ==
  /\ Killable
  /\ lost \subseteq lost'
  /\ waiting \cap done \subseteq lost'
  /\ End

Next ==
  \/ Ask
  \/ \E c \in waiting : Do(c) \/ Answer(c)
  \/ Exit
  \/ Kill

Spec == Init /\ [][Next]_serviceVars
===============================================================================
