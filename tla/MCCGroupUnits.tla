---------------------------- MODULE MCCGroupUnits ----------------------------
(***************************************************************************)
(* Instances of CGroupUnits for TLC.                                       *)
(***************************************************************************)
EXTENDS CGroupUnits, TLC

CONSTANTS user, user1, c1, c2, t1, t2, t3

\* One slice.
Flat == {}

\* user1 stands for user-1000.slice, in user.slice.
Nested == {<<user1, user>>}

\* Process ids differ only in what happens to them.
PidSymmetry == Permutations(Pids)

\* Bound, and the assumption of NoOrphan: scopes are started in user1 only, and
\* nothing is asked for that the shim would refuse.
OneSliceForScopes ==
  \A i \in 1..Len(inbox') :
    \/ inbox'[i].op = "StopUnit"
    \/ /\ ValidStart(inbox'[i])
       /\ inbox'[i].unit \in Scopes => inbox'[i].slice = user1

\* Bound: a request that names no tasks is sent when the shim is idle.  Nothing
\* that happens before the shim takes it up depends on it.
SentWhenIdle ==
  Len(inbox') > Len(inbox) => step = "idle" \/ inbox'[Len(inbox')].pids # {}
===============================================================================
