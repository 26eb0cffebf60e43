------------------------------ MODULE UnitService ------------------------------
(***************************************************************************)
(* What the shim promises logind about its scopes and slices, without the  *)
(* state file, its cache, cgmanager, and the processes around: it works on *)
(* one request at a time, a request commits what it asked for, once at     *)
(* most and to its own unit only, it has committed when it is answered,    *)
(* and what it committed survives the end of the process.  CGroupUnits     *)
(* implements it.                                                          *)
(***************************************************************************)
CONSTANTS Units,    \* unit names
          Paths,    \* cgroup paths
          NoPath    \* the unit is not known

VARIABLES units,    \* the path of each unit
          busy,     \* the unit of the request that is worked on, if any
          open      \* what that request asked for, as long as it may still commit

serviceVars == <<units, busy, open>>

Init ==
  /\ units = [u \in Units |-> NoPath]
  /\ busy = {}
  /\ open = {}

\* A request is taken up, which asks for its unit to be at some path, or gone.
\* One that is refused, or is about a unit that is not known, has nothing to commit.
Begin(u) ==
  /\ busy = {}
  /\ busy' = {u}
  /\ open' \in {{}} \cup {{p} : p \in Paths \cup {NoPath}}
  /\ UNCHANGED units

\* The unit is where the request asked for it to be.
Commit(u, p) ==
  /\ u \in busy
  /\ p \in open
  /\ units' = [units EXCEPT ![u] = p]
  /\ open' = {}
  /\ UNCHANGED busy

Answer ==
  /\ open = {}
  /\ busy' = {}
  /\ UNCHANGED <<units, open>>

\* The process ends, and forgets the request but nothing else.
End == busy' = {} /\ open' = {} /\ UNCHANGED units

Next ==
  \/ \E u \in Units : Begin(u)
  \/ \E u \in Units, p \in Paths \cup {NoPath} : Commit(u, p)
  \/ Answer
  \/ End

Spec == Init /\ [][Next]_serviceVars
===============================================================================
