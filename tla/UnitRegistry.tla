----------------------------- MODULE UnitRegistry -----------------------------
(***************************************************************************)
(* What the unit-state file (src/src/state.c) promises its callers: one    *)
(* registry that maps a unit to the cgroup path it was started with.       *)
(* Callers see "view"; "saved" is what a new process will start from.      *)
(* Neither the cache nor the moment it is loaded is visible here.          *)
(***************************************************************************)
CONSTANTS Units,       \* unit names
          Paths,       \* cgroup paths
          NoPath,      \* "the unit has no entry"
          LoadFaults,  \* whether reading the file back may fail
          SaveFaults   \* whether writing the file may fail

VARIABLES view,        \* the registry the callers see
          saved        \* the registry a restart brings back

registryVars == <<view, saved>>

Nothing == [u \in Units |-> NoPath]

Init == view = Nothing /\ saved = Nothing

\* What the callers may find: a file that cannot be read counts as empty.
Found == {view} \cup (IF LoadFaults THEN {Nothing} ELSE {})

\* One entry changes; the whole registry is saved with it, or the save fails.
Update(u, p) ==
  /\ \E found \in Found : view' = [found EXCEPT ![u] = p]
  /\ \/ saved' = view'
     \/ SaveFaults /\ saved' = saved

\* A new process sees what was saved last.
Restart == view' = saved /\ UNCHANGED saved

\* The file lives on a file system that does not survive a reboot.
Reboot == view' = Nothing /\ saved' = Nothing

\* Looking at the registry does not touch what is saved.
Look == view' \in Found /\ UNCHANGED saved

Next ==
  \/ \E u \in Units, p \in Paths \cup {NoPath} : Update(u, p)
  \/ Restart
  \/ Reboot
  \/ Look

Spec == Init /\ [][Next]_registryVars
===============================================================================
