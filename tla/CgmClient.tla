------------------------------- MODULE CgmClient -------------------------------
(***************************************************************************)
(* The shim's connection to cgmanager (src/src/cgmanager.c): made by the   *)
(* first call of a process and never again, and used at the start of the   *)
(* process, before any request is handled, to leave the cgroup it was      *)
(* started in and to install its release agent.                            *)
(***************************************************************************)
EXTENDS Naturals

CONSTANTS CallFaults,   \* whether a call may fail although cgmanager runs
          Outages,      \* whether cgmanager may stop and be started
          Races         \* whether another agent may be installed between the
                        \* shim's look at the present one and its write

ASSUME ClientAssumption ==
  /\ CallFaults \in BOOLEAN
  /\ Outages \in BOOLEAN
  /\ Races \in BOOLEAN

VARIABLES
  cgmanager,       \* "down", "up", or "old": up with an API before version 8
  release_agent,   \* what the systemd hierarchy starts for an empty cgroup
  step,            \* "none": no process; then the calls of cgmanager_move_self
  initialised,
  connection,      \* "none", or whether the other end is still there
  need_agent,
  at_root,         \* the process has left the cgroup it was started in
  attempts         \* history: connections the process has tried to make

processVars == <<step, initialised, connection, need_agent, at_root, attempts>>
vars == <<cgmanager, release_agent, processVars>>

Agents == {"empty", "shim", "other"}
Calls == {"MovePidAbs", "GetValue", "SetValue"}

\* cgmanager_connect: NULL unless cgmanager answers with its API version.
cgmanager_connect ==
  \/ connection' = "live" /\ cgmanager = "up"
  \/ connection' = "none" /\ (cgmanager # "up" \/ CallFaults)

\* Mutant: only a connection that was made is not tried again.
first_use_retried ==
  IF connection # "none"
  THEN UNCHANGED <<initialised, connection, attempts>>
  ELSE /\ cgmanager_connect
       /\ initialised' = TRUE
       /\ attempts' = attempts + 1

\* The first call of the process connects, successfully or not.
first_use ==
  IF initialised
  THEN UNCHANGED <<initialised, connection, attempts>>
  ELSE /\ cgmanager_connect
       /\ initialised' = TRUE
       /\ attempts' = attempts + 1

\* cgmanager_call: whether it may succeed, and whether it may not.
Succeeds == first_use /\ connection' = "live"
Fails == first_use /\ (connection' # "live" \/ CallFaults)

-------------------------------------------------------------------------------
(* cgmanager_move_self, in main before the loop. *)

Start ==
  /\ step = "none"
  /\ step' = "MovePidAbs"
  /\ initialised' = FALSE
  /\ connection' = "none"
  /\ need_agent' = TRUE
  /\ at_root' = FALSE
  /\ attempts' = 0
  /\ UNCHANGED <<cgmanager, release_agent>>

MovePidAbs ==
  /\ step = "MovePidAbs"
  /\ step' = "GetValue"
  /\ \/ Succeeds /\ at_root' = TRUE
     \/ Fails /\ UNCHANGED at_root
  /\ UNCHANGED <<cgmanager, release_agent, need_agent>>

\* Mutant: an agent is installed in any case.
found_ignored == TRUE

\* Whether the answer to GetValue leaves the shim to install its agent.
found_none == release_agent = "empty"

\* need_agent keeps its initial value when the call fails.
GetValue ==
  /\ step = "GetValue"
  /\ \/ Succeeds /\ need_agent' = found_none
     \/ Fails /\ UNCHANGED need_agent
  /\ step' = IF need_agent' THEN "SetValue" ELSE "loop"
  /\ UNCHANGED <<cgmanager, release_agent, at_root>>

\* Mutant: the call is not made when there was no answer to the first one.
SetValue_skipped ==
  /\ step = "SetValue"
  /\ step' = "loop"
  /\ first_use
  /\ UNCHANGED <<cgmanager, release_agent, need_agent, at_root>>

SetValue ==
  /\ step = "SetValue"
  /\ step' = "loop"
  /\ \/ Succeeds /\ release_agent' = "shim"
     \/ Fails /\ UNCHANGED release_agent
  /\ UNCHANGED <<cgmanager, need_agent, at_root>>

ProcessEnds ==
  /\ step # "none"
  /\ step' = "none"
  /\ UNCHANGED <<cgmanager, release_agent, initialised, connection, need_agent, at_root, attempts>>

-------------------------------------------------------------------------------
(* The rest of the system. *)

\* cgmanager stops; connections to it are closed and stay so.
CgmStops ==
  /\ Outages
  /\ cgmanager # "down"
  /\ cgmanager' = "down"
  /\ connection' = IF connection = "live" THEN "closed" ELSE connection
  /\ UNCHANGED <<release_agent, step, initialised, need_agent, at_root, attempts>>

CgmStarts ==
  /\ Outages
  /\ cgmanager = "down"
  /\ cgmanager' \in {"up", "old"}
  /\ UNCHANGED <<release_agent, processVars>>

\* Somebody else installs an agent, cgmanager itself for instance.
OtherInstalls ==
  /\ Races \/ step # "SetValue"
  /\ release_agent' = "other"
  /\ UNCHANGED <<cgmanager, processVars>>

Init ==
  /\ cgmanager \in {"down", "up", "old"}
  /\ release_agent = "empty"
  /\ step = "none"
  /\ initialised = FALSE
  /\ connection = "none"
  /\ need_agent = TRUE
  /\ at_root = FALSE
  /\ attempts = 0

Next ==
  \/ Start \/ MovePidAbs \/ GetValue \/ SetValue \/ ProcessEnds
  \/ CgmStops \/ CgmStarts \/ OtherInstalls

Spec == Init /\ [][Next]_vars

-------------------------------------------------------------------------------
TypeOK ==
  /\ cgmanager \in {"down", "up", "old"}
  /\ release_agent \in Agents
  /\ step \in Calls \cup {"none", "loop"}
  /\ initialised \in BOOLEAN
  /\ connection \in {"none", "live", "closed"}
  /\ need_agent \in BOOLEAN
  /\ at_root \in BOOLEAN
  /\ attempts \in {0, 1}
  /\ connection = "live" => cgmanager = "up"

\* NEWS:4: "Don't override an existing release agent."
AgentNotOverridden == [][release_agent = "other" => release_agent' = "other"]_vars

\* That is so when an answer to the shim's look can only be missing because
\* the connection is, even if cgmanager comes and goes.
AgentKept ==
  [][~CallFaults /\ ~Races /\ release_agent = "other" => release_agent' = "other"]_vars

\* A shim whose connection still stands when it handles requests has left the
\* cgroup it was started in, and some agent will tell it of empty cgroups.
AgentInstalled ==
  ~CallFaults /\ step = "loop" /\ connection = "live" =>
    at_root /\ release_agent # "empty"
===============================================================================
