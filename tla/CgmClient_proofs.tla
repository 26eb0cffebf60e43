--------------------------- MODULE CgmClient_proofs ---------------------------
(***************************************************************************)
(* Theorems about CgmClient.                                               *)
(***************************************************************************)
EXTENDS CgmClient, TLAPS

\* After the first call there is no second attempt to connect, and a shim
\* that is about to write over a connection that stands has seen that no
\* agent is installed.
LookedFirst ==
  /\ TypeOK
  /\ step \in {"none", "MovePidAbs"} \/ initialised
  /\ step = "MovePidAbs" => ~initialised
  /\ initialised \in BOOLEAN /\ (~initialised => connection = "none" /\ attempts = 0)
  /\ step = "SetValue" /\ connection = "live" /\ ~CallFaults /\ ~Races
       => release_agent = "empty"
  /\ step = "loop" /\ connection = "live" /\ ~CallFaults => at_root /\ release_agent # "empty"
  /\ step \in {"GetValue", "SetValue"} /\ connection = "live" /\ ~CallFaults => at_root

LEMMA LookedFirstAlways == Spec => []LookedFirst
<1> USE DEF LookedFirst, TypeOK, Agents, Calls
<1>1. Init => LookedFirst
  BY DEF Init
<1>2. LookedFirst /\ [Next]_vars => LookedFirst'
  <2> SUFFICES ASSUME LookedFirst, [Next]_vars
               PROVE  LookedFirst'
    OBVIOUS
  <2> USE DEF first_use, Succeeds, Fails, cgmanager_connect
  <2>1. CASE Start
    BY <2>1 DEF Start
  <2>2. CASE MovePidAbs
    <3>1. initialised' = TRUE /\ attempts' = 1
      BY <2>2 DEF MovePidAbs
    <3>2. connection' \in {"none", "live"} /\ (connection' = "live" => cgmanager = "up")
      BY <2>2 DEF MovePidAbs
    <3>3. at_root' \in BOOLEAN /\ (connection' = "live" /\ ~CallFaults => at_root')
      BY <2>2 DEF MovePidAbs
    <3>4. step' = "GetValue" /\ UNCHANGED <<cgmanager, release_agent, need_agent>>
      BY <2>2 DEF MovePidAbs
    <3>5. QED
      BY <3>1, <3>2, <3>3, <3>4
  <2>3. CASE GetValue
    BY <2>3 DEF GetValue, found_none
  <2>4. CASE SetValue
    BY <2>4 DEF SetValue
  <2>5. CASE ProcessEnds
    BY <2>5 DEF ProcessEnds
  <2>6. CASE CgmStops
    BY <2>6 DEF CgmStops
  <2>7. CASE CgmStarts
    BY <2>7 DEF CgmStarts, processVars
  <2>8. CASE OtherInstalls
    BY <2>8 DEF OtherInstalls, processVars
  <2>9. CASE UNCHANGED vars
    BY <2>9 DEF vars, processVars
  <2>10. QED
    BY <2>1, <2>2, <2>3, <2>4, <2>5, <2>6, <2>7, <2>8, <2>9 DEF Next
<1>3. QED
  BY <1>1, <1>2, PTL DEF Spec

\* Every variable keeps its type; in particular a process never tries a second
\* time to connect, and never holds a connection to a cgmanager that is gone.
THEOREM ConnectsOnce == Spec => []TypeOK
<1>1. LookedFirst => TypeOK
  BY DEF LookedFirst
<1>2. QED
  BY <1>1, LookedFirstAlways, PTL

\* The shim does not replace an agent that was there when it looked, unless
\* its look fails for another reason than the connection.
THEOREM AgentStays == Spec => AgentKept
<1>1. LookedFirst /\ [Next]_vars =>
        [~CallFaults /\ ~Races /\ release_agent = "other" => release_agent' = "other"]_vars
  <2> SUFFICES ASSUME LookedFirst, Next, ~CallFaults, ~Races, release_agent = "other"
               PROVE  release_agent' = "other"
    OBVIOUS
  <2>1. CASE SetValue
    BY <2>1 DEF SetValue, Succeeds, Fails, first_use, LookedFirst
  <2>2. QED
    BY <2>1 DEF Next, Start, MovePidAbs, GetValue, ProcessEnds, CgmStops, CgmStarts, OtherInstalls
<1>2. QED
  BY <1>1, LookedFirstAlways, PTL DEF Spec, AgentKept

\* When requests are handled over a connection that stands, the start-up has
\* done what it is for.
THEOREM StartUpDone == Spec => []AgentInstalled
<1>1. LookedFirst => AgentInstalled
  BY DEF LookedFirst, AgentInstalled
<1>2. QED
  BY <1>1, LookedFirstAlways, PTL
===============================================================================
