--------------------------- MODULE UnitState_proofs ---------------------------
(***************************************************************************)
(* Theorems about UnitState, for every set of units and paths.             *)
(***************************************************************************)
EXTENDS UnitState, TLAPS

\* What state_get_key_file returns is well-formed.
LEMMA KeyFileContent ==
  ASSUME TypeOK, NEW kf \in state_get_key_file
  PROVE  kf \in Content
BY DEF TypeOK, state_get_key_file, Content, Empty

\* The cache and the file are always well-formed contents.
THEOREM TypeCorrect == Spec => []TypeOK
<1>1. Init => TypeOK
  BY DEF Init, TypeOK, Content, Empty
<1>2. TypeOK /\ [Next]_stateVars => TypeOK'
  <2> SUFFICES ASSUME TypeOK, [Next]_stateVars
               PROVE  TypeOK'
    OBVIOUS
  <2>1. CASE state_read
    BY <2>1, KeyFileContent DEF state_read, TypeOK
  <2>2. ASSUME NEW u \in Units, NEW p \in Paths, state_set_string(u, p)
        PROVE  TypeOK'
    BY <2>2, KeyFileContent DEF state_set_string, state_sync, TypeOK, Content
  <2>3. ASSUME NEW u \in Units, state_remove_unit(u)
        PROVE  TypeOK'
    BY <2>3, KeyFileContent DEF state_remove_unit, state_sync, TypeOK, Content
  <2>4. CASE Restart
    BY <2>4 DEF Restart, TypeOK, Content, Empty
  <2>5. CASE Reboot
    BY <2>5 DEF Reboot, TypeOK, Content, Empty
  <2>6. CASE UNCHANGED stateVars
    BY <2>6 DEF stateVars, TypeOK
  <2>7. QED
    BY <2>1, <2>2, <2>3, <2>4, <2>5, <2>6 DEF Next
<1>3. QED
  BY <1>1, <1>2, PTL DEF Spec

\* While the file can be read and written, the cached key file never differs
\* from it: a restart at any moment loses no unit.
THEOREM CacheAgrees == Spec => []CacheIsFile
<1>1. Init => CacheIsFile
  BY DEF Init, CacheIsFile
<1>2. CacheIsFile /\ [Next]_stateVars => CacheIsFile'
  <2> SUFFICES ASSUME CacheIsFile, [Next]_stateVars, ~SaveFaults, ~LoadFaults, loaded'
               PROVE  key_file' = disk'
    BY DEF CacheIsFile
  <2>1. ASSUME NEW kf \in state_get_key_file
        PROVE  kf = disk
    BY <2>1 DEF state_get_key_file, CacheIsFile
  <2>2. CASE state_read
    BY <2>1, <2>2 DEF state_read
  <2>3. CASE \E u \in Units, p \in Paths : state_set_string(u, p)
    BY <2>3 DEF state_set_string, state_sync
  <2>4. CASE \E u \in Units : state_remove_unit(u)
    BY <2>4 DEF state_remove_unit, state_sync
  <2>5. CASE Restart \/ Reboot
    BY <2>5 DEF Restart, Reboot
  <2>6. CASE UNCHANGED stateVars
    BY <2>6 DEF stateVars, CacheIsFile
  <2>7. QED
    BY <2>2, <2>3, <2>4, <2>5, <2>6 DEF Next
<1>3. QED
  BY <1>1, <1>2, PTL DEF Spec

\* Each step of state.c is one step of the registry, or none.
LEMMA StepRefines ==
  [Next]_stateVars => [Registry!Next]_(Registry!registryVars)
<1> SUFFICES ASSUME [Next]_stateVars
             PROVE  Registry!Next \/ UNCHANGED Registry!registryVars
  OBVIOUS
<1> USE DEF Registry!Next, Registry!registryVars, Registry!Nothing, Registry!Found, Seen, Empty
<1>1. ASSUME NEW kf \in state_get_key_file
      PROVE  kf \in Registry!Found
  BY <1>1 DEF state_get_key_file
<1>2. CASE state_read
  <2>1. Registry!Look
    BY <1>1, <1>2 DEF state_read, Registry!Look
  <2>2. QED
    BY <2>1
<1>3. ASSUME NEW u \in Units, NEW p \in Paths, state_set_string(u, p)
      PROVE  Registry!Next
  <2>1. Registry!Update(u, p)
    BY <1>1, <1>3 DEF state_set_string, state_sync, Registry!Update
  <2>2. QED
    BY <2>1
<1>4. ASSUME NEW u \in Units, state_remove_unit(u)
      PROVE  Registry!Next
  <2>1. Registry!Update(u, NoPath)
    BY <1>1, <1>4 DEF state_remove_unit, state_sync, Registry!Update
  <2>2. QED
    BY <2>1
<1>5. CASE Restart
  BY <1>5 DEF Restart, Registry!Restart
<1>6. CASE Reboot
  BY <1>6 DEF Reboot, Registry!Reboot
<1>7. CASE UNCHANGED stateVars
  BY <1>7 DEF stateVars
<1>8. QED
  BY <1>2, <1>3, <1>4, <1>5, <1>6, <1>7 DEF Next

\* The lazily loaded, cached and possibly unsaved key file implements the
\* registry its callers rely on.
THEOREM StateRefinesRegistry == Spec => RegistrySpec
<1>1. Init => Registry!Init
  BY DEF Init, Registry!Init, Registry!Nothing, Seen, Empty
<1>2. QED
  BY <1>1, StepRefines, PTL DEF Spec, RegistrySpec, Registry!Spec
===============================================================================
