------------------------------- MODULE UnitState -------------------------------
(***************************************************************************)
(* src/src/state.c: the units the shim started, kept in a GKeyFile that is *)
(* loaded on first use, cached for the life of the process, and written to *)
(* /run/systemd-shim-state after every change.                             *)
(*                                                                         *)
(* A group of the key file exists exactly for a unit whose "path" key is   *)
(* set (no other key is ever written), so the file's content is a function *)
(* from units to paths.  g_key_file_save_to_file replaces the file by      *)
(* renaming a complete temporary one: a save happens or does not happen.   *)
(***************************************************************************)
CONSTANTS Units,       \* unit names
          Paths,       \* cgroup paths
          NoPath,      \* "no such group"
          LoadFaults,  \* whether g_key_file_load_from_file may fail
          SaveFaults   \* whether g_key_file_save_to_file may fail

ASSUME StateAssumption ==
  /\ NoPath \notin Paths
  /\ LoadFaults \in BOOLEAN
  /\ SaveFaults \in BOOLEAN

VARIABLES key_file,    \* the cached GKeyFile
          loaded,      \* whether the static pointer to it is set
          disk         \* the content of /run/systemd-shim-state

stateVars == <<key_file, loaded, disk>>

Content == [Units -> Paths \cup {NoPath}]
Empty == [u \in Units |-> NoPath]

TypeOK ==
  /\ key_file \in Content
  /\ loaded \in BOOLEAN
  /\ disk \in Content

Init == key_file = Empty /\ loaded = FALSE /\ disk = Empty

\* Mutant: what the file lists is not read into the new key file.
state_get_key_file_unread == IF loaded THEN {key_file} ELSE {[u \in {} |-> NoPath]}

\* The key files state_get_key_file can return: the cached one, or a new one
\* filled from the file.  The error of a failed load is ignored.
state_get_key_file ==
  IF loaded THEN {key_file}
            ELSE {disk} \cup (IF LoadFaults THEN {Empty} ELSE {})

\* Mutant: the file is truncated first and then written.
state_sync_in_place ==
  \/ disk' = key_file'
  \/ SaveFaults /\ disk' = Empty

\* The whole key file is written; a failed save is only logged.
state_sync ==
  \/ disk' = key_file'
  \/ SaveFaults /\ disk' = disk

\* state_get_string and state_list_units: neither changes the content.
state_read ==
  /\ key_file' \in state_get_key_file
  /\ loaded' = TRUE
  /\ disk' = disk

\* Mutant: the file is written before it was ever read.
state_set_string_unloaded(u, p) ==
  /\ key_file' = [key_file EXCEPT ![u] = p]
  /\ loaded' = TRUE
  /\ state_sync

state_set_string(u, p) ==
  /\ \E kf \in state_get_key_file : key_file' = [kf EXCEPT ![u] = p]
  /\ loaded' = TRUE
  /\ state_sync

\* Removing a group that does not exist is an ignored error; the file is
\* written all the same.
state_remove_unit(u) ==
  /\ \E kf \in state_get_key_file : key_file' = [kf EXCEPT ![u] = NoPath]
  /\ loaded' = TRUE
  /\ state_sync

\* The process ends, at any moment and for any reason, and a later message
\* on the bus starts a new one: the static pointer is NULL again.
Restart ==
  /\ key_file' = Empty
  /\ loaded' = FALSE
  /\ disk' = disk

\* /run is a new tmpfs after a reboot.
Reboot ==
  /\ key_file' = Empty
  /\ loaded' = FALSE
  /\ disk' = Empty

Next ==
  \/ state_read
  \/ \E u \in Units, p \in Paths : state_set_string(u, p)
  \/ \E u \in Units : state_remove_unit(u)
  \/ Restart
  \/ Reboot

Spec == Init /\ [][Next]_stateVars

-------------------------------------------------------------------------------
\* What a caller of state.c sees, whether or not the file is loaded yet.
Seen == IF loaded THEN key_file ELSE disk

Registry == INSTANCE UnitRegistry WITH view <- Seen, saved <- disk

\* The cached, lazily loaded and possibly unsaved key file behaves as the one
\* registry of UnitRegistry: loading it is invisible, an update changes the
\* entry of its own unit only, a save that succeeds also makes up for earlier
\* ones that failed, and a restart loses only what was not saved.
RegistrySpec == Registry!Spec

\* While the file can be read and written, the cache and the file agree, so
\* a process may end at any moment without a unit being forgotten.
CacheIsFile == (~SaveFaults /\ ~LoadFaults /\ loaded) => key_file = disk
===============================================================================
