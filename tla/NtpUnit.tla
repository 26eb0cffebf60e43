-------------------------------- MODULE NtpUnit --------------------------------
(***************************************************************************)
(* src/src/ntp-unit.c: time synchronization by two services, either of     *)
(* which may be installed.  ntpdate runs from a hook that is switched off  *)
(* by renaming it; ntpd is switched at boot and at once, by two commands.  *)
(* What any of the calls returns is ignored.  The unit keeps no state: it  *)
(* finds the machine as the packages, the administrator, an earlier        *)
(* process that ended halfway or a reboot have left it.                    *)
(***************************************************************************)
CONSTANT Faults      \* whether a rename or a command may fail

ASSUME NtpAssumption == Faults \in BOOLEAN

Services == {"ntpdate", "ntpd"}

VARIABLES
  installed,   \* the services whose program is there
  hook,        \* which names of the hook exist: "enabled", "disabled", both
  boot,        \* ntpd is started at boot
  running,     \* ntpd runs
  step,        \* where the handler is
  using_ntp,   \* its argument
  asked        \* history: what was last asked for, if all went well since

vars == <<installed, hook, boot, running, step, using_ntp, asked>>

TypeOK ==
  /\ installed \subseteq Services
  /\ hook \subseteq {"enabled", "disabled"}
  /\ boot \in BOOLEAN
  /\ running \in BOOLEAN
  /\ running => "ntpd" \in installed
  /\ step \in {"idle", "ntpdate", "rc", "service"}
  /\ using_ntp \in BOOLEAN
  /\ asked \in {"nothing", "start", "stop"}
  /\ step # "idle" => asked \in {"nothing", IF using_ntp THEN "start" ELSE "stop"}

Init ==
  /\ installed \in SUBSET Services
  /\ hook \in SUBSET {"enabled", "disabled"}
  /\ boot \in BOOLEAN
  /\ running \in BOOLEAN
  /\ running => "ntpd" \in installed
  /\ step = "idle"
  /\ using_ntp = FALSE
  /\ asked = "nothing"

ntp_unit_get_using_ntpdate == "ntpdate" \in installed /\ "enabled" \in hook

ntp_unit_get_using_ntpd == "ntpd" \in installed /\ running

\* ntp_unit_get_state is "enabled".
Enabled == ntp_unit_get_using_ntpdate \/ ntp_unit_get_using_ntpd

\* The hook after rename(2): nothing happens if the source does not exist,
\* and a target that exists is replaced.
Renamed(from, to) == IF from \in hook THEN (hook \ {from}) \cup {to} ELSE hook

-------------------------------------------------------------------------------
\* StartUnit or StopUnit, for a unit that lookup_unit finds.
Take ==
  /\ step = "idle"
  /\ installed # {}
  /\ step' = "ntpdate"
  /\ using_ntp' \in BOOLEAN
  /\ asked' = IF using_ntp' THEN "start" ELSE "stop"
  /\ UNCHANGED <<installed, hook, boot, running>>

ntp_unit_set_using_ntpdate ==
  /\ step = "ntpdate"
  /\ step' = "rc"
  /\ \/ /\ hook' = IF "ntpdate" \notin installed \/ using_ntp = ntp_unit_get_using_ntpdate
                   THEN hook
                   ELSE IF using_ntp THEN Renamed("disabled", "enabled")
                                     ELSE Renamed("enabled", "disabled")
        /\ UNCHANGED asked
     \/ Faults /\ asked' = "nothing" /\ UNCHANGED hook
  /\ UNCHANGED <<installed, boot, running, using_ntp>>

\* Mutant: as for ntpdate, nothing is done if it seems to be done.
UpdateRc_ifChanged ==
  /\ step = "rc"
  /\ step' = IF "ntpd" \in installed /\ using_ntp # ntp_unit_get_using_ntpd THEN "service" ELSE "idle"
  /\ boot' = IF step' = "service" THEN using_ntp ELSE boot
  /\ UNCHANGED <<installed, hook, running, using_ntp, asked>>

\* The first command of ntp_unit_set_using_ntpd.
UpdateRc ==
  /\ step = "rc"
  /\ IF "ntpd" \in installed
     THEN /\ step' = "service"
          /\ \/ boot' = using_ntp /\ UNCHANGED asked
             \/ Faults /\ asked' = "nothing" /\ UNCHANGED boot
     ELSE step' = "idle" /\ UNCHANGED <<boot, asked>>
  /\ UNCHANGED <<installed, hook, running, using_ntp>>

\* The second one, which fails if the package is gone by now.
Service ==
  /\ step = "service"
  /\ step' = "idle"
  /\ \/ running' = (using_ntp /\ "ntpd" \in installed) /\ UNCHANGED asked
     \/ Faults /\ asked' = "nothing" /\ UNCHANGED running
  /\ UNCHANGED <<installed, hook, boot, using_ntp>>

-------------------------------------------------------------------------------
\* The process ends before it is done.
ShimDies ==
  /\ step # "idle"
  /\ step' = "idle"
  /\ asked' = "nothing"
  /\ UNCHANGED <<installed, hook, boot, running, using_ntp>>

Reboot ==
  /\ running' = (boot /\ "ntpd" \in installed)
  /\ step' = "idle"
  /\ asked' = IF step = "idle" THEN asked ELSE "nothing"
  /\ UNCHANGED <<installed, hook, boot, using_ntp>>

\* A package is removed; the hook and the links for the boot stay.
Remove(s) ==
  /\ s \in installed
  /\ installed' = installed \ {s}
  /\ running' = IF s = "ntpd" THEN FALSE ELSE running
  /\ UNCHANGED <<hook, boot, step, using_ntp, asked>>

\* Somebody else installs packages, switches ntpd, or moves the hook.
Disturb ==
  /\ installed' \in SUBSET Services
  /\ installed \subseteq installed'
  /\ hook' \in SUBSET {"enabled", "disabled"}
  /\ boot' \in BOOLEAN
  /\ running' \in BOOLEAN
  /\ running' => "ntpd" \in installed'
  /\ asked' = "nothing"
  /\ UNCHANGED <<step, using_ntp>>

Next ==
  \/ Take \/ ntp_unit_set_using_ntpdate \/ UpdateRc \/ Service
  \/ ShimDies \/ Reboot \/ Disturb
  \/ \E s \in Services : Remove(s)

Spec == Init /\ [][Next]_vars

-------------------------------------------------------------------------------
\* There is something to switch on.
Usable == "ntpd" \in installed \/ ("ntpdate" \in installed /\ hook # {})

\* Once a start or a stop went through, get_state says so: whatever state an
\* earlier call that failed or ended halfway had left, after any number of
\* reboots, and, since both services are switched, also when one of them is
\* removed (unless all that is left is an ntpdate without a hook).
StateIsAsAsked ==
  step = "idle" =>
    /\ asked = "stop" => ~Enabled
    /\ asked = "start" /\ Usable => Enabled
===============================================================================
