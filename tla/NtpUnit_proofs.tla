---------------------------- MODULE NtpUnit_proofs ----------------------------
(***************************************************************************)
(* Theorems about NtpUnit.                                                 *)
(***************************************************************************)
EXTENDS NtpUnit, TLAPS

\* Every variable keeps its type, and ntpd only runs where it is installed.
THEOREM TypeCorrect == Spec => []TypeOK
<1>1. Init => TypeOK
  BY DEF Init, TypeOK
<1>2. TypeOK /\ [Next]_vars => TypeOK'
  <2> SUFFICES ASSUME TypeOK, [Next]_vars
               PROVE  TypeOK'
    OBVIOUS
  <2> USE DEF TypeOK
  <2>1. CASE Take
    BY <2>1 DEF Take
  <2>2. CASE ntp_unit_set_using_ntpdate
    BY <2>2 DEF ntp_unit_set_using_ntpdate, Renamed
  <2>3. CASE UpdateRc
    BY <2>3 DEF UpdateRc
  <2>4. CASE Service
    BY <2>4 DEF Service
  <2>5. CASE ShimDies
    BY <2>5 DEF ShimDies
  <2>6. CASE Reboot
    BY <2>6 DEF Reboot
  <2>7. CASE Disturb
    BY <2>7 DEF Disturb
  <2>8. ASSUME NEW s \in Services, Remove(s)
        PROVE  TypeOK'
    <3>1. CASE s = "ntpd"
      BY <2>8, <3>1 DEF Remove
    <3>2. CASE s # "ntpd"
      BY <2>8, <3>2 DEF Remove
    <3>3. QED
      BY <3>1, <3>2
  <2>9. CASE UNCHANGED vars
    BY <2>9 DEF vars
  <2>10. QED
    BY <2>1, <2>2, <2>3, <2>4, <2>5, <2>6, <2>7, <2>8, <2>9 DEF Next
<1>3. QED
  BY <1>1, <1>2, PTL DEF Spec

-------------------------------------------------------------------------------
(* What a call has switched so far stays switched. *)

HookSwitched ==
  /\ asked = "stop" => ~ntp_unit_get_using_ntpdate
  /\ asked = "start" /\ "ntpdate" \in installed /\ hook # {} => ntp_unit_get_using_ntpdate

BootSwitched ==
  "ntpd" \in installed =>
    /\ asked = "stop" => ~boot
    /\ asked = "start" => boot

NtpdSwitched ==
  "ntpd" \in installed =>
    /\ asked = "stop" => ~running
    /\ asked = "start" => running

\* The steps switch the hook, then the boot, then ntpd itself; boot and ntpd
\* have to agree in the end for a reboot to change nothing.
Switched ==
  /\ step \in {"rc", "service", "idle"} => HookSwitched
  /\ step \in {"service", "idle"} => BootSwitched
  /\ step = "idle" => NtpdSwitched

LEMMA SwitchedAlways == Spec => []Switched
<1>1. Init => Switched
  BY DEF Init, Switched, HookSwitched, BootSwitched, NtpdSwitched
<1>2. TypeOK /\ Switched /\ [Next]_vars => Switched'
  <2> SUFFICES ASSUME TypeOK, Switched, [Next]_vars
               PROVE  Switched'
    OBVIOUS
  <2> USE DEF TypeOK, Switched, HookSwitched, BootSwitched, NtpdSwitched,
              ntp_unit_get_using_ntpdate
  <2>1. CASE Take
    BY <2>1 DEF Take
  <2>2. CASE ntp_unit_set_using_ntpdate
    BY <2>2 DEF ntp_unit_set_using_ntpdate, Renamed
  <2>3. CASE UpdateRc
    BY <2>3 DEF UpdateRc
  <2>4. CASE Service
    BY <2>4 DEF Service
  <2>5. CASE ShimDies
    BY <2>5 DEF ShimDies
  <2>6. CASE Reboot
    BY <2>6 DEF Reboot
  <2>7. CASE Disturb
    BY <2>7 DEF Disturb
  <2>8. CASE \E s \in Services : Remove(s)
    BY <2>8 DEF Remove
  <2>9. CASE UNCHANGED vars
    BY <2>9 DEF vars
  <2>10. QED
    BY <2>1, <2>2, <2>3, <2>4, <2>5, <2>6, <2>7, <2>8, <2>9 DEF Next
<1>3. QED
  BY <1>1, <1>2, TypeCorrect, PTL DEF Spec

\* After a start or a stop that went through, get_state says so for good.
THEOREM AsAsked == Spec => []StateIsAsAsked
<1>1. Switched => StateIsAsAsked
  BY DEF Switched, HookSwitched, NtpdSwitched, StateIsAsAsked, Enabled, Usable,
         ntp_unit_get_using_ntpdate, ntp_unit_get_using_ntpd
<1>2. QED
  BY <1>1, SwitchedAlways, PTL
===============================================================================
