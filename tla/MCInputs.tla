-------------------------------- MODULE MCInputs --------------------------------
(***************************************************************************)
(* Inputs over small alphabets, and the tables of virt.c.                  *)
(***************************************************************************)
EXTENDS Inputs

\* /, a, underscore, dash, digits and letters of codes, a blank, a byte of UTF-8.
Bytes == {97, 95, 45, 50, 100, 32, 195}

SliceChars == {"user", "-", "0", "1", "9", "a", ".slice"}

EnvironWords == {"container=", "lxc", "HOME=/", Nul}

AllWords ==
  EnvironWords \cup Managers \cup
  {Newline, "QEMU", "VMware", "VMW", "Microsoft Corporation", "Inc.", "innotek GmbH", "Xen",
   "Bochs", "Dell", "", "KVMKVMKVM", "some other"}

\* What may be found on a machine; the same, if nothing is inside a container.
Readings ==
  [root : BOOLEAN, init_root : {1, Failed}, own_root : {1, 2, Failed}, vz : BOOLEAN, bc : BOOLEAN,
   environ : {Missing, <<"container=", "lxc", Nul>>},
   cpuid : {"", "KVMKVMKVM", "some other"},
   dmi : [1..3 -> {Missing, Failed, <<"QEMU">>, <<"Microsoft Corporation", "Inc.">>,
                     <<"Dell", Newline, "QEMU">>}]]

Calls ==
  {r \in Readings :
     /\ r.own_root = 1 /\ ~r.vz /\ ~r.bc
     /\ r.cpuid = ""
     /\ r.dmi[1] = Missing /\ r.dmi[3] = Missing}

Alphabets == [object |-> Bytes, slice |-> SliceChars, environ |-> EnvironWords,
              machine |-> Readings, calls |-> Calls]
Lengths == [object |-> 5, slice |-> 6, environ |-> 6, machine |-> 1, calls |-> 3]

CpuidTable == {<<"XenVMMXenVMM", "xen">>, <<"KVMKVMKVM", "kvm">>,
               <<"VMwareVMware", "vmware">>, <<"Microsoft Hv", "microsoft">>}

DmiTable == << <<<<"QEMU">>, "qemu">>, <<<<"VMware">>, "vmware">>, <<<<"VMW">>, "vmware">>,
               <<<<"Microsoft Corporation">>, "microsoft">>, <<<<"innotek GmbH">>, "oracle">>,
               <<<<"Xen">>, "xen">>, <<<<"Bochs">>, "bochs">> >>
===============================================================================
