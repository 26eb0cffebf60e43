---------------------------------- MODULE Virt ----------------------------------
(***************************************************************************)
(* The detection of virtualization (src/src/virt.c, with the helpers of    *)
(* src/src/util.c).  A "reading" is what one call finds on the machine.  A *)
(* text is a sequence of words, and one that another starts with ends      *)
(* between two words of it.                                                *)
(***************************************************************************)
EXTENDS Integers, Sequences, SequencesExt, FiniteSetsExt

CONSTANTS Word,         \* what the texts are made of
          LineMax,      \* LINE_MAX, in words
          Nul,          \* ends a variable in /proc/1/environ
          Newline,      \* ends a line of any other file
          Missing,      \* a file that is not there
          Failed,       \* a file that cannot be read
          Signatures,   \* cpuid_vendor_table, a set of <<signature, id>>
          Vendors       \* dmi_vendor_table, a sequence of <<text, id>>

Managers == {"lxc", "lxc-libvirt", "systemd-nspawn"}

\* What a file can hold, and what one call can find on a machine: a directory
\* by its device and inode, the environment, the signature of the processor, and
\* the three files of the DMI.
Text == Seq(Word)
Directory == Nat \cup {Failed}
Reading == [root : BOOLEAN, init_root : Directory, own_root : Directory, vz : BOOLEAN, bc : BOOLEAN,
            environ : Text \cup {Missing}, cpuid : Word,
            dmi : [1..3 -> Text \cup {Missing, Failed}]]

ASSUME LineAssumption == LineMax \in Nat \ {0, 1}

ASSUME FileAssumption ==
  /\ Missing # Failed
  /\ Missing \notin Text /\ Failed \notin Text

\* What is looked for does not contain what ends it, and fits into a line; a
\* processor without a signature matches none.
ASSUME EnvironAssumption == {"container="} \cup Managers \subseteq Word \ {Nul}
ASSUME VendorAssumption ==
  \A i \in 1..Len(Vendors) :
    Vendors[i][1] \in Seq(Word \ {Newline}) /\ Len(Vendors[i][1]) < LineMax
ASSUME SignatureAssumption == \A e \in Signatures : e[1] # ""

\* A result: "none", "vm", "container", or "error" for any errno.
Nothing == [virt |-> "none", id |-> ""]
Failure == [virt |-> "error", id |-> ""]
Container(id) == [virt |-> "container", id |-> id]
Vm(id) == [virt |-> "vm", id |-> id]

(* util.c *)

startswith(s, prefix) == IsPrefix(prefix, s)

\* The first line of a file, as far as it fits; that of an empty file is empty.
read_one_line_file(file) ==
  IF file \in {Missing, Failed} THEN file
  ELSE LET fits == SubSeq(file, 1, Min({Len(file), LineMax - 1}))
           ends == {i \in 1..Len(fits) : fits[i] = Newline}
       IN IF ends = {} THEN fits ELSE SubSeq(fits, 1, Min(ends) - 1)

\* Whether the first process has another root directory, if that can be seen.
running_in_chroot(r) ==
  IF Failed \in {r.init_root, r.own_root} THEN "error"
  ELSE IF r.init_root # r.own_root THEN "yes" ELSE "no"

-------------------------------------------------------------------------------
(* detect_container: the environment of the first process. *)

\* One word is read: a line ends with it if the word is the terminator, or when
\* the buffer is full.
read_word(state, w) ==
  IF w = Nul THEN [lines |-> Append(state.lines, state.line), line |-> <<>>]
  ELSE IF Len(state.line) + 1 = LineMax - 1
  THEN [lines |-> Append(state.lines, Append(state.line, w)), line |-> <<>>]
  ELSE [state EXCEPT !.line = Append(@, w)]

\* What has been read after i words, and the lines of the loop; the last line
\* ends with the file.
reads(environ) ==
  LET state[i \in 0..Len(environ)] ==
        IF i = 0 THEN [lines |-> <<>>, line |-> <<>>] ELSE read_word(state[i - 1], environ[i])
  IN state
lines_of(environ) ==
  LET all == reads(environ)[Len(environ)]
  IN Append(all.lines, all.line)

\* Mutant: only the first variable is looked at.
container_line_first(lines) ==
  IF startswith(lines[1], <<"container=">>) THEN {1} ELSE {}

\* The lines that name a container manager.
container_line(lines) == {i \in 1..Len(lines) : startswith(lines[i], <<"container=">>)}

container_id(line) ==
  IF \E m \in Managers : line = <<"container=", m>> THEN line[2] ELSE "other"

detect_environ(environ) ==
  LET lines == lines_of(environ)
  IN IF container_line(lines) = {} THEN Nothing
     ELSE Container(container_id(lines[Min(container_line(lines))]))

\* That the root directories cannot be seen does not make it a container.
detect_container(r) ==
  IF ~r.root THEN Failure
  ELSE IF running_in_chroot(r) = "yes" THEN Container("chroot")
  ELSE IF r.vz /\ ~r.bc THEN Container("openvz")
  ELSE IF r.environ = Missing THEN Nothing
  ELSE detect_environ(r.environ)

-------------------------------------------------------------------------------
(* detect_vm. *)

\* The last entry of the table that the text starts with, or "".
vendor_of(text) ==
  LET matches == {i \in 1..Len(Vendors) : startswith(text, Vendors[i][1])}
  IN IF matches = {} THEN "" ELSE Vendors[Max(matches)][2]

\* Mutant: a file that is not there ends the search, too.
dmi_step_strict(found, file) ==
  LET s == read_one_line_file(file)
  IN IF found # Nothing THEN found
     ELSE IF s \in {Missing, Failed} THEN Failure
     ELSE IF vendor_of(s) # "" THEN Vm(vendor_of(s)) ELSE Nothing

\* The next of the three files, unless the search is over.
dmi_step(found, file) ==
  LET s == read_one_line_file(file)
  IN IF found # Nothing THEN found
     ELSE IF s = Missing THEN Nothing
     ELSE IF s = Failed THEN Failure
     ELSE IF vendor_of(s) # "" THEN Vm(vendor_of(s)) ELSE Nothing

\* The signature is that of the hypervisor, or "" without one.
detect_vm(r) ==
  LET known == {e \in Signatures : e[1] = r.cpuid}
      dmi == dmi_step(dmi_step(dmi_step(Nothing, r.dmi[1]), r.dmi[2]), r.dmi[3])
  IN IF known # {} THEN Vm((CHOOSE e \in known : TRUE)[2])
     ELSE IF dmi # Nothing THEN dmi
     ELSE IF r.cpuid # "" THEN Vm("other") ELSE Nothing

detect(r) ==
  LET container == detect_container(r)
  IN IF container # Nothing THEN container ELSE detect_vm(r)

-------------------------------------------------------------------------------
(* detect_virtualization, call after call in one process. *)

Invalid == [virt |-> "invalid", id |-> ""]

\* Mutant: an error is kept like any other result.
remember_error(cached, r) == IF cached # Invalid THEN cached ELSE detect(r)

\* What the process remembers after a call: the first result without an error.
remember(cached, r) ==
  IF cached # Invalid THEN cached
  ELSE IF detect(r) = Failure THEN Invalid ELSE detect(r)

\* What the process remembers after i calls, and what the property says then.
remembers(readings) ==
  LET cached[i \in 0..Len(readings)] ==
        IF i = 0 THEN Invalid ELSE remember(cached[i - 1], readings[i])
  IN cached
Virtualization(readings) == remembers(readings)[Len(readings)].id

-------------------------------------------------------------------------------
\* However the environment of the first process is cut into lines, the first
\* variable "container" in it decides, wherever it is and whether or not it is
\* terminated - as long as no variable is longer than a line (of a longer one,
\* virt.c:187 takes the rest for a variable of its own).
ContainerIsFound(environ) ==
  LET starts == {i \in 1..Len(environ) :
                   environ[i] = "container=" /\ (i = 1 \/ environ[i - 1] = Nul)}
      is(i, m) == /\ i + 1 <= Len(environ) /\ environ[i + 1] = m
                  /\ i + 2 <= Len(environ) => environ[i + 2] = Nul
      short == \A i \in 1..Len(environ) - LineMax + 1 :
                 \E j \in i..i + LineMax - 1 : environ[j] = Nul
  IN short =>
       detect_environ(environ) =
         IF starts = {} THEN Nothing
         ELSE LET named == {m \in Managers : is(Min(starts), m)}
              IN Container(IF named = {} THEN "other" ELSE CHOOSE m \in named : TRUE)

\* The machine is said to be a virtual machine exactly if the processor says
\* so, or a file of the DMI names a vendor that is known, before a file that
\* cannot be read; it is said to be none only if nothing speaks for it and
\* every file that is there could be read.  A known signature of the processor
\* does not depend on the files at all.  (What an "other" line of a file says
\* does not count: a vendor is known by the start of the file.)
VmIsFound(r) ==
  LET telling == {i \in 1..3 : r.dmi[i] = Failed \/ (r.dmi[i] # Missing /\ vendor_of(r.dmi[i]) # "")}
      known == \E e \in Signatures : e[1] = r.cpuid
      broken == ~known /\ telling # {} /\ r.dmi[Min(telling)] = Failed
  IN /\ (detect_vm(r).virt = "error") = broken
     /\ (detect_vm(r) = Nothing) = (r.cpuid = "" /\ telling = {})
     /\ known => detect_vm(r) = detect_vm([r EXCEPT !.dmi = <<Missing, Missing, Missing>>])

\* Once the property has told a client something, it says that for as long as
\* the process lives; and what it says is what the first call found out that
\* did not fail: an error is never remembered, and never hides the answer.
AnswerSticks(readings) ==
  LET sound == {i \in 1..Len(readings) : detect(readings[i]) # Failure}
  IN Virtualization(readings) = IF sound = {} THEN "" ELSE detect(readings[Min(sound)]).id
===============================================================================
