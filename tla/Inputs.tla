--------------------------------- MODULE Inputs ---------------------------------
(***************************************************************************)
(* The functions of the shim that have no state.  A behaviour builds one   *)
(* input, element by element, on one of the topics: the name of a unit or  *)
(* an element of an object path, byte by byte; the name of a slice; the    *)
(* environment of the first process; what one call finds on a machine; or  *)
(* what several calls of one process find.                                 *)
(***************************************************************************)
EXTENDS ObjectPath, SlicePath, Virt

CONSTANTS Alphabet,     \* what an input on each topic is made of
          MaxLength     \* the bound of its length, topic by topic

Topics == {"object", "slice", "environ", "machine", "calls"}

ASSUME AlphabetAssumption ==
  /\ Alphabet["object"] \subseteq Byte
  /\ Alphabet["environ"] \subseteq Word
  /\ Alphabet["machine"] \subseteq Reading

VARIABLES topic, input

Init == topic \in Topics /\ input = <<>>

Next ==
  /\ Len(input) < MaxLength[topic]
  /\ \E x \in Alphabet[topic] : input' = Append(input, x)
  /\ UNCHANGED topic

Spec == Init /\ [][Next]_<<topic, input>>

-------------------------------------------------------------------------------
\* escape_object_path and unescape_object_path: see ObjectPath.
ObjectRoundTrip == topic = "object" => RoundTrip(input)
ObjectNodeIsLegal == topic = "object" => NodeIsLegal(input)
ObjectNodeIsAnAlias == topic = "object" => NodeIsAnAlias(input)

\* cgroup_unit_get_path_and_uid: see SlicePath.
SliceAncestors == topic = "slice" /\ input # <<>> => AncestorsAreSlices(input)
SliceOwner == topic = "slice" => UidIsTheUsers(input)

\* detect_container, detect_vm, detect_virtualization: see Virt.
VirtContainer == topic = "environ" => ContainerIsFound(input)
VirtMachine == topic = "machine" => \A i \in 1..Len(input) : VmIsFound(input[i])
VirtAnswer == topic = "calls" => AnswerSticks(input)
===============================================================================
