------------------------------ MODULE CGroupTree ------------------------------
(***************************************************************************)
(* The cgroup paths the shim uses.  A slice has a path of its own and a    *)
(* scope a path below a slice's; the name of a slice says which slices it  *)
(* is nested in ("user-1000.slice" lies in "user.slice"), so the nesting   *)
(* is a constant.  A path is the slice at its end and the scope below it,  *)
(* if any: the components before the slice follow from its name.           *)
(***************************************************************************)
CONSTANTS Slices,   \* unit names that end in ".slice"
          Scopes,   \* unit names that end in ".scope"
          Within,   \* <<s, t>>: slice s is nested in slice t
          NoName    \* no scope (in a path), no usable slice (in a request)

ASSUME TreeAssumption ==
  /\ Slices \cap Scopes = {}
  /\ NoName \notin Slices \cup Scopes
  /\ Within \subseteq Slices \X Slices
  /\ \A s \in Slices : <<s, s>> \notin Within
  /\ \A r, s, t \in Slices : <<r, s>> \in Within /\ <<s, t>> \in Within => <<r, t>> \in Within

Unit == Slices \cup Scopes

Path == [slice : Slices, scope : Scopes \cup {NoName}]

\* The path of a slice (scope = NoName), or of a scope in a slice.
path_of(slice, scope) == [slice |-> slice, scope |-> scope]

\* The last component of a path.
basename(p) == IF p.scope = NoName THEN p.slice ELSE p.scope

\* The cgroup at q is the one at p, or lies below it.
Covers(p, q) ==
  \/ p = q
  \/ /\ p.scope = NoName
     /\ q.slice = p.slice \/ <<q.slice, p.slice>> \in Within

\* What "mkdir -p" makes sure of.
AncestorsOf(p) == {q \in Path : Covers(q, p)}
===============================================================================
