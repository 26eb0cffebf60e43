------------------------------- MODULE SlicePath -------------------------------
(***************************************************************************)
(* cgroup_unit_get_path_and_uid of src/src/cgroup-unit.c: where a slice is *)
(* in the tree of cgroups, and which user owns it.  A name is a sequence   *)
(* of characters; "user" and ".slice", which the code only compares as a   *)
(* whole, count as one character each.  CGroupTree takes the nesting that  *)
(* follows as the constant Within.                                         *)
(***************************************************************************)
EXTENDS Integers, Sequences, SequencesExt

CONSTANTS MaxInt,     \* G_MAXINT
          MaxUllong   \* the largest guint64

ASSUME SliceAssumption ==
  /\ MaxInt \in Nat
  /\ MaxUllong \in Nat
  /\ MaxInt < MaxUllong

DigitChars == <<"0", "1", "2", "3", "4", "5", "6", "7", "8", "9">>
Decimals == {DigitChars[i] : i \in 1..10}
DigitValue(c) == (CHOOSE i \in 1..10 : DigitChars[i] = c) - 1

\* The number that the first n of the digits stand for, and all of them.
Numbers(digits) ==
  LET number[n \in 0..Len(digits)] ==
        IF n = 0 THEN 0 ELSE 10 * number[n - 1] + DigitValue(digits[n])
  IN number
Number(digits) == Numbers(digits)[Len(digits)]

-------------------------------------------------------------------------------
\* Mutant: the dash is part of the component.
component_dashed(slice, i) == SubSeq(slice, 1, i) \o <<".slice">>

\* What the loop appends at a dash: the name up to there, as that of a slice.
component(slice, i) == SubSeq(slice, 1, i - 1) \o <<".slice">>

\* The components of the path after n rounds of the loop: one for each dash.
components(slice) ==
  LET path[n \in 0..Len(slice)] ==
        IF n = 0 THEN <<>>
        ELSE IF slice[n] = "-" THEN Append(path[n - 1], component(slice, n))
        ELSE path[n - 1]
  IN path

\* The path of a slice: last comes its own name.
path_of(slice) == Append(components(slice)[Len(slice)], slice)

-------------------------------------------------------------------------------
\* How many of the characters of s after the first "from" are in C in a row.
Run(s, from, C) ==
  CHOOSE n \in 0..(Len(s) - from) :
    /\ \A i \in from + 1..from + n : s[i] \in C
    /\ from + n = Len(s) \/ s[from + n + 1] \notin C

\* g_ascii_strtoull in base 10: blanks and a sign are passed over, a negative
\* number wraps around, one that is too large is an error; without a digit the
\* result is 0 and nothing is consumed.
g_ascii_strtoull(s) ==
  LET blanks == Run(s, 0, {" "})
      signed == blanks < Len(s) /\ s[blanks + 1] \in {"-", "+"}
      start == IF signed THEN blanks + 1 ELSE blanks
      length == Run(s, start, Decimals)
      number == Number(SubSeq(s, start + 1, start + length))
  IN IF length = 0 THEN [value |-> 0, errno |-> FALSE, end |-> s]
     ELSE [value |-> IF number > MaxUllong THEN MaxUllong
                     ELSE IF signed /\ s[start] = "-" /\ number > 0 THEN MaxUllong + 1 - number
                     ELSE number,
           errno |-> number > MaxUllong,
           end |-> SubSeq(s, start + length + 1, Len(s))]

UserPrefix == <<"user", "-">>

\* Mutant: what follows the number is not looked at.
uid_of_anyEnd(slice) ==
  LET read == g_ascii_strtoull(SubSeq(slice, 3, Len(slice)))
  IN IF IsPrefix(UserPrefix, slice) /\ ~read.errno /\ read.value < MaxInt
     THEN read.value ELSE -1

\* The user that owns a slice, or -1.
uid_of(slice) ==
  LET read == g_ascii_strtoull(SubSeq(slice, 3, Len(slice)))
  IN IF IsPrefix(UserPrefix, slice) /\ ~read.errno /\ read.end = <<".slice">>
        /\ read.value < MaxInt
     THEN read.value ELSE -1

-------------------------------------------------------------------------------
\* Each cgroup on the way to a slice is the cgroup of the slice that it is
\* named after, wherever that is asked for: so slices whose names share a part
\* share the cgroups above them, and the name that a release agent takes from
\* the end of a path is that of a unit with this path.
AncestorsAreSlices(slice) ==
  \A k \in 1..Len(path_of(slice)) :
    path_of(path_of(slice)[k]) = SubSeq(path_of(slice), 1, k)

\* Of the names that go on with a digit after "user-", just "user-N.slice" with
\* a number below the largest user id is owned by a user, namely N; whatever
\* follows the number, as in the slices below that one, or a number too large
\* for a user id or even for the conversion, makes it nobody's.
UidIsTheUsers(slice) ==
  IsPrefix(UserPrefix, slice) /\ Len(slice) > 2 /\ slice[3] \in Decimals =>
    LET digits == SubSeq(slice, 3, Len(slice) - 1)
        users == /\ \A i \in 1..Len(digits) : digits[i] \in Decimals
                 /\ slice[Len(slice)] = ".slice"
                 /\ Number(digits) < MaxInt
    IN uid_of(slice) = IF users THEN Number(digits) ELSE -1
===============================================================================
