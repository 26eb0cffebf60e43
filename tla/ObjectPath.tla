------------------------------ MODULE ObjectPath ------------------------------
(***************************************************************************)
(* The last element of a unit's object path (escape_object_path and        *)
(* unescape_object_path of src/src/systemd-shim.c).  A string is a         *)
(* sequence of its bytes, without the terminating NUL.                     *)
(***************************************************************************)
EXTENDS Integers, Sequences, SequencesExt

Byte == 1..255

Digits == 48..57
Uppers == 65..90
Lowers == 97..122

g_ascii_isalnum(b) == b \in Digits \cup Uppers \cup Lowers
g_ascii_isxdigit(b) == b \in Digits \cup 65..70 \cup 97..102
g_ascii_isgraph(b) == b \in 33..126
g_ascii_xdigit_value(b) ==
  IF b \in Digits THEN b - 48 ELSE IF b \in Uppers THEN b - 55 ELSE b - 87

Underscore == 95

\* "_%02x" cut off after three characters.  gchar is signed, so a byte above
\* 127 is printed as a negative number, and all that is left of it is "_ff".
hex(d) == IF d < 10 THEN 48 + d ELSE 87 + d
escaped(b) ==
  LET shown == IF b < 128 THEN b ELSE 255
  IN <<Underscore, hex(shown \div 16), hex(shown % 16)>>

\* Mutants: the underscore stays as it is; other characters, too.
code_underscore(b) == IF g_ascii_isalnum(b) \/ b = Underscore THEN <<b>> ELSE escaped(b)
code_graph(b) == IF g_ascii_isgraph(b) /\ b # Underscore THEN <<b>> ELSE escaped(b)

\* What is written for one byte.
code(b) == IF g_ascii_isalnum(b) THEN <<b>> ELSE escaped(b)

\* The buffer after i rounds of the loop.
escapes(name) ==
  LET node[i \in 0..Len(name)] == IF i = 0 THEN <<>> ELSE node[i - 1] \o code(name[i])
  IN node

escape_object_path(name) == escapes(name)[Len(name)]

\* Two hexadecimal digits follow the byte at i.
CodeAt(node, i) ==
  /\ i + 2 <= Len(node)
  /\ g_ascii_isxdigit(node[i + 1])
  /\ g_ascii_isxdigit(node[i + 2])

\* Mutant: a code may stand for anything.
unescape_step_any(node, loop, i) ==
  IF loop.skip > 0 THEN [loop EXCEPT !.skip = @ - 1]
  ELSE IF node[i] # Underscore THEN [loop EXCEPT !.result = Append(@, node[i])]
  ELSE IF ~CodeAt(node, i) THEN loop
  ELSE [skip |-> 2,
        result |-> Append(loop.result,
          g_ascii_xdigit_value(node[i + 1]) * 16 + g_ascii_xdigit_value(node[i + 2]))]

\* One round of the loop at byte i, with "skip" bytes still to pass over.  An
\* underscore without a code is dropped, and so is what no name may contain.
unescape_step(node, loop, i) ==
  IF loop.skip > 0 THEN [loop EXCEPT !.skip = @ - 1]
  ELSE IF node[i] # Underscore THEN [loop EXCEPT !.result = Append(@, node[i])]
  ELSE IF ~CodeAt(node, i) THEN loop
  ELSE LET val == g_ascii_xdigit_value(node[i + 1]) * 16 + g_ascii_xdigit_value(node[i + 2])
       IN [skip |-> 2, result |-> loop.result \o (IF g_ascii_isgraph(val) THEN <<val>> ELSE <<>>)]

\* The loop after i bytes.
unescapes(node) ==
  LET loop[i \in 0..Len(node)] ==
        IF i = 0 THEN [skip |-> 0, result |-> <<>>] ELSE unescape_step(node, loop[i - 1], i)
  IN loop

unescape_object_path(node) == unescapes(node)[Len(node)].result

-------------------------------------------------------------------------------
IsName(s) == s \in Seq(33..126)

\* A unit that shim_units_enumerate lists is the one that Abandon on its object
\* path reaches: whatever printable characters its name has, underscores and
\* what looks like a code included, the name survives the way there and back.
RoundTrip(s) == IsName(s) => unescape_object_path(escape_object_path(s)) = s

\* Whatever bytes a name in the state file has, the object path made of it is
\* one that D-Bus accepts, in the three bytes per byte the code allocates.
NodeIsLegal(s) ==
  LET node == escape_object_path(s)
  IN /\ Len(node) <= 3 * Len(s)
     /\ \A i \in 1..Len(node) : g_ascii_isalnum(node[i]) \/ node[i] = Underscore

\* Whatever legal element of a path a client calls (the subtree dispatches to
\* elements that are not listed, too), the unit that it reaches is the one that
\* the path listed for that unit reaches; and its name fits into the buffer,
\* which has the size of the element.
NodeIsAnAlias(s) ==
  (\A i \in 1..Len(s) : g_ascii_isalnum(s[i]) \/ s[i] = Underscore) =>
    LET name == unescape_object_path(s)
    IN /\ Len(name) <= Len(s)
       /\ unescape_object_path(escape_object_path(name)) = name
===============================================================================
