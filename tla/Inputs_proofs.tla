----------------------------- MODULE Inputs_proofs -----------------------------
(***************************************************************************)
(* Theorems about the functions of the shim, for inputs of every length    *)
(* over every alphabet.  Each loop of the code is a recursive function on  *)
(* the number of rounds; a lemma shows that it is defined and what a round *)
(* does, and the rest is induction over the rounds (Induction).            *)
(***************************************************************************)
EXTENDS Inputs, Induction

\* The elements of a sequence.
LEMMA Elements ==
  ASSUME NEW S, NEW q \in Seq(S)
  PROVE  Len(q) \in Nat /\ \A j \in 1..Len(q) : q[j] \in S
OBVIOUS

\* Sequences put one after the other.
LEMMA Joined ==
  ASSUME NEW S, NEW x \in Seq(S), NEW c \in Seq(S)
  PROVE  /\ x \o c \in Seq(S)
         /\ Len(x) \in Nat /\ Len(c) \in Nat
         /\ Len(x \o c) = Len(x) + Len(c)
         /\ \A j \in 1..Len(x) : (x \o c)[j] = x[j]
         /\ \A j \in 1..Len(c) : (x \o c)[Len(x) + j] = c[j]
OBVIOUS

\* A beginning of a sequence.
LEMMA Beginning ==
  ASSUME NEW S, NEW q \in Seq(S), NEW n \in 0..Len(q)
  PROVE  /\ SubSeq(q, 1, n) \in Seq(S)
         /\ Len(SubSeq(q, 1, n)) = n
         /\ \A i \in 1..n : SubSeq(q, 1, n)[i] = q[i]
OBVIOUS

\* A part of a sequence.
LEMMA Part ==
  ASSUME NEW S, NEW q \in Seq(S), NEW b \in 1..Len(q) + 1, NEW i \in b - 1..Len(q)
  PROVE  /\ SubSeq(q, b, i) \in Seq(S)
         /\ Len(SubSeq(q, b, i)) = i - b + 1
         /\ \A j \in 1..i - b + 1 : SubSeq(q, b, i)[j] = q[b + j - 1]
OBVIOUS

\* A sequence of one element.
LEMMA Singleton ==
  ASSUME NEW C, NEW q \in Seq(C), Len(q) = 1
  PROVE  q = <<q[1]>>
OBVIOUS

\* What it means that a sequence starts with another.
LEMMA PrefixOf ==
  ASSUME NEW S, NEW p \in Seq(S), NEW q \in Seq(S)
  PROVE  startswith(q, p) <=> Len(p) <= Len(q) /\ \A i \in 1..Len(p) : p[i] = q[i]
<1>1. Len(p) \in Nat /\ Len(q) \in Nat
  OBVIOUS
<1>2. CASE ~(Len(p) <= Len(q))
  BY <1>2, Zenon DEF startswith, IsPrefix
<1>3. CASE Len(p) <= Len(q)
  <2> DEFINE n == Len(p)
             a == SubSeq(p, 1, n)
             b == SubSeq(q, 1, n)
  <2>1. n \in 0..Len(p) /\ n \in 0..Len(q)
    BY <1>1, <1>3
  <2>2. /\ a \in Seq(S) /\ Len(a) = n /\ \A i \in 1..n : a[i] = p[i]
        /\ b \in Seq(S) /\ Len(b) = n /\ \A i \in 1..n : b[i] = q[i]
    BY <2>1, Beginning, Zenon
  <2> HIDE DEF a, b
  <2>3. a = b <=> \A i \in 1..n : a[i] = b[i]
    <3>1. \A x, y \in Seq(S) : Len(x) = Len(y) /\ (\A i \in 1..Len(x) : x[i] = y[i]) => x = y
      OBVIOUS
    <3> QED
      BY <2>2, <3>1, Zenon
  <2> HIDE DEF n
  <2>4. a = b <=> \A i \in 1..n : p[i] = q[i]
    BY <2>2, <2>3, Zenon
  <2> QED
    BY <1>3, <2>4, Zenon DEF startswith, IsPrefix, n, a, b
<1> QED
  BY <1>2, <1>3

\* The least of some naturals is one of them.
LEMMA MinOf ==
  ASSUME NEW T \in SUBSET Nat, T # {}
  PROVE  Min(T) \in T /\ \A m \in T : Min(T) <= m
<1>1. \E n \in T : \A m \in T : n <= m
  BY LeastNat
<1> QED
  BY <1>1, Zenon DEF Min

\* A number that is larger than all the others is not the least.
LEMMA MinOfMore ==
  ASSUME NEW F \in SUBSET Nat, F # {}, NEW b \in Nat, \A i \in F : i < b
  PROVE  Min(F \cup {b}) = Min(F)
<1> DEFINE G == F \cup {b}
           x == Min(F)
           y == Min(G)
<1>1. x \in F /\ \A j \in F : x <= j
  BY MinOf
<1>2. G \in SUBSET Nat /\ G # {}
  OBVIOUS
<1>3. y \in G /\ \A j \in G : y <= j
  BY <1>2, MinOf, Zenon
<1> HIDE DEF x, y
<1>4. x \in Nat /\ y \in Nat /\ x <= b /\ y <= x /\ (y \in F => x <= y) /\ (y \in F \/ y = b)
  BY <1>1, <1>2, <1>3
<1>5. x < b
  BY <1>1
<1>6. x = y
  BY <1>4, <1>5
<1> QED
  BY <1>6 DEF x, y

-------------------------------------------------------------------------------
(* The path of a slice. *)

\* The loop of cgroup_unit_get_path_and_uid: each dash makes a component.
LEMMA ComponentsLoop ==
  ASSUME NEW C, NEW s \in Seq(C)
  PROVE  /\ components(s)[0] = <<>>
         /\ \A n \in 1..Len(s) :
              components(s)[n] = IF s[n] = "-" THEN Append(components(s)[n - 1], component(s, n))
                                 ELSE components(s)[n - 1]
         /\ \A n \in 0..Len(s) : components(s)[n] \in Seq(Seq(C \cup {".slice"}))
<1> DEFINE S == Seq(Seq(C \cup {".slice"}))
           body(n, x) == IF s[n] = "-" THEN Append(x, component(s, n)) ELSE x
           step == [x \in (1..Len(s)) \X S |-> body(x[1], x[2])]
<1>1. Len(s) \in Nat /\ <<>> \in S
  OBVIOUS
<1>2. ASSUME NEW n \in 1..Len(s), NEW x \in S
      PROVE  body(n, x) \in S
  <2>1. SubSeq(s, 1, n - 1) \in Seq(C)
    OBVIOUS
  <2>2. SubSeq(s, 1, n - 1) \in Seq(C \cup {".slice"}) /\ <<".slice">> \in Seq(C \cup {".slice"})
    BY <2>1
  <2>3. component(s, n) \in Seq(C \cup {".slice"})
    BY <2>2 DEF component
  <2> QED
    BY <2>3
<1> HIDE DEF S, body
<1>3. step \in [(1..Len(s)) \X S -> S]
  BY <1>2
<1>4. \A n \in 1..Len(s), x \in S : step[<<n, x>>] = body(n, x)
  OBVIOUS
<1> HIDE DEF step
<1>5. PICK f : IsLoop(f, Len(s), S, <<>>, step)
  BY <1>1, <1>3, LoopExists
<1>6. ASSUME NEW n \in 1..Len(s)
      PROVE  f[n] = body(n, f[n - 1])
  <2>1. f[n - 1] \in S
    BY <1>1, <1>5 DEF IsLoop
  <2> QED
    BY <1>4, <1>5, <2>1 DEF IsLoop
<1>7. f = [n \in 0..Len(s) |-> IF n = 0 THEN <<>> ELSE body(n, f[n - 1])]
  BY <1>1, <1>5, <1>6 DEF IsLoop
<1>8. components(s) = [n \in 0..Len(s) |->
                         IF n = 0 THEN <<>> ELSE body(n, components(s)[n - 1])]
  BY <1>7, Zenon DEF components, body
<1> DEFINE p == components(s)
           T == {n \in 0..Len(s) : p[n] \in S}
<1> HIDE DEF p
<1>9. p[0] = <<>>
  BY <1>1, <1>8 DEF p
<1>10. \A n \in 1..Len(s) : p[n] = body(n, p[n - 1])
  BY <1>1, <1>8 DEF p
<1>11. 0 \in T
  BY <1>1, <1>9
<1>12. \A n \in 0..Len(s) - 1 : n \in T => n + 1 \in T
  BY <1>1, <1>2, <1>10
<1> HIDE DEF T
<1>13. 0..Len(s) \subseteq T
  BY <1>1, <1>11, <1>12, EveryRound
<1> QED
  BY <1>9, <1>10, <1>13 DEF T, S, p, body

LEMMA SameComponents ==
  ASSUME NEW C, NEW s \in Seq(C), NEW t \in Seq(C), NEW m \in Nat,
         m <= Len(s), m <= Len(t), \A i \in 1..m : s[i] = t[i]
  PROVE  \A n \in 0..m : components(s)[n] = components(t)[n]
<1> DEFINE T == {n \in 0..m : components(s)[n] = components(t)[n]}
<1>0. components(s)[0] = <<>> /\ components(t)[0] = <<>>
  BY ComponentsLoop
<1>1. 0 \in T
  BY <1>0
<1>2. ASSUME NEW n \in 0..m - 1, n \in T
      PROVE  n + 1 \in T
  <2>1. n + 1 \in 1..Len(s) /\ n + 1 \in 1..Len(t) /\ n + 1 \in 0..m /\ (n + 1) - 1 = n
    OBVIOUS
  <2>2. SubSeq(s, 1, n) = SubSeq(t, 1, n)
    OBVIOUS
  <2>3. component(s, n + 1) = component(t, n + 1)
    BY <2>1, <2>2 DEF component
  <2>4. s[n + 1] = t[n + 1] /\ components(s)[n] = components(t)[n]
    BY <1>2, <2>1
  <2>5. components(s)[n + 1] = IF s[n + 1] = "-" THEN Append(components(s)[n], component(s, n + 1))
                               ELSE components(s)[n]
    BY <2>1, ComponentsLoop
  <2>6. components(t)[n + 1] = IF t[n + 1] = "-" THEN Append(components(t)[n], component(t, n + 1))
                               ELSE components(t)[n]
    BY <2>1, ComponentsLoop
  <2> QED
    BY <2>1, <2>3, <2>4, <2>5, <2>6
<1> HIDE DEF T
<1>3. 0..m \subseteq T
  BY <1>1, <1>2, EveryRound
<1> QED
  BY <1>3 DEF T

LEMMA ComponentOfDash ==
  ASSUME NEW C, NEW s \in Seq(C)
  PROVE  \A n \in 0..Len(s) : \A k \in 1..Len(components(s)[n]) :
           \E i \in 1..Len(s) :
              /\ i <= n
              /\ s[i] = "-"
              /\ components(s)[n][k] = component(s, i)
              /\ SubSeq(components(s)[n], 1, k - 1) = components(s)[i - 1]
              /\ Len(components(s)[i - 1]) = k - 1
<1> DEFINE p == components(s)
           D == Seq(C \cup {".slice"})
           Of(n, k, i) == /\ i <= n
                          /\ s[i] = "-"
                          /\ p[n][k] = component(s, i)
                          /\ SubSeq(p[n], 1, k - 1) = p[i - 1]
                          /\ Len(p[i - 1]) = k - 1
           T == {n \in 0..Len(s) : \A k \in 1..Len(p[n]) : \E i \in 1..Len(s) : Of(n, k, i)}
<1>1. /\ Len(s) \in Nat
      /\ p[0] = <<>>
      /\ \A n \in 1..Len(s) : p[n] = IF s[n] = "-" THEN Append(p[n - 1], component(s, n))
                                     ELSE p[n - 1]
      /\ \A n \in 0..Len(s) : p[n] \in Seq(D)
  <2>1. Len(s) \in Nat
    OBVIOUS
  <2> QED
    BY <2>1, ComponentsLoop, Zenon
<1> HIDE DEF p
<1>2. 0 \in T
  BY <1>1
<1>3. ASSUME NEW n \in 0..Len(s) - 1, n \in T
      PROVE  n + 1 \in T
  <2>1. /\ n + 1 \in 1..Len(s)
        /\ n + 1 \in 0..Len(s)
        /\ n \in 0..Len(s)
        /\ p[n] \in Seq(D)
        /\ p[n + 1] = IF s[n + 1] = "-" THEN Append(p[n], component(s, n + 1)) ELSE p[n]
    BY <1>1
  <2> SUFFICES ASSUME NEW k \in 1..Len(p[n + 1])
               PROVE  \E i \in 1..Len(s) : Of(n + 1, k, i)
    BY <2>1
  <2>2. ASSUME s[n + 1] = "-", k = Len(p[n]) + 1
        PROVE  Of(n + 1, k, n + 1)
    <3>1. p[n + 1] = Append(p[n], component(s, n + 1))
      BY <2>1, <2>2
    <3>2. p[n + 1][k] = component(s, n + 1)
      BY <2>1, <2>2, <3>1
    <3>3. SubSeq(p[n + 1], 1, k - 1) = p[n]
      BY <2>1, <2>2, <3>1
    <3> QED
      BY <2>1, <2>2, <3>2, <3>3
  <2>3. ASSUME k \in 1..Len(p[n])
        PROVE  \E i \in 1..Len(s) : Of(n + 1, k, i)
    <3>1. PICK i \in 1..Len(s) : Of(n, k, i)
      BY <1>3, <2>3
    <3>2. p[n + 1][k] = p[n][k] /\ SubSeq(p[n + 1], 1, k - 1) = SubSeq(p[n], 1, k - 1)
      <4>1. CASE s[n + 1] = "-"
        <5> DEFINE c == component(s, n + 1)
        <5> HIDE DEF c
        <5>1. p[n + 1] = Append(p[n], c)
          BY <2>1, <4>1 DEF c
        <5>2. p[n] \in Seq(D) /\ k \in 1..Len(p[n])
          BY <2>1, <2>3
        <5>3. \A q \in Seq(D) : \A j \in 1..Len(q) :
                Append(q, c)[j] = q[j] /\ SubSeq(Append(q, c), 1, j - 1) = SubSeq(q, 1, j - 1)
          OBVIOUS
        <5> QED
          BY <5>1, <5>2, <5>3
      <4>2. CASE s[n + 1] # "-"
        BY <2>1, <4>2
      <4> QED
        BY <4>1, <4>2
    <3>3. Of(n + 1, k, i)
      BY <3>1, <3>2, <2>1
    <3> QED
      BY <3>3
  <2>4. Len(p[n]) \in Nat /\ (Len(p[n + 1]) = Len(p[n]) \/ (s[n + 1] = "-" /\ Len(p[n + 1]) = Len(p[n]) + 1))
    BY <2>1
  <2>5. k \in 1..Len(p[n]) \/ (s[n + 1] = "-" /\ k = Len(p[n]) + 1)
    BY <2>4
  <2> HIDE DEF Of
  <2> QED
    BY <2>1, <2>2, <2>3, <2>5
<1> HIDE DEF T, Of
<1>4. 0..Len(s) \subseteq T
  BY <1>1, <1>2, <1>3, EveryRound
<1> QED
  BY <1>4 DEF T, Of, p

LEMMA AncestorsOfSlices ==
  ASSUME NEW C, NEW slice \in Seq(C)
  PROVE  AncestorsAreSlices(slice)
<1> DEFINE D == C \cup {".slice"}
           p == components(slice)
           last == p[Len(slice)]
<1>1. /\ Len(slice) \in Nat
      /\ slice \in Seq(D)
      /\ \A n \in 0..Len(slice) : p[n] \in Seq(Seq(D))
  BY ComponentsLoop
<1>2. last \in Seq(Seq(D)) /\ path_of(slice) = Append(last, slice)
  BY <1>1 DEF path_of
<1>3. ASSUME NEW k \in 1..Len(last)
      PROVE  path_of(path_of(slice)[k]) = SubSeq(path_of(slice), 1, k)
  <2>1. PICK i \in 1..Len(slice) :
          /\ slice[i] = "-"
          /\ last[k] = component(slice, i)
          /\ SubSeq(last, 1, k - 1) = p[i - 1]
    <3>1. Len(slice) \in 0..Len(slice)
      BY <1>1
    <3> QED
      BY <3>1, ComponentOfDash, Zenon
  <2> DEFINE c == component(slice, i)
  <2>2. SubSeq(slice, 1, i - 1) \in Seq(D) /\ Len(SubSeq(slice, 1, i - 1)) = i - 1
    BY <1>1
  <2>3. /\ c \in Seq(D)
        /\ Len(c) = i
        /\ c[i] = ".slice"
        /\ \A j \in 1..i - 1 : c[j] = slice[j]
    <3> DEFINE q == SubSeq(slice, 1, i - 1)
               r == <<".slice">>
    <3>1. q \in Seq(D) /\ Len(q) = i - 1 /\ \A j \in 1..i - 1 : q[j] = slice[j]
      <4>1. i - 1 \in 0..Len(slice)
        BY <1>1
      <4> QED
        BY <1>1, <4>1, Beginning, Zenon
    <3>2. r \in Seq(D) /\ Len(r) = 1 /\ r[1] = ".slice"
      OBVIOUS
    <3> HIDE DEF q, r, D
    <3>3. /\ q \o r \in Seq(D)
          /\ Len(q \o r) = Len(q) + Len(r)
          /\ \A j \in 1..Len(q) : (q \o r)[j] = q[j]
          /\ \A j \in 1..Len(r) : (q \o r)[Len(q) + j] = r[j]
      <4>1. q \in Seq(D) /\ r \in Seq(D)
        BY <3>1, <3>2, Zenon
      <4> QED
        BY <4>1, Joined, SMT
    <3>4. c = q \o r
      BY Zenon DEF component, q, r
    <3> HIDE DEF c
    <3>5. i - 1 + 1 = i /\ 1 \in 1..1
      OBVIOUS
    <3> QED
      BY <3>1, <3>2, <3>3, <3>4, <3>5
  <2> HIDE DEF c
  <2>4. components(c)[i - 1] = p[i - 1]
    <3>1. i - 1 \in Nat /\ i - 1 <= Len(slice) /\ i - 1 <= Len(c) /\ i - 1 \in 0..i - 1
      BY <1>1, <2>3
    <3> QED
      BY <1>1, <2>3, <3>1, SameComponents
  <2>5. components(c)[i] = components(c)[i - 1]
    <3>1. i \in 1..Len(c)
      BY <1>1, <2>3
    <3> QED
      BY <2>3, <3>1, ComponentsLoop
  <2>6. path_of(c) = Append(p[i - 1], c)
    BY <2>3, <2>4, <2>5 DEF path_of
  <2>7. path_of(slice)[k] = c
    BY <1>2, <2>1 DEF c
  <2>8. SubSeq(path_of(slice), 1, k) = Append(SubSeq(last, 1, k - 1), last[k])
    BY <1>2
  <2> QED
    BY <2>1, <2>6, <2>7, <2>8 DEF c
<1>4. path_of(path_of(slice)[Len(last) + 1]) = SubSeq(path_of(slice), 1, Len(last) + 1)
  <2>1. Append(last, slice)[Len(last) + 1] = slice
    BY <1>1, <1>2
  <2>2. SubSeq(Append(last, slice), 1, Len(last) + 1) = Append(last, slice)
    BY <1>1, <1>2
  <2> QED
    BY <1>2, <2>1, <2>2
<1>5. Len(path_of(slice)) = Len(last) + 1 /\ Len(last) \in Nat
  BY <1>1, <1>2
<1>6. \A k \in 1..Len(path_of(slice)) : k \in 1..Len(last) \/ k = Len(last) + 1
  BY <1>5
<1> HIDE DEF last
<1> QED
  BY <1>3, <1>4, <1>6 DEF AncestorsAreSlices

-------------------------------------------------------------------------------
(* The owner of a slice. *)

\* A digit has one place in the table, and stands for a number below ten.
LEMMA DigitsAreNumbers ==
  ASSUME NEW c \in Decimals
  PROVE  DigitValue(c) \in 0..9 /\ c \notin {" ", "-", "+", ".slice"}
<1>1. PICK i \in 1..10 : DigitChars[i] = c
  BY DEF Decimals
<1>2. c \in {"0", "1", "2", "3", "4", "5", "6", "7", "8", "9"}
  BY <1>1 DEF DigitChars
<1>3. DigitValue(c) \in 0..9
  <2> DEFINE j == CHOOSE k \in 1..10 : DigitChars[k] = c
  <2>1. j \in 1..10
    BY <1>1
  <2> HIDE DEF j
  <2>2. j - 1 \in 0..9
    BY <2>1
  <2> QED
    BY <2>2 DEF DigitValue, j
<1> QED
  BY <1>2, <1>3

\* A run is as long as it can be.
LEMMA RunIsMaximal ==
  ASSUME NEW S, NEW s \in Seq(S), NEW from \in 0..Len(s), NEW C
  PROVE  /\ Run(s, from, C) \in 0..Len(s) - from
         /\ \A i \in from + 1..from + Run(s, from, C) : s[i] \in C
         /\ from + Run(s, from, C) = Len(s) \/ s[from + Run(s, from, C) + 1] \notin C
<1> DEFINE Stop(n) == /\ \A i \in from + 1..from + n : s[i] \in C
                      /\ from + n = Len(s) \/ s[from + n + 1] \notin C
           T == {n \in Nat : from + n >= Len(s) \/ s[from + n + 1] \notin C}
<1>1. Len(s) \in Nat /\ from \in Nat /\ Len(s) - from \in Nat
  OBVIOUS
<1>2. Len(s) - from \in T /\ T \in SUBSET Nat
  BY <1>1
<1>3. PICK n \in T : \A m \in T : n <= m
  <2> HIDE DEF T
  <2> QED
    BY <1>2, LeastNat
<1>4. n \in 0..Len(s) - from
  BY <1>1, <1>2, <1>3
<1>5. ASSUME NEW i \in from + 1..from + n
      PROVE  s[i] \in C
  <2>1. i - from - 1 \in Nat /\ i - from - 1 < n /\ from + (i - from - 1) + 1 = i
    BY <1>1, <1>4
  <2>2. i - from - 1 \notin T
    <3> HIDE DEF T
    <3>1. ~(n <= i - from - 1)
      BY <1>4, <2>1
    <3> QED
      BY <1>3, <3>1
  <2> QED
    BY <2>1, <2>2
<1>6. Stop(n)
  BY <1>1, <1>3, <1>4, <1>5
<1>7. Run(s, from, C) = CHOOSE m \in 0..Len(s) - from : Stop(m)
  BY DEF Run
<1>8. Run(s, from, C) \in 0..Len(s) - from /\ Stop(Run(s, from, C))
  <2> HIDE DEF Stop
  <2> QED
    BY <1>4, <1>6, <1>7
<1> QED
  BY <1>8

\* What digits stand for is a natural number.
LEMMA NumberIsNatural ==
  ASSUME NEW C, NEW d \in Seq(C), \A i \in 1..Len(d) : d[i] \in Decimals
  PROVE  Number(d) \in Nat
<1> DEFINE body(n, x) == 10 * x + DigitValue(d[n])
           step == [x \in (1..Len(d)) \X Nat |-> body(x[1], x[2])]
<1>1. Len(d) \in Nat /\ 0 \in Nat
  OBVIOUS
<1>2. ASSUME NEW n \in 1..Len(d), NEW x \in Nat
      PROVE  body(n, x) \in Nat
  <2>1. DigitValue(d[n]) \in 0..9
    BY DigitsAreNumbers
  <2> QED
    BY <2>1
<1> HIDE DEF body
<1>3. step \in [(1..Len(d)) \X Nat -> Nat]
  BY <1>2
<1>4. \A n \in 1..Len(d), x \in Nat : step[<<n, x>>] = body(n, x)
  OBVIOUS
<1> HIDE DEF step
<1>5. PICK f : IsLoop(f, Len(d), Nat, 0, step)
  BY <1>1, <1>3, LoopExists
<1>6. ASSUME NEW n \in 1..Len(d)
      PROVE  f[n] = body(n, f[n - 1])
  <2>1. f[n - 1] \in Nat
    BY <1>1, <1>5 DEF IsLoop
  <2> QED
    BY <1>4, <1>5, <2>1 DEF IsLoop
<1>7. f = [n \in 0..Len(d) |-> IF n = 0 THEN 0 ELSE body(n, f[n - 1])]
  BY <1>1, <1>5, <1>6 DEF IsLoop
<1>8. Numbers(d) = [n \in 0..Len(d) |-> IF n = 0 THEN 0 ELSE body(n, Numbers(d)[n - 1])]
  BY <1>7, Zenon DEF Numbers, body
<1> DEFINE p == Numbers(d)
           T == {n \in 0..Len(d) : p[n] \in Nat}
<1> HIDE DEF p
<1>9. p[0] = 0 /\ \A n \in 1..Len(d) : p[n] = body(n, p[n - 1])
  BY <1>1, <1>8 DEF p
<1>10. 0 \in T
  BY <1>1, <1>9
<1>11. ASSUME NEW n \in 0..Len(d) - 1, n \in T
       PROVE  n + 1 \in T
  <2>1. n + 1 \in 1..Len(d) /\ n + 1 \in 0..Len(d) /\ n + 1 - 1 = n /\ p[n] \in Nat
    BY <1>1, <1>11
  <2>2. p[n + 1] = body(n + 1, p[n])
    BY <1>9, <2>1
  <2> QED
    BY <1>2, <2>1, <2>2
<1> HIDE DEF T
<1>12. 0..Len(d) \subseteq T
  BY <1>1, <1>10, <1>11, EveryRound
<1> QED
  BY <1>1, <1>12 DEF T, p, Number

\* Of a text that starts with a digit, g_ascii_strtoull reads the digits up to
\* the first character that is none.
LEMMA ReadsTheDigits ==
  ASSUME NEW C, NEW s \in Seq(C), Len(s) >= 1, s[1] \in Decimals
  PROVE  \E n \in 1..Len(s) :
           LET number == Number(SubSeq(s, 1, n)) IN
           /\ \A i \in 1..n : s[i] \in Decimals
           /\ n = Len(s) \/ s[n + 1] \notin Decimals
           /\ g_ascii_strtoull(s) =
                [value |-> IF number > MaxUllong THEN MaxUllong ELSE number,
                 errno |-> number > MaxUllong,
                 end |-> SubSeq(s, n + 1, Len(s))]
<1> DEFINE blank == {" "}
           sign == {"-", "+"}
           blanks == Run(s, 0, blank)
           n == Run(s, 0, Decimals)
           number == Number(SubSeq(s, 1, n))
<1>1. Len(s) \in Nat /\ 0 \in 0..Len(s)
  OBVIOUS
<1>2. s[1] \notin blank /\ s[1] \notin sign
  BY DigitsAreNumbers
<1> HIDE DEF blank, sign
<1>3. blanks = 0
  <2>1. blanks \in 0..Len(s) - 0 /\ \A i \in 0 + 1..0 + blanks : s[i] \in blank
    BY <1>1, RunIsMaximal, Zenon
  <2> HIDE DEF blanks
  <2> QED
    BY <1>1, <1>2, <2>1
<1>4. /\ n \in 1..Len(s)
      /\ \A i \in 1..n : s[i] \in Decimals
      /\ n = Len(s) \/ s[n + 1] \notin Decimals
  <2>1. /\ n \in 0..Len(s) - 0
        /\ \A i \in 0 + 1..0 + n : s[i] \in Decimals
        /\ 0 + n = Len(s) \/ s[0 + n + 1] \notin Decimals
    BY <1>1, RunIsMaximal, Zenon
  <2> HIDE DEF n
  <2>2. n # 0
    <3>1. 0 + 0 + 1 = 1 /\ 0 + 0 # Len(s)
      BY <1>1
    <3> QED
      BY <2>1, <3>1
  <2> QED
    BY <2>1, <2>2
<1>5. g_ascii_strtoull(s) =
        [value |-> IF number > MaxUllong THEN MaxUllong ELSE number,
         errno |-> number > MaxUllong,
         end |-> SubSeq(s, n + 1, Len(s))]
  <2> DEFINE signed == blanks < Len(s) /\ s[blanks + 1] \in sign
             start == IF signed THEN blanks + 1 ELSE blanks
             length == Run(s, start, Decimals)
             whole == Number(SubSeq(s, start + 1, start + length))
  <2>1. ~signed
    <3>1. s[blanks + 1] = s[1]
      BY <1>3
    <3> QED
      BY <1>2, <3>1
  <2>2. start = 0 /\ length = n
    BY <1>3, <2>1
  <2>3. start + 1 = 1 /\ start + length = n /\ start + length + 1 = n + 1 /\ length # 0
    <3> HIDE DEF start, length, n
    <3> QED
      BY <1>4, <2>2
  <2>4. whole = number
    BY <2>3
  <2>5. g_ascii_strtoull(s) =
          IF length = 0 THEN [value |-> 0, errno |-> FALSE, end |-> s]
          ELSE [value |-> IF whole > MaxUllong THEN MaxUllong
                          ELSE IF signed /\ s[start] = "-" /\ whole > 0 THEN MaxUllong + 1 - whole
                          ELSE whole,
                errno |-> whole > MaxUllong,
                end |-> SubSeq(s, start + length + 1, Len(s))]
    BY Zenon DEF g_ascii_strtoull, blank, sign
  <2> HIDE DEF signed, start, length, whole, number, n, blanks
  <2> QED
    BY <2>1, <2>3, <2>4, <2>5
<1> HIDE DEF n
<1> QED
  BY <1>4, <1>5

\* The slice of a user is the one that is named after a user id, of any length.
LEMMA OwnerOfSlice ==
  ASSUME NEW C, NEW slice \in Seq(C)
  PROVE  UidIsTheUsers(slice)
<1> DEFINE s == SubSeq(slice, 3, Len(slice))
           digits == SubSeq(slice, 3, Len(slice) - 1)
           users == /\ \A i \in 1..Len(digits) : digits[i] \in Decimals
                    /\ slice[Len(slice)] = ".slice"
                    /\ Number(digits) < MaxInt
           uid == uid_of(slice)
<1> SUFFICES ASSUME IsPrefix(UserPrefix, slice), Len(slice) > 2, slice[3] \in Decimals
             PROVE  uid = IF users THEN Number(digits) ELSE -1
  BY DEF UidIsTheUsers
<1>1. /\ Len(slice) \in Nat
      /\ s \in Seq(C)
      /\ Len(s) = Len(slice) - 2
      /\ \A i \in 1..Len(s) : s[i] = slice[i + 2]
      /\ digits = SubSeq(s, 1, Len(s) - 1)
      /\ Len(digits) = Len(s) - 1
      /\ \A i \in 1..Len(digits) : digits[i] = s[i]
      /\ slice[Len(slice)] = s[Len(s)]
  OBVIOUS
<1> DEFINE slice_ == ".slice"
           number(n) == Number(SubSeq(s, 1, n))
<1>2. PICK n \in 1..Len(s) :
        /\ \A i \in 1..n : s[i] \in Decimals
        /\ n = Len(s) \/ s[n + 1] \notin Decimals
        /\ g_ascii_strtoull(s) =
             [value |-> IF number(n) > MaxUllong THEN MaxUllong ELSE number(n),
              errno |-> number(n) > MaxUllong,
              end |-> SubSeq(s, n + 1, Len(s))]
  <2>1. Len(s) >= 1 /\ s[1] \in Decimals
    BY <1>1
  <2> HIDE DEF s
  <2> QED
    BY <1>1, <2>1, ReadsTheDigits, Zenon
<1>3. number(n) \in Nat
  <2> HIDE DEF s
  <2>1. SubSeq(s, 1, n) \in Seq(C) /\ Len(SubSeq(s, 1, n)) = n
        /\ \A i \in 1..n : SubSeq(s, 1, n)[i] = s[i]
    BY <1>1
  <2> QED
    BY <1>2, <2>1, NumberIsNatural
<1>4. uid = IF ~(number(n) > MaxUllong) /\ SubSeq(s, n + 1, Len(s)) = <<".slice">>
                 /\ number(n) < MaxInt
            THEN number(n) ELSE -1
  <2> HIDE DEF s, number
  <2>1. uid = IF /\ ~g_ascii_strtoull(s).errno
                 /\ g_ascii_strtoull(s).end = <<".slice">>
                 /\ g_ascii_strtoull(s).value < MaxInt
              THEN g_ascii_strtoull(s).value ELSE -1
    BY DEF uid_of, s
  <2>2. /\ g_ascii_strtoull(s).errno = (number(n) > MaxUllong)
        /\ g_ascii_strtoull(s).end = SubSeq(s, n + 1, Len(s))
        /\ g_ascii_strtoull(s).value = IF number(n) > MaxUllong THEN MaxUllong ELSE number(n)
    BY <1>2
  <2> HIDE DEF uid
  <2>3. CASE number(n) > MaxUllong
    BY <2>1, <2>2, <2>3
  <2>4. CASE ~(number(n) > MaxUllong)
    BY <2>1, <2>2, <2>4
  <2> QED
    BY <2>3, <2>4
<1> HIDE DEF uid
<1>5. slice_ \notin Decimals
  BY DigitsAreNumbers
<1>6. users <=> /\ \A i \in 1..Len(digits) : digits[i] \in Decimals
                /\ slice[Len(slice)] = slice_
                /\ Number(digits) < MaxInt
  OBVIOUS
<1>7. uid = IF ~(number(n) > MaxUllong) /\ SubSeq(s, n + 1, Len(s)) = <<slice_>>
                 /\ number(n) < MaxInt
            THEN number(n) ELSE -1
  BY <1>4
<1> HIDE DEF slice_, users, s
<1>8. CASE SubSeq(s, n + 1, Len(s)) = <<slice_>>
  <2>1. n = Len(s) - 1 /\ s[Len(s)] = slice_
    <3>1. \A q \in Seq(C) : \A j \in 1..Len(q) :
            /\ Len(SubSeq(q, j + 1, Len(q))) = Len(q) - j
            /\ Len(q) - j = 1 => SubSeq(q, j + 1, Len(q))[1] = q[Len(q)]
      OBVIOUS
    <3>2. Len(<<slice_>>) = 1 /\ <<slice_>>[1] = slice_
      OBVIOUS
    <3>3. Len(s) - n = 1
      BY <1>1, <1>8, <3>1, <3>2
    <3>4. SubSeq(s, n + 1, Len(s))[1] = s[Len(s)]
      BY <1>1, <3>1, <3>3
    <3>5. s[Len(s)] = slice_
      BY <1>8, <3>2, <3>4
    <3> QED
      BY <1>1, <3>3, <3>5
  <2>2. number(n) = Number(digits)
    BY <1>1, <2>1
  <2>3. \A i \in 1..Len(digits) : digits[i] \in Decimals
    BY <1>1, <1>2, <2>1
  <2> HIDE DEF digits, number
  <2>4. users <=> number(n) < MaxInt
    BY <1>1, <1>6, <2>1, <2>2, <2>3
  <2>5. number(n) < MaxInt => ~(number(n) > MaxUllong)
    BY <1>3, SliceAssumption
  <2> QED
    BY <1>7, <1>8, <2>2, <2>4, <2>5
<1>9. CASE SubSeq(s, n + 1, Len(s)) # <<slice_>>
  <2>1. ~users
    <3> SUFFICES ASSUME \A i \in 1..Len(digits) : digits[i] \in Decimals,
                        slice[Len(slice)] = slice_
                 PROVE  FALSE
      BY <1>6
    <3> HIDE DEF digits
    <3>1. s[Len(s)] \notin Decimals
      BY <1>1, <1>5
    <3>2. \A i \in 1..Len(s) - 1 : s[i] \in Decimals
      BY <1>1
    <3>3. n < Len(s)
      BY <1>1, <1>2, <3>1
    <3>4. s[n + 1] \notin Decimals
      BY <1>1, <1>2, <3>3
    <3>5. n = Len(s) - 1
      BY <1>1, <3>2, <3>3, <3>4
    <3>6. SubSeq(s, Len(s), Len(s)) = <<s[Len(s)]>>
      <4>1. Len(SubSeq(s, Len(s), Len(s))) = 1 /\ SubSeq(s, Len(s), Len(s)) \in Seq(C)
            /\ SubSeq(s, Len(s), Len(s))[1] = s[Len(s)]
        BY <1>1
      <4> QED
        BY <4>1, Singleton
    <3>7. SubSeq(s, n + 1, Len(s)) = <<slice_>>
      BY <1>1, <3>5, <3>6
    <3> QED
      BY <1>9, <3>7
  <2> QED
    BY <1>7, <1>9, <2>1
<1> QED
  BY <1>8, <1>9

-------------------------------------------------------------------------------
(* The names in object paths. *)

\* What D-Bus accepts in an element of a path.
Legal == {b \in Byte : g_ascii_isalnum(b) \/ b = Underscore}

\* A hexadecimal digit is legal, and read back as the number it was made of.
LEMMA HexDigit ==
  ASSUME NEW d \in 0..15
  PROVE  /\ hex(d) \in Legal
         /\ g_ascii_isxdigit(hex(d))
         /\ g_ascii_xdigit_value(hex(d)) = d
BY DEF hex, Legal, Byte, g_ascii_isalnum, g_ascii_isxdigit, g_ascii_xdigit_value,
       Digits, Uppers, Lowers, Underscore

\* Three bytes at most are written for a byte, all of them legal.
LEMMA CodeIsLegal ==
  ASSUME NEW b \in Byte
  PROVE  code(b) \in Seq(Legal) /\ Len(code(b)) \in 1..3
<1>1. CASE g_ascii_isalnum(b)
  BY <1>1 DEF code, Legal
<1>2. CASE ~g_ascii_isalnum(b)
  <2> DEFINE shown == IF b < 128 THEN b ELSE 255
             high == shown \div 16
             low == shown % 16
  <2>1. high \in 0..15 /\ low \in 0..15
    BY DEF Byte
  <2>2. Underscore \in Legal
    BY DEF Legal, Byte, Underscore
  <2> HIDE DEF high, low
  <2>3. hex(high) \in Legal /\ hex(low) \in Legal
    BY <2>1, HexDigit
  <2>4. code(b) = <<Underscore, hex(high), hex(low)>>
    BY <1>2 DEF code, escaped, high, low
  <2> QED
    BY <2>2, <2>3, <2>4
<1> QED
  BY <1>1, <1>2

\* The loop of escape_object_path, and what it has written after each round.
LEMMA EscapeLoop ==
  ASSUME NEW s \in Seq(Byte)
  PROVE  /\ escapes(s)[0] = <<>>
         /\ \A i \in 1..Len(s) : escapes(s)[i] = escapes(s)[i - 1] \o code(s[i])
         /\ \A i \in 0..Len(s) : escapes(s)[i] \in Seq(Legal) /\ Len(escapes(s)[i]) <= 3 * i
<1> DEFINE S == Seq(Legal)
           body(i, x) == x \o code(s[i])
           step == [x \in (1..Len(s)) \X S |-> body(x[1], x[2])]
<1>1. Len(s) \in Nat /\ <<>> \in S
  OBVIOUS
<1>2. ASSUME NEW i \in 1..Len(s), NEW x \in S
      PROVE  body(i, x) \in S /\ Len(body(i, x)) <= Len(x) + 3
  <2>1. code(s[i]) \in Seq(Legal) /\ Len(code(s[i])) \in 1..3
    BY CodeIsLegal
  <2>2. x \in Seq(Legal)
    OBVIOUS
  <2>3. /\ x \o code(s[i]) \in Seq(Legal)
        /\ Len(x) \in Nat
        /\ Len(x \o code(s[i])) = Len(x) + Len(code(s[i]))
    BY <2>1, <2>2, Joined, Zenon
  <2> HIDE DEF body
  <2>4. body(i, x) = x \o code(s[i])
    BY DEF body
  <2>5. Len(body(i, x)) = Len(x) + Len(code(s[i]))
    BY <2>3, <2>4
  <2> DEFINE a == Len(x)
             b == Len(body(i, x))
             c == Len(code(s[i]))
  <2>6. a \in Nat /\ c \in 1..3 /\ b = a + c
    BY <2>1, <2>3, <2>5
  <2> HIDE DEF a, b, c
  <2>7. b <= a + 3
    BY <2>6
  <2> QED
    BY <2>3, <2>4, <2>7 DEF a, b
<1> HIDE DEF S, body
<1>3. step \in [(1..Len(s)) \X S -> S]
  BY <1>2
<1>4. \A i \in 1..Len(s), x \in S : step[<<i, x>>] = body(i, x)
  OBVIOUS
<1> HIDE DEF step
<1>5. PICK f : IsLoop(f, Len(s), S, <<>>, step)
  BY <1>1, <1>3, LoopExists
<1>6. ASSUME NEW i \in 1..Len(s)
      PROVE  f[i] = body(i, f[i - 1])
  <2>1. f[i - 1] \in S
    BY <1>1, <1>5 DEF IsLoop
  <2> QED
    BY <1>4, <1>5, <2>1 DEF IsLoop
<1>7. f = [i \in 0..Len(s) |-> IF i = 0 THEN <<>> ELSE body(i, f[i - 1])]
  BY <1>1, <1>5, <1>6 DEF IsLoop
<1>8. escapes(s) = [i \in 0..Len(s) |-> IF i = 0 THEN <<>> ELSE body(i, escapes(s)[i - 1])]
  BY <1>7, Zenon DEF escapes, body
<1> DEFINE node == escapes(s)
           T == {i \in 0..Len(s) : node[i] \in S /\ Len(node[i]) <= 3 * i}
<1> HIDE DEF node
<1>9. node[0] = <<>> /\ \A i \in 1..Len(s) : node[i] = body(i, node[i - 1])
  BY <1>1, <1>8 DEF node
<1>10. 0 \in T
  BY <1>1, <1>9
<1>11. ASSUME NEW i \in 0..Len(s) - 1, i \in T
       PROVE  i + 1 \in T
  <2>1. i + 1 \in 1..Len(s) /\ i + 1 \in 0..Len(s) /\ i + 1 - 1 = i /\ node[i] \in S
    BY <1>1, <1>11
  <2>2. node[i + 1] = body(i + 1, node[i])
    BY <1>9, <2>1
  <2>3. node[i + 1] \in S /\ Len(node[i + 1]) <= Len(node[i]) + 3
    BY <1>2, <2>1, <2>2
  <2>4. Len(node[i]) \in Nat /\ Len(node[i + 1]) \in Nat
    BY <2>1, <2>3 DEF S
  <2> QED
    BY <1>11, <2>1, <2>3, <2>4
<1> HIDE DEF T
<1>12. 0..Len(s) \subseteq T
  BY <1>1, <1>10, <1>11, EveryRound
<1> QED
  BY <1>9, <1>12 DEF T, S, node, body

\* What is written for a name is an element that D-Bus accepts.
LEMMA NodesAreLegal ==
  ASSUME NEW s \in Seq(Byte)
  PROVE  NodeIsLegal(s)
<1> DEFINE node == escape_object_path(s)
<1>1. Len(s) \in 0..Len(s) /\ node = escapes(s)[Len(s)]
  BY DEF escape_object_path
<1>2. node \in Seq(Legal) /\ Len(node) <= 3 * Len(s)
  BY <1>1, EscapeLoop
<1> HIDE DEF node
<1>3. \A i \in 1..Len(node) : node[i] \in Legal
  BY <1>2
<1> QED
  BY <1>2, <1>3 DEF NodeIsLegal, node, Legal

\* What was written in a round is not touched by the later ones.
LEMMA EscapesGrow ==
  ASSUME NEW s \in Seq(Byte)
  PROVE  \A n \in 0..Len(s) : \A i \in 0..n :
           /\ Len(escapes(s)[i]) <= Len(escapes(s)[n])
           /\ \A j \in 1..Len(escapes(s)[i]) : escapes(s)[n][j] = escapes(s)[i][j]
<1> DEFINE node == escapes(s)
           Grown(n, i) == /\ Len(node[i]) <= Len(node[n])
                          /\ \A j \in 1..Len(node[i]) : node[n][j] = node[i][j]
           T == {n \in 0..Len(s) : \A i \in 0..n : Grown(n, i)}
<1>1. /\ Len(s) \in Nat
      /\ \A i \in 1..Len(s) : node[i] = node[i - 1] \o code(s[i])
      /\ \A i \in 0..Len(s) : node[i] \in Seq(Legal) /\ Len(node[i]) \in Nat
  <2>1. /\ \A i \in 1..Len(s) : node[i] = node[i - 1] \o code(s[i])
        /\ \A i \in 0..Len(s) : node[i] \in Seq(Legal)
    BY EscapeLoop
  <2> HIDE DEF node
  <2>2. Len(s) \in Nat /\ \A x \in Seq(Legal) : Len(x) \in Nat
    OBVIOUS
  <2> QED
    BY <2>1, <2>2, Zenon
<1> HIDE DEF node
<1>2. 0 \in T
  BY <1>1
<1>3. ASSUME NEW n \in 0..Len(s) - 1, n \in T
      PROVE  n + 1 \in T
  <2>0. n + 1 \in 1..Len(s) /\ n + 1 \in 0..Len(s) /\ n + 1 - 1 = n /\ n \in 0..Len(s)
    BY <1>1
  <2>1. /\ node[n] \in Seq(Legal) /\ Len(node[n]) \in Nat
        /\ node[n + 1] \in Seq(Legal) /\ Len(node[n + 1]) \in Nat
        /\ node[n + 1] = node[n] \o code(s[n + 1])
    <3> DEFINE m == n + 1
    <3>1. m \in 1..Len(s) /\ m - 1 = n
      BY <2>0
    <3> HIDE DEF m
    <3>2. node[m] = node[m - 1] \o code(s[m])
      BY <1>1, <3>1, Zenon
    <3>3. node[n + 1] = node[n] \o code(s[n + 1])
      BY <3>1, <3>2, Zenon DEF m
    <3> QED
      BY <1>1, <2>0, <3>3, Zenon
  <2>2. code(s[n + 1]) \in Seq(Legal)
    BY <2>0, CodeIsLegal
  <2>3. Grown(n + 1, n)
    <3>1. Len(node[n + 1]) = Len(node[n]) + Len(code(s[n + 1])) /\ Len(code(s[n + 1])) \in Nat
      BY <2>1, <2>2, Joined
    <3>2. \A j \in 1..Len(node[n]) : (node[n] \o code(s[n + 1]))[j] = node[n][j]
      BY <2>1, <2>2, Joined, Zenon
    <3>3. \A j \in 1..Len(node[n]) : node[n + 1][j] = node[n][j]
      BY <2>1, <3>2
    <3>4. Len(node[n]) <= Len(node[n + 1])
      <4> DEFINE a == Len(node[n])
                 b == Len(node[n + 1])
                 c == Len(code(s[n + 1]))
      <4>1. a \in Nat /\ c \in Nat /\ b = a + c
        BY <2>1, <3>1
      <4> HIDE DEF a, b, c
      <4>2. a <= b
        BY <4>1
      <4> QED
        BY <4>2 DEF a, b
    <3> QED
      BY <3>3, <3>4
  <2>4. ASSUME NEW i \in 0..n
        PROVE  Grown(n + 1, i)
    <3>1. Grown(n, i)
      BY <1>3
    <3>2. i \in 0..Len(s)
      BY <1>1
    <3>3. Len(node[i]) \in Nat
      BY <1>1, <3>2, Zenon
    <3>4. 1..Len(node[i]) \subseteq 1..Len(node[n])
      BY <2>1, <3>1, <3>3
    <3>5. Len(node[i]) <= Len(node[n + 1])
      <4> DEFINE a == Len(node[i])
                 b == Len(node[n])
                 c == Len(node[n + 1])
      <4>1. a \in Nat /\ b \in Nat /\ c \in Nat /\ a <= b /\ b <= c
        BY <2>1, <2>3, <3>1, <3>3
      <4> HIDE DEF a, b, c
      <4>2. a <= c
        BY <4>1
      <4> QED
        BY <4>2 DEF a, c
    <3> QED
      BY <2>3, <3>1, <3>4, <3>5
  <2>5. Grown(n + 1, n + 1)
    BY <1>1, <2>1
  <2>6. \A i \in 0..n + 1 : i \in 0..n \/ i = n + 1
    OBVIOUS
  <2> HIDE DEF Grown
  <2> QED
    BY <2>0, <2>4, <2>5, <2>6
<1> HIDE DEF T
<1>4. 0..Len(s) \subseteq T
  BY <1>1, <1>2, <1>3, EveryRound
<1> QED
  BY <1>4 DEF T, node

\* The loop of unescape_object_path.
Loops == [skip : 0..2, result : Seq(Byte)]

\* A round of the loop of unescape_object_path, case by case.
LEMMA UnescapeRound ==
  ASSUME NEW node \in Seq(Byte), NEW i \in 1..Len(node), NEW loop \in Loops
  PROVE  /\ unescape_step(node, loop, i) \in Loops
         /\ loop.skip > 0 =>
              unescape_step(node, loop, i) = [skip |-> loop.skip - 1, result |-> loop.result]
         /\ loop.skip = 0 /\ node[i] # Underscore =>
              unescape_step(node, loop, i) = [skip |-> 0, result |-> Append(loop.result, node[i])]
         /\ loop.skip = 0 /\ node[i] = Underscore /\ ~CodeAt(node, i) =>
              unescape_step(node, loop, i) = loop
         /\ loop.skip = 0 /\ node[i] = Underscore /\ CodeAt(node, i) =>
              LET val == g_ascii_xdigit_value(node[i + 1]) * 16 + g_ascii_xdigit_value(node[i + 2])
              IN unescape_step(node, loop, i) =
                   [skip |-> 2,
                    result |-> loop.result \o (IF g_ascii_isgraph(val) THEN <<val>> ELSE <<>>)]
<1> DEFINE val == g_ascii_xdigit_value(node[i + 1]) * 16 + g_ascii_xdigit_value(node[i + 2])
           next == unescape_step(node, loop, i)
           read == IF g_ascii_isgraph(val) THEN <<val>> ELSE <<>>
<1>1. /\ loop.skip \in 0..2
      /\ loop.result \in Seq(Byte)
      /\ loop = [skip |-> loop.skip, result |-> loop.result]
      /\ node[i] \in Byte
  BY DEF Loops
<1>2. CASE loop.skip > 0
  <2>1. next = [skip |-> loop.skip - 1, result |-> loop.result]
    BY <1>1, <1>2 DEF unescape_step
  <2>2. next \in Loops
    BY <1>1, <1>2, <2>1 DEF Loops
  <2> QED
    BY <1>2, <2>1, <2>2
<1>3. CASE loop.skip = 0 /\ node[i] # Underscore
  <2> DEFINE longer == Append(loop.result, node[i])
  <2>0. next = [loop EXCEPT !.result = longer]
    <3>1. ~(loop.skip > 0)
      BY <1>3
    <3> QED
      BY <1>3, <3>1, Zenon DEF unescape_step
  <2> HIDE DEF longer
  <2>1. next = [skip |-> 0, result |-> longer]
    BY <1>1, <1>3, <2>0
  <2> USE DEF longer
  <2>2. next \in Loops
    BY <1>1, <2>1 DEF Loops
  <2> QED
    BY <1>3, <2>1, <2>2
<1>4. CASE loop.skip = 0 /\ node[i] = Underscore /\ ~CodeAt(node, i)
  <2>1. ~(loop.skip > 0)
    BY <1>4
  <2>2. next = loop
    BY <1>4, <2>1, Zenon DEF unescape_step
  <2> HIDE DEF next
  <2>3. next \in Loops
    BY <2>2
  <2> QED
    BY <1>4, <2>1, <2>2, <2>3, Zenon DEF next
<1>5. CASE loop.skip = 0 /\ node[i] = Underscore /\ CodeAt(node, i)
  <2>1. next = [skip |-> 2, result |-> loop.result \o read]
    <3>1. ~(loop.skip > 0)
      BY <1>5
    <3> QED
      BY <1>5, <3>1, Zenon DEF unescape_step
  <2>2. read \in Seq(Byte)
    <3> HIDE DEF val
    <3>1. CASE g_ascii_isgraph(val)
      <4>1. val \in Byte
        BY <3>1 DEF g_ascii_isgraph, Byte
      <4> QED
        BY <3>1, <4>1
    <3>2. CASE ~g_ascii_isgraph(val)
      BY <3>2
    <3> QED
      BY <3>1, <3>2
  <2> HIDE DEF read
  <2>3. loop.result \o read \in Seq(Byte)
    BY <1>1, <2>2, Joined
  <2>4. next \in Loops
    BY <2>1, <2>3 DEF Loops
  <2>5. \lnot (loop.skip > 0)
    BY <1>5
  <2> HIDE DEF next, val
  <2> QED
    BY <1>5, <2>1, <2>4, <2>5, Zenon DEF read, next, val
<1>6. loop.skip > 0 \/ loop.skip = 0
  BY <1>1
<1> HIDE DEF next
<1> QED
  BY <1>2, <1>3, <1>4, <1>5, <1>6

\* The loop of unescape_object_path.
LEMMA UnescapeLoop ==
  ASSUME NEW node \in Seq(Byte)
  PROVE  /\ unescapes(node)[0] = [skip |-> 0, result |-> <<>>]
         /\ \A i \in 1..Len(node) :
              unescapes(node)[i] = unescape_step(node, unescapes(node)[i - 1], i)
         /\ \A i \in 0..Len(node) : unescapes(node)[i] \in Loops
<1> DEFINE first == [skip |-> 0, result |-> <<>>]
           body(i, x) == unescape_step(node, x, i)
           step == [x \in (1..Len(node)) \X Loops |-> body(x[1], x[2])]
<1>1. Len(node) \in Nat /\ first \in Loops
  BY DEF Loops
<1>2. ASSUME NEW i \in 1..Len(node), NEW x \in Loops
      PROVE  body(i, x) \in Loops
  BY UnescapeRound
<1> HIDE DEF body, first
<1>3. step \in [(1..Len(node)) \X Loops -> Loops]
  BY <1>2
<1>4. \A i \in 1..Len(node), x \in Loops : step[<<i, x>>] = body(i, x)
  OBVIOUS
<1> HIDE DEF step
<1>5. PICK f : IsLoop(f, Len(node), Loops, first, step)
  BY <1>1, <1>3, LoopExists
<1>6. ASSUME NEW i \in 1..Len(node)
      PROVE  f[i] = body(i, f[i - 1])
  <2>1. f[i - 1] \in Loops
    BY <1>1, <1>5 DEF IsLoop
  <2> QED
    BY <1>4, <1>5, <2>1 DEF IsLoop
<1>7. f = [i \in 0..Len(node) |-> IF i = 0 THEN first ELSE body(i, f[i - 1])]
  BY <1>1, <1>5, <1>6 DEF IsLoop
<1>8. unescapes(node) =
        [i \in 0..Len(node) |-> IF i = 0 THEN first ELSE body(i, unescapes(node)[i - 1])]
  BY <1>7, Zenon DEF unescapes, body, first
<1> DEFINE loop == unescapes(node)
           T == {i \in 0..Len(node) : loop[i] \in Loops}
<1> HIDE DEF loop
<1>9. loop[0] = first /\ \A i \in 1..Len(node) : loop[i] = body(i, loop[i - 1])
  BY <1>1, <1>8 DEF loop
<1>10. 0 \in T
  BY <1>1, <1>9
<1>11. ASSUME NEW i \in 0..Len(node) - 1, i \in T
       PROVE  i + 1 \in T
  <2>1. i + 1 \in 1..Len(node) /\ i + 1 \in 0..Len(node) /\ i + 1 - 1 = i /\ loop[i] \in Loops
    BY <1>1, <1>11
  <2>2. loop[i + 1] = body(i + 1, loop[i])
    BY <1>9, <2>1
  <2> QED
    BY <1>2, <2>1, <2>2
<1> HIDE DEF T
<1>12. 0..Len(node) \subseteq T
  BY <1>1, <1>10, <1>11, EveryRound
<1> QED
  BY <1>9, <1>12 DEF T, loop, body, first

\* A code that is read: the byte it stands for follows, and what was written
\* for the byte has been passed over.
LEMMA CodeIsReadBack ==
  ASSUME NEW node \in Seq(Byte), NEW k \in Nat, NEW b \in 33..126, NEW result \in Seq(Byte),
         k + Len(code(b)) <= Len(node),
         \A j \in 1..Len(code(b)) : node[k + j] = code(b)[j],
         unescapes(node)[k] = [skip |-> 0, result |-> result]
  PROVE  unescapes(node)[k + Len(code(b))] = [skip |-> 0, result |-> Append(result, b)]
<1> DEFINE loop == unescapes(node)
           longer == Append(result, b)
<1>1. /\ \A i \in 1..Len(node) : loop[i] = unescape_step(node, loop[i - 1], i)
      /\ \A i \in 0..Len(node) : loop[i] \in Loops
  BY UnescapeLoop, Zenon
<1>2. loop[k] = [skip |-> 0, result |-> result] /\ Len(node) \in Nat /\ longer \in Seq(Byte)
  BY DEF Byte
<1> HIDE DEF loop
<1>3. CASE g_ascii_isalnum(b)
  <2> DEFINE i == k + 1
  <2>1. code(b) = <<b>> /\ Len(code(b)) = 1 /\ b # Underscore
    BY <1>3 DEF code, g_ascii_isalnum, Digits, Uppers, Lowers, Underscore
  <2>2. i \in 1..Len(node) /\ i - 1 = k /\ node[i] = b
    BY <1>2, <2>1
  <2> HIDE DEF i
  <2>3. loop[i - 1] \in Loops /\ loop[i - 1].skip = 0 /\ loop[i - 1].result = result
    BY <1>1, <1>2, <2>2
  <2>4. unescape_step(node, loop[i - 1], i) = [skip |-> 0, result |-> longer]
    BY <2>1, <2>2, <2>3, UnescapeRound
  <2>5. loop[i] = [skip |-> 0, result |-> longer]
    BY <1>1, <2>2, <2>4
  <2> QED
    BY <2>1, <2>5 DEF i, loop
<1>4. CASE ~g_ascii_isalnum(b)
  <2> DEFINE high == b \div 16
             low == b % 16
             i == k + 1
             read == [skip |-> 2, result |-> longer]
  <2>1. high \in 0..15 /\ low \in 0..15 /\ high * 16 + low = b
    OBVIOUS
  <2> HIDE DEF high, low
  <2>2. code(b) = <<Underscore, hex(high), hex(low)>>
    <3>1. (IF b < 128 THEN b ELSE 255) = b
      OBVIOUS
    <3> QED
      BY <1>4, <3>1, Zenon DEF code, escaped, high, low
  <2>3. Len(code(b)) = 3
    BY <2>2
  <2>4. /\ i \in 1..Len(node) /\ i + 1 \in 1..Len(node) /\ i + 2 \in 1..Len(node)
        /\ i - 1 = k /\ i + 1 - 1 = i /\ i + 2 - 1 = i + 1 /\ k + 3 = i + 2
        /\ node[i] = Underscore /\ node[i + 1] = hex(high) /\ node[i + 2] = hex(low)
    <3>1. k + 3 <= Len(node)
      BY <2>3
    <3>2. node[k + 1] = Underscore /\ node[k + 2] = hex(high) /\ node[k + 3] = hex(low)
      <4>1. \A j \in 1..3 : node[k + j] = code(b)[j]
        BY <2>3
      <4>2. code(b)[1] = Underscore /\ code(b)[2] = hex(high) /\ code(b)[3] = hex(low)
        BY <2>2
      <4> QED
        BY <4>1, <4>2
    <3> DEFINE n == Len(node)
    <3>3. n \in Nat /\ k + 3 <= n
      BY <1>2, <3>1
    <3> HIDE DEF n
    <3>4. /\ i \in 1..n /\ i + 1 \in 1..n /\ i + 2 \in 1..n
          /\ i - 1 = k /\ i + 1 - 1 = i /\ i + 2 - 1 = i + 1 /\ k + 3 = i + 2
          /\ i + 1 = k + 2
      BY <3>3
    <3> QED
      BY <3>2, <3>4 DEF n
  <2> HIDE DEF i
  <2>5. /\ CodeAt(node, i)
        /\ g_ascii_xdigit_value(node[i + 1]) = high
        /\ g_ascii_xdigit_value(node[i + 2]) = low
    <3>1. /\ g_ascii_isxdigit(hex(high)) /\ g_ascii_xdigit_value(hex(high)) = high
          /\ g_ascii_isxdigit(hex(low)) /\ g_ascii_xdigit_value(hex(low)) = low
      BY <2>1, HexDigit
    <3>2. i + 2 <= Len(node)
      BY <1>2, <2>4
    <3> QED
      BY <2>4, <3>1, <3>2, Zenon DEF CodeAt
  <2>6. g_ascii_isgraph(b)
    BY DEF g_ascii_isgraph
  <2>7. loop[i - 1] \in Loops /\ loop[i - 1].skip = 0 /\ loop[i - 1].result = result
    <3>1. i - 1 \in 0..Len(node)
      BY <1>2, <2>4
    <3>2. loop[i - 1] = [skip |-> 0, result |-> result]
      BY <1>2, <2>4
    <3> QED
      BY <1>1, <3>1, <3>2
  <2>8. loop[i] = read
    <3> DEFINE val == g_ascii_xdigit_value(node[i + 1]) * 16 + g_ascii_xdigit_value(node[i + 2])
    <3>1. val = b
      BY <2>1, <2>5
    <3>2. unescape_step(node, loop[i - 1], i) =
            [skip |-> 2,
             result |-> loop[i - 1].result \o (IF g_ascii_isgraph(val) THEN <<val>> ELSE <<>>)]
      BY <2>4, <2>5, <2>7, UnescapeRound, Zenon
    <3> HIDE DEF val
    <3>3. loop[i - 1].result \o (IF g_ascii_isgraph(val) THEN <<val>> ELSE <<>>) = longer
      BY <2>6, <2>7, <3>1
    <3> HIDE DEF longer
    <3> QED
      BY <1>1, <2>4, <3>2, <3>3
  <2> HIDE DEF longer
  <2>9. loop[i + 1] = [skip |-> 1, result |-> longer]
    <3>1. loop[i] \in Loops /\ loop[i].skip = 2 /\ loop[i].result = longer
      BY <1>1, <2>4, <2>8
    <3>2. unescape_step(node, loop[i], i + 1) = [skip |-> 1, result |-> longer]
      <4>1. loop[i].skip > 0
        BY <3>1
      <4>2. unescape_step(node, loop[i], i + 1) =
              [skip |-> loop[i].skip - 1, result |-> loop[i].result]
        BY <2>4, <3>1, <4>1, UnescapeRound, Zenon
      <4> QED
        BY <3>1, <4>2
    <3> QED
      BY <1>1, <2>4, <3>2
  <2>10. loop[i + 2] = [skip |-> 0, result |-> longer]
    <3>1. loop[i + 1] \in Loops /\ loop[i + 1].skip = 1 /\ loop[i + 1].result = longer
      BY <1>1, <2>4, <2>9
    <3>2. unescape_step(node, loop[i + 1], i + 2) = [skip |-> 0, result |-> longer]
      <4>1. loop[i + 1].skip > 0
        BY <3>1
      <4>2. unescape_step(node, loop[i + 1], i + 2) =
              [skip |-> loop[i + 1].skip - 1, result |-> loop[i + 1].result]
        BY <2>4, <3>1, <4>1, UnescapeRound, Zenon
      <4> QED
        BY <3>1, <4>2
    <3> QED
      BY <1>1, <2>4, <3>2
  <2> QED
    BY <2>3, <2>4, <2>10 DEF loop, longer
<1> QED
  BY <1>3, <1>4

\* Every printable name is read back from what was written for it.
LEMMA NamesSurvive ==
  ASSUME NEW s \in Seq(33..126)
  PROVE  RoundTrip(s)
<1>0. \A j \in 1..Len(s) : s[j] \in 33..126
  BY Elements, Zenon
<1> DEFINE node == escape_object_path(s)
           L(i) == Len(escapes(s)[i])
           T == {i \in 0..Len(s) :
                   unescapes(node)[L(i)] = [skip |-> 0, result |-> SubSeq(s, 1, i)]}
<1>1. s \in Seq(Byte) /\ Len(s) \in Nat /\ node = escapes(s)[Len(s)] /\ Legal \subseteq Byte
  BY DEF Byte, escape_object_path, Legal
<1>2. /\ escapes(s)[0] = <<>>
      /\ \A i \in 1..Len(s) : escapes(s)[i] = escapes(s)[i - 1] \o code(s[i])
      /\ \A i \in 0..Len(s) : escapes(s)[i] \in Seq(Legal)
  BY <1>1, EscapeLoop
<1>3. node \in Seq(Byte) /\ Len(node) \in Nat
  <2>1. node \in Seq(Legal)
    BY <1>1, <1>2
  <2> HIDE DEF node
  <2>2. \A q \in Seq(Legal) : q \in Seq(Byte) /\ Len(q) \in Nat
    BY <1>1
  <2> QED
    BY <2>1, <2>2
<1>4. \A i \in 0..Len(s) :
        L(i) <= Len(node) /\ \A j \in 1..L(i) : node[j] = escapes(s)[i][j]
  <2>1. Len(s) \in 0..Len(s)
    BY <1>1
  <2> QED
    BY <1>1, <2>1, EscapesGrow, Zenon
<1> HIDE DEF node
<1>5. 0 \in T
  <2>1. L(0) = 0 /\ SubSeq(s, 1, 0) = <<>>
    BY <1>2
  <2> QED
    BY <1>1, <1>3, <2>1, UnescapeLoop
<1>6. ASSUME NEW i \in 0..Len(s) - 1, i \in T
      PROVE  i + 1 \in T
  <2> DEFINE m == i + 1
             b == s[m]
             k == L(i)
             x == escapes(s)[i]
  <2>1. m \in 1..Len(s) /\ m \in 0..Len(s) /\ i \in 0..Len(s) /\ m - 1 = i /\ b \in 33..126
    <3> DEFINE n == Len(s)
    <3>0. n \in Nat /\ i \in 0..n - 1
      BY <1>1
    <3> HIDE DEF n
    <3>1. m \in 1..n /\ m \in 0..n /\ i \in 0..n /\ m - 1 = i
      BY <3>0
    <3> HIDE DEF m
    <3> QED
      BY <1>0, <3>1, Zenon DEF n
  <2>2. SubSeq(s, 1, m) = Append(SubSeq(s, 1, i), b) /\ SubSeq(s, 1, i) \in Seq(Byte)
    BY <1>1, <2>1
  <2>3. unescapes(node)[k] = [skip |-> 0, result |-> SubSeq(s, 1, i)]
    BY <1>6
  <2> HIDE DEF m, b
  <2>4. escapes(s)[m] = x \o code(b)
    BY <1>2, <2>1 DEF b
  <2>5. x \in Seq(Legal) /\ code(b) \in Seq(Legal)
    <3>1. b \in Byte
      BY <2>1 DEF Byte
    <3> QED
      BY <1>2, <2>1, <3>1, CodeIsLegal
  <2>6. /\ k \in Nat
        /\ L(m) = k + Len(code(b))
        /\ \A j \in 1..Len(code(b)) : escapes(s)[m][k + j] = code(b)[j]
    BY <2>4, <2>5, Joined
  <2>7. Len(code(b)) \in Nat
    BY <2>5
  <2>8. k + Len(code(b)) <= Len(node)
    BY <1>4, <2>1, <2>6
  <2>9. ASSUME NEW j \in 1..Len(code(b))
        PROVE  node[k + j] = code(b)[j]
    <3>1. k + j \in 1..L(m)
      <4> DEFINE c == Len(code(b))
                 d == L(m)
      <4>1. c \in Nat /\ d = k + c /\ j \in 1..c
        BY <2>6, <2>7
      <4> HIDE DEF c, d, k
      <4>2. k + j \in 1..d
        BY <2>6, <4>1
      <4> QED
        BY <4>2 DEF d
    <3>2. node[k + j] = escapes(s)[m][k + j]
      BY <1>4, <2>1, <3>1, Zenon
    <3> QED
      BY <2>6, <3>2
  <2> HIDE DEF k
  <2>10. unescapes(node)[k + Len(code(b))] = [skip |-> 0, result |-> Append(SubSeq(s, 1, i), b)]
    BY <1>3, <2>1, <2>2, <2>3, <2>6, <2>8, <2>9, CodeIsReadBack
  <2>11. unescapes(node)[L(m)] = [skip |-> 0, result |-> SubSeq(s, 1, m)]
    BY <2>2, <2>6, <2>10
  <2>12. m \in T
    BY <2>1, <2>11
  <2> QED
    BY <2>12 DEF m
<1> HIDE DEF T
<1>7. Len(s) \in T
  <2>1. 0..Len(s) \subseteq T
    BY <1>1, <1>5, <1>6, EveryRound
  <2> QED
    BY <1>1, <2>1
<1>8. unescapes(node)[L(Len(s))] = [skip |-> 0, result |-> s]
  <2>1. SubSeq(s, 1, Len(s)) = s
    OBVIOUS
  <2> QED
    BY <1>7, <2>1 DEF T
<1> QED
  BY <1>1, <1>8 DEF RoundTrip, unescape_object_path, node

\* What is read from a legal element is a name, no longer than the element.
LEMMA NodesAreAliases ==
  ASSUME NEW s \in Seq(Byte)
  PROVE  NodeIsAnAlias(s)
<1> SUFFICES ASSUME \A i \in 1..Len(s) : g_ascii_isalnum(s[i]) \/ s[i] = Underscore
             PROVE  /\ Len(unescape_object_path(s)) <= Len(s)
                    /\ unescape_object_path(escape_object_path(unescape_object_path(s)))
                         = unescape_object_path(s)
  BY Zenon DEF NodeIsAnAlias
<1> DEFINE loop == unescapes(s)
           Name == 33..126
           T == {i \in 0..Len(s) : loop[i].result \in Seq(Name) /\ Len(loop[i].result) <= i}
<1>1. /\ Len(s) \in Nat
      /\ loop[0] = [skip |-> 0, result |-> <<>>]
      /\ \A i \in 1..Len(s) : loop[i] = unescape_step(s, loop[i - 1], i)
      /\ \A i \in 0..Len(s) : loop[i] \in Loops
  <2>1. Len(s) \in Nat
    OBVIOUS
  <2> QED
    BY <2>1, UnescapeLoop
<1>2. \A i \in 1..Len(s) : s[i] # Underscore => s[i] \in Name
  BY DEF g_ascii_isalnum, Digits, Uppers, Lowers
<1>3. \A q \in Seq(Name), c \in Name : Append(q, c) \in Seq(Name) /\ Len(Append(q, c)) = Len(q) + 1
  OBVIOUS
<1>4. \A q \in Seq(Name), c \in Name : q \o <<c>> \in Seq(Name) /\ Len(q \o <<c>>) = Len(q) + 1
  OBVIOUS
<1>5. \A q \in Seq(Name) : q \o <<>> = q
  OBVIOUS
<1>6. \A q \in Seq(Name) : Len(q) \in Nat
  OBVIOUS
<1> HIDE DEF loop
<1>7. 0 \in T
  <2>1. <<>> \in Seq(Name) /\ Len(<<>>) = 0
    OBVIOUS
  <2>2. loop[0].result = <<>> /\ 0 \in 0..Len(s)
    BY <1>1
  <2>3. loop[0].result \in Seq(Name) /\ Len(loop[0].result) <= 0
    BY <2>1, <2>2
  <2> HIDE DEF Name
  <2> QED
    BY <2>2, <2>3
<1>8. ASSUME NEW i \in 0..Len(s) - 1, i \in T
      PROVE  i + 1 \in T
  <2> DEFINE m == i + 1
             x == loop[i]
             q == x.result
  <2>1. m \in 1..Len(s) /\ m \in 0..Len(s) /\ i \in 0..Len(s) /\ m - 1 = i
    BY <1>1
  <2>2. q \in Seq(Name) /\ Len(q) <= i /\ Len(q) \in Nat
    BY <1>6, <1>8
  <2>3. x \in Loops /\ x.skip \in 0..2
    BY <1>1, <2>1 DEF Loops
  <2> HIDE DEF m, x, Name
  <2>4. loop[m] = unescape_step(s, x, m)
    BY <1>1, <2>1 DEF x
  <2> DEFINE p == loop[m].result
  <2>5. p \in Seq(Name) /\ Len(p) <= Len(q) + 1
    <3>1. CASE x.skip > 0
      <4>1. p = q
        <5>1. unescape_step(s, x, m) = [skip |-> x.skip - 1, result |-> q]
          BY <2>1, <2>3, <3>1, UnescapeRound, Zenon
        <5> HIDE DEF q
        <5> QED
          BY <2>4, <5>1
      <4> HIDE DEF p, q
      <4> QED
        BY <2>2, <4>1
    <3>2. CASE x.skip = 0 /\ s[m] # Underscore
      <4>1. p = Append(q, s[m])
        <5> DEFINE longer == Append(q, s[m])
        <5>1. unescape_step(s, x, m) = [skip |-> 0, result |-> longer]
          BY <2>1, <2>3, <3>2, UnescapeRound, Zenon
        <5> HIDE DEF longer
        <5>2. p = longer
          BY <2>4, <5>1
        <5> QED
          BY <5>2 DEF longer
      <4>2. s[m] \in Name
        BY <1>2, <2>1, <3>2
      <4> HIDE DEF p, q
      <4> QED
        BY <1>3, <2>2, <4>1, <4>2
    <3>3. CASE x.skip = 0 /\ s[m] = Underscore /\ ~CodeAt(s, m)
      <4>1. p = q
        BY <2>1, <2>3, <2>4, <3>3, UnescapeRound
      <4> HIDE DEF p, q
      <4> QED
        BY <2>2, <4>1
    <3>4. CASE x.skip = 0 /\ s[m] = Underscore /\ CodeAt(s, m)
      <4> DEFINE val == g_ascii_xdigit_value(s[m + 1]) * 16 + g_ascii_xdigit_value(s[m + 2])
                 read == IF g_ascii_isgraph(val) THEN <<val>> ELSE <<>>
                 longer == q \o read
      <4>1. unescape_step(s, x, m) = [skip |-> 2, result |-> longer]
        BY <2>1, <2>3, <3>4, UnescapeRound, Zenon
      <4> HIDE DEF longer
      <4>2. p = longer
        BY <2>4, <4>1
      <4> HIDE DEF p, q, val
      <4>3. CASE g_ascii_isgraph(val)
        <5>1. val \in Name /\ longer = q \o <<val>>
          BY <4>3 DEF g_ascii_isgraph, Name, longer
        <5> QED
          BY <1>4, <2>2, <4>2, <5>1
      <4>4. CASE ~g_ascii_isgraph(val)
        <5>1. longer = q
          BY <1>5, <2>2, <4>4 DEF longer
        <5> QED
          BY <2>2, <4>2, <5>1
      <4> QED
        BY <4>3, <4>4
    <3> HIDE DEF p, q
    <3> QED
      BY <2>3, <3>1, <3>2, <3>3, <3>4
  <2>6. Len(p) \in Nat
    BY <1>6, <2>5
  <2>7. p \in Seq(Name) /\ Len(p) <= m
    <3> DEFINE a == Len(p)
               c == Len(q)
    <3>1. a \in Nat /\ c \in Nat /\ a <= c + 1 /\ c <= i
      BY <2>2, <2>5, <2>6
    <3> HIDE DEF a, c
    <3>2. a <= i + 1
      BY <3>1
    <3> QED
      BY <2>5, <3>2 DEF a, m
  <2> QED
    BY <2>1, <2>7 DEF m
<1> HIDE DEF T, Name
<1>9. 0..Len(s) \subseteq T
  BY <1>1, <1>7, <1>8, EveryRound
<1>10. loop[Len(s)].result \in Seq(Name) /\ Len(loop[Len(s)].result) <= Len(s)
  BY <1>1, <1>9 DEF T
<1> QED
  BY <1>10, NamesSurvive DEF unescape_object_path, loop, Name, RoundTrip, IsName

-------------------------------------------------------------------------------
(* Virtual machines. *)

\* What is read of a file is a beginning of it, which ends at the end of the
\* file, at a newline or when the line is full.
LEMMA FirstLine ==
  ASSUME NEW file \in Text
  PROVE  \E n \in 0..Len(file) :
           /\ read_one_line_file(file) = SubSeq(file, 1, n)
           /\ n = Len(file) \/ file[n + 1] = Newline \/ n >= LineMax - 1
<1> DEFINE L == Len(file)
<1>1. L \in Nat /\ LineMax \in Nat /\ LineMax >= 2 /\ file \in Seq(Word)
  BY LineAssumption DEF Text
<1> DEFINE size == Min({L, LineMax - 1})
<1>2. size \in 0..L /\ size <= LineMax - 1 /\ (size = L \/ size = LineMax - 1)
  <2>1. L \in Nat /\ LineMax - 1 \in Nat
    BY <1>1
  <2> HIDE DEF L
  <2> QED
    BY <2>1, MinOf
<1> HIDE DEF size
<1> DEFINE fits == SubSeq(file, 1, size)
           ends == {i \in 1..Len(fits) : fits[i] = Newline}
<1>3. fits \in Seq(Word) /\ Len(fits) = size /\ \A i \in 1..size : fits[i] = file[i]
  BY <1>1, <1>2, Beginning, Zenon
<1>4. read_one_line_file(file) = IF ends = {} THEN fits ELSE SubSeq(fits, 1, Min(ends) - 1)
  <2>1. file \notin {Missing, Failed}
    BY FileAssumption
  <2> QED
    BY <2>1, Zenon DEF read_one_line_file, L, size
<1>5. CASE ends = {}
  BY <1>1, <1>2, <1>4, <1>5
<1>6. CASE ends # {}
  <2> DEFINE n == Min(ends)
  <2>1. ends \in SUBSET Nat
    OBVIOUS
  <2>2. n \in ends
    BY <1>6, <2>1, MinOf, Zenon
  <2>3. n \in 1..size /\ file[n] = Newline
    BY <1>3, <2>2
  <2> HIDE DEF n, L, fits
  <2>4. n - 1 \in 0..L /\ n - 1 \in 0..size /\ file[n - 1 + 1] = Newline
    BY <1>1, <1>2, <2>3
  <2>5. SubSeq(fits, 1, n - 1) = SubSeq(file, 1, n - 1)
    <3>1. SubSeq(fits, 1, n - 1) \in Seq(Word) /\ SubSeq(file, 1, n - 1) \in Seq(Word)
      BY <1>1, <1>3, <2>4, Beginning DEF L
    <3>2. /\ Len(SubSeq(fits, 1, n - 1)) = n - 1 /\ Len(SubSeq(file, 1, n - 1)) = n - 1
          /\ \A i \in 1..n - 1 : SubSeq(fits, 1, n - 1)[i] = fits[i]
          /\ \A i \in 1..n - 1 : SubSeq(file, 1, n - 1)[i] = file[i]
      BY <1>1, <1>3, <2>4, Beginning DEF L
    <3>3. \A i \in 1..n - 1 : fits[i] = file[i]
      BY <1>2, <1>3, <2>3
    <3>4. \A p, q \in Seq(Word) : Len(p) = Len(q) /\ (\A i \in 1..Len(p) : p[i] = q[i]) => p = q
      OBVIOUS
    <3> QED
      BY <3>1, <3>2, <3>3, <3>4
  <2>6. read_one_line_file(file) = SubSeq(file, 1, n - 1)
    BY <1>4, <1>6, <2>5 DEF n
  <2> QED
    BY <2>4, <2>6 DEF L
<1> QED
  BY <1>5, <1>6

\* The vendor that the first line names is the one that the file names.
LEMMA VendorOfLine ==
  ASSUME NEW file \in Text
  PROVE  vendor_of(read_one_line_file(file)) = vendor_of(file)
<1>1. PICK n \in 0..Len(file) :
        /\ read_one_line_file(file) = SubSeq(file, 1, n)
        /\ n = Len(file) \/ file[n + 1] = Newline \/ n >= LineMax - 1
  BY FirstLine
<1> DEFINE line == SubSeq(file, 1, n)
<1>2. file \in Seq(Word) /\ LineMax \in Nat
  BY LineAssumption DEF Text
<1>3. line \in Seq(Word) /\ Len(line) = n /\ \A i \in 1..n : line[i] = file[i]
  BY <1>2, Beginning, Zenon
<1> HIDE DEF line
<1>4. ASSUME NEW v \in 1..Len(Vendors)
      PROVE  startswith(line, Vendors[v][1]) <=> startswith(file, Vendors[v][1])
  <2> DEFINE text == Vendors[v][1]
             k == Len(text)
  <2>1. text \in Seq(Word \ {Newline}) /\ k < LineMax
    BY VendorAssumption
  <2> HIDE DEF text
  <2>2. k \in Nat /\ Len(file) \in Nat /\ n \in 0..Len(file)
    BY <1>2, <2>1
  <2>3. ASSUME k <= Len(file), \A i \in 1..k : text[i] = file[i]
        PROVE  k <= n
    <3>1. CASE n = Len(file) \/ n >= LineMax - 1
      BY <1>2, <2>1, <2>2, <2>3, <3>1
    <3>2. CASE file[n + 1] = Newline
      <4> SUFFICES ASSUME n < k
                   PROVE  FALSE
        BY <2>2
      <4>1. n + 1 \in 1..k
        BY <2>2
      <4>2. text[n + 1] \in Word \ {Newline}
        BY <2>1, <4>1, Elements, Zenon
      <4> QED
        BY <1>2, <2>3, <3>2, <4>1, <4>2
    <3> QED
      BY <1>1, <3>1, <3>2
  <2>4. text \in Seq(Word)
    BY <2>1
  <2>5. startswith(line, text) <=> k <= n /\ \A i \in 1..k : text[i] = line[i]
    BY <1>3, <2>4, PrefixOf
  <2>6. startswith(file, text) <=> k <= Len(file) /\ \A i \in 1..k : text[i] = file[i]
    BY <1>2, <2>4, PrefixOf
  <2> HIDE DEF k
  <2>7. k <= n => \A i \in 1..k : line[i] = file[i]
    BY <1>3, <2>2
  <2>8. k <= n => k <= Len(file)
    BY <2>2
  <2>9. startswith(line, text) <=> startswith(file, text)
    BY <2>3, <2>5, <2>6, <2>7, <2>8, Zenon
  <2> QED
    BY <2>9 DEF text
<1>5. {v \in 1..Len(Vendors) : startswith(line, Vendors[v][1])}
        = {v \in 1..Len(Vendors) : startswith(file, Vendors[v][1])}
  BY <1>4, Zenon
<1>6. vendor_of(line) = vendor_of(file)
  BY <1>5, Zenon DEF vendor_of
<1> QED
  BY <1>1, <1>6, Zenon DEF line

\* What a file of the DMI says, when it is its turn.
says(file) ==
  IF file = Missing THEN Nothing
  ELSE IF file = Failed THEN Failure
  ELSE IF vendor_of(file) # "" THEN Vm(vendor_of(file)) ELSE Nothing

\* The next file has its say unless one before it had.
LEMMA DmiStep ==
  ASSUME NEW found, NEW file \in Text \cup {Missing, Failed}
  PROVE  dmi_step(found, file) = IF found # Nothing THEN found ELSE says(file)
<1>1. CASE file \in {Missing, Failed}
  <2>1. read_one_line_file(file) = file
    BY <1>1, Zenon DEF read_one_line_file
  <2> QED
    BY <1>1, <2>1, Zenon DEF dmi_step, says
<1>2. CASE file \in Text
  <2> DEFINE line == read_one_line_file(file)
  <2>1. vendor_of(line) = vendor_of(file)
    BY <1>2, VendorOfLine
  <2>2. PICK n \in 0..Len(file) : line = SubSeq(file, 1, n)
    BY <1>2, FirstLine
  <2>3. line \in Text
    BY <1>2, <2>2, Beginning DEF Text
  <2> HIDE DEF line
  <2>4. line \notin {Missing, Failed} /\ file \notin {Missing, Failed}
    BY <1>2, <2>3, FileAssumption
  <2> QED
    BY <2>1, <2>4, Zenon DEF dmi_step, says, line
<1> QED
  BY <1>1, <1>2

\* The results of a search.
LEMMA Results ==
  /\ Nothing # Failure
  /\ Nothing.virt = "none" /\ Failure.virt = "error"
  /\ \A id : /\ Vm(id) # Nothing /\ Vm(id) # Failure /\ Vm(id).virt = "vm"
             /\ Container(id) # Nothing /\ Container(id) # Failure
BY DEF Nothing, Failure, Vm, Container

\* A machine is virtual if the processor or a file says so, whatever the files hold.
LEMMA MachinesAreFound ==
  ASSUME NEW r \in Reading
  PROVE  VmIsFound(r)
<1> DEFINE tells(i) == r.dmi[i] = Failed \/ (r.dmi[i] # Missing /\ vendor_of(r.dmi[i]) # "")
           telling == {i \in 1..3 : tells(i)}
           known == \E e \in Signatures : e[1] = r.cpuid
           entries == {e \in Signatures : e[1] = r.cpuid}
           dmi == dmi_step(dmi_step(dmi_step(Nothing, r.dmi[1]), r.dmi[2]), r.dmi[3])
           first == Min(telling)
<1>1. \A i \in 1..3 : r.dmi[i] \in Text \cup {Missing, Failed}
  BY DEF Reading
<1>2. dmi = IF says(r.dmi[1]) # Nothing THEN says(r.dmi[1])
            ELSE IF says(r.dmi[2]) # Nothing THEN says(r.dmi[2]) ELSE says(r.dmi[3])
  BY <1>1, DmiStep
<1>3. \A i \in 1..3 : says(r.dmi[i]) # Nothing <=> tells(i)
  BY Results, FileAssumption, Zenon DEF says
<1>4. \A i \in 1..3 : says(r.dmi[i]).virt = "error" <=> r.dmi[i] = Failed
  BY Results, FileAssumption DEF says
<1> HIDE DEF tells
<1>5. telling # {} => first \in telling /\ \A i \in telling : first <= i
  <2>1. telling \in SUBSET Nat
    OBVIOUS
  <2> HIDE DEF telling
  <2> QED
    BY <2>1, MinOf
<1> HIDE DEF first, dmi
<1>6. /\ dmi = Nothing <=> telling = {}
      /\ telling # {} => dmi = says(r.dmi[first])
  BY <1>2, <1>3, <1>5
<1>7. dmi.virt = "error" <=> (telling # {} /\ r.dmi[first] = Failed)
  BY <1>4, <1>5, <1>6, Results
<1>8. detect_vm(r) = IF entries # {} THEN Vm((CHOOSE e \in entries : TRUE)[2])
                     ELSE IF dmi # Nothing THEN dmi
                     ELSE IF r.cpuid # "" THEN Vm("other") ELSE Nothing
  BY Zenon DEF detect_vm, dmi
<1>9. known <=> entries # {}
  OBVIOUS
<1> DEFINE bare == [r EXCEPT !.dmi = <<Missing, Missing, Missing>>]
<1>10. known => detect_vm(r) = detect_vm(bare)
  <2>1. bare.cpuid = r.cpuid
    BY DEF Reading
  <2> HIDE DEF bare
  <2>2. {e \in Signatures : e[1] = bare.cpuid} = entries
    BY <2>1
  <2>3. entries # {} => detect_vm(bare) = Vm((CHOOSE e \in entries : TRUE)[2])
    BY <2>2, Zenon DEF detect_vm
  <2> QED
    BY <1>8, <1>9, <2>3, Zenon
<1> DEFINE broken == ~known /\ telling # {} /\ r.dmi[first] = Failed
           vm == detect_vm(r)
<1>11. vm.virt = "error" <=> broken
  BY <1>7, <1>8, <1>9, Results
<1>12. vm = Nothing <=> r.cpuid = "" /\ telling = {}
  <2>1. known => r.cpuid # ""
    BY SignatureAssumption
  <2> HIDE DEF telling
  <2> QED
    BY <1>6, <1>8, <1>9, <2>1, Results
<1> QED
  BY <1>10, <1>11, <1>12 DEF VmIsFound, tells, first

-------------------------------------------------------------------------------
(* The answer of the property. *)

\* What is detected is never taken for "nothing detected yet".
LEMMA DetectIsValid ==
  ASSUME NEW r
  PROVE  detect(r) # Invalid
<1> DEFINE vms == {x \in {detect_vm(r)} : x # Invalid}
<1>1. /\ Nothing # Invalid /\ Failure # Invalid
      /\ \A id : Vm(id) # Invalid /\ Container(id) # Invalid
  BY DEF Nothing, Failure, Vm, Container, Invalid
<1>2. detect_container(r) # Invalid
  BY <1>1, Zenon DEF detect_container, detect_environ
<1>3. \A found, file : found # Invalid => dmi_step(found, file) # Invalid
  BY <1>1, Zenon DEF dmi_step
<1>4. detect_vm(r) # Invalid
  BY <1>1, <1>3, Zenon DEF detect_vm
<1> QED
  BY <1>2, <1>4, Zenon DEF detect

\* What the process remembers is the first result that was no error.
LEMMA RemembersFirst ==
  ASSUME NEW S, NEW readings \in Seq(S)
  PROVE  \A i \in 0..Len(readings) :
           remembers(readings)[i] =
             LET sound == {j \in 1..i : detect(readings[j]) # Failure}
             IN IF sound = {} THEN Invalid ELSE detect(readings[Min(sound)])
<1> DEFINE N == Len(readings)
           results == {Invalid} \cup {detect(r) : r \in S}
           body(i, x) == remember(x, readings[i])
           step == [x \in (1..N) \X results |-> body(x[1], x[2])]
<1>1. N \in Nat /\ Invalid \in results /\ \A i \in 1..N : readings[i] \in S
  BY Elements, Zenon
<1>2. ASSUME NEW i \in 1..N, NEW x \in results
      PROVE  body(i, x) \in results
  BY <1>1, Zenon DEF remember
<1> HIDE DEF results, body, N
<1>3. step \in [(1..N) \X results -> results]
  BY <1>2
<1>4. \A i \in 1..N, x \in results : step[<<i, x>>] = body(i, x)
  OBVIOUS
<1> HIDE DEF step
<1>5. PICK f : IsLoop(f, N, results, Invalid, step)
  BY <1>1, <1>3, LoopExists
<1>6. ASSUME NEW i \in 1..N
      PROVE  f[i] = body(i, f[i - 1])
  <2>1. f[i - 1] \in results
    BY <1>1, <1>5 DEF IsLoop
  <2> QED
    BY <1>4, <1>5, <2>1 DEF IsLoop
<1>7. f = [i \in 0..N |-> IF i = 0 THEN Invalid ELSE body(i, f[i - 1])]
  BY <1>1, <1>5, <1>6 DEF IsLoop
<1>8. remembers(readings) =
        [i \in 0..N |-> IF i = 0 THEN Invalid ELSE body(i, remembers(readings)[i - 1])]
  BY <1>7, Zenon DEF remembers, body, N
<1> DEFINE cached == remembers(readings)
           sound(i) == {j \in 1..i : detect(readings[j]) # Failure}
           first(i) == IF sound(i) = {} THEN Invalid ELSE detect(readings[Min(sound(i))])
           T == {i \in 0..N : cached[i] = first(i)}
<1> HIDE DEF cached
<1>9. cached[0] = Invalid /\ \A i \in 1..N : cached[i] = body(i, cached[i - 1])
  BY <1>1, <1>8 DEF cached
<1>10. 0 \in T
  BY <1>1, <1>9
<1>11. ASSUME NEW i \in 0..N - 1, i \in T
       PROVE  i + 1 \in T
  <2>1. i + 1 \in 1..N /\ i + 1 \in 0..N /\ i + 1 - 1 = i /\ i \in Nat
    BY <1>1
  <2>2. cached[i + 1] = remember(first(i), readings[i + 1])
    <3> DEFINE m == i + 1
    <3>1. m \in 1..N /\ m - 1 = i
      BY <2>1
    <3> HIDE DEF m, first
    <3>2. cached[m] = remember(first(i), readings[m])
      BY <1>9, <1>11, <3>1 DEF body
    <3> QED
      BY <3>2 DEF m
  <2>3. sound(i) \in SUBSET Nat /\ sound(i + 1) \in SUBSET Nat
    BY <2>1
  <2>4. sound(i + 1) = sound(i) \cup (IF detect(readings[i + 1]) # Failure THEN {i + 1} ELSE {})
    BY <2>1
  <2>5. \A j \in sound(i) : j < i + 1
    BY <2>1
  <2> HIDE DEF sound
  <2>6. CASE sound(i) # {}
    <3>1. Min(sound(i)) \in sound(i) /\ \A j \in sound(i) : Min(sound(i)) <= j
      BY <2>3, <2>6, MinOf
    <3>2. sound(i + 1) # {}
      BY <2>4, <2>6
    <3>3. Min(sound(i + 1)) \in sound(i + 1) /\ \A j \in sound(i + 1) : Min(sound(i + 1)) <= j
      BY <2>3, <3>2, MinOf
    <3>4. Min(sound(i + 1)) = Min(sound(i))
      BY <2>1, <2>3, <2>4, <2>5, <3>1, <3>3
    <3>5. first(i) # Invalid
      BY <2>6, DetectIsValid, Zenon
    <3>6. first(i + 1) = first(i)
      BY <2>6, <3>2, <3>4, Zenon
    <3>7. cached[i + 1] = first(i + 1)
      BY <2>2, <3>5, <3>6, Zenon DEF remember
    <3> QED
      BY <2>1, <3>7
  <2>7. CASE sound(i) = {}
    <3>1. first(i) = Invalid
      BY <2>7
    <3>2. CASE detect(readings[i + 1]) = Failure
      <4>1. sound(i + 1) = {}
        BY <2>4, <2>7, <3>2
      <4>2. cached[i + 1] = first(i + 1)
        BY <2>2, <3>1, <3>2, <4>1, Zenon DEF remember
      <4> QED
        BY <2>1, <4>2
    <3>3. CASE detect(readings[i + 1]) # Failure
      <4>1. sound(i + 1) = {i + 1}
        BY <2>4, <2>7, <3>3
      <4>2. Min(sound(i + 1)) = i + 1
        BY <2>3, <4>1, MinOf
      <4>3. first(i + 1) = detect(readings[i + 1])
        BY <4>1, <4>2
      <4>4. cached[i + 1] = first(i + 1)
        BY <2>2, <3>1, <3>3, <4>3, Zenon DEF remember
      <4> QED
        BY <2>1, <4>4
    <3> QED
      BY <3>2, <3>3
  <2> QED
    BY <2>6, <2>7
<1> HIDE DEF T
<1>12. 0..N \subseteq T
  BY <1>1, <1>10, <1>11, EveryRound
<1> QED
  BY <1>12 DEF T, cached, N

\* So the property says what the first call that did not fail found out.
LEMMA AnswersStick ==
  ASSUME NEW S, NEW readings \in Seq(S)
  PROVE  AnswerSticks(readings)
<1> DEFINE N == Len(readings)
           sound == {j \in 1..N : detect(readings[j]) # Failure}
<1>1. N \in 0..N
  OBVIOUS
<1>2. remembers(readings)[N] = IF sound = {} THEN Invalid ELSE detect(readings[Min(sound)])
  BY <1>1, RemembersFirst, Zenon
<1>3. Invalid.id = ""
  BY DEF Invalid
<1> QED
  BY <1>2, <1>3, Zenon DEF AnswerSticks, Virtualization

-------------------------------------------------------------------------------
(* Containers. *)

\* What the lines say: the first that names a manager decides.
answer(lines) ==
  IF container_line(lines) = {} THEN Nothing
  ELSE Container(container_id(lines[Min(container_line(lines))]))

\* The variables "container" that start no later than b, what the one at i is
\* set to, and what the first of some of them says.
Starts(E, b) == {i \in 1..Len(E) : E[i] = "container=" /\ (i = 1 \/ E[i - 1] = Nul) /\ i <= b}
Named(E, i) == {m \in Managers : i + 1 <= Len(E) /\ E[i + 1] = m /\ (i + 2 <= Len(E) => E[i + 2] = Nul)}
id_at(E, i) == IF Named(E, i) = {} THEN "other" ELSE CHOOSE m \in Named(E, i) : TRUE
expected(E, F) == IF F = {} THEN Nothing ELSE Container(id_at(E, Min(F)))

\* One line more says something if it is the first that names a manager.
LEMMA AnswerOfMore ==
  ASSUME NEW lines \in Seq(Text), NEW line \in Text
  PROVE  answer(Append(lines, line)) =
           IF answer(lines) # Nothing THEN answer(lines)
           ELSE IF startswith(line, <<"container=">>) THEN Container(container_id(line)) ELSE Nothing
<1> DEFINE n == Len(lines)
           more == Append(lines, line)
           names(x) == startswith(x, <<"container=">>)
           old == container_line(lines)
           new == container_line(more)
<1>1. n \in Nat /\ more \in Seq(Text) /\ Len(more) = n + 1
  OBVIOUS
<1>2. (\A i \in 1..n : more[i] = lines[i]) /\ more[n + 1] = line
  BY <1>1
<1> HIDE DEF more, names, n
<1>3. old = {i \in 1..n : names(lines[i])} /\ new = {i \in 1..n + 1 : names(more[i])}
  BY <1>1, Zenon DEF container_line, names, n
<1> HIDE DEF old, new
<1>4. new = old \cup (IF names(line) THEN {n + 1} ELSE {})
  BY <1>1, <1>2, <1>3
<1>5. old \in SUBSET Nat /\ new \in SUBSET Nat /\ (\A i \in old : i < n + 1) /\ old \subseteq 1..n
  BY <1>1, <1>3
<1>6. answer(lines) # Nothing <=> old # {}
  BY Results, Zenon DEF answer, old
<1>7. CASE old # {}
  <2>1. Min(old) \in old /\ \A j \in old : Min(old) <= j
    BY <1>5, <1>7, MinOf
  <2>2. new # {}
    BY <1>4, <1>7
  <2>4. Min(new) = Min(old)
    <3>1. new = old \/ new = old \cup {n + 1}
      BY <1>4
    <3>2. Min(old \cup {n + 1}) = Min(old)
      BY <1>1, <1>5, <1>7, MinOfMore
    <3> QED
      BY <3>1, <3>2
  <2>5. more[Min(new)] = lines[Min(old)]
    BY <1>2, <1>5, <2>1, <2>4
  <2>6. answer(more) = answer(lines)
    BY <1>7, <2>2, <2>5, Zenon DEF answer, old, new
  <2> QED
    BY <1>6, <1>7, <2>6, Zenon DEF more
<1>8. CASE old = {}
  <2>1. CASE names(line)
    <3>1. new = {n + 1}
      BY <1>4, <1>8, <2>1
    <3>2. Min(new) = n + 1
      BY <1>5, <3>1, MinOf
    <3>3. more[Min(new)] = line /\ new # {}
      BY <1>2, <3>1, <3>2
    <3>4. answer(more) = Container(container_id(line))
      BY <3>3, Zenon DEF answer, new
    <3> QED
      BY <1>6, <1>8, <2>1, <3>4, Zenon DEF more, names
  <2>2. CASE ~names(line)
    <3>1. new = {}
      BY <1>4, <1>8, <2>2
    <3>2. answer(more) = Nothing
      BY <3>1, Zenon DEF answer, new
    <3> QED
      BY <1>6, <1>8, <2>2, <3>2, Zenon DEF more, names
  <2> QED
    BY <2>1, <2>2
<1> QED
  BY <1>7, <1>8

\* One variable more says something if it is the first.
LEMMA ExpectedOfMore ==
  ASSUME NEW E, NEW F \in SUBSET Nat, NEW b \in Nat, \A i \in F : i < b
  PROVE  expected(E, F \cup {b}) = IF F # {} THEN expected(E, F) ELSE Container(id_at(E, b))
<1> DEFINE G == F \cup {b}
<1>1. G \in SUBSET Nat /\ G # {}
  OBVIOUS
<1>2. Min(G) \in G /\ \A j \in G : Min(G) <= j
  BY <1>1, MinOf
<1>3. CASE F # {}
  <2>1. Min(G) = Min(F)
    BY <1>3, MinOfMore
  <2> QED
    BY <1>1, <1>3, <2>1, Zenon DEF expected
<1>4. CASE F = {}
  <2>1. Min(G) = b
    BY <1>2, <1>4
  <2> HIDE DEF G
  <2>2. expected(E, G) = Container(id_at(E, b))
    BY <1>1, <2>1, Zenon DEF expected
  <2> QED
    BY <1>4, <2>2, Zenon DEF G
<1> QED
  BY <1>3, <1>4

\* The next word of a part.
LEMMA PartGrows ==
  ASSUME NEW S, NEW q \in Seq(S), NEW b \in 1..Len(q), NEW i \in b - 1..Len(q) - 1
  PROVE  Append(SubSeq(q, b, i), q[i + 1]) = SubSeq(q, b, i + 1)
OBVIOUS

\* The words from b to i, a whole variable, name the manager that the variable
\* is set to, if it is "container", and nothing otherwise.
LEMMA VariableIsRead ==
  ASSUME NEW E \in Seq(Word), NEW b \in 1..Len(E) + 1, NEW i \in b - 1..Len(E),
         b = 1 \/ E[b - 1] = Nul,
         \A j \in b..i : E[j] # Nul,
         i = Len(E) \/ E[i + 1] = Nul
  PROVE  LET line == SubSeq(E, b, i)
         IN /\ line \in Text
            /\ startswith(line, <<"container=">>) <=> b \in Starts(E, b)
            /\ b \in Starts(E, b) => container_id(line) = id_at(E, b)
<1> DEFINE line == SubSeq(E, b, i)
           key == "container="
           L == Len(E)
<1>1. L \in Nat /\ b \in 1..L + 1 /\ i \in b - 1..L
  OBVIOUS
<1>2. line \in Text /\ Len(line) = i - b + 1 /\ \A j \in 1..i - b + 1 : line[j] = E[b + j - 1]
  BY Part DEF Text
<1>3. key \in Word /\ key # Nul /\ \A m \in Managers : m \in Word /\ m # Nul
  BY EnvironAssumption, Zenon
<1> HIDE DEF line, key
<1>4. startswith(line, <<key>>) <=> i >= b /\ E[b] = key
  <2>1. <<key>> \in Seq(Word) /\ Len(<<key>>) = 1 /\ <<key>>[1] = key
    BY <1>3
  <2>2. line \in Seq(Word)
    BY <1>2 DEF Text
  <2>3. startswith(line, <<key>>) <=> 1 <= Len(line) /\ line[1] = key
    <3>1. startswith(line, <<key>>) <=> Len(<<key>>) <= Len(line) /\ \A j \in 1..Len(<<key>>) : <<key>>[j] = line[j]
      BY <2>1, <2>2, PrefixOf
    <3> QED
      BY <2>1, <3>1
  <2> HIDE DEF L
  <2>4. 1 <= Len(line) <=> i >= b
    BY <1>1, <1>2
  <2>5. i >= b => line[1] = E[b]
    BY <1>1, <1>2
  <2> QED
    BY <2>3, <2>4, <2>5
<1>5. b \in Starts(E, b) <=> b <= L /\ E[b] = key
  BY DEF Starts, key, L
<1>6. b <= L /\ E[b] = key => i >= b
  <2> HIDE DEF L
  <2>1. i < b => i = b - 1 /\ i + 1 = b
    BY <1>1
  <2>2. i = L \/ E[i + 1] = Nul
    BY DEF L
  <2> QED
    BY <1>1, <1>3, <2>1, <2>2
<1>7. startswith(line, <<key>>) <=> b \in Starts(E, b)
  BY <1>1, <1>4, <1>5, <1>6
<1>8. ASSUME b \in Starts(E, b)
      PROVE  container_id(line) = id_at(E, b)
  <2>1. b <= L /\ E[b] = key /\ i >= b
    BY <1>5, <1>6, <1>8
  <2>2. ASSUME NEW m \in Managers
        PROVE  line = <<key, m>> <=> m \in Named(E, b)
    <3>1. m \in Named(E, b) <=> b + 1 <= L /\ E[b + 1] = m /\ (b + 2 <= L => E[b + 2] = Nul)
      BY DEF Named, L
    <3>2. <<key, m>> \in Seq(Word) /\ line \in Seq(Word)
      BY <1>2, <1>3 DEF Text
    <3>3. m # Nul /\ m \in Word
      BY <1>3
    <3>4. \A p \in Seq(Word) :
            p = <<key, m>> <=> Len(p) = 2 /\ p[1] = key /\ p[2] = m
      BY <1>3, <3>3
    <3>5. line = <<key, m>> <=> Len(line) = 2 /\ line[1] = key /\ line[2] = m
      BY <3>2, <3>4
    <3> HIDE DEF L
    <3>6. i >= b => line[1] = E[b]
      BY <1>1, <1>2
    <3>7. i = b + 1 => line[2] = E[b + 1]
      <4>1. i = b + 1 => 2 \in 1..i - b + 1 /\ b + 2 - 1 = b + 1
        BY <1>1
      <4>2. 2 \in 1..i - b + 1 => line[2] = E[b + 2 - 1]
        BY <1>2
      <4> QED
        BY <4>1, <4>2
    <3>8. Len(line) = 2 <=> i = b + 1
      BY <1>1, <1>2
    <3>9. line = <<key, m>> <=> i = b + 1 /\ E[b + 1] = m
      BY <2>1, <3>5, <3>6, <3>7, <3>8
    <3>10. i = L \/ E[i + 1] = Nul
      BY DEF L
    <3>11. i = b + 1 /\ E[b + 1] = m => m \in Named(E, b)
      BY <1>1, <3>1, <3>10
    <3>12. m \in Named(E, b) => i = b + 1
      <4> SUFFICES ASSUME m \in Named(E, b)
                   PROVE  i = b + 1
        OBVIOUS
      <4>1. b + 1 <= L /\ E[b + 1] = m /\ (b + 2 <= L => E[b + 2] = Nul)
        BY <3>1
      <4>2. i # b
        BY <1>1, <3>3, <3>10, <4>1
      <4>3. i <= b + 1
        <5> SUFFICES ASSUME b + 2 <= i
                     PROVE  FALSE
          BY <1>1
        <5>1. E[b + 2] = Nul /\ b + 2 \in b..i
          BY <1>1, <4>1
        <5> QED
          BY <5>1
      <4> QED
        BY <1>1, <2>1, <4>2, <4>3
    <3> QED
      BY <3>1, <3>9, <3>11, <3>12
  <2>3. ASSUME NEW m \in Managers, line = <<key, m>>
        PROVE  line[2] = m
    BY <2>3
  <2>4. \A m, n \in Named(E, b) : m = n
    BY Zenon DEF Named
  <2>5. CASE Named(E, b) = {}
    BY <2>2, <2>5, Zenon DEF container_id, id_at, key
  <2>6. CASE Named(E, b) # {}
    <3>1. PICK m \in Named(E, b) : TRUE
      BY <2>6
    <3>2. m \in Managers
      BY <3>1, Zenon DEF Named
    <3>3. id_at(E, b) = m
      BY <2>4, <2>6, <3>1, Zenon DEF id_at
    <3> QED
      BY <2>2, <2>3, <3>1, <3>2, <3>3, Zenon DEF container_id, key
  <2> QED
    BY <2>5, <2>6
<1> QED
  BY <1>2, <1>7, <1>8 DEF line, key

\* The loop that reads the environment.
States == [lines : Seq(Text), line : Text]

\* What is done with a word.
LEMMA WordIsRead ==
  ASSUME NEW state \in States, NEW w \in Word
  PROVE  /\ read_word(state, w) \in States
         /\ w = Nul => read_word(state, w) =
              [lines |-> Append(state.lines, state.line), line |-> <<>>]
         /\ w # Nul /\ Len(state.line) + 1 = LineMax - 1 => read_word(state, w) =
              [lines |-> Append(state.lines, Append(state.line, w)), line |-> <<>>]
         /\ w # Nul /\ Len(state.line) + 1 # LineMax - 1 => read_word(state, w) =
              [lines |-> state.lines, line |-> Append(state.line, w)]
<1> DEFINE longer == Append(state.line, w)
           old == state.lines
           line == state.line
           next == read_word(state, w)
<1>1. /\ old \in Seq(Text) /\ line \in Text
      /\ state = [lines |-> old, line |-> line]
  BY DEF States
<1>2. longer \in Text /\ <<>> \in Text
  BY <1>1 DEF Text
<1> HIDE DEF longer, old, line
<1>3. Append(old, line) \in Seq(Text) /\ Append(old, longer) \in Seq(Text)
  BY <1>1, <1>2
<1>4. [state EXCEPT !.line = longer] = [lines |-> old, line |-> longer]
  BY <1>1
<1>5. next = IF w = Nul THEN [lines |-> Append(old, line), line |-> <<>>]
             ELSE IF Len(line) + 1 = LineMax - 1
             THEN [lines |-> Append(old, longer), line |-> <<>>]
             ELSE [lines |-> old, line |-> longer]
  BY <1>4, Zenon DEF read_word, longer, old, line
<1>6. next \in States
  <2>1. \A x \in Seq(Text), y \in Text : [lines |-> x, line |-> y] \in States
    BY DEF States
  <2> QED
    BY <1>1, <1>2, <1>3, <1>5, <2>1, Zenon
<1> QED
  BY <1>5, <1>6, Zenon DEF longer, old, line, next

\* The loop of detect_container over the words.
LEMMA ReadLoop ==
  ASSUME NEW E \in Seq(Word)
  PROVE  /\ reads(E)[0] = [lines |-> <<>>, line |-> <<>>]
         /\ \A i \in 1..Len(E) : reads(E)[i] = read_word(reads(E)[i - 1], E[i])
         /\ \A i \in 0..Len(E) : reads(E)[i] \in States
<1> DEFINE N == Len(E)
           first == [lines |-> <<>>, line |-> <<>>]
           body(i, x) == read_word(x, E[i])
           step == [x \in (1..N) \X States |-> body(x[1], x[2])]
<1>1. N \in Nat /\ first \in States /\ \A i \in 1..N : E[i] \in Word
  BY DEF States, Text
<1>2. ASSUME NEW i \in 1..N, NEW x \in States
      PROVE  body(i, x) \in States
  BY <1>1, WordIsRead
<1> HIDE DEF body, first, N
<1>3. step \in [(1..N) \X States -> States]
  BY <1>2
<1>4. \A i \in 1..N, x \in States : step[<<i, x>>] = body(i, x)
  OBVIOUS
<1> HIDE DEF step
<1>5. PICK f : IsLoop(f, N, States, first, step)
  BY <1>1, <1>3, LoopExists
<1>6. ASSUME NEW i \in 1..N
      PROVE  f[i] = body(i, f[i - 1])
  <2>1. f[i - 1] \in States
    BY <1>1, <1>5 DEF IsLoop
  <2> QED
    BY <1>4, <1>5, <2>1 DEF IsLoop
<1>7. f = [i \in 0..N |-> IF i = 0 THEN first ELSE body(i, f[i - 1])]
  BY <1>1, <1>5, <1>6 DEF IsLoop
<1>8. reads(E) = [i \in 0..N |-> IF i = 0 THEN first ELSE body(i, reads(E)[i - 1])]
  BY <1>7, Zenon DEF reads, body, first, N
<1> DEFINE state == reads(E)
           T == {i \in 0..N : state[i] \in States}
<1> HIDE DEF state
<1>9. state[0] = first /\ \A i \in 1..N : state[i] = body(i, state[i - 1])
  BY <1>1, <1>8 DEF state
<1>10. 0 \in T
  BY <1>1, <1>9
<1>11. ASSUME NEW i \in 0..N - 1, i \in T
       PROVE  i + 1 \in T
  <2>1. i + 1 \in 1..N /\ i + 1 \in 0..N /\ i + 1 - 1 = i /\ state[i] \in States
    BY <1>1, <1>11
  <2>2. state[i + 1] = body(i + 1, state[i])
    BY <1>9, <2>1
  <2> QED
    BY <1>2, <2>1, <2>2
<1> HIDE DEF T
<1>12. 0..N \subseteq T
  BY <1>1, <1>10, <1>11, EveryRound
<1> QED
  BY <1>9, <1>12 DEF T, state, body, first, N

\* Whether no variable is longer than a line, so that none is cut.
Short(E) ==
  \A i \in 1..Len(E) - LineMax + 1 : \E j \in i..i + LineMax - 1 : E[j] = Nul

\* Where the loop is after i words: in a variable that started at b, of which
\* all is in the buffer, or nothing, if it just filled the buffer.  The lines
\* say what the variables say that they hold.
ReadsAt(E, i, b, state) ==
  /\ b \in 1..i + 1
  /\ b = 1 \/ E[b - 1] = Nul
  /\ \A j \in b..i : E[j] # Nul
  /\ \/ /\ i - b + 1 < LineMax - 1
        /\ state.line = SubSeq(E, b, i)
        /\ answer(state.lines) = expected(E, Starts(E, b - 1))
     \/ /\ i - b + 1 = LineMax - 1
        /\ state.line = <<>>
        /\ answer(state.lines) = expected(E, Starts(E, b))

\* Where the loop is inside a variable.
LEMMA ReadsAtInside ==
  ASSUME NEW E, NEW i, NEW b, NEW state,
         b \in 1..i + 1, b = 1 \/ E[b - 1] = Nul, \A j \in b..i : E[j] # Nul,
         i - b + 1 < LineMax - 1, state.line = SubSeq(E, b, i),
         answer(state.lines) = expected(E, Starts(E, b - 1))
  PROVE  ReadsAt(E, i, b, state)
BY Zenon DEF ReadsAt

\* Where the loop is when the buffer is full.
LEMMA ReadsAtEnd ==
  ASSUME NEW E, NEW i, NEW b, NEW state,
         b \in 1..i + 1, b = 1 \/ E[b - 1] = Nul, \A j \in b..i : E[j] # Nul,
         i - b + 1 = LineMax - 1, state.line = <<>>,
         answer(state.lines) = expected(E, Starts(E, b))
  PROVE  ReadsAt(E, i, b, state)
BY Zenon DEF ReadsAt

\* A variable and the lines before it, as VariableIsRead and AnswerOfMore say.
LEMMA LineTells ==
  ASSUME NEW E \in Seq(Word), NEW b \in 1..Len(E) + 1, NEW i \in b - 1..Len(E),
         b = 1 \/ E[b - 1] = Nul,
         \A j \in b..i : E[j] # Nul,
         i = Len(E) \/ E[i + 1] = Nul,
         NEW lines \in Seq(Text), answer(lines) = expected(E, Starts(E, b - 1))
  PROVE  answer(Append(lines, SubSeq(E, b, i))) = expected(E, Starts(E, b))
<1> DEFINE line == SubSeq(E, b, i)
           F == Starts(E, b - 1)
           G == Starts(E, b)
<1>1. /\ line \in Text
      /\ startswith(line, <<"container=">>) <=> b \in G
      /\ b \in G => container_id(line) = id_at(E, b)
  BY VariableIsRead, Zenon
<1>2. b \in Nat /\ Len(E) \in Nat
  OBVIOUS
<1>3. F \in SUBSET Nat /\ (\A j \in F : j < b) /\ G = F \cup (IF b \in G THEN {b} ELSE {})
  BY <1>2 DEF Starts
<1> HIDE DEF line, F, G
<1>4. answer(Append(lines, line)) =
        IF answer(lines) # Nothing THEN answer(lines)
        ELSE IF b \in G THEN Container(id_at(E, b)) ELSE Nothing
  BY <1>1, AnswerOfMore, Zenon
<1>5. answer(lines) = expected(E, F) /\ (answer(lines) # Nothing <=> F # {})
  BY Results, Zenon DEF expected, F
<1>6. expected(E, G) = IF F # {} THEN expected(E, F)
                       ELSE IF b \in G THEN Container(id_at(E, b)) ELSE Nothing
  <2>1. CASE b \in G
    <3>1. G = F \cup {b}
      BY <1>3, <2>1
    <3>2. expected(E, F \cup {b}) = IF F # {} THEN expected(E, F) ELSE Container(id_at(E, b))
      BY <1>2, <1>3, ExpectedOfMore
    <3> QED
      BY <2>1, <3>1, <3>2, Zenon
  <2>2. CASE b \notin G
    <3>1. G = F
      BY <1>3, <2>2
    <3> QED
      BY <2>2, <3>1, Zenon DEF expected
  <2> QED
    BY <2>1, <2>2
<1> QED
  BY <1>4, <1>5, <1>6, Zenon DEF line, G

\* No variable starts inside another.
LEMMA NoStartInside ==
  ASSUME NEW E \in Seq(Word), NEW b \in 1..Len(E) + 1, NEW i \in b - 1..Len(E),
         \A j \in b..i : E[j] # Nul,
         NEW c \in b..i + 1
  PROVE  Starts(E, c) = Starts(E, b)
<1>1. Len(E) \in Nat
  OBVIOUS
<1>2. ASSUME NEW s \in Starts(E, c)
      PROVE  s <= b
  <2> SUFFICES ASSUME s > b
               PROVE  FALSE
    BY <1>1 DEF Starts
  <2>1. s - 1 \in b..i /\ E[s - 1] = Nul
    BY <1>1 DEF Starts
  <2> QED
    BY <2>1
<1> QED
  BY <1>1, <1>2 DEF Starts

\* One word more, in an environment in which no variable is cut.
LEMMA ReadsOn ==
  ASSUME NEW E \in Seq(Word), Short(E), NEW i \in 0..Len(E) - 1, NEW b,
         NEW state \in States, ReadsAt(E, i, b, state)
  PROVE  \E c : ReadsAt(E, i + 1, c, read_word(state, E[i + 1]))
<1> DEFINE w == E[i + 1]
           next == read_word(state, w)
           N == Len(E)
           full == i - b + 1 = LineMax - 1
           part == SubSeq(E, b, i)
<1>1. N \in Nat /\ i \in 0..N - 1 /\ LineMax \in Nat /\ LineMax >= 2 /\ w \in Word
  BY LineAssumption
<1>2. /\ b \in 1..i + 1
      /\ b = 1 \/ E[b - 1] = Nul
      /\ \A j \in b..i : E[j] # Nul
      /\ full \/ i - b + 1 < LineMax - 1
      /\ full => state.line = <<>> /\ answer(state.lines) = expected(E, Starts(E, b))
      /\ ~full => state.line = part /\ answer(state.lines) = expected(E, Starts(E, b - 1))
  <2> DEFINE said(k) == answer(state.lines) = expected(E, Starts(E, k))
  <2>1. /\ b \in 1..i + 1
        /\ b = 1 \/ E[b - 1] = Nul
        /\ \A j \in b..i : E[j] # Nul
        /\ \/ i - b + 1 < LineMax - 1 /\ state.line = part /\ said(b - 1)
           \/ full /\ state.line = <<>> /\ said(b)
    BY Zenon DEF ReadsAt
  <2>2. full => ~(i - b + 1 < LineMax - 1)
    BY <1>1
  <2> HIDE DEF full
  <2> QED
    BY <2>1, <2>2, Zenon
<1>3. state.lines \in Seq(Text) /\ state.line \in Text
  BY DEF States
<1> HIDE DEF N, w
<1>4. b \in 1..N + 1 /\ i \in b - 1..N /\ b \in 1..N /\ i \in b - 1..N - 1 /\ i + 1 \in 1..N
  BY <1>1, <1>2
<1>5. CASE w = Nul
  <2> DEFINE c == i + 2
             more == Append(state.lines, state.line)
  <2>1. next = [lines |-> more, line |-> <<>>]
    BY <1>1, <1>5, WordIsRead, Zenon
  <2>2. answer(more) = expected(E, Starts(E, b))
    <3>1. CASE full
      <4>1. state.line = <<>>
        BY <1>2, <3>1
      <4>2. ~startswith(state.line, <<"container=">>)
        BY <4>1 DEF startswith, IsPrefix
      <4>3. answer(more) = answer(state.lines)
        BY <1>3, <4>2, AnswerOfMore, Zenon
      <4> QED
        BY <1>2, <3>1, <4>3, Zenon
    <3>2. CASE ~full
      <4>1. answer(state.lines) = expected(E, Starts(E, b - 1)) /\ state.line = part
        BY <1>2, <3>2, Zenon
      <4>2. answer(Append(state.lines, part)) = expected(E, Starts(E, b))
        BY <1>2, <1>3, <1>4, <1>5, <4>1, LineTells, Zenon DEF N, w
      <4> QED
        BY <4>1, <4>2, Zenon
    <3> QED
      BY <3>1, <3>2
  <2>3. Starts(E, c - 1) = Starts(E, b)
    <3>1. c - 1 \in b..i + 1
      BY <1>1, <1>2
    <3> QED
      BY <1>2, <1>4, <3>1, NoStartInside DEF N
  <2>4. /\ c \in 1..i + 1 + 1 /\ c - 1 = i + 1 /\ c..i + 1 = {}
        /\ (i + 1) - c + 1 < LineMax - 1
    BY <1>1
  <2>5. SubSeq(E, c, i + 1) = <<>>
    BY <1>1 DEF N
  <2> HIDE DEF more, c
  <2>6. next.lines = more /\ next.line = <<>>
    BY <2>1
  <2>7. E[c - 1] = Nul /\ \A j \in c..i + 1 : E[j] # Nul
    BY <1>5, <2>4 DEF w
  <2>8. ReadsAt(E, i + 1, c, next)
    <3>1. next.line = SubSeq(E, c, i + 1) /\ answer(next.lines) = expected(E, Starts(E, c - 1))
      BY <2>2, <2>3, <2>5, <2>6, Zenon
    <3>2. c \in 1..i + 1 + 1 /\ (i + 1) - c + 1 < LineMax - 1
      BY <2>4, Zenon
    <3> HIDE DEF next
    <3> QED
      BY <2>7, <3>1, <3>2, ReadsAtInside, Zenon
  <2> QED
    BY <2>8 DEF w
<1>6. CASE w # Nul
  <2>1. ~full
    <3> SUFFICES ASSUME full
                 PROVE  FALSE
      OBVIOUS
    <3>1. b \in 1..N - LineMax + 1 /\ b + LineMax - 1 = i + 1
      BY <1>1, <1>2
    <3>2. PICK j \in b..i + 1 : E[j] = Nul
      BY <3>1 DEF Short, N
    <3>3. j \in b..i \/ j = i + 1
      BY <1>1, <1>2, <3>2
    <3> QED
      BY <1>2, <1>6, <3>2, <3>3 DEF w
  <2> DEFINE longer == SubSeq(E, b, i + 1)
  <2>2. state.line = part /\ answer(state.lines) = expected(E, Starts(E, b - 1))
    BY <1>2, <2>1, Zenon
  <2>3. Append(part, w) = longer /\ Len(part) = i - b + 1
    BY <1>4, PartGrows, Part DEF N, w
  <2>4. \A j \in b..i + 1 : E[j] # Nul
    <3>1. \A j \in b..i + 1 : j \in b..i \/ j = i + 1
      BY <1>1, <1>2
    <3> QED
      BY <1>2, <1>6, <3>1 DEF w
  <2>5. (i + 1) - b + 1 = i - b + 1 + 1
    BY <1>1, <1>2
  <2>8. b \in 1..i + 1 + 1
    BY <1>1, <1>2
  <2>6. CASE i - b + 1 + 1 = LineMax - 1
    <3> DEFINE more == Append(state.lines, longer)
    <3>1. next = [lines |-> more, line |-> <<>>]
      <4>1. Len(state.line) + 1 = LineMax - 1
        BY <2>2, <2>3, <2>6
      <4> QED
        BY <1>1, <1>6, <2>2, <2>3, <4>1, WordIsRead, Zenon
    <3>2. i + 1 = N \/ E[i + 1 + 1] = Nul
      <4> SUFFICES ASSUME i + 1 # N
                   PROVE  E[i + 1 + 1] = Nul
        OBVIOUS
      <4>1. b \in 1..N - LineMax + 1 /\ b + LineMax - 1 = i + 2
        <5>1. b \in 1..i + 1 /\ i + 1 \in 1..N /\ i + 1 # N
          BY <1>2, <1>4
        <5> QED
          BY <1>1, <2>6, <5>1
      <4>2. PICK j \in b..i + 2 : E[j] = Nul
        BY <4>1 DEF Short, N
      <4>3. j \in b..i + 1 \/ j = i + 1 + 1
        BY <1>1, <1>2, <4>2
      <4> QED
        BY <2>4, <4>2, <4>3
    <3>3. i + 1 \in b - 1..N
      BY <1>1, <1>2
    <3>4. answer(more) = expected(E, Starts(E, b))
      BY <1>2, <1>3, <1>4, <2>2, <2>4, <3>2, <3>3, LineTells DEF N
    <3> HIDE DEF more
    <3>5. next.lines = more /\ next.line = <<>>
      BY <3>1
    <3>6. (i + 1) - b + 1 = LineMax - 1
      BY <2>5, <2>6
    <3>7. b = 1 \/ E[b - 1] = Nul
      BY <1>2
    <3>8. answer(next.lines) = expected(E, Starts(E, b)) /\ next.line = <<>>
      BY <3>4, <3>5, Zenon
    <3> HIDE DEF next
    <3>9. ReadsAt(E, i + 1, b, next)
      BY <2>4, <2>8, <3>6, <3>7, <3>8, ReadsAtEnd, Zenon
    <3> QED
      BY <3>9 DEF w, next
  <2>7. CASE i - b + 1 + 1 # LineMax - 1
    <3>1. next = [lines |-> state.lines, line |-> longer]
      <4>1. Len(state.line) + 1 # LineMax - 1
        BY <2>2, <2>3, <2>7
      <4> QED
        BY <1>1, <1>6, <2>2, <2>3, <4>1, WordIsRead, Zenon
    <3> HIDE DEF longer
    <3>2. next.lines = state.lines /\ next.line = longer
      BY <3>1
    <3>3. (i + 1) - b + 1 < LineMax - 1
      BY <1>1, <1>2, <2>1, <2>5, <2>7
    <3>4. b = 1 \/ E[b - 1] = Nul
      BY <1>2
    <3>5. answer(next.lines) = expected(E, Starts(E, b - 1)) /\ next.line = SubSeq(E, b, i + 1)
      BY <2>2, <3>2, Zenon DEF longer
    <3> HIDE DEF next
    <3>6. ReadsAt(E, i + 1, b, next)
      BY <2>4, <2>8, <3>3, <3>4, <3>5, ReadsAtInside, Zenon
    <3> QED
      BY <3>6 DEF w, next
  <2> QED
    BY <2>6, <2>7
<1> QED
  BY <1>5, <1>6

\* An environment in which no variable is cut says what its first variable
\* "container" says, however long it is.
LEMMA ContainersAreFound ==
  ASSUME NEW environ \in Seq(Word)
  PROVE  ContainerIsFound(environ)
<1> DEFINE E == environ
           N == Len(E)
           state == reads(E)
           T == {i \in 0..N : \E b : ReadsAt(E, i, b, state[i])}
           starts == {i \in 1..N : E[i] = "container=" /\ (i = 1 \/ E[i - 1] = Nul)}
           is(i, m) == /\ i + 1 <= N /\ E[i + 1] = m
                       /\ i + 2 <= N => E[i + 2] = Nul
           named == {m \in Managers : is(Min(starts), m)}
<1>1. SUFFICES ASSUME Short(E)
               PROVE  detect_environ(E) =
                        IF starts = {} THEN Nothing
                        ELSE Container(IF named = {} THEN "other" ELSE CHOOSE m \in named : TRUE)
  BY Zenon DEF ContainerIsFound, Short
<1>2. starts = Starts(E, N)
  BY DEF Starts
<1>3. (IF starts = {} THEN Nothing
       ELSE Container(IF named = {} THEN "other" ELSE CHOOSE m \in named : TRUE)) = expected(E, starts)
  BY Zenon DEF expected, id_at, Named
<1> HIDE DEF starts, named
<1>4. N \in Nat
  OBVIOUS
<1>5. /\ state[0] = [lines |-> <<>>, line |-> <<>>]
      /\ \A i \in 1..N : state[i] = read_word(state[i - 1], E[i])
      /\ \A i \in 0..N : state[i] \in States
  BY ReadLoop, Zenon
<1> HIDE DEF state
<1>6. 0 \in T
  <2>1. Starts(E, 0) = {}
    BY <1>4 DEF Starts
  <2>2. answer(<<>>) = Nothing
    BY DEF answer, container_line
  <2>3. SubSeq(E, 1, 0) = <<>>
    OBVIOUS
  <2>4. state[0].lines = <<>> /\ state[0].line = <<>>
    BY <1>5
  <2>5. LineMax \in Nat /\ LineMax >= 2
    BY LineAssumption
  <2>6. ReadsAt(E, 0, 1, state[0])
    <3>1. 1 \in 1..0 + 1 /\ 1..0 = {} /\ 0 - 1 + 1 = 0 /\ 1 - 1 = 0
      OBVIOUS
    <3>2. 0 - 1 + 1 < LineMax - 1
      BY <2>5
    <3>3. \A j \in 1..0 : E[j] # Nul
      BY <3>1
    <3> QED
      BY <2>1, <2>2, <2>3, <2>4, <3>1, <3>2, <3>3, Zenon DEF ReadsAt, expected
  <2> QED
    BY <1>4, <2>6
<1>7. ASSUME NEW i \in 0..N - 1, i \in T
      PROVE  i + 1 \in T
  <2> DEFINE m == i + 1
  <2>1. m \in 1..N /\ m \in 0..N /\ i \in 0..N /\ m - 1 = i
    BY <1>4
  <2>2. PICK b : ReadsAt(E, i, b, state[i])
    BY <1>7
  <2>3. state[i] \in States
    BY <1>5, <2>1
  <2>4. \E c : ReadsAt(E, m, c, read_word(state[i], E[m]))
    BY <1>1, <2>2, <2>3, ReadsOn, Zenon
  <2> HIDE DEF m
  <2>5. state[m] = read_word(state[i], E[m])
    BY <1>5, <2>1
  <2>6. m \in T
    BY <2>1, <2>4, <2>5
  <2> QED
    BY <2>6 DEF m
<1> HIDE DEF T
<1>8. N \in T
  <2>1. 0..N \subseteq T
    BY <1>4, <1>6, <1>7, EveryRound
  <2> QED
    BY <1>4, <2>1
<1>9. PICK b : ReadsAt(E, N, b, state[N])
  BY <1>8 DEF T
<1> DEFINE full == N - b + 1 = LineMax - 1
           all == state[N]
<1>10. /\ b \in 1..N + 1
       /\ b = 1 \/ E[b - 1] = Nul
       /\ \A j \in b..N : E[j] # Nul
       /\ full => all.line = <<>> /\ answer(all.lines) = expected(E, Starts(E, b))
       /\ ~full => all.line = SubSeq(E, b, N) /\ answer(all.lines) = expected(E, Starts(E, b - 1))
  <2> DEFINE said(k) == answer(all.lines) = expected(E, Starts(E, k))
  <2>1. /\ b \in 1..N + 1
        /\ b = 1 \/ E[b - 1] = Nul
        /\ \A j \in b..N : E[j] # Nul
        /\ \/ N - b + 1 < LineMax - 1 /\ all.line = SubSeq(E, b, N) /\ said(b - 1)
           \/ full /\ all.line = <<>> /\ said(b)
    BY <1>9, Zenon DEF ReadsAt
  <2>2. full => ~(N - b + 1 < LineMax - 1)
    BY <1>4, <2>1, LineAssumption
  <2> HIDE DEF full
  <2> QED
    BY <2>1, <2>2, Zenon
<1>11. all.lines \in Seq(Text) /\ all.line \in Text
  <2>1. all \in States
    BY <1>4, <1>5
  <2> HIDE DEF all
  <2> QED
    BY <2>1 DEF States
<1> HIDE DEF all
<1>12. detect_environ(E) = answer(Append(all.lines, all.line))
  BY Zenon DEF detect_environ, lines_of, answer, all, state
<1>13. answer(Append(all.lines, all.line)) = expected(E, Starts(E, b))
  <2>1. CASE full
    <3>1. all.line = <<>>
      BY <1>10, <2>1
    <3>2. ~startswith(all.line, <<"container=">>)
      BY <3>1 DEF startswith, IsPrefix
    <3>3. answer(Append(all.lines, all.line)) = answer(all.lines)
      BY <1>11, <3>2, AnswerOfMore, Zenon
    <3> QED
      BY <1>10, <2>1, <3>3, Zenon
  <2>2. CASE ~full
    <3>1. answer(all.lines) = expected(E, Starts(E, b - 1)) /\ all.line = SubSeq(E, b, N)
      BY <1>10, <2>2, Zenon
    <3>2. N \in b - 1..N
      BY <1>4, <1>10
    <3>3. answer(Append(all.lines, SubSeq(E, b, N))) = expected(E, Starts(E, b))
      BY <1>10, <1>11, <3>1, <3>2, LineTells, Zenon
    <3> QED
      BY <3>1, <3>3, Zenon
  <2> QED
    BY <2>1, <2>2
<1>14. Starts(E, b) = starts
  <2>1. N \in b - 1..N /\ N + 1 \in b..N + 1
    BY <1>4, <1>10
  <2>2. Starts(E, N + 1) = Starts(E, b)
    BY <1>10, <2>1, NoStartInside, Zenon
  <2>3. Starts(E, N + 1) = Starts(E, N)
    BY <1>4 DEF Starts
  <2> QED
    BY <1>2, <2>2, <2>3
<1> QED
  BY <1>3, <1>12, <1>13, <1>14, Zenon

-------------------------------------------------------------------------------
(* The invariants of the run. *)

\* An input is made of what its topic is about.
InputOK == topic \in Topics /\ input \in Seq(Alphabet[topic])

\* Only such inputs are built: what the invariants are about is what the shim
\* can meet.
THEOREM InputsAreTyped == Spec => []InputOK
<1>1. Init => InputOK
  BY DEF Init, InputOK
<1>2. InputOK /\ [Next]_<<topic, input>> => InputOK'
  <2>1. ASSUME InputOK, Next
        PROVE  InputOK'
    <3> DEFINE A == Alphabet[topic]
    <3>1. PICK x \in A : input' = Append(input, x)
      BY <2>1 DEF Next
    <3>2. topic' = topic /\ topic \in Topics /\ input \in Seq(A)
      BY <2>1 DEF Next, InputOK
    <3> HIDE DEF A
    <3>3. input' \in Seq(A)
      BY <3>1, <3>2
    <3> QED
      BY <3>2, <3>3 DEF InputOK, A
  <2>2. CASE UNCHANGED <<topic, input>>
    BY <2>2 DEF InputOK
  <2> QED
    BY <2>1, <2>2
<1> QED
  BY <1>1, <1>2, PTL DEF Spec

\* A name or a path element is a sequence of bytes.
LEMMA ObjectsAreBytes ==
  ASSUME InputOK, topic = "object"
  PROVE  input \in Seq(Byte)
<1> DEFINE A == Alphabet["object"]
<1>1. input \in Seq(A) /\ A \subseteq Byte
  BY AlphabetAssumption DEF InputOK
<1> HIDE DEF A
<1> QED
  BY <1>1

\* A listed unit is the one that Abandon on its object path reaches: every
\* printable name survives escape_object_path and unescape_object_path.
THEOREM PathsReachTheirUnits == Spec => []ObjectRoundTrip
<1>1. InputOK => ObjectRoundTrip
  BY NamesSurvive, Zenon DEF ObjectRoundTrip, RoundTrip, IsName
<1> QED
  BY <1>1, InputsAreTyped, PTL

\* escape_object_path makes a legal element of every name, in the three bytes
\* per byte that it allocates.
THEOREM PathsAreLegal == Spec => []ObjectNodeIsLegal
<1>1. InputOK => ObjectNodeIsLegal
  BY ObjectsAreBytes, NodesAreLegal, Zenon DEF ObjectNodeIsLegal
<1> QED
  BY <1>1, InputsAreTyped, PTL

\* unescape_object_path of any legal element fits into its buffer, and is a
\* name whose own element reaches the same unit.
THEOREM PathsAreAliases == Spec => []ObjectNodeIsAnAlias
<1>1. InputOK => ObjectNodeIsAnAlias
  BY ObjectsAreBytes, NodesAreAliases, Zenon DEF ObjectNodeIsAnAlias
<1> QED
  BY <1>1, InputsAreTyped, PTL

\* Every cgroup above a slice is that of the slice it is named after.
THEOREM SlicesNest == Spec => []SliceAncestors
<1>1. InputOK => SliceAncestors
  BY AncestorsOfSlices, Zenon DEF SliceAncestors, InputOK
<1> QED
  BY <1>1, InputsAreTyped, PTL

\* The owner of a slice user-N.slice is N, and no other slice has that owner.
THEOREM SlicesHaveTheirOwner == Spec => []SliceOwner
<1>1. InputOK => SliceOwner
  BY OwnerOfSlice, Zenon DEF SliceOwner, InputOK
<1> QED
  BY <1>1, InputsAreTyped, PTL

\* The first variable "container" of /proc/1/environ decides, wherever
\* detect_container's lines end.
THEOREM ContainersAreTold == Spec => []VirtContainer
<1>1. InputOK => VirtContainer
  <2> SUFFICES ASSUME InputOK, topic = "environ"
               PROVE  ContainerIsFound(input)
    BY DEF VirtContainer
  <2> DEFINE A == Alphabet["environ"]
  <2>1. input \in Seq(A) /\ A \subseteq Word
    BY AlphabetAssumption DEF InputOK
  <2> HIDE DEF A
  <2>2. input \in Seq(Word)
    BY <2>1
  <2> QED
    BY <2>2, ContainersAreFound
<1> QED
  BY <1>1, InputsAreTyped, PTL

\* detect_vm takes a machine for a virtual one exactly if the processor or a
\* file of the DMI says so.
THEOREM MachinesAreTold == Spec => []VirtMachine
<1>1. InputOK => VirtMachine
  <2> SUFFICES ASSUME InputOK, topic = "machine", NEW i \in 1..Len(input)
               PROVE  VmIsFound(input[i])
    BY DEF VirtMachine
  <2> DEFINE A == Alphabet["machine"]
  <2>1. input \in Seq(A) /\ A \subseteq Reading
    BY AlphabetAssumption DEF InputOK
  <2> HIDE DEF A
  <2>2. input[i] \in A
    BY <2>1, Elements, Zenon
  <2>3. input[i] \in Reading
    BY <2>1, <2>2
  <2> QED
    BY <2>3, MachinesAreFound
<1> QED
  BY <1>1, InputsAreTyped, PTL

\* The property Virtualization says what the first call found out that did not
\* fail, and says it for good.
THEOREM AnswersAreKept == Spec => []VirtAnswer
<1>1. InputOK => VirtAnswer
  BY AnswersStick, Zenon DEF VirtAnswer, InputOK
<1> QED
  BY <1>1, InputsAreTyped, PTL
===============================================================================
