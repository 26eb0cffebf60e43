-------------------------------- MODULE Induction --------------------------------
(***************************************************************************)
(* Induction over the natural numbers, and the loops that are defined by   *)
(* recursion on the number of rounds, for the proofs about the functions   *)
(* of the shim (Inputs_proofs).  What is to be shown is a set, not an      *)
(* operator, so the lemmas can be instantiated by every prover; they rest  *)
(* on the theorem that the order of the naturals is well-founded.          *)
(***************************************************************************)
EXTENDS Integers, WellFoundedInduction, TLAPS

\* Some well-founded relation holds the order of the naturals.
LEMMA NatOrder ==
  \E R : IsWellFoundedOn(R, Nat) /\ \A i, j \in Nat : i < j => <<i, j>> \in R
<1> DEFINE R == OpToRel(<, Nat)
<1>1. IsWellFoundedOn(R, Nat)
  BY NatLessThanWellFounded, Zenon
<1>2. \A i, j \in Nat : i < j => <<i, j>> \in R
  BY DEF OpToRel
<1> HIDE DEF R
<1> QED
  BY <1>1, <1>2

\* A set of naturals has a least element, if it has any: where a scan stops.
LEMMA LeastNat ==
  ASSUME NEW T \in SUBSET Nat, T # {}
  PROVE  \E n \in T : \A m \in T : n <= m
<1>1. PICK R : IsWellFoundedOn(R, Nat) /\ \A i, j \in Nat : i < j => <<i, j>> \in R
  BY NatOrder
<1>2. IsWellFoundedOn(R, Nat) /\ T \subseteq Nat
  BY <1>1
<1>3. \E n \in T : \A y \in T : ~(<<y, n>> \in R)
  BY <1>2, WFMin, Zenon
<1>4. PICK n \in T : \A y \in T : ~(<<y, n>> \in R)
  BY <1>3
<1>5. ASSUME NEW m \in T
      PROVE  n <= m
  <2>1. n \in Nat /\ m \in Nat
    OBVIOUS
  <2>2. ~(m < n)
    BY <2>1, <1>4, <1>1
  <2> QED
    BY <2>1, <2>2
<1> QED
  BY <1>5

\* Induction: a set that has 0, and n + 1 whenever it has n, has every natural.
LEMMA EveryNat ==
  ASSUME NEW T, 0 \in T, \A n \in Nat : n \in T => n + 1 \in T
  PROVE  Nat \subseteq T
<1> SUFFICES ASSUME NEW k \in Nat, k \notin T
             PROVE  FALSE
  OBVIOUS
<1>1. PICK n \in Nat \ T : \A m \in Nat \ T : n <= m
  BY LeastNat
<1> QED
  BY <1>1, n - 1 \in Nat \/ n = 0

\* The same for the rounds of a loop: from 0 up to the last one.
LEMMA EveryRound ==
  ASSUME NEW N \in Nat, NEW T, 0 \in T, \A n \in 0..N - 1 : n \in T => n + 1 \in T
  PROVE  0..N \subseteq T
<1> DEFINE U == {n \in Nat : n <= N => n \in T}
<1>1. 0 \in U
  OBVIOUS
<1>2. \A n \in Nat : n \in U => n + 1 \in U
  OBVIOUS
<1> HIDE DEF U
<1>3. Nat \subseteq U
  BY <1>1, <1>2, EveryNat
<1> QED
  BY <1>3 DEF U

\* f is what a loop has computed after each of its N rounds: it starts with
\* base, and round n makes step[<<n, x>>] of x.
IsLoop(f, N, S, base, step) ==
  /\ f \in [0..N -> S]
  /\ f[0] = base
  /\ \A n \in 1..N : f[n] = step[<<n, f[n - 1]>>]

\* Whatever a round does, a loop computes something.
LEMMA LoopExists ==
  ASSUME NEW N \in Nat, NEW S, NEW base \in S, NEW step \in [(1..N) \X S -> S]
  PROVE  \E f : IsLoop(f, N, S, base, step)
<1> USE DEF IsLoop
<1> DEFINE Good(m, f) == IsLoop(f, m, S, base, step)
           T == {m \in Nat : \E f : Good(m, f)}
<1>1. 0 \in T
  <2>1. Good(0, [i \in 0..0 |-> base])
    OBVIOUS
  <2> QED
    BY <2>1
<1>2. ASSUME NEW m \in 0..N - 1, m \in T
      PROVE  m + 1 \in T
  <2>1. m \in Nat /\ m + 1 \in 1..N /\ m \in 0..m /\ m + 1 \in Nat
    OBVIOUS
  <2>2. PICK f : Good(m, f)
    BY <1>2
  <2>3. f[m] \in S
    BY <2>1, <2>2
  <2>4. step[<<m + 1, f[m]>>] \in S
    BY <2>1, <2>3
  <2> DEFINE last == step[<<m + 1, f[m]>>]
  <2> HIDE DEF last
  <2> DEFINE g == [i \in 0..m + 1 |-> IF i = m + 1 THEN last ELSE f[i]]
  <2>5. Good(m + 1, g)
    <3>1. last \in S
      BY <2>4 DEF last
    <3>2. g \in [0..m + 1 -> S]
      BY <3>1, <2>1, <2>2
    <3>3. g[0] = base
      BY <2>1, <2>2
    <3>4. ASSUME NEW n \in 1..m
          PROVE  g[n] = step[<<n, g[n - 1]>>]
      <4>1. g[n] = f[n] /\ g[n - 1] = f[n - 1]
        BY <2>1
      <4> QED
        BY <4>1, <2>2
    <3>5. g[m + 1] = step[<<m + 1, g[m + 1 - 1]>>]
      <4>1. g[m + 1] = last /\ g[m] = f[m]
        BY <2>1
      <4> QED
        BY <4>1, <2>1 DEF last
    <3>6. ASSUME NEW n \in 1..m + 1
          PROVE  g[n] = step[<<n, g[n - 1]>>]
      <4>1. CASE n \in 1..m
        BY <3>4, <4>1
      <4>2. CASE n = m + 1
        BY <3>5, <4>2
      <4> QED
        BY <4>1, <4>2, <2>1
    <3> HIDE DEF g
    <3> QED
      BY <3>2, <3>3, <3>6
  <2> HIDE DEF g, Good
  <2> QED
    BY <2>5, <2>1
<1> HIDE DEF T
<1>3. 0..N \subseteq T
  BY <1>1, <1>2, EveryRound
<1>4. N \in T
  BY <1>3
<1> QED
  BY <1>4 DEF T
===============================================================================
