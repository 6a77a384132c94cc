---------------------------- MODULE NaturalFacts ----------------------------
(***************************************************************************)
(* Induction in a form the provers can use: instead of an operator, which  *)
(* they cannot instantiate, the facts speak of sets of numbers, and of     *)
(* step functions as functions.  All rest on the well-foundedness of the   *)
(* natural numbers.                                                        *)
(***************************************************************************)
EXTENDS Integers, WellFoundedInduction, TLAPS

(* A set of numbers that is not empty has a least one.                     *)
LEMMA HasMinimum ==
  ASSUME NEW S \in SUBSET Nat, S # {}
  PROVE  \E m \in S : \A i \in S : m <= i
<1>1. PICK m \in S : \A y \in S : ~ (<<y, m>> \in OpToRel(<, Nat))
  BY NatLessThanWellFounded, WFMin
<1>2. \A y \in S : ~ (y < m)
  BY <1>1 DEF OpToRel
<1>3. QED
  BY <1>2

(* And, below a bound, a greatest one.                                     *)
LEMMA HasMaximum ==
  ASSUME NEW n \in Nat, NEW S \in SUBSET (0..n), S # {}
  PROVE  \E m \in S : \A i \in S : i <= m
<1> DEFINE T == {n - i : i \in S}
<1>1. T \in SUBSET Nat /\ T # {}
  <2>1. \A i \in S : i \in Nat /\ i <= n
    OBVIOUS
  <2>2. \A i \in S : n - i \in Nat
    BY <2>1
  <2>3. QED
    BY <2>2
<1>2. PICK x \in T : \A y \in T : x <= y
  BY <1>1, HasMinimum
<1>3. PICK m \in S : x = n - m
  OBVIOUS
<1>4. ASSUME NEW i \in S PROVE i <= m
  <2>1. n - i \in T /\ i \in Nat /\ m \in Nat
    OBVIOUS
  <2>2. n - m <= n - i
    BY <1>2, <1>3, <2>1
  <2>3. QED
    BY <2>1, <2>2
<1>5. QED
  BY <1>4

(* A set that holds zero, and with each number up to n its successor,      *)
(* holds every number up to n.                                             *)
LEMMA UpTo ==
  ASSUME NEW n \in Nat, NEW S, 0 \in S, \A i \in 0..n : i \in S /\ i < n => i + 1 \in S
  PROVE  0..n \subseteq S
<1> SUFFICES ASSUME (0..n) \ S # {} PROVE FALSE
  OBVIOUS
<1>1. PICK m \in (0..n) \ S : \A i \in (0..n) \ S : m <= i
  <2>1. (0..n) \ S \in SUBSET Nat
    OBVIOUS
  <2>2. QED
    BY <2>1, HasMinimum
<1>2. m # 0 /\ m - 1 \in 0..n /\ m - 1 < n
  BY <1>1
<1>3. m - 1 \in S
  BY <1>1, <1>2
<1>4. QED
  BY <1>1, <1>2, <1>3

\* The states of a loop that runs n times.
IsLoop(f, n, S, start, step) ==
  f \in [0..n -> S] /\ f[0] = start /\ \A i \in 1..n : f[i] = step[<<i, f[i - 1]>>]

(* A loop that runs n times from a start has a function of its states.     *)
LEMMA LoopExists ==
  ASSUME NEW n \in Nat, NEW S, NEW start \in S, NEW step \in [(1..n) \X S -> S]
  PROVE  \E f : IsLoop(f, n, S, start, step)
<1> DEFINE Runs(f, m) == f[0] = start /\ \A i \in 1..m : f[i] = step[<<i, f[i - 1]>>]
           T == {m \in 0..n : \E f \in [0..n -> S] : Runs(f, m)}
<1>1. 0 \in T
  <2> DEFINE f == [i \in 0..n |-> start]
  <2>1. f \in [0..n -> S] /\ 0 \in 0..n
    OBVIOUS
  <2>2. f[0] = start /\ \A i \in 1..0 : f[i] = step[<<i, f[i - 1]>>]
    BY <2>1
  <2> HIDE DEF f
  <2>3. QED
    BY <2>1, <2>2
<1>2. ASSUME NEW m \in 0..n, m \in T, m < n PROVE m + 1 \in T
  <2>1. PICK f \in [0..n -> S] : Runs(f, m)
    BY <1>2
  <2> DEFINE g == [f EXCEPT ![m + 1] = step[<<m + 1, f[m]>>]]
  <2>2. m + 1 \in 1..n /\ m + 1 \in 0..n /\ step[<<m + 1, f[m]>>] \in S
    BY <1>2
  <2>3. g \in [0..n -> S]
    BY <2>2
  <2>4. g[0] = start /\ \A i \in 0..m : g[i] = f[i]
    BY <1>2, <2>1, <2>2
  <2>5. g[m + 1] = step[<<m + 1, f[m]>>]
    BY <1>2, <2>1, <2>2
  <2> HIDE DEF g
  <2>6. Runs(g, m + 1)
    <3>1. ASSUME NEW i \in 1..(m + 1) PROVE g[i] = step[<<i, g[i - 1]>>]
      <4>1. CASE i = m + 1
        <5>1. i - 1 = m /\ g[m] = f[m]
          BY <1>2, <2>4, <4>1
        <5>2. QED
          BY <2>5, <4>1, <5>1
      <4>2. CASE i # m + 1
        <5>1. i \in 1..m /\ i \in 0..m /\ i - 1 \in 0..m
          BY <1>2, <4>2
        <5>2. QED
          BY <2>1, <2>4, <5>1
      <4>3. QED
        BY <4>1, <4>2
    <3>2. QED
      BY <2>4, <3>1
  <2>7. QED
    BY <1>2, <2>2, <2>3, <2>6
<1>3. n \in T
  <2>1. n \in 0..n
    OBVIOUS
  <2>2. 0..n \subseteq T
    <3> HIDE DEF T
    <3>1. QED
      BY <1>1, <1>2, UpTo
  <2>3. QED
    BY <2>1, <2>2
<1>4. PICK f \in [0..n -> S] : Runs(f, n)
  BY <1>3
<1>5. QED
  BY <1>4 DEF IsLoop
=============================================================================
