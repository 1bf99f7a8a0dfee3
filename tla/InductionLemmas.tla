--------------------------- MODULE InductionLemmas ---------------------------
(***************************************************************************)
(* Induction over the numbers up to n, and the existence of the functions  *)
(* that recursion over them defines.  The aggregates of Diary and          *)
(* Organization are such functions: the state after k events is computed   *)
(* from the state after k - 1.                                             *)
(*                                                                         *)
(* What is to be proved of every number is given as the set of the numbers *)
(* it is true of, and a step of a recursion as a function: the lemmas have *)
(* no operator as a parameter, so that first-order provers can use them.   *)
(***************************************************************************)
EXTENDS Integers, WellFoundedInduction, TLAPS

\* A set of numbers that is not empty has a least element.
LEMMA LeastElement ==
  ASSUME NEW T, T \subseteq Nat, T # {}
  PROVE  \E n \in T : \A m \in T : n <= m
<1> DEFINE less == {p \in Nat \X Nat : p[1] < p[2]}
<1>1. IsWellFoundedOn(less, Nat)
  <2>1. less = OpToRel(<, Nat)
    BY DEF OpToRel
  <2> QED
    BY <2>1, NatLessThanWellFounded
<1> HIDE DEF less
<1>2. PICK n \in T : \A m \in T : ~(<< m, n >> \in less)
  BY <1>1, WFMin
<1>3. ASSUME NEW m \in T
      PROVE  n <= m
  <2>1. m \in Nat /\ n \in Nat
    OBVIOUS
  <2>2. ~(<< m, n >> \in less)
    BY <1>2
  <2>3. ~(m < n)
    BY <2>1, <2>2 DEF less
  <2> QED
    BY <2>1, <2>3
<1> QED
  BY <1>3

\* Induction over 0..n: what holds of 0 and of k + 1 if of k holds of all.
LEMMA Induction ==
  ASSUME NEW n \in Nat, NEW T,
         0 \in T,
         \A k \in 0..n : k < n /\ k \in T => k + 1 \in T
  PROVE  \A k \in 0..n : k \in T
<1> DEFINE Rest == (0..n) \ T
<1>1. SUFFICES ASSUME Rest # {}
               PROVE  FALSE
  OBVIOUS
<1>2. Rest \subseteq Nat
  OBVIOUS
<1>3. PICK k \in Rest : \A m \in Rest : k <= m
  BY <1>1, <1>2, LeastElement
<1>4. k \in 1..n /\ k - 1 \in 0..n /\ k - 1 < n
  OBVIOUS
<1>5. k - 1 \in T
  BY <1>3, <1>4
<1>6. (k - 1) + 1 \in T
  BY <1>4, <1>5
<1> QED
  BY <1>4, <1>6

(***************************************************************************)
(* Function f is defined by recursion over 0..n: from b, by step[<<k, x>>] *)
(* for the k-th value after x.                                             *)
(***************************************************************************)
IsRun(f, n, S, b, step) ==
  /\ f \in [0..n -> S]
  /\ f[0] = b
  /\ \A k \in 1..n : f[k] = step[<< k, f[k - 1] >>]

\* Such a function exists, if every step stays in S.
LEMMA Recursion ==
  ASSUME NEW n \in Nat, NEW S, NEW b \in S, NEW step \in [(1..n) \X S -> S]
  PROVE  \E f : IsRun(f, n, S, b, step)
<1> DEFINE T == {m \in 0..n : \E f : IsRun(f, m, S, b, step)}
<1>1. 0 \in T
  <2>1. IsRun([k \in 0..0 |-> b], 0, S, b, step)
    BY DEF IsRun
  <2> QED
    BY <2>1
<1>2. ASSUME NEW m \in 0..n, m < n, m \in T
      PROVE  m + 1 \in T
  <2>1. PICK f : IsRun(f, m, S, b, step)
    BY <1>2
  <2> DEFINE last == step[<< m + 1, f[m] >>]
             h == [k \in 0..(m + 1) |-> IF k = m + 1 THEN last ELSE f[k]]
  <2>2. f[m] \in S /\ m + 1 \in 1..n
    BY <1>2, <2>1 DEF IsRun
  <2>3. last \in S
    BY <2>2
  <2>4. h \in [0..(m + 1) -> S] /\ h[0] = b /\ h[m + 1] = last /\ \A k \in 0..m : h[k] = f[k]
    BY <2>1, <2>3 DEF IsRun
  <2>5. ASSUME NEW k \in 1..(m + 1)
        PROVE  h[k] = step[<< k, h[k - 1] >>]
    <3>1. h[k - 1] = f[k - 1]
      BY <2>4
    <3>2. CASE k = m + 1
      <4>1. k - 1 = m
        BY <3>2
      <4>2. h[k] = last
        BY <2>4, <3>2
      <4>3. last = step[<< k, f[k - 1] >>]
        BY <3>2, <4>1
      <4> QED
        BY <3>1, <4>2, <4>3
    <3>3. CASE k \in 1..m
      BY <2>1, <2>4, <3>1, <3>3 DEF IsRun
    <3> QED
      BY <3>2, <3>3
  <2>6. IsRun(h, m + 1, S, b, step)
    BY <2>4, <2>5 DEF IsRun
  <2>7. \E r : IsRun(r, m + 1, S, b, step)
    <3> HIDE DEF h
    <3> QED
      BY <2>6
  <2> QED
    BY <1>2, <2>7
<1> HIDE DEF T
<1>3. \A m \in 0..n : m \in T
  BY <1>1, <1>2, Induction
<1> QED
  BY <1>3 DEF T
=============================================================================
