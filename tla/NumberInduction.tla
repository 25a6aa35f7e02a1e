-------------------------- MODULE NumberInduction ---------------------------
(***************************************************************************)
(* Induction over sets of natural numbers, and that functions defined by   *)
(* recursion on them exist, for the recursive functions of the other       *)
(* modules.                                                                *)
(***************************************************************************)
EXTENDS Integers, TLAPS, WellFoundedInduction

\* A set of numbers that is not empty has a least one.
LEMMA LeastNumber ==
    ASSUME NEW S \in SUBSET Nat, S # {}
    PROVE  \E m \in S : \A k \in S : m <= k
  <1>. DEFINE R == OpToRel(<, Nat)
  <1>1. IsWellFoundedOn(R, Nat)
    BY NatLessThanWellFounded
  <1>2. \A x, y \in Nat : x < y => <<x, y>> \in R
    BY DEF OpToRel
  <1>. HIDE DEF R
  <1>3. PICK m \in S : \A k \in S : ~ (<<k, m>> \in R)
    BY <1>1, WFMin
  <1>4. \A x, y \in Nat : ~ (x < y) => y <= x
    OBVIOUS
  <1>5. ASSUME NEW k \in S
        PROVE  m <= k
    <2>1. m \in Nat /\ k \in Nat
      OBVIOUS
    <2>2. ~ (k < m)
      BY <1>2, <1>3, <2>1
    <2>. QED
      BY <1>4, <2>1, <2>2
  <1>. QED
    BY <1>5

\* What each number takes over from the smaller ones, all numbers have.
LEMMA UpTo ==
    ASSUME NEW n \in Nat, NEW S,
           \A x \in 0..n : (\A y \in 0..(x - 1) : y \in S) => x \in S
    PROVE  \A x \in 0..n : x \in S
  <1>. SUFFICES ASSUME (0..n) \ S # {} PROVE FALSE
    OBVIOUS
  <1>1. PICK m \in (0..n) \ S : \A k \in (0..n) \ S : m <= k
    <2>1. (0..n) \ S \in SUBSET Nat
      OBVIOUS
    <2>. QED
      BY <2>1, LeastNumber
  <1>2. \A y \in 0..(m - 1) : y \in 0..n /\ ~(m <= y)
    OBVIOUS
  <1>. QED
    BY <1>1, <1>2

-----------------------------------------------------------------------------
(* Recursion on 0..n.                                                      *)

\* A walk takes a number in Ends to what last says, and any other to a step
\* from what the walk makes of the next, smaller, number.
Walkable(n, V, Ends, next, last, step) ==
    /\ n \in Nat /\ step \in [V -> V]
    /\ \A x \in 0..n : x \in Ends => last[x] \in V
    /\ \A x \in 0..n : x \notin Ends => next[x] \in 0..(x - 1)

Walks(f, n, V, Ends, next, last, step) ==
    /\ f \in [0..n -> V]
    /\ \A x \in 0..n : f[x] = IF x \in Ends THEN last[x] ELSE step[f[next[x]]]

LEMMA WalkExists ==
    ASSUME NEW n, NEW V, NEW Ends, NEW next, NEW last, NEW step,
           Walkable(n, V, Ends, next, last, step)
    PROVE  \E f : Walks(f, n, V, Ends, next, last, step)
  <1>. USE DEF Walkable
  <1>. DEFINE Walk(f, k) == \A x \in 0..k : f[x] = IF x \in Ends THEN last[x]
                                                   ELSE step[f[next[x]]]
              S == {k \in 0..n : \E f \in [0..k -> V] : Walk(f, k)}
  <1>1. ASSUME NEW k \in 0..n, \A y \in 0..(k - 1) : y \in S
        PROVE  k \in S
    <2>1. PICK f \in [0..(k - 1) -> V] : \A x \in 0..(k - 1) :
              f[x] = IF x \in Ends THEN last[x] ELSE step[f[next[x]]]
      <3>1. CASE k = 0
        <4>1. 0..(k - 1) = {}
          BY <3>1
        <4>2. [x \in 0..(k - 1) |-> last[x]] \in [0..(k - 1) -> V]
          BY <4>1
        <4>. QED
          BY <4>1, <4>2
      <3>2. CASE k # 0
        <4>1. k - 1 \in 0..(k - 1)
          BY <3>2
        <4>. QED
          BY <1>1, <4>1
      <3>. QED
        BY <3>1, <3>2
    <2>. DEFINE v == IF k \in Ends THEN last[k] ELSE step[f[next[k]]]
                g == [x \in 0..k |-> IF x = k THEN v ELSE f[x]]
    <2>2. v \in V
      OBVIOUS
    <2>3. \A x \in 0..k : x # k => x \in 0..(k - 1) /\ g[x] = f[x]
      OBVIOUS
    <2>4. g \in [0..k -> V] /\ g[k] = v
      BY <2>2, <2>3
    <2>5. \A x \in 0..k : x \notin Ends => g[next[x]] = f[next[x]]
      <3>1. \A x \in 0..k : x \in 0..n /\ (0..(x - 1) \subseteq 0..(k - 1))
                            /\ k \notin 0..(x - 1) /\ 0..(x - 1) \subseteq 0..k
        OBVIOUS
      <3>. QED
        BY <2>3, <3>1
    <2>6. Walk(g, k)
      <3>. HIDE DEF g
      <3>. QED
        BY <2>1, <2>3, <2>4, <2>5
    <2>. HIDE DEF g
    <2>. QED
      BY <2>4, <2>6
  <1>2. n \in S
    <2>. HIDE DEF S
    <2>1. \A x \in 0..n : x \in S
      BY <1>1, UpTo
    <2>. QED
      BY <2>1
  <1>. QED
    BY <1>2 DEF Walks
=============================================================================
