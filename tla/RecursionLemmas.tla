-------------------------- MODULE RecursionLemmas ---------------------------
(***************************************************************************)
(* Functions on 0..N that are defined by recursion, each value from the    *)
(* one before it.  The step is itself a function, so that the lemmas need  *)
(* no operator for a parameter.                                            *)
(***************************************************************************)
EXTENDS Naturals, WellFoundedInduction, TLAPS

\* A non-empty set of natural numbers has a least element.
LEMMA LeastNatural ==
  ASSUME NEW S, S \subseteq Nat, S # {}
  PROVE  \E x \in S : \A y \in S : x <= y
<1> DEFINE R == OpToRel(<, Nat)
<1>1. IsWellFoundedOn(R, Nat)
  BY NatLessThanWellFounded
<1>2. \A x, y \in Nat : y < x => <<y, x>> \in R
  BY DEF OpToRel
<1> HIDE DEF R
<1>3. PICK x \in S : \A y \in S : ~ (<<y, x>> \in R)
  BY <1>1, WFMin, Zenon
<1>4. ASSUME NEW y \in S PROVE x <= y
  <2>1. x \in Nat /\ y \in Nat
    OBVIOUS
  <2>2. ~ (y < x)
    BY <1>3, <1>2, <2>1
  <2> QED BY <2>1, <2>2
<1> QED BY <1>4

\* Induction up to N, for a set that is given by its elements.
LEMMA UpTo ==
  ASSUME NEW N \in Nat, NEW S, 0 \in S, \A n \in 1..N : n - 1 \in S => n \in S
  PROVE  \A n \in 0..N : n \in S
<1> DEFINE T == {n \in Nat : n <= N /\ n \notin S}
<1>1. ASSUME T # {} PROVE FALSE
  <2>1. T \subseteq Nat
    OBVIOUS
  <2> HIDE DEF T
  <2>2. PICK m \in T : \A k \in T : m <= k
    BY <1>1, <2>1, LeastNatural
  <2>3. m \in Nat /\ m <= N /\ m \notin S
    BY DEF T
  <2>4. m # 0
    BY <2>3
  <2>5. m - 1 \in Nat /\ m - 1 <= N /\ m - 1 \notin T /\ m \in 1..N
    BY <2>2, <2>3, <2>4
  <2> QED BY <2>3, <2>5 DEF T
<1> QED BY <1>1

\* f starts with v, and step leads from each of its values to the next.
Recurs(f, n, v, step) == f[0] = v /\ \A i \in 1..n : f[i] = step[<<i, f[i - 1]>>]

\* A recursion has a solution.
LEMMA RecursionSolved ==
  ASSUME NEW N \in Nat, NEW V, NEW v \in V, NEW step \in [(1..N) \X V -> V]
  PROVE  \E f \in [0..N -> V] : Recurs(f, N, v, step)
<1> DEFINE P(m) == \E f \in [0..m -> V] : Recurs(f, m, v, step)
           S == {m \in 0..N : P(m)}
<1> HIDE DEF P
<1>1. P(0)
  <2> DEFINE f == [i \in 0..0 |-> v]
  <2>1. f \in [0..0 -> V] /\ Recurs(f, 0, v, step)
    BY DEF Recurs
  <2> QED BY <2>1 DEF P
<1>2. ASSUME NEW m \in 1..N, P(m - 1) PROVE P(m)
  <2>1. m \in Nat /\ m - 1 \in Nat /\ m # 0 /\ m <= N
    OBVIOUS
  <2>2. PICK g \in [0..(m - 1) -> V] : Recurs(g, m - 1, v, step)
    BY <1>2 DEF P
  <2> DEFINE top == step[<<m, g[m - 1]>>]
             f == [i \in 0..m |-> IF i = m THEN top ELSE g[i]]
  <2>3. top \in V
    <3>1. <<m, g[m - 1]>> \in (1..N) \X V
      BY <2>1
    <3> QED BY <3>1
  <2> HIDE DEF top
  <2>4. f \in [0..m -> V] /\ \A i \in 0..(m - 1) : f[i] = g[i]
    BY <2>1, <2>3
  <2>5. f[m] = top
    BY <2>1
  <2> HIDE DEF f
  <2>6. f[0] = v
    BY <2>1, <2>2, <2>4 DEF Recurs
  <2>7. ASSUME NEW i \in 1..m PROVE f[i] = step[<<i, f[i - 1]>>]
    <3>1. i - 1 \in 0..(m - 1) /\ f[i - 1] = g[i - 1]
      BY <2>1, <2>4
    <3>2. CASE i = m
      BY <2>5, <3>1, <3>2 DEF top
    <3>3. CASE i # m
      <4>1. i \in 1..(m - 1)
        BY <2>1, <3>3
      <4>2. f[i] = g[i]
        BY <2>4, <4>1
      <4> QED BY <2>2, <3>1, <4>1, <4>2 DEF Recurs
    <3> QED BY <3>2, <3>3
  <2> QED BY <2>4, <2>6, <2>7 DEF Recurs, P
<1>3. 0 \in S /\ \A m \in 1..N : m - 1 \in S => m \in S
  BY <1>1, <1>2
<1> HIDE DEF S
<1>4. N \in S
  BY <1>3, UpTo
<1> QED BY <1>4 DEF S, P

\* Two functions agree if each value follows from the one before it.
LEMMA StepwiseEqual ==
  ASSUME NEW N \in Nat, NEW f, NEW g, f[0] = g[0],
         \A n \in 1..N : f[n - 1] = g[n - 1] => f[n] = g[n]
  PROVE  \A n \in 0..N : f[n] = g[n]
<1> DEFINE S == {n \in 0..N : f[n] = g[n]}
<1>1. 0 \in S /\ \A n \in 1..N : n - 1 \in S => n \in S
  OBVIOUS
<1> HIDE DEF S
<1>2. \A n \in 0..N : n \in S
  BY <1>1, UpTo
<1> QED BY <1>2 DEF S
=============================================================================
