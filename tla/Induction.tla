----------------------------- MODULE Induction -----------------------------
(***************************************************************************)
(* Induction over the natural numbers for the proofs of this project.  The *)
(* theorems of the library take the formula to prove as a parameter; these *)
(* take the set of the numbers it holds for.                               *)
(***************************************************************************)
EXTENDS Integers, WellFoundedInduction, TLAPS

\* A set of natural numbers that is not empty has a least element.
LEMMA LeastNatural ==
  ASSUME NEW S, S \subseteq Nat, S # {}
  PROVE  \E x \in S : \A y \in S : x <= y
<1>1. PICK x \in S : \A y \in S : <<y, x>> \notin OpToRel(<, Nat)
  BY WFMin, NatLessThanWellFounded, Zenon
<1>2. \A y \in S : ~ (y < x)
  BY <1>1, Zenon DEF OpToRel
<1> QED BY <1>2

\* One that has a bound has a greatest.
LEMMA GreatestNatural ==
  ASSUME NEW n \in Nat, NEW S, S \subseteq 0 .. n, S # {}
  PROVE  \E x \in S : \A y \in S : y <= x
<1> DEFINE T == {m \in 0 .. n : n - m \in S}
<1>1. T \subseteq Nat
  OBVIOUS
<1>2. \A s \in S : n - s \in T
  <2>1. SUFFICES ASSUME NEW s \in S PROVE n - s \in T
    OBVIOUS
  <2>2. s \in 0 .. n
    OBVIOUS
  <2>3. n - s \in 0 .. n /\ n - (n - s) = s
    BY <2>2
  <2> QED BY <2>3
<1>3. PICK m \in T : \A l \in T : m <= l
  <2>1. T # {}
    BY <1>2
  <2> HIDE DEF T
  <2> QED BY <1>1, <2>1, LeastNatural
<1>4. ASSUME NEW s \in S PROVE s <= n - m
  <2>1. m <= n - s
    BY <1>2, <1>3
  <2>2. s \in 0 .. n /\ m \in 0 .. n
    BY <1>3
  <2> QED BY <2>1, <2>2
<1> QED BY <1>3, <1>4

\* So does a set whose elements are measured by natural numbers.
LEMMA LeastElement ==
  ASSUME NEW S, NEW f, \A s \in S : f[s] \in Nat, S # {}
  PROVE  \E x \in S : \A y \in S : f[x] <= f[y]
<1>1. PICK m \in {f[s] : s \in S} : \A n \in {f[s] : s \in S} : m <= n
  <2>1. {f[s] : s \in S} \subseteq Nat /\ {f[s] : s \in S} # {}
    OBVIOUS
  <2> QED BY <2>1, LeastNatural
<1> QED BY <1>1

\* The values of f are what becomes of b in A when h is applied again and again.
Iterating(f, A, b, h, n) ==
  f \in [0 .. n -> A] /\ f[0] = b /\ \A m \in 1 .. n : f[m] = h[f[m - 1]]

\* A function can be applied again and again to a first value.
LEMMA Iterates ==
  ASSUME NEW A, NEW b \in A, NEW h \in [A -> A], NEW n \in Nat
  PROVE  \E f : Iterating(f, A, b, h, n)
<1> DEFINE P(m) == \E f \in [0 .. m -> A] :
                     f[0] = b /\ \A l \in 1 .. m : f[l] = h[f[l - 1]]
           S == {m \in Nat : ~P(m)}
<1>1. P(0)
  <2> DEFINE one == [m \in 0 .. 0 |-> b]
  <2>1. one \in [0 .. 0 -> A]
    OBVIOUS
  <2>2. one[0] = b /\ \A l \in 1 .. 0 : one[l] = h[one[l - 1]]
    OBVIOUS
  <2> HIDE DEF one
  <2> QED BY <2>1, <2>2
<1>2. ASSUME NEW m \in Nat, P(m) PROVE P(m + 1)
  <2>1. PICK f \in [0 .. m -> A] :
          f[0] = b /\ \A l \in 1 .. m : f[l] = h[f[l - 1]]
    BY <1>2
  <2> DEFINE g == [l \in 0 .. m + 1 |-> IF l = m + 1 THEN h[f[m]] ELSE f[l]]
  <2>2. g \in [0 .. m + 1 -> A]
    OBVIOUS
  <2>3. g[0] = b /\ \A l \in 1 .. m + 1 : g[l] = h[g[l - 1]]
    BY <2>1
  <2> QED BY <2>2, <2>3
<1> HIDE DEF P
<1>3. S = {}
  <2>1. SUFFICES ASSUME S # {} PROVE FALSE
    OBVIOUS
  <2>2. PICK m \in S : \A l \in S : m <= l
    BY <2>1, LeastNatural
  <2>3. CASE m = 0
    BY <1>1, <2>2, <2>3
  <2>4. CASE m # 0
    <3>1. m - 1 \in Nat /\ P(m - 1)
      BY <2>2, <2>4
    <3> QED BY <1>2, <2>2, <3>1
  <2> QED BY <2>3, <2>4
<1> QED BY <1>3 DEF P, Iterating

\* What is computed that way are values of the function.
LEMMA IteratesType ==
  ASSUME NEW A, NEW b \in A, NEW h \in [A -> A], NEW n \in Nat, NEW f,
         \A m \in 0 .. n : f[m] = IF m = 0 THEN b ELSE h[f[m - 1]]
  PROVE  \A m \in 0 .. n : f[m] \in A
<1> DEFINE S == {m \in 0 .. n : f[m] \notin A}
<1>1. SUFFICES ASSUME S # {} PROVE FALSE
  OBVIOUS
<1>2. PICK m \in S : \A l \in S : m <= l
  <2>1. S \subseteq Nat
    OBVIOUS
  <2> HIDE DEF S
  <2> QED BY <1>1, <2>1, LeastNatural
<1>3. m # 0
  BY <1>2
<1>4. m - 1 \in 0 .. n /\ m - 1 \notin S
  BY <1>2, <1>3
<1> QED BY <1>2, <1>3, <1>4
=============================================================================
