--------------------------- MODULE HashTableProofs ---------------------------
(***************************************************************************)
(* The hash table of the keys is a map, its chains are whole and a foreach *)
(* comes to each row once: for any keys, rows, hashes and sizes.           *)
(*                                                                         *)
(* A chain is not walked here: there are places of the rows, integers,     *)
(* such that the pointers of a bucket lead from one row of it to the one   *)
(* with the next place (Chained).  A row that is stored gets a place       *)
(* before the others, and a rebuild turns all of them around.              *)
(***************************************************************************)
EXTENDS HashTable, Induction, FiniteSetTheorems

-----------------------------------------------------------------------------
(* Powers of Base, and the digits of a hash.                               *)

LEMMA DivMod ==
  ASSUME NEW a \in Nat, NEW b \in Nat \ {0}
  PROVE  /\ a = b * (a \div b) + (a % b)
         /\ a % b \in 0 .. b - 1 /\ a \div b \in Nat
OBVIOUS

LEMMA DivModUnique ==
  ASSUME NEW b \in Nat \ {0}, NEW q \in Nat, NEW r \in 0 .. b - 1
  PROVE  (b * q + r) \div b = q /\ (b * q + r) % b = r
OBVIOUS

LEMMA Powers ==
  /\ Power \in [0 .. Digits -> Nat \ {0}]
  /\ Power[0] = 1
  /\ \A n \in 1 .. Digits : Power[n] = Power[n - 1] * Base
<1> DEFINE A == Nat \ {0}
           h == [x \in A |-> x * Base]
<1>1. 1 \in A /\ h \in [A -> A] /\ Digits \in Nat
  BY SizesAssumption
<1>2. PICK f : Iterating(f, A, 1, h, Digits)
  <2> HIDE DEF A, h
  <2> QED BY <1>1, Iterates
<1>3. f = [n \in 0 .. Digits |-> IF n = 0 THEN 1 ELSE f[n - 1] * Base]
  <2>1. \A n \in 0 .. Digits : f[n] = IF n = 0 THEN 1 ELSE f[n - 1] * Base
    <3>1. SUFFICES ASSUME NEW n \in 1 .. Digits PROVE f[n] = f[n - 1] * Base
      BY <1>1, <1>2 DEF Iterating
    <3>2. n - 1 \in 0 .. Digits
      BY <1>1
    <3>3. f[n - 1] \in A /\ f[n] = h[f[n - 1]]
      BY <1>2, <3>2 DEF Iterating
    <3> QED BY <3>3
  <2> QED BY <1>2, <2>1 DEF Iterating
<1>4. Power = [n \in 0 .. Digits |-> IF n = 0 THEN 1 ELSE Power[n - 1] * Base]
  BY <1>3 DEF Power
<1>5. Power[0] = 1 /\ \A n \in 1 .. Digits : Power[n] = Power[n - 1] * Base
  BY <1>4, SizesAssumption
<1>6. \A n \in 0 .. Digits : Power[n] \in A
  <2> DEFINE S == {n \in 0 .. Digits : Power[n] \notin A}
  <2>1. SUFFICES ASSUME S # {} PROVE FALSE
    OBVIOUS
  <2>2. PICK n \in S : \A m \in S : n <= m
    <3>1. S \subseteq Nat
      BY SizesAssumption
    <3> HIDE DEF S
    <3> QED BY <2>1, <3>1, LeastNatural
  <2>3. n # 0
    BY <1>5, <2>2
  <2>4. n \in 1 .. Digits /\ n - 1 \in 0 .. Digits /\ n - 1 \notin S
    BY <2>2, <2>3, SizesAssumption
  <2>5. Power[n - 1] \in A /\ Power[n] = Power[n - 1] * Base
    BY <1>5, <2>4
  <2> QED BY <2>2, <2>5, SizesAssumption
<1> QED BY <1>4, <1>5, <1>6

-----------------------------------------------------------------------------
(* Chains.  The entries of a bucket are the members of a set, in the order *)
(* of a function to the integers.                                          *)

\* From b on, g leads through the members of S in the order of p.
Chained(S, b, g, p) ==
  /\ \A e, f \in S : p[e] = p[f] => e = f
  /\ b = Nil => S = {}
  /\ b # Nil => b \in S /\ \A e \in S : p[b] <= p[e]
  /\ \A e \in S : g[e] = Nil => \A f \in S : p[f] <= p[e]
  /\ \A e \in S : g[e] # Nil =>
       /\ g[e] \in S /\ p[e] < p[g[e]]
       /\ \A f \in S : p[f] <= p[e] \/ p[g[e]] <= p[f]

\* What Chain goes through, and Nil from its end on.
Trail(t, i) ==
  LET after == [e \in Entries \cup {Nil} |-> IF e = Nil THEN Nil ELSE t.next[e]]
      to[m \in 1 .. Cardinality(Entries) + 1] ==
        IF m = 1 THEN t.buckets[i] ELSE after[to[m - 1]]
  IN  to

Links(t) == t.next \in [Entries -> Entries \cup {Nil}]

LEMMA EntriesCount == Cardinality(Entries) \in Nat
BY FS_CardinalityType, SizesAssumption

LEMMA TrailSteps ==
  ASSUME NEW t, NEW i, Links(t), t.buckets[i] \in Entries \cup {Nil}
  PROVE  LET to == Trail(t, i)
             n  == Cardinality(Entries) + 1
         IN  /\ to \in [1 .. n -> Entries \cup {Nil}] /\ to[1] = t.buckets[i]
             /\ \A m \in 2 .. n : to[m] = IF to[m - 1] = Nil THEN Nil ELSE t.next[to[m - 1]]
<1> DEFINE A == Entries \cup {Nil}
           b == t.buckets[i]
           c == Cardinality(Entries)
           h == [e \in A |-> IF e = Nil THEN Nil ELSE t.next[e]]
           to == Trail(t, i)
<1>1. b \in A /\ h \in [A -> A] /\ c \in Nat
  BY EntriesCount DEF Links
<1>2. to = CHOOSE f : f = [m \in 1 .. c + 1 |-> IF m = 1 THEN b ELSE h[f[m - 1]]]
  BY DEF Trail
<1>3. PICK f : Iterating(f, A, b, h, c)
  <2> HIDE DEF A, b, h, c
  <2> QED BY <1>1, Iterates
<1> HIDE DEF c, h, b
<1> DEFINE g == [m \in 1 .. c + 1 |-> f[m - 1]]
<1>4. g = [m \in 1 .. c + 1 |-> IF m = 1 THEN b ELSE h[g[m - 1]]]
  <2>1. SUFFICES ASSUME NEW m \in 1 .. c + 1
                 PROVE  f[m - 1] = IF m = 1 THEN b ELSE h[g[m - 1]]
    OBVIOUS
  <2>2. CASE m = 1
    BY <1>3, <2>2 DEF Iterating
  <2>3. CASE m # 1
    <3>1. m - 1 \in 1 .. c + 1 /\ m - 1 \in 1 .. c
      BY <1>1, <2>3
    <3> QED BY <1>3, <2>3, <3>1 DEF Iterating
  <2> QED BY <2>2, <2>3
<1>5. to = [m \in 1 .. c + 1 |-> IF m = 1 THEN b ELSE h[to[m - 1]]]
  <2> DEFINE Is(f_1) == f_1 = [m \in 1 .. c + 1 |-> IF m = 1 THEN b ELSE h[f_1[m - 1]]]
  <2>1. to = CHOOSE x : Is(x)
    BY <1>2
  <2>2. Is(g)
    BY <1>4
  <2> HIDE DEF Is
  <2>3. Is(to)
    BY <2>1, <2>2
  <2> QED BY <2>3 DEF Is
<1>6. \A m \in 1 .. c + 1 : to[m] = IF m = 1 THEN b ELSE h[to[m - 1]]
  <2> HIDE DEF to
  <2> QED BY <1>5
<1> HIDE DEF to, g
<1>7. \A m \in 1 .. c + 1 : to[m] \in A
  <2> DEFINE S == {m \in 1 .. c + 1 : to[m] \notin A}
  <2>1. SUFFICES ASSUME S # {} PROVE FALSE
    OBVIOUS
  <2>2. PICK m \in S : \A l \in S : m <= l
    <3>1. S \subseteq Nat
      BY <1>1
    <3> HIDE DEF S
    <3> QED BY <2>1, <3>1, LeastNatural
  <2>3. CASE m = 1
    BY <1>1, <1>6, <2>2, <2>3
  <2>4. CASE m # 1
    <3>1. m - 1 \in 1 .. c + 1 /\ m - 1 \notin S
      BY <1>1, <2>2, <2>4
    <3>2. to[m - 1] \in A /\ to[m] = h[to[m - 1]]
      BY <1>6, <2>2, <2>4, <3>1
    <3> QED BY <1>1, <2>2, <3>2
  <2> QED BY <2>3, <2>4
<1>8. to \in [1 .. c + 1 -> A]
  BY <1>5, <1>7
<1>9. ASSUME NEW m \in 2 .. c + 1
      PROVE  to[m] = IF to[m - 1] = Nil THEN Nil ELSE t.next[to[m - 1]]
  <2>1. m \in 1 .. c + 1 /\ m # 1 /\ m - 1 \in 1 .. c + 1
    BY <1>1
  <2>2. to[m] = h[to[m - 1]] /\ to[m - 1] \in A
    BY <1>6, <1>7, <2>1
  <2> QED BY <2>2 DEF h
<1>10. to[1] = b
  BY <1>1, <1>6
<1> QED BY <1>8, <1>9, <1>10 DEF to, b, c

\* Sequence s has the members of S, in the order of p.
InOrder(s, S, p) ==
  /\ Len(s) \in Nat /\ s \in [1 .. Len(s) -> S]
  /\ \A e \in S : \E m \in 1 .. Len(s) : s[m] = e
  /\ \A m, n \in 1 .. Len(s) : m < n => p[s[m]] < p[s[n]]

\* What Chain returns for a bucket that is well linked.
LEMMA ChainInOrder ==
  ASSUME NEW t, NEW i, NEW S \in SUBSET Entries, NEW p \in [Entries -> Int],
         Links(t), t.buckets[i] \in Entries \cup {Nil},
         Chained(S, t.buckets[i], t.next, p)
  PROVE  InOrder(Chain(t, i), S, p)
<1> DEFINE to == Trail(t, i)
           b == t.buckets[i]
           c == Cardinality(Entries)
           N == c + 1
           k == Cardinality({m \in DOMAIN to : to[m] # Nil})
<1>1. c \in Nat
  BY EntriesCount
<1>2. /\ to \in [1 .. N -> Entries \cup {Nil}] /\ to[1] = b
      /\ \A m \in 2 .. N : to[m] = IF to[m - 1] = Nil THEN Nil ELSE t.next[to[m - 1]]
  BY TrailSteps
<1>3. Chain(t, i) = SubSeq(to, 1, k)
  BY DEF Chain, Trail
<1>4. Nil \notin S
  BY SizesAssumption
<1> HIDE DEF to, c
<1>5. \A m \in 1 .. N : to[m] \in S \cup {Nil}
  <2> DEFINE T == {m \in 1 .. N : to[m] \notin S \cup {Nil}}
  <2>1. SUFFICES ASSUME T # {} PROVE FALSE
    OBVIOUS
  <2>2. PICK m \in T : \A l \in T : m <= l
    <3>1. T \subseteq Nat
      BY <1>1
    <3> HIDE DEF T
    <3> QED BY <2>1, <3>1, LeastNatural
  <2>3. CASE m = 1
    BY <1>2, <2>2, <2>3 DEF Chained
  <2>4. CASE m # 1
    <3>1. m \in 2 .. N /\ m - 1 \in 1 .. N /\ m - 1 \notin T
      BY <1>1, <2>2, <2>4
    <3>2. to[m - 1] \in S \cup {Nil}
      BY <3>1
    <3> QED BY <1>2, <2>2, <3>1, <3>2 DEF Chained
  <2> QED BY <2>3, <2>4
<1>6. ASSUME NEW m \in 1 .. N - 1, to[m + 1] # Nil
      PROVE  to[m] \in S /\ to[m + 1] = t.next[to[m]] /\ to[m + 1] \in S /\ p[to[m]] < p[to[m + 1]]
  <2>1. m + 1 \in 2 .. N /\ m \in 1 .. N /\ (m + 1) - 1 = m
    BY <1>1
  <2>2. to[m] # Nil /\ to[m + 1] = t.next[to[m]]
    BY <1>2, <1>6, <2>1
  <2>3. to[m] \in S
    BY <1>5, <2>1, <2>2
  <2> QED BY <1>6, <2>2, <2>3 DEF Chained
<1>7. ASSUME NEW m \in 1 .. N, NEW n \in 1 .. N, m < n, to[n] # Nil
      PROVE  to[m] \in S /\ to[n] \in S /\ p[to[m]] < p[to[n]]
  <2> DEFINE Bad(l) == ~ (to[m] \in S /\ to[l] \in S /\ p[to[m]] < p[to[l]])
             T == {l \in 1 .. N : m < l /\ to[l] # Nil /\ Bad(l)}
  <2>1. SUFFICES ASSUME T # {} PROVE FALSE
    BY <1>7
  <2>2. PICK l \in T : \A j \in T : l <= j
    <3>1. T \subseteq Nat
      BY <1>1
    <3> HIDE DEF T
    <3> QED BY <2>1, <3>1, LeastNatural
  <2>3. /\ l - 1 \in 1 .. N - 1 /\ (l - 1) + 1 = l /\ to[l] # Nil
        /\ l - 1 \in 1 .. N /\ m <= l - 1 /\ l - 1 \notin T
    BY <1>1, <2>2
  <2>4. to[l - 1] \in S /\ to[l] \in S /\ p[to[l - 1]] < p[to[l]]
    BY <1>6, <2>3
  <2>5. p[to[l - 1]] \in Int /\ p[to[l]] \in Int /\ to[l - 1] # Nil
    BY <1>4, <2>4
  <2>6. CASE m = l - 1
    BY <2>2, <2>4, <2>6
  <2>7. CASE m # l - 1
    <3>1. m < l - 1
      BY <2>3, <2>7, <1>1
    <3>2. to[m] \in S /\ p[to[m]] < p[to[l - 1]]
      BY <2>3, <2>5, <3>1
    <3>3. p[to[m]] \in Int
      BY <3>2
    <3> QED BY <2>2, <2>4, <2>5, <3>2, <3>3
  <2> QED BY <2>6, <2>7
<1>8. PICK j \in 0 .. N : \A m \in 1 .. N : to[m] # Nil <=> m <= j
  <2> DEFINE T == {m \in 1 .. N : to[m] = Nil}
  <2>1. CASE T = {}
    BY <1>1, <2>1
  <2>2. CASE T # {}
    <3>1. PICK n \in T : \A l \in T : n <= l
      <4>1. T \subseteq Nat
        BY <1>1
      <4> HIDE DEF T
      <4> QED BY <2>2, <4>1, LeastNatural
    <3>2. n - 1 \in 0 .. N
      BY <1>1, <3>1
    <3>3. ASSUME NEW m \in 1 .. N PROVE to[m] # Nil <=> m <= n - 1
      <4>1. CASE m < n
        BY <1>1, <3>1, <4>1
      <4>2. CASE m = n
        BY <1>1, <3>1, <4>2
      <4>3. CASE m > n
        <5>1. to[n] \notin S
          BY <1>4, <3>1
        <5>2. to[m] = Nil
          BY <1>1, <1>7, <3>1, <4>3, <5>1
        <5> QED BY <1>1, <4>3, <5>2
      <4> QED BY <1>1, <4>1, <4>2, <4>3
    <3> QED BY <3>2, <3>3
  <2> QED BY <2>1, <2>2
<1>9. ASSUME NEW m \in 1 .. j PROVE m \in 1 .. N /\ to[m] \in S
  BY <1>1, <1>5, <1>8
<1>10. ASSUME NEW m \in 1 .. j, NEW n \in 1 .. j, m < n PROVE p[to[m]] < p[to[n]]
  BY <1>7, <1>8, <1>9, <1>10
<1>11. j <= c
  <2> DEFINE q == [m \in 1 .. j |-> to[m]]
  <2>1. q \in [1 .. j -> Entries]
    BY <1>9
  <2>2. ASSUME NEW m \in 1 .. j, NEW n \in 1 .. j, to[m] = to[n] PROVE m = n
    <3>1. p[to[m]] \in Int /\ p[to[n]] \in Int
      BY <1>9
    <3>2. ~ (m < n) /\ ~ (n < m)
      BY <1>10, <2>2, <3>1
    <3> QED BY <3>2
  <2>3. q \in Injection(1 .. j, Entries)
    BY <2>1, <2>2 DEF Injection, IsInjective
  <2>4. Cardinality(1 .. j) <= c
    BY <2>3, FS_Injection, SizesAssumption DEF c
  <2> QED BY <2>4, FS_Interval, <1>1, <1>8
<1>12. k = j
  <2>1. {m \in DOMAIN to : to[m] # Nil} = 1 .. j
    BY <1>2, <1>8, <1>1
  <2>2. Cardinality(1 .. j) = j
    BY FS_Interval, <1>1, <1>8
  <2> QED BY <2>1, <2>2, Zenon
<1>13. Chain(t, i) = [m \in 1 .. j |-> to[m]]
  <2> HIDE DEF k
  <2>1. Chain(t, i) = SubSeq(to, 1, j)
    BY <1>3, <1>12
  <2>2. SubSeq(to, 1, j) = [m \in 1 .. j |-> to[m]]
    BY <1>8, <1>1
  <2> QED BY <2>1, <2>2
<1>14. ASSUME NEW e \in S PROVE \E m \in 1 .. j : to[m] = e
  <2> DEFINE T == {m \in 1 .. j : p[e] <= p[to[m]]}
  <2>1. b # Nil /\ b \in S /\ p[b] <= p[e]
    BY DEF Chained
  <2>2. 1 \in 1 .. N /\ j >= 1
    BY <1>1, <1>2, <1>8, <2>1
  <2>3. CASE T = {}
    <3>1. j \in 1 .. j /\ j \in 1 .. N /\ j + 1 \in 2 .. N /\ (j + 1) - 1 = j /\ j + 1 \in 1 .. N
      BY <1>1, <1>8, <1>11, <2>2
    <3>2. to[j + 1] = Nil /\ to[j] # Nil /\ to[j] \in S
      BY <1>8, <1>9, <3>1, <1>1
    <3>3. t.next[to[j]] = Nil
      BY <1>2, <3>1, <3>2
    <3>4. p[e] <= p[to[j]]
      BY <3>2, <3>3 DEF Chained
    <3> QED BY <2>3, <3>1, <3>4
  <2>4. CASE T # {}
    <3>1. PICK m \in T : \A l \in T : m <= l
      <4>1. T \subseteq Nat
        BY <1>1, <1>8
      <4> HIDE DEF T
      <4> QED BY <2>4, <4>1, LeastNatural
    <3>2. CASE m = 1
      <4>1. p[e] <= p[b] /\ p[b] <= p[e] /\ p[b] \in Int /\ p[e] \in Int
        BY <1>2, <2>1, <3>1, <3>2
      <4>2. p[e] = p[b]
        BY <4>1
      <4>3. e = b
        BY <2>1, <4>2 DEF Chained
      <4> QED BY <1>2, <2>2, <3>2, <4>3, <3>1
    <3>3. CASE m # 1
      <4>1. m - 1 \in 1 .. j /\ m - 1 \notin T /\ m - 1 \in 1 .. N - 1 /\ (m - 1) + 1 = m
        BY <1>1, <1>8, <3>1, <3>3
      <4>2. to[m] # Nil
        BY <1>1, <1>8, <3>1
      <4>3. to[m - 1] \in S /\ to[m] = t.next[to[m - 1]] /\ to[m] \in S
        BY <1>6, <4>1, <4>2
      <4>4. p[to[m - 1]] \in Int /\ p[to[m]] \in Int /\ p[e] \in Int
        BY <4>3
      <4>5. p[e] <= p[to[m]] /\ ~ (p[e] <= p[to[m - 1]])
        BY <3>1, <4>1
      <4>6. p[e] <= p[to[m - 1]] \/ p[to[m]] <= p[e]
        BY <4>2, <4>3 DEF Chained
      <4>7. p[to[m]] = p[e]
        BY <4>4, <4>5, <4>6
      <4>8. to[m] = e
        BY <4>3, <4>7 DEF Chained
      <4> QED BY <3>1, <4>8
    <3> QED BY <3>2, <3>3
  <2> QED BY <2>3, <2>4
<1> DEFINE s == [m \in 1 .. j |-> to[m]]
<1>15. Len(s) = j /\ j \in Nat
  BY <1>8, <1>1
<1>16. s \in [1 .. j -> S]
  BY <1>9
<1>17. \A e \in S : \E m \in 1 .. j : s[m] = e
  BY <1>14
<1>18. \A m, n \in 1 .. j : m < n => p[s[m]] < p[s[n]]
  BY <1>10
<1> HIDE DEF s
<1>19. InOrder(s, S, p)
  BY <1>15, <1>16, <1>17, <1>18 DEF InOrder
<1> QED BY <1>13, <1>19 DEF s

LEMMA InOrderOnce ==
  ASSUME NEW s, NEW S \in SUBSET Entries, NEW p \in [Entries -> Int], InOrder(s, S, p)
  PROVE  /\ DOMAIN s = 1 .. Len(s) /\ Len(s) \in Nat
         /\ IsInjective(s) /\ ToSet(s) = S
         /\ \A m, n \in 1 .. Len(s) : p[s[m]] <= p[s[n]] <=> m <= n
<1>1. DOMAIN s = 1 .. Len(s) /\ Len(s) \in Nat
  BY DEF InOrder
<1>2. ASSUME NEW m \in 1 .. Len(s), NEW n \in 1 .. Len(s) PROVE p[s[m]] <= p[s[n]] <=> m <= n
  <2>1. p[s[m]] \in Int /\ p[s[n]] \in Int
    BY DEF InOrder
  <2>2. m < n => p[s[m]] < p[s[n]]
    BY DEF InOrder
  <2>3. n < m => p[s[n]] < p[s[m]]
    BY DEF InOrder
  <2> QED BY <1>1, <2>1, <2>2, <2>3
<1>3. IsInjective(s)
  <2>1. ASSUME NEW m \in 1 .. Len(s), NEW n \in 1 .. Len(s), s[m] = s[n] PROVE m = n
    <3>1. p[s[m]] \in Int /\ p[s[n]] \in Int
      BY DEF InOrder
    <3>2. m <= n /\ n <= m
      BY <1>2, <2>1, <3>1
    <3> QED BY <1>1, <3>2
  <2> QED BY <1>1, <2>1 DEF IsInjective
<1>4. ToSet(s) = S
  BY <1>1 DEF ToSet, InOrder
<1> QED BY <1>1, <1>2, <1>3, <1>4

\* The place of an entry in a sequence.
Place(s, e) == SelectInSeq(s, LAMBDA f : f = e)

LEMMA PlaceOf ==
  ASSUME NEW s, Len(s) \in Nat, NEW e
  PROVE  LET m == Place(s, e)
         IN  IF \E n \in 1 .. Len(s) : s[n] = e THEN m \in 1 .. Len(s) /\ s[m] = e ELSE m = 0
<1> DEFINE I == {n \in 1 .. Len(s) : s[n] = e}
<1>1. Place(s, e) = IF I # {} THEN Min(I) ELSE 0
  BY DEF SelectInSeq, Place
<1>2. CASE I = {}
  BY <1>1, <1>2
<1>3. CASE I # {}
  <2>1. \E n \in I : \A l \in I : n <= l
    <3>1. I \subseteq Nat
      OBVIOUS
    <3> HIDE DEF I
    <3> QED BY <1>3, <3>1, LeastNatural
  <2>2. Min(I) \in I
    BY <2>1 DEF Min
  <2> QED BY <1>1, <1>3, <2>2
<1> QED BY <1>2, <1>3

\* What is so of one order of the members is so of any that is the same for them.
LEMMA ChainedSame ==
  ASSUME NEW S, NEW b, NEW g, NEW p, NEW h, NEW q, Chained(S, b, g, p),
         \A e \in S : h[e] = g[e] /\ q[e] = p[e]
  PROVE  Chained(S, b, h, q)
BY DEF Chained

\* The first member is taken out.
LEMMA ChainedButFirst ==
  ASSUME NEW S \in SUBSET Entries, NEW b, NEW g, NEW p \in [Entries -> Int],
         Chained(S, b, g, p), b # Nil
  PROVE  Chained(S \ {b}, g[b], g, p)
<1>1. b \in S /\ \A e \in S : p[e] \in Int
  BY DEF Chained
<1>2. \A e \in S \ {b} : p[b] < p[e]
  BY <1>1 DEF Chained
<1>3. ASSUME g[b] = Nil PROVE S \ {b} = {}
  BY <1>1, <1>2, <1>3 DEF Chained
<1>4. ASSUME g[b] # Nil PROVE g[b] \in S \ {b} /\ \A e \in S \ {b} : p[g[b]] <= p[e]
  <2>1. g[b] \in S /\ p[b] < p[g[b]] /\ \A f \in S : p[f] <= p[b] \/ p[g[b]] <= p[f]
    BY <1>1, <1>4 DEF Chained
  <2> QED BY <1>1, <1>2, <2>1
<1>5. ASSUME NEW e \in S \ {b}, g[e] # Nil PROVE g[e] # b
  BY <1>1, <1>2, <1>5 DEF Chained
<1> QED BY <1>1, <1>3, <1>4, <1>5 DEF Chained

\* Another member is taken out, and the one before it is linked to the one behind it.
LEMMA ChainedBut ==
  ASSUME NEW S \in SUBSET Entries, NEW b, NEW g \in [Entries -> Entries \cup {Nil}],
         NEW p \in [Entries -> Int], Chained(S, b, g, p),
         NEW e \in S, NEW f \in S, g[f] = e, e # b
  PROVE  Chained(S \ {e}, b, [g EXCEPT ![f] = g[e]], p)
<1> DEFINE h == [g EXCEPT ![f] = g[e]]
<1>1. e # Nil /\ f # Nil /\ p[f] < p[e] /\ f # e
  BY SizesAssumption DEF Chained
<1>2. h[f] = g[e] /\ \A d \in S : d # f => h[d] = g[d]
  OBVIOUS
<1> HIDE DEF h
<1>3. \A d \in S : p[d] \in Int
  OBVIOUS
<1>4. \A d \in S : p[d] <= p[f] \/ p[e] <= p[d]
  BY <1>1 DEF Chained
<1>5. ASSUME g[e] = Nil PROVE \A d \in S \ {e} : p[d] <= p[f]
  <2>1. \A d \in S : p[d] <= p[e]
    BY <1>5 DEF Chained
  <2> QED BY <1>3, <1>4, <2>1 DEF Chained
<1>6. ASSUME g[e] # Nil
      PROVE  /\ g[e] \in S \ {e} /\ p[f] < p[g[e]]
             /\ \A d \in S \ {e} : p[d] <= p[f] \/ p[g[e]] <= p[d]
  <2>1. g[e] \in S /\ p[e] < p[g[e]] /\ \A d \in S : p[d] <= p[e] \/ p[g[e]] <= p[d]
    BY <1>6 DEF Chained
  <2>2. p[g[e]] \in Int /\ p[e] \in Int /\ p[f] \in Int
    BY <1>3, <2>1
  <2>3. \A d \in S \ {e} : p[d] # p[e]
    BY DEF Chained
  <2>4. ASSUME NEW d \in S \ {e} PROVE p[d] <= p[f] \/ p[g[e]] <= p[d]
    <3>1. p[d] \in Int /\ p[d] # p[e]
      BY <1>3, <2>3
    <3>2. (p[d] <= p[f] \/ p[e] <= p[d]) /\ (p[d] <= p[e] \/ p[g[e]] <= p[d])
      BY <1>4, <2>1
    <3> QED BY <2>2, <3>1, <3>2
  <2> QED BY <1>1, <2>1, <2>2, <2>4
<1>7. ASSUME NEW d \in S \ {e}, d # f, g[d] # Nil
      PROVE  g[d] \in S \ {e}
  <2>1. g[d] \in S /\ p[d] < p[g[d]] /\ \A c \in S : p[c] <= p[d] \/ p[g[d]] <= p[c]
    BY <1>7 DEF Chained
  <2>2. ASSUME g[d] = e PROVE FALSE
    <3>1. p[f] <= p[d] \/ p[e] <= p[f]
      BY <2>1, <2>2
    <3>2. p[d] <= p[f] \/ p[e] <= p[d]
      BY <1>4
    <3>3. p[d] = p[f]
      BY <1>1, <1>3, <2>1, <2>2, <3>1, <3>2
    <3> QED BY <1>7, <3>3 DEF Chained
  <2> QED BY <2>1, <2>2
<1>8. \A d \in S \ {e} : h[d] = Nil => \A c \in S \ {e} : p[c] <= p[d]
  BY <1>2, <1>5 DEF Chained
<1>9. ASSUME NEW d \in S \ {e}, h[d] # Nil
      PROVE  /\ h[d] \in S \ {e} /\ p[d] < p[h[d]]
             /\ \A c \in S \ {e} : p[c] <= p[d] \/ p[h[d]] <= p[c]
  <2>1. CASE d = f
    BY <1>2, <1>6, <1>9, <2>1
  <2>2. CASE d # f
    BY <1>2, <1>7, <1>9, <2>2 DEF Chained
  <2> QED BY <2>1, <2>2
<1>10. b # Nil /\ b \in S \ {e} /\ \A c \in S \ {e} : p[b] <= p[c]
  BY DEF Chained
<1> QED BY <1>8, <1>9, <1>10 DEF Chained, h

\* There is one before each member that is not the first.
LEMMA OneBefore ==
  ASSUME NEW S \in SUBSET Entries, NEW b, NEW g, NEW p \in [Entries -> Int],
         NEW s, Chained(S, b, g, p), InOrder(s, S, p), NEW e \in S, e # b
  PROVE  \E f \in S : g[f] = e
<1>1. /\ Len(s) \in Nat /\ \A m \in 1 .. Len(s) : s[m] \in S
      /\ \A m, n \in 1 .. Len(s) : p[s[m]] <= p[s[n]] <=> m <= n
  BY InOrderOnce DEF InOrder
<1>2. PICK m \in 1 .. Len(s) : s[m] = e
  BY DEF InOrder
<1>3. b \in S /\ p[b] <= p[e]
  BY DEF Chained
<1>4. PICK l \in 1 .. Len(s) : s[l] = b
  BY <1>3 DEF InOrder
<1>5. l <= m /\ l # m
  BY <1>1, <1>2, <1>3, <1>4
<1>6. m - 1 \in 1 .. Len(s)
  BY <1>1, <1>5
<1> DEFINE f == s[m - 1]
<1>7. f \in S /\ p[f] <= p[e] /\ ~ (p[e] <= p[f])
  BY <1>1, <1>2, <1>6
<1>8. g[f] # Nil
  BY <1>7 DEF Chained
<1>9. g[f] \in S /\ p[f] < p[g[f]] /\ (p[e] <= p[f] \/ p[g[f]] <= p[e])
  BY <1>7, <1>8 DEF Chained
<1>10. PICK n \in 1 .. Len(s) : s[n] = g[f]
  BY <1>9 DEF InOrder
<1>11. n <= m
  BY <1>1, <1>2, <1>7, <1>9, <1>10
<1>12. ~ (p[s[n]] <= p[s[m - 1]])
  BY <1>7, <1>9, <1>10
<1>13. n = m
  BY <1>1, <1>6, <1>11, <1>12
<1> QED BY <1>2, <1>7, <1>10, <1>13

\* A new member is put before the others.
LEMMA ChainedWith ==
  ASSUME NEW S \in SUBSET Entries, NEW b, NEW g \in [Entries -> Entries \cup {Nil}],
         NEW p \in [Entries -> Int], Chained(S, b, g, p),
         NEW e \in Entries \ S, NEW q \in [Entries -> Int],
         \A f \in S : q[f] = p[f] /\ q[e] < p[f]
  PROVE  Chained(S \cup {e}, e, [g EXCEPT ![e] = b], q)
<1> DEFINE h == [g EXCEPT ![e] = b]
<1>1. h[e] = b /\ \A f \in S : h[f] = g[f]
  OBVIOUS
<1>2. e # Nil
  BY SizesAssumption
<1> HIDE DEF h
<1>3. \A f \in S \cup {e} : q[f] \in Int
  OBVIOUS
<1>4. Chained(S, b, h, q)
  BY <1>1, ChainedSame
<1>5. \A f \in S : q[e] < q[f]
  OBVIOUS
<1>6. \A c, d \in S \cup {e} : q[c] = q[d] => c = d
  BY <1>3, <1>4, <1>5 DEF Chained
<1>7. \A f \in S \cup {e} : q[e] <= q[f]
  BY <1>3, <1>5
<1>8. ASSUME NEW f \in S, h[f] = Nil PROVE \A c \in S \cup {e} : q[c] <= q[f]
  BY <1>3, <1>4, <1>5, <1>8 DEF Chained
<1>9. ASSUME NEW f \in S, h[f] # Nil
      PROVE  /\ h[f] \in S /\ q[f] < q[h[f]]
             /\ \A c \in S \cup {e} : q[c] <= q[f] \/ q[h[f]] <= q[c]
  BY <1>3, <1>4, <1>5, <1>9 DEF Chained
<1>10. ASSUME h[e] = Nil PROVE \A c \in S \cup {e} : q[c] <= q[e]
  BY <1>1, <1>4, <1>7, <1>10 DEF Chained
<1>11. ASSUME h[e] # Nil
       PROVE  /\ h[e] \in S /\ q[e] < q[h[e]]
              /\ \A c \in S \cup {e} : q[c] <= q[e] \/ q[h[e]] <= q[c]
  BY <1>1, <1>4, <1>5, <1>7, <1>11 DEF Chained
<1> QED BY <1>2, <1>6, <1>7, <1>8, <1>9, <1>10, <1>11 DEF Chained, h

-----------------------------------------------------------------------------
(* The digits of a hash.                                                   *)

LEMMA TimesLess ==
  ASSUME NEW b \in Nat \ {0}, NEW q \in Nat \ {0}, NEW s \in 0 .. b - 1, NEW r \in 0 .. q - 1
  PROVE  q * s + r \in 0 .. q * b - 1 /\ q * b \in Nat \ {0}
<1>1. q * s \in Nat /\ q * b \in Nat /\ q * b = q * (b - 1) + q /\ q * (b - 1) \in Nat
  OBVIOUS
<1>2. q * s <= q * (b - 1)
  <2>1. (b - 1) - s \in Nat
    OBVIOUS
  <2>2. q * ((b - 1) - s) \in Nat /\ q * ((b - 1) - s) = q * (b - 1) - q * s
    BY <2>1
  <2> QED BY <1>1, <2>2
<1> QED BY <1>1, <1>2

LEMMA DivDiv ==
  ASSUME NEW a \in Nat, NEW q \in Nat \ {0}, NEW b \in Nat \ {0}
  PROVE  (a \div q) \div b = a \div (q * b)
<1> DEFINE x == a \div q
           r == a % q
           y == x \div b
           s == x % b
<1>1. a = q * x + r /\ r \in 0 .. q - 1 /\ x \in Nat
  BY DivMod
<1>2. x = b * y + s /\ s \in 0 .. b - 1 /\ y \in Nat
  BY <1>1, DivMod
<1> HIDE DEF x, r, y, s
<1>3. q * s + r \in 0 .. q * b - 1 /\ q * b \in Nat \ {0}
  BY <1>1, <1>2, TimesLess
<1>4. a = (q * b) * y + (q * s + r)
  <2>1. q * x = q * (b * y) + q * s /\ q * (b * y) = (q * b) * y
    BY <1>1, <1>2
  <2> QED BY <1>1, <1>2, <2>1
<1>5. a \div (q * b) = y
  BY <1>2, <1>3, <1>4, DivModUnique
<1> QED BY <1>5 DEF y, x

LEMMA ModDivide ==
  ASSUME NEW x \in Nat, NEW n \in Nat \ {0}, NEW b \in Nat \ {0}
  PROVE  (x % (n * b)) \div b = (x \div b) % n
<1> DEFINE y == x \div b
           s == x % b
           z == y \div n
           u == y % n
<1>1. x = b * y + s /\ s \in 0 .. b - 1 /\ y \in Nat
  BY DivMod
<1>2. y = n * z + u /\ u \in 0 .. n - 1 /\ z \in Nat
  BY <1>1, DivMod
<1> HIDE DEF y, s, z, u
<1>3. b * u + s \in 0 .. b * n - 1 /\ b * n \in Nat \ {0} /\ b * n = n * b
  BY <1>1, <1>2, TimesLess
<1>4. x = (n * b) * z + (b * u + s)
  <2>1. b * y = b * (n * z) + b * u /\ b * (n * z) = (n * b) * z
    BY <1>1, <1>2
  <2> QED BY <1>1, <1>2, <2>1
<1>5. x % (n * b) = b * u + s
  BY <1>2, <1>3, <1>4, DivModUnique
<1>6. (b * u + s) \div b = u
  BY <1>1, <1>2, DivModUnique
<1> QED BY <1>5, <1>6 DEF u, y

LEMMA PowerOf ==
  ASSUME NEW l \in 0 .. Digits
  PROVE  /\ Power[l] \in Nat \ {0} /\ Digits - l \in 0 .. Digits
         /\ l < Digits => Power[l + 1] = Power[l] * Base
<1>1. Digits \in Nat
  BY SizesAssumption
<1>2. Power[l] \in Nat \ {0} /\ Digits - l \in 0 .. Digits
  BY Powers, <1>1
<1>3. ASSUME l < Digits PROVE Power[l + 1] = Power[l] * Base
  <2>1. l + 1 \in 1 .. Digits /\ (l + 1) - 1 = l
    BY <1>1, <1>3
  <2>2. Power[l + 1] = Power[(l + 1) - 1] * Base
    BY Powers, <2>1
  <2> QED BY <2>1, <2>2
<1> QED BY <1>2, <1>3

LEMMA PowerGrows ==
  ASSUME NEW l \in 0 .. Digits
  PROVE  Power[l] <= Power[Digits]
<1> DEFINE T == {n \in l .. Digits : ~ (Power[l] <= Power[n])}
<1>1. Digits \in Nat /\ Base \in Nat \ {0}
  BY SizesAssumption
<1>2. SUFFICES ASSUME T # {} PROVE FALSE
  BY <1>1
<1>3. PICK n \in T : \A m \in T : n <= m
  <2>1. T \subseteq Nat
    BY <1>1
  <2> HIDE DEF T
  <2> QED BY <1>2, <2>1, LeastNatural
<1>4. Power[l] \in Nat
  BY PowerOf
<1>5. n # l
  BY <1>3, <1>4
<1>6. n - 1 \in l .. Digits /\ n - 1 \in 0 .. Digits /\ n - 1 < Digits /\ (n - 1) + 1 = n
      /\ n - 1 \notin T
  BY <1>1, <1>3, <1>5
<1>7. Power[n] = Power[n - 1] * Base /\ Power[n - 1] \in Nat /\ Power[n] \in Nat
  <2>1. Power[(n - 1) + 1] = Power[n - 1] * Base /\ Power[n - 1] \in Nat
    BY <1>6, PowerOf
  <2> QED BY <1>1, <1>6, <2>1
<1>8. Power[n - 1] * Base >= Power[n - 1]
  <2>1. Base - 1 \in Nat
    BY <1>1
  <2>2. Power[n - 1] * (Base - 1) \in Nat /\ Power[n - 1] * (Base - 1) = Power[n - 1] * Base - Power[n - 1]
    BY <1>1, <1>7, <2>1
  <2> QED BY <1>1, <1>7, <2>2
<1> QED BY <1>3, <1>4, <1>6, <1>7, <1>8

LEMMA IndexRange ==
  ASSUME NEW h \in Slots(Digits), NEW l \in 1 .. Digits
  PROVE  Index(h, l) \in Slots(l)
<1> DEFINE d == Power[Digits - l]
           n == Power[l]
<1>1. Digits \in Nat /\ l \in 0 .. Digits /\ Digits - l \in 0 .. Digits /\ Digits \in 0 .. Digits
  BY SizesAssumption
<1>2. d \in Nat \ {0} /\ n \in Nat \ {0} /\ Power[Digits] \in Nat
  BY <1>1, PowerOf
<1>3. h \in Nat
  BY <1>2 DEF Slots
<1> HIDE DEF d, n
<1>4. h \div d \in Nat
  BY <1>2, <1>3, DivMod
<1>5. (h \div d) % n \in 0 .. n - 1
  BY <1>2, <1>4, DivMod
<1> QED BY <1>5 DEF Index, Slots, d, n

\* The buckets a bucket is split into have its index, with one more digit.
LEMMA IndexSplit ==
  ASSUME NEW h \in Slots(Digits), NEW l \in 1 .. Digits, l < Digits
  PROVE  Index(h, l + 1) \div Base = Index(h, l)
<1> DEFINE d == Power[Digits - (l + 1)]
           n == Power[l]
<1>1. /\ Digits \in Nat /\ l \in 0 .. Digits /\ Digits - (l + 1) \in 0 .. Digits
      /\ Digits - (l + 1) < Digits /\ Digits \in 0 .. Digits /\ (Digits - (l + 1)) + 1 = Digits - l
      /\ Base \in Nat \ {0}
  BY SizesAssumption
<1>2. d \in Nat \ {0} /\ n \in Nat \ {0} /\ Power[Digits] \in Nat /\ Power[l + 1] = n * Base
  BY <1>1, PowerOf
<1>3. Power[(Digits - (l + 1)) + 1] = d * Base
  BY <1>1, PowerOf
<1>4. Power[Digits - l] = d * Base
  BY <1>1, <1>3
<1>5. h \in Nat
  BY <1>2 DEF Slots
<1>6. Index(h, l + 1) = (h \div d) % (n * Base) /\ Index(h, l) = (h \div (d * Base)) % n
  BY <1>2, <1>4 DEF Index
<1> HIDE DEF d, n
<1>7. h \div d \in Nat
  BY <1>2, <1>5, DivMod
<1>8. ((h \div d) % (n * Base)) \div Base = ((h \div d) \div Base) % n
  BY <1>1, <1>2, <1>7, ModDivide
<1>9. (h \div d) \div Base = h \div (d * Base)
  BY <1>1, <1>2, <1>5, DivDiv
<1> QED BY <1>6, <1>8, <1>9

LEMMA SlotSplit ==
  ASSUME NEW l \in 1 .. Digits, l < Digits, NEW j \in Slots(l + 1)
  PROVE  j \div Base \in Slots(l)
<1> DEFINE n == Power[l]
           i == j \div Base
           r == j % Base
<1>1. l \in 0 .. Digits /\ Base \in Nat \ {0}
  BY SizesAssumption
<1>2. n \in Nat \ {0} /\ Power[l + 1] = n * Base
  BY <1>1, PowerOf
<1>3. j \in Nat /\ j < n * Base
  BY <1>1, <1>2 DEF Slots
<1>4. j = Base * i + r /\ r \in 0 .. Base - 1 /\ i \in Nat
  BY <1>1, <1>3, DivMod
<1> HIDE DEF n, i, r
<1>5. Base * i < Base * n
  BY <1>1, <1>2, <1>3, <1>4
<1>6. i < n
  <2>1. ASSUME i >= n PROVE FALSE
    <3>1. Base * (i - n) \in Nat /\ Base * (i - n) = Base * i - Base * n
      BY <1>1, <1>2, <1>4, <2>1
    <3>2. Base * i \in Nat /\ Base * n \in Nat
      BY <1>1, <1>2, <1>4
    <3> QED BY <1>5, <3>1, <3>2
  <2> QED BY <1>2, <1>4, <2>1
<1> QED BY <1>2, <1>4, <1>6 DEF Slots, n, i

-----------------------------------------------------------------------------
(* A table that is whole.                                                  *)

Table ==
  [level : 1 .. Digits, numEntries : 0 .. Cardinality(Entries),
   buckets : UNION {[Slots(l) -> Entries \cup {Nil}] : l \in 1 .. Digits},
   next : [Entries -> Entries \cup {Nil}], hash : [Entries -> Slots(Digits)],
   key : [Entries -> Keys \cup {NoKey}], panic : BOOLEAN]

Used(t) == Entries \ Unused(t)

Bucket(t, e) == Index(t.hash[e], t.level)

\* The rows that belong in a bucket.
Members(t, i) == {e \in Used(t) : Bucket(t, e) = i}

\* The buckets lead through the rows that belong in them in the order of p, the hashes
\* are those of the keys, each key is that of one row, and the rows are counted.
Whole(t, p) ==
  /\ t \in Table /\ t.buckets \in [Slots(t.level) -> Entries \cup {Nil}] /\ ~t.panic
  /\ p \in [Entries -> Int]
  /\ \A i \in Slots(t.level) : Chained(Members(t, i), t.buckets[i], t.next, p)
  /\ \A e \in Used(t) : t.hash[e] = Hash[t.key[e]]
  /\ \A e, f \in Used(t) : t.key[e] = t.key[f] => e = f
  /\ t.numEntries = Cardinality(Used(t))

LEMMA UsedIs ==
  ASSUME NEW t, NEW e
  PROVE  e \in Used(t) <=> e \in Entries /\ t.key[e] # NoKey
BY DEF Used, Unused

LEMMA TableFields ==
  ASSUME NEW t \in Table
  PROVE  /\ t.level \in 1 .. Digits /\ t.numEntries \in 0 .. Cardinality(Entries)
         /\ t.next \in [Entries -> Entries \cup {Nil}] /\ Links(t)
         /\ t.hash \in [Entries -> Slots(Digits)]
         /\ t.key \in [Entries -> Keys \cup {NoKey}]
         /\ t.panic \in BOOLEAN
BY DEF Table, Links

\* A record with the fields of a table.
Shaped(u) ==
  LET fields == {"level", "numEntries", "buckets", "next", "hash", "key", "panic"}
  IN  u = [x \in fields |-> u[x]]

LEMMA TableMade ==
  ASSUME NEW u, Shaped(u),
         u.level \in 1 .. Digits, u.numEntries \in 0 .. Cardinality(Entries),
         u.buckets \in [Slots(u.level) -> Entries \cup {Nil}],
         u.next \in [Entries -> Entries \cup {Nil}], u.hash \in [Entries -> Slots(Digits)],
         u.key \in [Entries -> Keys \cup {NoKey}], u.panic \in BOOLEAN
  PROVE  u \in Table
<1>1. u.buckets \in UNION {[Slots(l) -> Entries \cup {Nil}] : l \in 1 .. Digits}
  OBVIOUS
<1> QED BY <1>1 DEF Table, Shaped

LEMMA BucketSlot ==
  ASSUME NEW t \in Table, NEW e \in Entries
  PROVE  Bucket(t, e) \in Slots(t.level)
<1>1. t.hash[e] \in Slots(Digits) /\ t.level \in 1 .. Digits
  BY TableFields
<1> QED BY <1>1, IndexRange DEF Bucket

LEMMA MembersIn ==
  ASSUME NEW t, NEW i
  PROVE  Members(t, i) \in SUBSET Entries
BY DEF Members, Used

LEMMA WholeInOrder ==
  ASSUME NEW t, NEW p, Whole(t, p), NEW i \in Slots(t.level)
  PROVE  InOrder(Chain(t, i), Members(t, i), p)
<1>1. t \in Table /\ p \in [Entries -> Int] /\ t.buckets[i] \in Entries \cup {Nil}
      /\ Chained(Members(t, i), t.buckets[i], t.next, p)
  BY DEF Whole
<1> QED BY <1>1, ChainInOrder, MembersIn, TableFields

\* Such a table is as ChainsAreWhole says.
LEMMA WholeChains ==
  ASSUME NEW t, NEW p, Whole(t, p)
  PROVE  /\ IsTable(t) /\ ~t.panic
         /\ \A i \in Slots(t.level) :
              LET s == Chain(t, i)
              IN  IsInjective(s) /\ ToSet(s) = {e \in Used(t) : Index(t.hash[e], t.level) = i}
         /\ \A e \in Used(t) : t.hash[e] = Hash[t.key[e]]
         /\ t.numEntries = Cardinality(Used(t))
<1>1. IsTable(t) /\ ~t.panic
  BY TableFields DEF Whole, IsTable
<1>2. ASSUME NEW i \in Slots(t.level)
      PROVE  IsInjective(Chain(t, i)) /\ ToSet(Chain(t, i)) = Members(t, i)
  <2>1. InOrder(Chain(t, i), Members(t, i), p) /\ p \in [Entries -> Int]
    BY WholeInOrder DEF Whole
  <2> QED BY <2>1, InOrderOnce, MembersIn
<1> QED BY <1>1, <1>2 DEF Whole, Members, Bucket

LEMMA HashSlot ==
  ASSUME NEW k \in Keys, NEW t \in Table
  PROVE  Hash[k] \in Slots(Digits) /\ Index(Hash[k], t.level) \in Slots(t.level)
<1>1. Hash[k] \in Slots(Digits)
  BY SizesAssumption DEF Slots
<1> QED BY <1>1, IndexRange, TableFields

\* What is found is the row with the key.
LEMMA FindIs ==
  ASSUME NEW t, NEW p, Whole(t, p), NEW k \in Keys
  PROVE  /\ \A e \in Used(t) : t.key[e] = k => Find(t, k) = e
         /\ (\A e \in Used(t) : t.key[e] # k) => Find(t, k) = Nil
<1> DEFINE i == Index(Hash[k], t.level)
           found == {e \in ToSet(Chain(t, i)) : Matches(t, e, k)}
<1>1. t \in Table /\ i \in Slots(t.level)
  BY HashSlot DEF Whole
<1>2. ToSet(Chain(t, i)) = Members(t, i)
  BY <1>1, WholeChains DEF Members, Bucket
<1>3. Find(t, k) = IF found = {} THEN Nil ELSE CHOOSE e \in found : TRUE
  BY DEF Find
<1>4. found = {e \in Used(t) : t.key[e] = k}
  <2>1. ASSUME NEW e \in found PROVE e \in Used(t) /\ t.key[e] = k
    BY <1>2 DEF Members, Matches
  <2>2. ASSUME NEW e \in Used(t), t.key[e] = k PROVE e \in found
    <3>1. t.hash[e] = Hash[k]
      BY <2>2 DEF Whole
    <3>2. e \in Members(t, i)
      BY <3>1 DEF Members, Bucket
    <3> QED BY <1>2, <2>2, <3>1, <3>2 DEF Matches
  <2> QED BY <2>1, <2>2
<1> HIDE DEF found
<1>5. ASSUME NEW e \in Used(t), t.key[e] = k PROVE Find(t, k) = e
  <2>1. found = {e}
    BY <1>4, <1>5 DEF Whole
  <2> QED BY <1>3, <2>1
<1>6. ASSUME \A e \in Used(t) : t.key[e] # k PROVE Find(t, k) = Nil
  BY <1>3, <1>4, <1>6
<1> QED BY <1>5, <1>6

LEMMA FoundIs ==
  ASSUME NEW t, NEW p, Whole(t, p), NEW k \in Keys
  PROVE  /\ Find(t, k) # Nil => Find(t, k) \in Used(t) /\ t.key[Find(t, k)] = k
         /\ Find(t, k) = Nil => \A e \in Used(t) : t.key[e] # k
<1>1. \A e \in Used(t) : e # Nil
  BY SizesAssumption DEF Used
<1>2. CASE \E e \in Used(t) : t.key[e] = k
  BY <1>1, <1>2, FindIs
<1>3. CASE \A e \in Used(t) : t.key[e] # k
  BY <1>3, FindIs
<1> QED BY <1>2, <1>3

-----------------------------------------------------------------------------
(* What the operations make of such a table.                               *)

LEMMA UsedCount ==
  ASSUME NEW t
  PROVE  IsFiniteSet(Used(t)) /\ Cardinality(Used(t)) \in 0 .. Cardinality(Entries)
<1>1. IsFiniteSet(Entries) /\ Used(t) \in SUBSET Entries
  BY SizesAssumption DEF Used
<1>2. IsFiniteSet(Used(t)) /\ Cardinality(Used(t)) <= Cardinality(Entries)
  BY <1>1, FS_Subset
<1>3. Cardinality(Used(t)) \in Nat
  BY <1>2, FS_CardinalityType
<1> QED BY <1>2, <1>3, EntriesCount

\* ctable_StoreHashEntry, but for the rebuilding.
Put(t, e, k) ==
  LET i == Index(Hash[k], t.level)
  IN  [t EXCEPT !.key[e] = k, !.hash[e] = Hash[k], !.next[e] = t.buckets[i],
                !.buckets[i] = e, !.numEntries = @ + 1]

LEMMA StoredIs ==
  ASSUME NEW t, NEW e, NEW k
  PROVE  Stored(t, e, k) = IF Full(Put(t, e, k)) THEN Rebuilt(Put(t, e, k)) ELSE Put(t, e, k)
BY DEF Stored, Put

LEMMA PutFields ==
  ASSUME NEW t \in Table, NEW e \in Entries, NEW k \in Keys,
         t.buckets \in [Slots(t.level) -> Entries \cup {Nil}],
         t.numEntries < Cardinality(Entries)
  PROVE  LET u == Put(t, e, k)
             i == Index(Hash[k], t.level)
         IN  /\ u \in Table /\ u.buckets \in [Slots(t.level) -> Entries \cup {Nil}]
             /\ u.level = t.level /\ u.numEntries = t.numEntries + 1 /\ u.panic = t.panic
             /\ u.key = [t.key EXCEPT ![e] = k] /\ u.hash = [t.hash EXCEPT ![e] = Hash[k]]
             /\ u.next = [t.next EXCEPT ![e] = t.buckets[i]]
             /\ u.buckets = [t.buckets EXCEPT ![i] = e]
<1> DEFINE u == Put(t, e, k)
           i == Index(Hash[k], t.level)
<1>1. i \in Slots(t.level) /\ Hash[k] \in Slots(Digits)
  BY HashSlot
<1>2. Shaped(u)
  BY DEF Put, Table, Shaped
<1>4. /\ u.level = t.level /\ u.numEntries = t.numEntries + 1 /\ u.panic = t.panic
      /\ u.key = [t.key EXCEPT ![e] = k] /\ u.hash = [t.hash EXCEPT ![e] = Hash[k]]
      /\ u.next = [t.next EXCEPT ![e] = t.buckets[i]]
      /\ u.buckets = [t.buckets EXCEPT ![i] = e]
  BY DEF Put, Table
<1> HIDE DEF u, i
<1>5. /\ t.level \in 1 .. Digits /\ t.numEntries + 1 \in 0 .. Cardinality(Entries)
      /\ u.next \in [Entries -> Entries \cup {Nil}] /\ u.hash \in [Entries -> Slots(Digits)]
      /\ u.key \in [Entries -> Keys \cup {NoKey}] /\ t.panic \in BOOLEAN
      /\ u.buckets \in [Slots(t.level) -> Entries \cup {Nil}]
  BY <1>1, <1>4, TableFields, EntriesCount
<1>7. u \in Table
  BY <1>2, <1>4, <1>5, TableMade
<1> QED BY <1>4, <1>5, <1>7 DEF u, i

\* Two orders are the same for the members of a set.
Agree(p, q, S) == \A f \in S : q[f] = p[f]

\* A row that is put into a table that is whole comes before those of its bucket.
LEMMA PutWhole ==
  ASSUME NEW t, NEW p, Whole(t, p), NEW e \in Unused(t), NEW k \in Keys,
         \A f \in Used(t) : t.key[f] # k
  PROVE  LET u == Put(t, e, k)
         IN  /\ \E q : Whole(u, q) /\ Agree(p, q, Entries \ {e})
             /\ u.level = t.level /\ u.key = [t.key EXCEPT ![e] = k]
             /\ Used(u) = Used(t) \cup {e} /\ \A f \in Used(t) : Bucket(u, f) = Bucket(t, f)
<1> DEFINE u == Put(t, e, k)
           i == Index(Hash[k], t.level)
           S == Members(t, i)
           b == t.buckets[i]
           d == IF b = Nil THEN 0 ELSE p[b] - 1
           q == [p EXCEPT ![e] = d]
<1>1. /\ t \in Table /\ t.buckets \in [Slots(t.level) -> Entries \cup {Nil}] /\ ~t.panic
      /\ p \in [Entries -> Int] /\ t.numEntries = Cardinality(Used(t))
      /\ \A j \in Slots(t.level) : Chained(Members(t, j), t.buckets[j], t.next, p)
  BY DEF Whole
<1>2. e \in Entries /\ e \notin Used(t) /\ NoKey # k
  BY SizesAssumption DEF Unused, Used
<1>3. Cardinality(Used(t) \cup {e}) = t.numEntries + 1 /\ t.numEntries + 1 <= Cardinality(Entries)
      /\ t.numEntries \in Nat
  <2>1. Cardinality(Used(t) \cup {e}) = Cardinality(Used(t)) + 1
    BY <1>2, UsedCount, FS_AddElement
  <2>2. IsFiniteSet(Entries) /\ Used(t) \cup {e} \in SUBSET Entries
    BY <1>2, SizesAssumption DEF Used
  <2>3. Cardinality(Used(t) \cup {e}) <= Cardinality(Entries)
    BY <2>2, FS_Subset
  <2> QED BY <1>1, <2>1, <2>3, UsedCount
<1>4. /\ u \in Table /\ u.buckets \in [Slots(t.level) -> Entries \cup {Nil}]
      /\ u.level = t.level /\ u.numEntries = t.numEntries + 1 /\ u.panic = t.panic
      /\ u.key = [t.key EXCEPT ![e] = k] /\ u.hash = [t.hash EXCEPT ![e] = Hash[k]]
      /\ u.next = [t.next EXCEPT ![e] = t.buckets[i]]
      /\ u.buckets = [t.buckets EXCEPT ![i] = e]
  BY <1>1, <1>2, <1>3, EntriesCount, PutFields
<1>5. i \in Slots(t.level) /\ Hash[k] \in Slots(Digits)
  BY <1>1, HashSlot
<1>6. S \in SUBSET Entries /\ e \notin S /\ t.next \in [Entries -> Entries \cup {Nil}]
      /\ t.key \in [Entries -> Keys \cup {NoKey}] /\ t.hash \in [Entries -> Slots(Digits)]
  BY <1>1, <1>2, TableFields DEF Members, Used
<1> HIDE DEF u
<1>7. /\ u.key[e] = k /\ u.hash[e] = Hash[k]
      /\ \A f \in Entries \ {e} : u.key[f] = t.key[f] /\ u.hash[f] = t.hash[f] /\ u.next[f] = t.next[f]
  BY <1>2, <1>4, <1>6
<1>8. Used(u) = Used(t) \cup {e}
  BY <1>2, <1>7, UsedIs DEF Used, Unused
<1>9. \A f \in Used(t) : f # e /\ f \in Entries /\ Bucket(u, f) = Bucket(t, f)
  BY <1>2, <1>4, <1>7 DEF Bucket, Used
<1>10. Bucket(u, e) = i
  BY <1>4, <1>7 DEF Bucket
<1> HIDE DEF i
<1>11. /\ Members(u, i) = S \cup {e}
       /\ \A j \in Slots(t.level) \ {i} : Members(u, j) = Members(t, j)
  BY <1>8, <1>9, <1>10 DEF Members
<1>12. /\ q \in [Entries -> Int] /\ q[e] = d /\ (b # Nil => p[b] \in Int)
       /\ \A f \in Entries \ {e} : q[f] = p[f]
  BY <1>1, <1>2, <1>5
<1> HIDE DEF q
<1>13. \A f \in S : q[f] = p[f] /\ q[e] < p[f]
  <2>1. SUFFICES ASSUME NEW f \in S PROVE q[f] = p[f] /\ q[e] < p[f]
    OBVIOUS
  <2>2. Chained(S, b, t.next, p)
    BY <1>1, <1>5
  <2>3. b # Nil /\ p[b] <= p[f] /\ p[f] \in Int
    BY <1>1, <1>6, <2>2 DEF Chained
  <2>4. q[f] = p[f]
    BY <1>6, <1>12
  <2>5. q[e] = p[b] - 1 /\ p[b] \in Int
    BY <1>12, <2>3
  <2> QED BY <2>3, <2>4, <2>5
<1> HIDE DEF d, S
<1>14. ASSUME NEW j \in Slots(u.level) PROVE Chained(Members(u, j), u.buckets[j], u.next, q)
  <2>1. CASE j = i
    <3>1. Chained(S, b, t.next, p)
      BY <1>1, <1>5 DEF S
    <3>2. Chained(S \cup {e}, e, [t.next EXCEPT ![e] = b], q)
      BY <1>1, <1>2, <1>6, <1>12, <1>13, <3>1, ChainedWith
    <3>3. u.buckets[j] = e
      BY <1>1, <1>4, <1>5, <2>1
    <3> QED BY <1>4, <1>11, <2>1, <3>2, <3>3
  <2>2. CASE j # i
    <3>1. j \in Slots(t.level) \ {i} /\ Chained(Members(t, j), t.buckets[j], t.next, p)
      BY <1>1, <1>4, <2>2
    <3>2. \A f \in Members(t, j) : u.next[f] = t.next[f] /\ q[f] = p[f]
      BY <1>7, <1>9, <1>12 DEF Members
    <3>3. Chained(Members(t, j), t.buckets[j], u.next, q)
      BY <3>1, <3>2, ChainedSame
    <3>4. u.buckets[j] = t.buckets[j]
      BY <1>1, <1>4, <3>1
    <3> QED BY <1>11, <3>1, <3>3, <3>4
  <2> QED BY <2>1, <2>2
<1>15. \A f \in Used(u) : u.hash[f] = Hash[u.key[f]]
  BY <1>7, <1>8, <1>9 DEF Whole
<1>16. \A f, g \in Used(u) : u.key[f] = u.key[g] => f = g
  BY <1>7, <1>8, <1>9 DEF Whole
<1>17. u.numEntries = Cardinality(Used(u))
  BY <1>3, <1>4, <1>8
<1>18. Whole(u, q)
  BY <1>1, <1>4, <1>12, <1>14, <1>15, <1>16, <1>17 DEF Whole
<1>19. Agree(p, q, Entries \ {e})
  BY <1>12 DEF Agree
<1> QED BY <1>4, <1>8, <1>9, <1>18, <1>19 DEF u

\* Table u differs from t by a row that is gone, which only its bucket shows.
Without(t, e, u, p) ==
  /\ u \in Table /\ u.buckets \in [Slots(t.level) -> Entries \cup {Nil}]
  /\ u.level = t.level /\ u.numEntries = t.numEntries - 1 /\ u.panic = t.panic
  /\ u.key = [t.key EXCEPT ![e] = NoKey] /\ u.hash = t.hash
  /\ Chained(Members(t, Bucket(t, e)) \ {e}, u.buckets[Bucket(t, e)], u.next, p)
  /\ \A j \in Slots(t.level) \ {Bucket(t, e)} :
       u.buckets[j] = t.buckets[j] /\ \A f \in Members(t, j) : u.next[f] = t.next[f]

LEMMA WithoutWhole ==
  ASSUME NEW t, NEW p, Whole(t, p), NEW e \in Used(t), NEW u, Without(t, e, u, p)
  PROVE  /\ Whole(u, p) /\ Used(u) = Used(t) \ {e}
         /\ \A f \in Entries : Bucket(u, f) = Bucket(t, f)
<1> USE DEF Without
<1> DEFINE i == Bucket(t, e)
<1>1. /\ t \in Table /\ ~t.panic /\ p \in [Entries -> Int] /\ t.numEntries = Cardinality(Used(t))
      /\ \A j \in Slots(t.level) : Chained(Members(t, j), t.buckets[j], t.next, p)
  BY DEF Whole
<1>2. e \in Entries /\ t.key \in [Entries -> Keys \cup {NoKey}]
  BY <1>1, TableFields DEF Used
<1>3. u.key[e] = NoKey /\ \A f \in Entries \ {e} : u.key[f] = t.key[f]
  BY <1>2
<1>4. Used(u) = Used(t) \ {e}
  BY <1>3, UsedIs DEF Used, Unused
<1>5. \A f \in Entries : Bucket(u, f) = Bucket(t, f)
  BY DEF Bucket
<1>6. Members(u, i) = Members(t, i) \ {e} /\ \A j \in Slots(t.level) \ {i} : Members(u, j) = Members(t, j)
  BY <1>4, <1>5 DEF Members, Used
<1> HIDE DEF i
<1>7. ASSUME NEW j \in Slots(u.level) PROVE Chained(Members(u, j), u.buckets[j], u.next, p)
  <2>1. CASE j = i
    BY <1>6, <2>1 DEF i
  <2>2. CASE j # i
    <3>1. j \in Slots(t.level) \ {i} /\ Chained(Members(t, j), t.buckets[j], t.next, p)
      BY <1>1, <2>2
    <3>2. u.buckets[j] = t.buckets[j] /\ \A f \in Members(t, j) : u.next[f] = t.next[f]
      BY <3>1 DEF i
    <3>3. Chained(Members(t, j), t.buckets[j], u.next, p)
      BY <3>1, <3>2, ChainedSame
    <3> QED BY <1>6, <3>1, <3>2, <3>3
  <2> QED BY <2>1, <2>2
<1>8. \A f \in Used(u) : f \in Used(t) /\ u.key[f] = t.key[f]
  BY <1>3, <1>4 DEF Used
<1>9. \A f \in Used(u) : u.hash[f] = Hash[u.key[f]]
  BY <1>8 DEF Whole
<1>10. \A f, g \in Used(u) : u.key[f] = u.key[g] => f = g
  BY <1>8 DEF Whole
<1>11. u.numEntries = Cardinality(Used(u))
  <2>1. Cardinality(Used(t) \ {e}) = Cardinality(Used(t)) - 1
    BY UsedCount, FS_RemoveElement
  <2> QED BY <1>1, <1>4, <2>1
<1>12. Whole(u, p)
  BY <1>1, <1>7, <1>9, <1>10, <1>11 DEF Whole
<1> QED BY <1>4, <1>5, <1>12

\* A row is taken out of a table that is whole.
LEMMA DeletedWhole ==
  ASSUME NEW t, NEW p, Whole(t, p), NEW e \in Used(t)
  PROVE  LET u == Deleted(t, e)
         IN  /\ Whole(u, p) /\ u.level = t.level /\ u.key = [t.key EXCEPT ![e] = NoKey]
             /\ Used(u) = Used(t) \ {e} /\ \A f \in Entries : Bucket(u, f) = Bucket(t, f)
<1> DEFINE i == Bucket(t, e)
           S == Members(t, i)
           b == t.buckets[i]
           before == {f \in ToSet(Chain(t, i)) : t.next[f] = e}
           c == CHOOSE f \in before : TRUE
           v == [t EXCEPT !.key[e] = NoKey, !.numEntries = @ - 1]
           u == Deleted(t, e)
<1>1. /\ t \in Table /\ t.buckets \in [Slots(t.level) -> Entries \cup {Nil}] /\ ~t.panic
      /\ p \in [Entries -> Int] /\ t.numEntries = Cardinality(Used(t))
      /\ \A j \in Slots(t.level) : Chained(Members(t, j), t.buckets[j], t.next, p)
  BY DEF Whole
<1>2. /\ e \in Entries /\ e # Nil /\ i \in Slots(t.level) /\ e \in S /\ S \in SUBSET Entries
      /\ t.level \in 1 .. Digits /\ t.next \in [Entries -> Entries \cup {Nil}]
      /\ t.hash \in [Entries -> Slots(Digits)] /\ t.key \in [Entries -> Keys \cup {NoKey}]
      /\ t.panic \in BOOLEAN
  BY <1>1, TableFields, BucketSlot, SizesAssumption DEF Used, Members
<1>3. Chained(S, b, t.next, p) /\ InOrder(Chain(t, i), S, p)
  BY <1>1, <1>2, WholeInOrder
<1>4. ToSet(Chain(t, i)) = S
  BY <1>1, <1>2, <1>3, InOrderOnce
<1>5. u = IF b = e THEN [v EXCEPT !.buckets[i] = t.next[e]]
          ELSE IF before = {} THEN [t EXCEPT !.panic = TRUE]
          ELSE [v EXCEPT !.next[c] = t.next[e]]
  BY DEF Deleted, Bucket
<1>6. t.numEntries - 1 \in 0 .. Cardinality(Entries)
  <2>1. Cardinality(Used(t)) # 0
    BY UsedCount, FS_EmptySet
  <2> QED BY <1>1, <2>1, UsedCount, EntriesCount
<1>7. \A f, j : f \in Members(t, j) => j = Bucket(t, f) /\ f \in Entries
  BY DEF Members, Used
<1>8. CASE b = e
  <2> DEFINE x == [v EXCEPT !.buckets[i] = t.next[e]]
  <2>1. u = x
    BY <1>5, <1>8
  <2> HIDE DEF u, i, S, b, c, before
  <2>2. Shaped(x)
    BY <1>1 DEF Table, Shaped
  <2>3. /\ x.level = t.level /\ x.numEntries = t.numEntries - 1 /\ x.panic = t.panic
        /\ x.key = [t.key EXCEPT ![e] = NoKey] /\ x.hash = t.hash /\ x.next = t.next
        /\ x.buckets = [t.buckets EXCEPT ![i] = t.next[e]]
    BY <1>1 DEF Table
  <2> HIDE DEF x
  <2>4. x.buckets \in [Slots(t.level) -> Entries \cup {Nil}] /\ x.key \in [Entries -> Keys \cup {NoKey}]
    BY <1>1, <1>2, <2>3
  <2>5. x \in Table
    BY <1>2, <1>6, <2>2, <2>3, <2>4, TableMade
  <2>6. Chained(S \ {e}, t.next[e], t.next, p)
    BY <1>1, <1>2, <1>3, <1>8, ChainedButFirst
  <2>7. x.buckets[i] = t.next[e] /\ \A j \in Slots(t.level) \ {i} : x.buckets[j] = t.buckets[j]
    BY <1>1, <1>2, <2>3
  <2>8. Whole(x, p) /\ Used(x) = Used(t) \ {e} /\ \A f \in Entries : Bucket(x, f) = Bucket(t, f)
    <3>1. Chained(Members(t, Bucket(t, e)) \ {e}, x.buckets[Bucket(t, e)], x.next, p)
      BY <2>3, <2>6, <2>7 DEF i, S
    <3>2. \A j \in Slots(t.level) \ {Bucket(t, e)} :
            x.buckets[j] = t.buckets[j] /\ \A f \in Members(t, j) : x.next[f] = t.next[f]
      BY <2>3, <2>7 DEF i
    <3>3. Without(t, e, x, p)
      BY <2>3, <2>4, <2>5, <3>1, <3>2 DEF Without
    <3> QED BY <3>3, WithoutWhole
  <2> QED BY <2>1, <2>3, <2>8 DEF u
<1>9. CASE b # e
  <2> DEFINE x == [v EXCEPT !.next[c] = t.next[e]]
  <2>1. \E f \in S : t.next[f] = e
    BY <1>1, <1>2, <1>3, <1>9, OneBefore
  <2>2. c \in S /\ t.next[c] = e /\ before # {}
    BY <1>4, <2>1
  <2>3. u = x
    BY <1>5, <1>9, <2>2
  <2> HIDE DEF u, c, before, i, S, b
  <2>4. Shaped(x)
    BY <1>1 DEF Table, Shaped
  <2>5. /\ x.level = t.level /\ x.numEntries = t.numEntries - 1 /\ x.panic = t.panic
        /\ x.key = [t.key EXCEPT ![e] = NoKey] /\ x.hash = t.hash
        /\ x.next = [t.next EXCEPT ![c] = t.next[e]] /\ x.buckets = t.buckets
    BY <1>1 DEF Table
  <2> HIDE DEF x
  <2>6. x.next \in [Entries -> Entries \cup {Nil}] /\ x.key \in [Entries -> Keys \cup {NoKey}]
    BY <1>2, <2>2, <2>5
  <2>7. x \in Table
    BY <1>1, <1>2, <1>6, <2>4, <2>5, <2>6, TableMade
  <2>8. Chained(S \ {e}, b, x.next, p)
    BY <1>1, <1>2, <1>3, <1>9, <2>2, <2>5, ChainedBut
  <2>9. ASSUME NEW j \in Slots(t.level) \ {i}, NEW f \in Members(t, j) PROVE x.next[f] = t.next[f]
    <3>1. f # c /\ f \in Entries
      BY <1>7, <2>2, <2>9 DEF S
    <3> QED BY <1>2, <2>5, <3>1
  <2>10. Whole(x, p) /\ Used(x) = Used(t) \ {e} /\ \A f \in Entries : Bucket(x, f) = Bucket(t, f)
    <3>1. Chained(Members(t, Bucket(t, e)) \ {e}, x.buckets[Bucket(t, e)], x.next, p)
      BY <2>5, <2>8 DEF i, S, b
    <3>2. \A j \in Slots(t.level) \ {Bucket(t, e)} :
            x.buckets[j] = t.buckets[j] /\ \A f \in Members(t, j) : x.next[f] = t.next[f]
      BY <2>5, <2>9 DEF i
    <3>3. Without(t, e, x, p)
      BY <1>1, <2>5, <2>7, <3>1, <3>2 DEF Without
    <3> QED BY <3>3, WithoutWhole
  <2> QED BY <2>3, <2>5, <2>10 DEF u
<1> QED BY <1>8, <1>9

\* The fields of a row that is not in use can be cleared.
LEMMA ClearedWhole ==
  ASSUME NEW t, NEW p, Whole(t, p), NEW e \in Unused(t)
  PROVE  LET u == Cleared(t, e)
         IN  /\ Whole(u, p) /\ u.level = t.level /\ u.key = t.key
             /\ Used(u) = Used(t) /\ \A f \in Used(t) : Bucket(u, f) = Bucket(t, f)
<1> DEFINE u == Cleared(t, e)
<1>1. /\ t \in Table /\ t.buckets \in [Slots(t.level) -> Entries \cup {Nil}] /\ ~t.panic
      /\ p \in [Entries -> Int] /\ t.numEntries = Cardinality(Used(t))
      /\ \A j \in Slots(t.level) : Chained(Members(t, j), t.buckets[j], t.next, p)
  BY DEF Whole
<1>2. /\ e \in Entries /\ e \notin Used(t) /\ 0 \in Slots(Digits)
      /\ t.level \in 1 .. Digits /\ t.next \in [Entries -> Entries \cup {Nil}]
      /\ t.numEntries \in 0 .. Cardinality(Entries)
      /\ t.hash \in [Entries -> Slots(Digits)] /\ t.key \in [Entries -> Keys \cup {NoKey}]
      /\ t.panic \in BOOLEAN
  <2>1. 0 \in Slots(Digits)
    <3>1. Digits \in 0 .. Digits
      BY SizesAssumption
    <3> QED BY <3>1, PowerOf DEF Slots
  <2> QED BY <1>1, <2>1, TableFields DEF Used, Unused
<1>3. Shaped(u)
  BY <1>1 DEF Table, Shaped, Cleared
<1>4. /\ u.level = t.level /\ u.numEntries = t.numEntries /\ u.panic = t.panic
      /\ u.key = t.key /\ u.hash = [t.hash EXCEPT ![e] = 0]
      /\ u.next = [t.next EXCEPT ![e] = Nil] /\ u.buckets = t.buckets
  BY <1>1 DEF Table, Cleared
<1> HIDE DEF u
<1>5. u.next \in [Entries -> Entries \cup {Nil}] /\ u.hash \in [Entries -> Slots(Digits)]
  BY <1>2, <1>4
<1>6. u \in Table
  BY <1>1, <1>2, <1>3, <1>4, <1>5, TableMade
<1>7. Used(u) = Used(t)
  BY <1>4 DEF Used, Unused
<1>8. ASSUME NEW f \in Used(t)
      PROVE  u.hash[f] = t.hash[f] /\ u.next[f] = t.next[f] /\ Bucket(u, f) = Bucket(t, f)
  <2>1. f \in Entries /\ f # e
    BY <1>2 DEF Used
  <2> QED BY <1>2, <1>4, <2>1 DEF Bucket
<1>9. \A j : Members(u, j) = Members(t, j)
  BY <1>7, <1>8 DEF Members
<1>10. ASSUME NEW j \in Slots(u.level) PROVE Chained(Members(u, j), u.buckets[j], u.next, p)
  <2>1. Chained(Members(t, j), t.buckets[j], t.next, p)
    BY <1>1, <1>4
  <2>2. \A f \in Members(t, j) : u.next[f] = t.next[f]
    BY <1>8 DEF Members
  <2>3. Chained(Members(t, j), t.buckets[j], u.next, p)
    BY <2>1, <2>2, ChainedSame
  <2> QED BY <1>4, <1>9, <2>3
<1>11. Whole(u, p)
  BY <1>1, <1>4, <1>6, <1>7, <1>8, <1>10 DEF Whole
<1> QED BY <1>4, <1>7, <1>8, <1>11 DEF u

-----------------------------------------------------------------------------
(* The table is rebuilt.                                                   *)

\* Entry r is the last of s before place m that goes to bucket j, or Nil.
IsLatest(t, s, j, m, r) ==
  LET Goes(n) == Index(t.hash[s[n]], t.level + 1) = j
  IN  \/ r = Nil /\ \A n \in 1 .. Len(s) : n < m => ~Goes(n)
      \/ \E n \in 1 .. Len(s) : /\ n < m /\ Goes(n) /\ r = s[n]
                                /\ \A l \in 1 .. Len(s) : l < m /\ Goes(l) => l <= n

LEMMA LatestIs ==
  ASSUME NEW t, NEW s, DOMAIN s = 1 .. Len(s), Len(s) \in Nat, NEW j, NEW m \in Nat
  PROVE  IsLatest(t, s, j, m, Latest(t, s, j, m))
<1> DEFINE Goes(n) == Index(t.hash[s[n]], t.level + 1) = j
           before == {n \in 1 .. Len(s) : n < m /\ Goes(n)}
<1>1. Latest(t, s, j, m) = IF before = {} THEN Nil ELSE s[Max(before)]
  BY DEF Latest
<1> HIDE DEF Goes
<1>2. CASE before = {}
  BY <1>1, <1>2 DEF Goes, IsLatest
<1>3. CASE before # {}
  <2>1. \E x \in before : \A y \in before : x >= y
    <3>1. before \subseteq 0 .. Len(s)
      OBVIOUS
    <3> HIDE DEF before
    <3>2. PICK x \in before : \A y \in before : y <= x
      BY <1>3, <3>1, GreatestNatural
    <3> QED BY <3>1, <3>2
  <2> DEFINE x == Max(before)
  <2>2. x \in before /\ \A y \in before : x >= y
    BY <2>1 DEF Max
  <2>3. Latest(t, s, j, m) = s[x]
    BY <1>1, <1>3
  <2> HIDE DEF x
  <2>4. x \in 1 .. Len(s) /\ x < m /\ Goes(x) /\ \A l \in 1 .. Len(s) : l < m /\ Goes(l) => l <= x
    BY <2>2
  <2> QED BY <2>3, <2>4 DEF Goes, IsLatest
<1> QED BY <1>2, <1>3

\* What Rebuilt sets the links to.
RebuiltFirst(t, j) ==
  LET s == Chain(t, j \div Base) IN Latest(t, s, j, Len(s) + 1)

RebuiltAfter(t, e) ==
  LET j == Index(t.hash[e], t.level + 1)
      s == Chain(t, j \div Base)
      m == Place(s, e)
  IN  IF m = 0 THEN t.next[e] ELSE Latest(t, s, j, m)

LEMMA RebuiltFields ==
  ASSUME NEW t \in Table
  PROVE  LET u == Rebuilt(t)
         IN  /\ Shaped(u) /\ u.level = t.level + 1 /\ u.numEntries = t.numEntries
             /\ u.panic = t.panic /\ u.key = t.key /\ u.hash = t.hash
             /\ u.buckets = [j \in Slots(t.level + 1) |-> RebuiltFirst(t, j)]
             /\ u.next = [e \in Entries |-> RebuiltAfter(t, e)]
<1> DEFINE B == [j \in Slots(t.level + 1) |-> RebuiltFirst(t, j)]
           N == [e \in Entries |-> RebuiltAfter(t, e)]
<1>1. Rebuilt(t) = [t EXCEPT !.level = @ + 1, !.buckets = B, !.next = N]
  BY DEF Rebuilt, RebuiltFirst, RebuiltAfter, Place
<1> HIDE DEF B, N
<1>2. Shaped(Rebuilt(t))
  BY <1>1 DEF Table, Shaped
<1>3. LET u == Rebuilt(t)
      IN  /\ u.level = t.level + 1 /\ u.numEntries = t.numEntries /\ u.panic = t.panic
          /\ u.key = t.key /\ u.hash = t.hash /\ u.buckets = B /\ u.next = N
  BY <1>1 DEF Table
<1> QED BY <1>2, <1>3 DEF B, N

\* The rows of a new bucket are linked in the opposite order.
LEMMA RebuiltChained ==
  ASSUME NEW t, NEW p, Whole(t, p), t.level < Digits, NEW j \in Slots(t.level + 1)
  PROVE  LET S == {e \in Used(t) : Index(t.hash[e], t.level + 1) = j}
         IN  /\ Chained(S, RebuiltFirst(t, j), [e \in Entries |-> RebuiltAfter(t, e)],
                        [e \in Entries |-> 0 - p[e]])
             /\ RebuiltFirst(t, j) \in Entries \cup {Nil}
             /\ \A e \in S : RebuiltAfter(t, e) \in Entries \cup {Nil}
<1> DEFINE i == j \div Base
           s == Chain(t, i)
           M == Members(t, i)
           S == {e \in Used(t) : Index(t.hash[e], t.level + 1) = j}
           b == RebuiltFirst(t, j)
           g == [e \in Entries |-> RebuiltAfter(t, e)]
           q == [e \in Entries |-> 0 - p[e]]
           Goes(n) == Index(t.hash[s[n]], t.level + 1) = j
<1>1. t \in Table /\ p \in [Entries -> Int] /\ t.level \in 1 .. Digits
      /\ t.hash \in [Entries -> Slots(Digits)]
  BY TableFields DEF Whole
<1>2. i \in Slots(t.level)
  BY <1>1, SlotSplit
<1>3. InOrder(s, M, p) /\ M \in SUBSET Entries
  BY <1>2, WholeInOrder, MembersIn
<1>4. /\ DOMAIN s = 1 .. Len(s) /\ Len(s) \in Nat
      /\ \A m, n \in 1 .. Len(s) : p[s[m]] <= p[s[n]] <=> m <= n
  BY <1>1, <1>3, InOrderOnce
<1>5. /\ \A m \in 1 .. Len(s) : s[m] \in M
      /\ \A e \in M : \E m \in 1 .. Len(s) : s[m] = e
  BY <1>3 DEF InOrder
<1>6. ASSUME NEW e \in S PROVE e \in M /\ e \in Entries
  <2>1. e \in Entries /\ t.hash[e] \in Slots(Digits) /\ e \in Used(t)
        /\ Index(t.hash[e], t.level + 1) = j
    BY <1>1 DEF Used
  <2>2. Index(t.hash[e], t.level) = i
    BY <1>1, <2>1, IndexSplit
  <2> QED BY <2>1, <2>2 DEF Members, Bucket
<1>7. \A n \in 1 .. Len(s) : Goes(n) <=> s[n] \in S
  BY <1>5 DEF Members
<1>8. b = Latest(t, s, j, Len(s) + 1)
  BY DEF RebuiltFirst
<1>9. ASSUME NEW m \in 1 .. Len(s), s[m] \in S PROVE RebuiltAfter(t, s[m]) = Latest(t, s, j, m)
  <2> DEFINE n == Place(s, s[m])
  <2>1. n \in 1 .. Len(s) /\ s[n] = s[m]
    BY <1>4, PlaceOf
  <2>2. n = m
    <3>1. p[s[n]] \in Int
      BY <1>1, <1>3, <1>5, <2>1
    <3> HIDE DEF n
    <3>2. n <= m /\ m <= n
      BY <1>4, <2>1, <3>1
    <3> QED BY <1>4, <2>1, <3>2
  <2>3. Index(t.hash[s[m]], t.level + 1) = j
    BY <1>9
  <2>4. RebuiltAfter(t, s[m]) = IF n = 0 THEN t.next[s[m]] ELSE Latest(t, s, j, n)
    BY <2>3 DEF RebuiltAfter
  <2> HIDE DEF n
  <2> QED BY <1>4, <2>2, <2>4
<1>10. Nil \notin Entries
  BY SizesAssumption
<1> HIDE DEF i, s, M, S, b
<1>11. ASSUME NEW m \in 1 .. Len(s) + 1, NEW r, r = Latest(t, s, j, m)
       PROVE  /\ r = Nil => \A n \in 1 .. Len(s) : n < m => s[n] \notin S
              /\ r # Nil => \E n \in 1 .. Len(s) :
                   n < m /\ r = s[n] /\ s[n] \in S /\ \A l \in 1 .. Len(s) : l < m /\ s[l] \in S => l <= n
              /\ r \in S \cup {Nil}
  <2>1. m \in Nat
    BY <1>4
  <2>2. \/ r = Nil /\ \A n \in 1 .. Len(s) : n < m => ~Goes(n)
        \/ \E n \in 1 .. Len(s) : /\ n < m /\ Goes(n) /\ r = s[n]
                                  /\ \A l \in 1 .. Len(s) : l < m /\ Goes(l) => l <= n
    <3>1. IsLatest(t, s, j, m, r)
      BY <1>4, <1>11, <2>1, LatestIs
    <3> QED BY <3>1 DEF IsLatest
  <2> HIDE DEF Goes
  <2>3. CASE r = Nil /\ \A n \in 1 .. Len(s) : n < m => ~Goes(n)
    BY <1>7, <2>3
  <2>4. CASE \E n \in 1 .. Len(s) : /\ n < m /\ Goes(n) /\ r = s[n]
                                    /\ \A l \in 1 .. Len(s) : l < m /\ Goes(l) => l <= n
    <3>1. PICK n \in 1 .. Len(s) : /\ n < m /\ Goes(n) /\ r = s[n]
                                   /\ \A l \in 1 .. Len(s) : l < m /\ Goes(l) => l <= n
      BY <2>4
    <3>2. r \in S /\ r # Nil
      BY <1>6, <1>7, <1>10, <3>1
    <3> QED BY <1>7, <3>1, <3>2
  <2> QED BY <2>2, <2>3, <2>4
<1> HIDE DEF Goes
<1>12. \A e \in S : p[e] \in Int /\ q[e] = 0 - p[e]
  BY <1>1, <1>6
<1>13. \A e \in S : g[e] = RebuiltAfter(t, e)
  BY <1>6
<1> HIDE DEF q, g
<1>14. ASSUME NEW m \in 1 .. Len(s), NEW n \in 1 .. Len(s), s[m] \in S, s[n] \in S
       PROVE  /\ q[s[m]] <= q[s[n]] <=> n <= m
              /\ q[s[m]] < q[s[n]] <=> n < m
  <2>1. p[s[n]] <= p[s[m]] <=> n <= m
    BY <1>4
  <2>2. p[s[m]] <= p[s[n]] <=> m <= n
    BY <1>4
  <2>3. p[s[m]] \in Int /\ p[s[n]] \in Int /\ q[s[m]] = 0 - p[s[m]] /\ q[s[n]] = 0 - p[s[n]]
    BY <1>12, <1>14
  <2> QED BY <1>4, <2>1, <2>2, <2>3
<1>15. \A e \in S : \E m \in 1 .. Len(s) : s[m] = e
  BY <1>5, <1>6
<1>16. \A e, f \in S : q[e] = q[f] => e = f
  <2>1. SUFFICES ASSUME NEW e \in S, NEW f \in S, q[e] = q[f] PROVE e = f
    OBVIOUS
  <2>2. PICK m \in 1 .. Len(s) : s[m] = e
    BY <1>15
  <2>3. PICK n \in 1 .. Len(s) : s[n] = f
    BY <1>15
  <2>4. q[e] \in Int
    BY <1>12
  <2>5. n <= m /\ m <= n
    BY <1>14, <2>1, <2>2, <2>3, <2>4
  <2> QED BY <1>4, <2>2, <2>3, <2>5
<1>17. Len(s) + 1 \in 1 .. Len(s) + 1 /\ \A n \in 1 .. Len(s) : n < Len(s) + 1
  BY <1>4
<1>18. ASSUME b = Nil PROVE S = {}
  BY <1>8, <1>11, <1>15, <1>17, <1>18
<1>19. ASSUME b # Nil PROVE b \in S /\ \A e \in S : q[b] <= q[e]
  <2>1. PICK n \in 1 .. Len(s) : b = s[n] /\ s[n] \in S /\ \A l \in 1 .. Len(s) : s[l] \in S => l <= n
    BY <1>8, <1>11, <1>17, <1>19
  <2>2. ASSUME NEW e \in S PROVE q[b] <= q[e]
    <3>1. PICK l \in 1 .. Len(s) : s[l] = e
      BY <1>15
    <3> QED BY <1>14, <2>1, <3>1
  <2> QED BY <2>1, <2>2
<1>20. ASSUME NEW e \in S, g[e] = Nil PROVE \A f \in S : q[f] <= q[e]
  <2>1. PICK m \in 1 .. Len(s) : s[m] = e
    BY <1>15
  <2>2. m \in 1 .. Len(s) + 1 /\ g[e] = Latest(t, s, j, m)
    BY <1>4, <1>9, <1>13, <2>1
  <2>3. \A n \in 1 .. Len(s) : n < m => s[n] \notin S
    BY <1>11, <1>20, <2>2
  <2>4. SUFFICES ASSUME NEW f \in S PROVE q[f] <= q[e]
    OBVIOUS
  <2>5. PICK n \in 1 .. Len(s) : s[n] = f
    BY <1>15
  <2>6. m <= n
    BY <1>4, <2>3, <2>5
  <2> QED BY <1>14, <2>1, <2>5, <2>6
<1>21. ASSUME NEW e \in S, g[e] # Nil
       PROVE  g[e] \in S /\ q[e] < q[g[e]] /\ \A f \in S : q[f] <= q[e] \/ q[g[e]] <= q[f]
  <2>1. PICK m \in 1 .. Len(s) : s[m] = e
    BY <1>15
  <2>2. m \in 1 .. Len(s) + 1 /\ g[e] = Latest(t, s, j, m)
    BY <1>4, <1>9, <1>13, <2>1
  <2>3. PICK n \in 1 .. Len(s) :
          n < m /\ g[e] = s[n] /\ s[n] \in S /\ \A l \in 1 .. Len(s) : l < m /\ s[l] \in S => l <= n
    BY <1>11, <1>21, <2>2
  <2>4. q[e] < q[g[e]]
    BY <1>14, <2>1, <2>3
  <2>5. ASSUME NEW f \in S PROVE q[f] <= q[e] \/ q[g[e]] <= q[f]
    <3>1. PICK l \in 1 .. Len(s) : s[l] = f
      BY <1>15
    <3>2. m <= l \/ l <= n
      BY <1>4, <2>3, <3>1
    <3> QED BY <1>14, <2>1, <2>3, <3>1, <3>2
  <2> QED BY <2>3, <2>4, <2>5
<1>22. Chained(S, b, g, q)
  BY <1>16, <1>18, <1>19, <1>20, <1>21 DEF Chained
<1>23. b \in Entries \cup {Nil} /\ \A e \in S : RebuiltAfter(t, e) \in Entries \cup {Nil}
  <2>1. \A e \in S : g[e] = Nil \/ g[e] \in S
    BY <1>21
  <2> QED BY <1>6, <1>13, <1>19, <2>1
<1> QED BY <1>22, <1>23 DEF S, b, g, q

LEMMA RebuiltWhole ==
  ASSUME NEW t, NEW p, Whole(t, p), t.level < Digits
  PROVE  LET u == Rebuilt(t)
         IN  /\ \E q : Whole(u, q)
             /\ u.level = t.level + 1 /\ u.key = t.key /\ Used(u) = Used(t)
<1> DEFINE u == Rebuilt(t)
           q == [e \in Entries |-> 0 - p[e]]
<1>1. /\ t \in Table /\ ~t.panic /\ p \in [Entries -> Int] /\ t.numEntries = Cardinality(Used(t))
      /\ t.level \in 1 .. Digits /\ t.numEntries \in 0 .. Cardinality(Entries)
      /\ t.next \in [Entries -> Entries \cup {Nil}] /\ t.hash \in [Entries -> Slots(Digits)]
      /\ t.key \in [Entries -> Keys \cup {NoKey}] /\ t.panic \in BOOLEAN
  BY TableFields DEF Whole
<1>2. /\ Shaped(u) /\ u.level = t.level + 1 /\ u.numEntries = t.numEntries
      /\ u.panic = t.panic /\ u.key = t.key /\ u.hash = t.hash
      /\ u.buckets = [j \in Slots(t.level + 1) |-> RebuiltFirst(t, j)]
      /\ u.next = [e \in Entries |-> RebuiltAfter(t, e)]
  BY <1>1, RebuiltFields
<1>3. t.level + 1 \in 1 .. Digits
  BY <1>1, SizesAssumption
<1> HIDE DEF u
<1>4. Used(u) = Used(t)
  BY <1>2 DEF Used, Unused
<1>5. \A j : Members(u, j) = {e \in Used(t) : Index(t.hash[e], t.level + 1) = j}
  BY <1>2, <1>4 DEF Members, Bucket
<1>6. ASSUME NEW j \in Slots(t.level + 1)
      PROVE  Chained(Members(u, j), u.buckets[j], u.next, q) /\ u.buckets[j] \in Entries \cup {Nil}
  <2>1. u.buckets[j] = RebuiltFirst(t, j)
    BY <1>2
  <2> QED BY <1>2, <1>5, <2>1, RebuiltChained
<1>7. ASSUME NEW e \in Entries PROVE RebuiltAfter(t, e) \in Entries \cup {Nil}
  <2> DEFINE j == Index(t.hash[e], t.level + 1)
             s == Chain(t, j \div Base)
             m == Place(s, e)
  <2>1. t.hash[e] \in Slots(Digits)
    BY <1>1
  <2>2. j \in Slots(t.level + 1)
    BY <1>3, <2>1, IndexRange
  <2>3. j \div Base \in Slots(t.level)
    BY <1>1, <2>2, SlotSplit
  <2>4. InOrder(s, Members(t, j \div Base), p) /\ Members(t, j \div Base) \in SUBSET Entries
    BY <2>3, WholeInOrder, MembersIn
  <2>5. DOMAIN s = 1 .. Len(s) /\ Len(s) \in Nat /\ \A n \in 1 .. Len(s) : s[n] \in Entries
    BY <1>1, <2>4, InOrderOnce DEF InOrder
  <2>6. m \in 1 .. Len(s) \/ m = 0
    BY <2>5, PlaceOf
  <2>7. RebuiltAfter(t, e) = IF m = 0 THEN t.next[e] ELSE Latest(t, s, j, m)
    BY DEF RebuiltAfter
  <2> HIDE DEF s, m, j
  <2>8. m \in Nat
    BY <2>5, <2>6
  <2>9. Latest(t, s, j, m) \in Entries \cup {Nil}
    <3>1. IsLatest(t, s, j, m, Latest(t, s, j, m))
      BY <2>5, <2>8, LatestIs
    <3> QED BY <2>5, <3>1 DEF IsLatest
  <2> QED BY <1>1, <2>7, <2>9
<1>8. /\ u.buckets \in [Slots(u.level) -> Entries \cup {Nil}]
      /\ u.next \in [Entries -> Entries \cup {Nil}]
  <2>1. u.next \in [Entries -> Entries \cup {Nil}]
    BY <1>2, <1>7
  <2>2. \A j \in Slots(t.level + 1) : RebuiltFirst(t, j) \in Entries \cup {Nil}
    BY <1>2, <1>6
  <2> QED BY <1>2, <2>1, <2>2
<1>9. u \in Table
  BY <1>1, <1>2, <1>3, <1>8, TableMade
<1>10. q \in [Entries -> Int]
  BY <1>1
<1> HIDE DEF q
<1>11. \A j \in Slots(u.level) : Chained(Members(u, j), u.buckets[j], u.next, q)
  BY <1>2, <1>6
<1>12. /\ \A e \in Used(u) : u.hash[e] = Hash[u.key[e]]
       /\ \A e, f \in Used(u) : u.key[e] = u.key[f] => e = f
  BY <1>2, <1>4 DEF Whole
<1>13. Whole(u, q)
  BY <1>1, <1>2, <1>4, <1>8, <1>9, <1>10, <1>11, <1>12 DEF Whole
<1> QED BY <1>2, <1>4, <1>13 DEF u

-----------------------------------------------------------------------------
(* A walk through the table.                                               *)

KeysOf(t) == {t.key[e] : e \in Used(t)}

\* The walk has come past row e.
Visited(t, w, p, e) ==
  IF w.nextEntry = Nil THEN Bucket(t, e) < w.nextIndex
  ELSE \/ Bucket(t, e) < w.nextIndex - 1
       \/ Bucket(t, e) = w.nextIndex - 1 /\ p[e] < p[w.nextEntry]

\* Where the walk is in a table whose rows have not been moved: the keys it has come to
\* are those of rows behind it, and those that are there all the time are not left out.
Progress(t, w, p) ==
  /\ w.nextIndex \in 0 .. Power[t.level]
  /\ w.nextEntry # Nil => w.nextEntry \in Used(t) /\ Bucket(t, w.nextEntry) = w.nextIndex - 1
  /\ \A e \in Used(t) : t.key[e] \in w.seen => Visited(t, w, p, e)
  /\ \A e \in Used(t) : t.key[e] \in w.stay /\ Visited(t, w, p, e) => t.key[e] \in w.seen

WalkRight(t, w, p) ==
  /\ w \in Walk
  /\ w.phase = "no" => w = NoWalk
  /\ w.stay \subseteq KeysOf(t) /\ w.seen \subseteq KeysOf(t)
  /\ ~w.moved => ~w.twice
  /\ w.phase = "script" /\ ~w.stray => w.nextEntry \in Used(t) \cup {Nil}
  /\ w.phase = "script" /\ ~w.stray /\ ~w.moved => Progress(t, w, p)
  /\ w.phase = "over" /\ ~w.moved => w.stay \subseteq w.seen

\* The inductive invariant.
HashInv == \E p : Whole(tab, p) /\ WalkRight(tab, walk, p)

-----------------------------------------------------------------------------
(* The commands.                                                           *)

LEMMA StoredWhole ==
  ASSUME NEW t, NEW p, Whole(t, p), NEW e \in Unused(t), NEW k \in Keys,
         \A f \in Used(t) : t.key[f] # k
  PROVE  LET u == Stored(t, e, k)
         IN  /\ u.key = [t.key EXCEPT ![e] = k] /\ Used(u) = Used(t) \cup {e}
             /\ \E q : /\ Whole(u, q)
                       /\ u.level = t.level =>
                            \A f \in Used(t) : q[f] = p[f] /\ Bucket(u, f) = Bucket(t, f)
<1> DEFINE v == Put(t, e, k)
<1>1. /\ v.level = t.level /\ v.key = [t.key EXCEPT ![e] = k]
      /\ Used(v) = Used(t) \cup {e} /\ \A f \in Used(t) : Bucket(v, f) = Bucket(t, f)
  <2>1. v.level = t.level /\ v.key = [t.key EXCEPT ![e] = k]
    BY DEF Put, Whole, Table
  <2>2. Used(v) = Used(t) \cup {e}
    BY PutWhole, Zenon
  <2>3. \A f \in Used(t) : Bucket(v, f) = Bucket(t, f)
    BY PutWhole, Zenon
  <2> QED BY <2>1, <2>2, <2>3
<1>2. PICK q : Whole(v, q) /\ Agree(p, q, Entries \ {e})
  BY PutWhole, Zenon
<1>3. Stored(t, e, k) = IF Full(v) THEN Rebuilt(v) ELSE v
  BY StoredIs
<1> HIDE DEF v
<1>4. \A f \in Used(t) : f \in Entries \ {e}
  BY DEF Used, Unused
<1>5. CASE ~Full(v)
  BY <1>1, <1>2, <1>3, <1>4, <1>5 DEF Agree
<1>6. CASE Full(v)
  <2>1. v \in Table /\ v.numEntries = Cardinality(Used(v)) /\ v.level \in 1 .. Digits
    BY <1>2, TableFields DEF Whole
  <2>2. v.numEntries >= Multiplier * Power[v.level] /\ v.numEntries \in 0 .. Cardinality(Entries)
    BY <1>6, <2>1, UsedCount DEF Full, RebuildSize
  <2>3. v.level # Digits
    <3>1. Digits \in 0 .. Digits /\ Multiplier \in Nat /\ Cardinality(Entries) < Multiplier * Power[Digits]
      BY SizesAssumption
    <3>2. Power[Digits] \in Nat
      BY <3>1, PowerOf
    <3>3. Multiplier * Power[Digits] \in Nat
      BY <3>1, <3>2
    <3> QED BY <2>2, <3>1, <3>3, EntriesCount
  <2>4. v.level < Digits
    BY <2>1, <2>3, SizesAssumption
  <2> DEFINE u == Rebuilt(v)
  <2>5. (\E r : Whole(u, r)) /\ u.level = v.level + 1 /\ u.key = v.key /\ Used(u) = Used(v)
    BY <1>2, <2>4, RebuiltWhole
  <2> HIDE DEF u
  <2>6. u.level # t.level
    BY <1>1, <2>1, <2>5
  <2> QED BY <1>1, <1>3, <1>6, <2>5, <2>6 DEF u
<1> QED BY <1>5, <1>6

LEMMA EmptyWhole == Whole(Empty, [e \in Entries |-> 0]) /\ Used(Empty) = {}
<1> DEFINE z == [e \in Entries |-> 0]
<1>1. Used(Empty) = {}
  BY DEF Used, Unused, Empty
<1>2. 1 \in 1 .. Digits /\ 0 \in Slots(Digits)
  <2>1. Digits \in 0 .. Digits /\ 1 \in 1 .. Digits
    BY SizesAssumption
  <2> QED BY <2>1, PowerOf DEF Slots
<1>3. Shaped(Empty)
  BY DEF Shaped, Empty
<1>4. /\ Empty.level = 1 /\ Empty.numEntries = 0 /\ Empty.panic = FALSE
      /\ Empty.buckets = [i \in Slots(1) |-> Nil] /\ Empty.next = [e \in Entries |-> Nil]
      /\ Empty.hash = [e \in Entries |-> 0] /\ Empty.key = [e \in Entries |-> NoKey]
  BY DEF Empty
<1>5. /\ Empty.buckets \in [Slots(Empty.level) -> Entries \cup {Nil}]
      /\ Empty.next \in [Entries -> Entries \cup {Nil}] /\ Empty.hash \in [Entries -> Slots(Digits)]
      /\ Empty.key \in [Entries -> Keys \cup {NoKey}]
      /\ Empty.numEntries \in 0 .. Cardinality(Entries)
  BY <1>2, <1>4, EntriesCount
<1>6. Empty \in Table
  BY <1>2, <1>3, <1>4, <1>5, TableMade
<1>7. \A i : Members(Empty, i) = {}
  BY <1>1 DEF Members
<1>8. \A i \in Slots(Empty.level) : Chained(Members(Empty, i), Empty.buckets[i], Empty.next, z)
  BY <1>4, <1>7 DEF Chained
<1>9. Empty.numEntries = Cardinality(Used(Empty))
  BY <1>1, <1>4, FS_EmptySet
<1> QED BY <1>1, <1>4, <1>5, <1>6, <1>8, <1>9 DEF Whole

\* A command that moves no row, or says so, and names the rows it frees and the keys
\* that are gone, keeps a walk right.
Keeping(t, u, p, q, moves, freed, gone) ==
  /\ Used(t) \ freed \subseteq Used(u)
  /\ KeysOf(t) \ gone \subseteq KeysOf(u)
  /\ ~moves =>
       /\ u.level = t.level
       /\ \A e \in Used(u) \cap Used(t) :
            u.key[e] = t.key[e] /\ Bucket(u, e) = Bucket(t, e) /\ q[e] = p[e]
       /\ \A e \in Used(u) \ Used(t) : u.key[e] \notin KeysOf(t)

LEMMA WalkingRight ==
  ASSUME NEW t, NEW u, NEW p, NEW q, NEW w, NEW moves \in BOOLEAN, NEW freed, NEW gone,
         WalkRight(t, w, p), w.phase # "over", Keeping(t, u, p, q, moves, freed, gone)
  PROVE  WalkRight(u, Walking(w, moves, freed, gone), q)
<1> DEFINE x == [w EXCEPT !.stay = @ \ gone, !.seen = @ \ gone, !.moved = @ \/ moves,
                          !.stray = @ \/ w.nextEntry \in freed]
<1>1. w \in Walk /\ (w.phase = "no" \/ w.phase = "script")
  BY DEF WalkRight, Walk
<1>2. CASE w.phase = "no"
  <2>1. Walking(w, moves, freed, gone) = NoWalk /\ w = NoWalk
    BY <1>2 DEF Walking, WalkRight
  <2>2. /\ NoWalk.phase = "no" /\ NoWalk.stay = {} /\ NoWalk.seen = {} /\ ~NoWalk.twice
    BY DEF NoWalk
  <2> QED BY <1>1, <2>1, <2>2 DEF WalkRight
<1>3. CASE w.phase = "script"
  <2>1. Walking(w, moves, freed, gone) = x
    BY <1>3 DEF Walking
  <2>2. /\ x.phase = w.phase /\ x.nextIndex = w.nextIndex /\ x.nextEntry = w.nextEntry
        /\ x.stay = w.stay \ gone /\ x.seen = w.seen \ gone /\ x.twice = w.twice
        /\ x.moved = (w.moved \/ moves) /\ x.stray = (w.stray \/ w.nextEntry \in freed)
    BY <1>1 DEF Walk
  <2>3. x \in Walk
    BY <1>1 DEF Walk
  <2> HIDE DEF x
  <2>4. x.stay \subseteq KeysOf(u) /\ x.seen \subseteq KeysOf(u)
    BY <2>2 DEF WalkRight, Keeping
  <2>5. ~x.moved => ~x.twice
    BY <2>2 DEF WalkRight
  <2>6. ASSUME ~x.stray PROVE x.nextEntry \in Used(u) \cup {Nil}
    BY <1>3, <2>2, <2>6 DEF WalkRight, Keeping
  <2>7. ASSUME ~x.stray, ~x.moved PROVE Progress(u, x, q)
    <3>1. /\ ~w.stray /\ ~w.moved /\ ~moves /\ w.nextEntry \notin freed
          /\ Progress(t, w, p) /\ w.nextEntry \in Used(t) \cup {Nil}
      BY <1>3, <2>2, <2>7 DEF WalkRight
    <3>2. /\ u.level = t.level
          /\ \A e \in Used(u) \cap Used(t) :
               u.key[e] = t.key[e] /\ Bucket(u, e) = Bucket(t, e) /\ q[e] = p[e]
          /\ \A e \in Used(u) \ Used(t) : u.key[e] \notin KeysOf(t)
      BY <3>1 DEF Keeping
    <3>3. w.nextEntry # Nil => w.nextEntry \in Used(u) \cap Used(t)
      BY <3>1 DEF Keeping
    <3>4. ASSUME NEW e \in Used(u) \cap Used(t) PROVE Visited(u, x, q, e) <=> Visited(t, w, p, e)
      <4>1. CASE w.nextEntry = Nil
        BY <2>2, <3>2, <4>1 DEF Visited
      <4>2. CASE w.nextEntry # Nil
        BY <2>2, <3>2, <3>3, <4>2 DEF Visited
      <4> QED BY <4>1, <4>2
    <3>5. \A e \in Used(u) \ Used(t) : u.key[e] \notin x.seen /\ u.key[e] \notin x.stay
      BY <2>2, <3>2 DEF WalkRight
    <3>6. ASSUME NEW e \in Used(u), u.key[e] \in x.seen PROVE Visited(u, x, q, e)
      <4>1. e \in Used(u) \cap Used(t) /\ t.key[e] \in w.seen
        BY <2>2, <3>2, <3>5, <3>6
      <4> QED BY <3>1, <3>4, <4>1 DEF Progress
    <3>7. ASSUME NEW e \in Used(u), u.key[e] \in x.stay, Visited(u, x, q, e)
          PROVE  u.key[e] \in x.seen
      <4>1. e \in Used(u) \cap Used(t) /\ t.key[e] \in w.stay /\ t.key[e] \notin gone
            /\ u.key[e] = t.key[e]
        BY <2>2, <3>2, <3>5, <3>7
      <4>2. t.key[e] \in w.seen
        BY <3>1, <3>4, <3>7, <4>1 DEF Progress
      <4> QED BY <2>2, <4>1, <4>2
    <3> QED BY <2>2, <3>1, <3>2, <3>3, <3>6, <3>7 DEF Progress
  <2>8. x.phase = "script"
    BY <1>3, <2>2
  <2> QED BY <2>1, <2>3, <2>4, <2>5, <2>6, <2>7, <2>8 DEF WalkRight
<1> QED BY <1>1, <1>2, <1>3

\* The walk stands before row x of bucket i.
Before(t, w, p, x, i) ==
  /\ x \in Used(t) /\ Bucket(t, x) = i
  /\ \A e \in Used(t) : LET passed == Bucket(t, e) < i \/ (Bucket(t, e) = i /\ p[e] < p[x])
                        IN  /\ t.key[e] \in w.seen => passed
                            /\ t.key[e] \in w.stay /\ passed => t.key[e] \in w.seen

\* A row leads to one of its bucket or to none.
LEMMA NextIs ==
  ASSUME NEW t, NEW p, Whole(t, p), NEW e \in Used(t)
  PROVE  /\ Bucket(t, e) \in Slots(t.level) /\ p[e] \in Int
         /\ t.next[e] = Nil => \A f \in Used(t) : Bucket(t, f) = Bucket(t, e) => p[f] <= p[e]
         /\ t.next[e] # Nil =>
              /\ t.next[e] \in Used(t) /\ Bucket(t, t.next[e]) = Bucket(t, e) /\ p[e] < p[t.next[e]]
              /\ \A f \in Used(t) : Bucket(t, f) = Bucket(t, e) => p[f] <= p[e] \/ p[t.next[e]] <= p[f]
         /\ \A f \in Used(t) : Bucket(t, f) = Bucket(t, e) /\ p[f] = p[e] => f = e
<1> DEFINE i == Bucket(t, e)
<1>1. t \in Table /\ e \in Entries /\ p \in [Entries -> Int]
  BY DEF Whole, Used
<1>2. i \in Slots(t.level)
  BY <1>1, BucketSlot
<1>3. Chained(Members(t, i), t.buckets[i], t.next, p)
  BY <1>2 DEF Whole
<1>4. e \in Members(t, i) /\ \A f : f \in Members(t, i) <=> f \in Used(t) /\ Bucket(t, f) = i
  BY DEF Members
<1> HIDE DEF i
<1>5. /\ t.next[e] = Nil => \A f \in Members(t, i) : p[f] <= p[e]
      /\ t.next[e] # Nil => /\ t.next[e] \in Members(t, i) /\ p[e] < p[t.next[e]]
                            /\ \A f \in Members(t, i) : p[f] <= p[e] \/ p[t.next[e]] <= p[f]
      /\ \A f \in Members(t, i) : p[f] = p[e] => f = e
  BY <1>3, <1>4 DEF Chained
<1> QED BY <1>1, <1>2, <1>4, <1>5 DEF i

LEMMA FirstIs ==
  ASSUME NEW t, NEW p, Whole(t, p), NEW i \in Slots(t.level)
  PROVE  /\ t.buckets[i] = Nil => \A e \in Used(t) : Bucket(t, e) # i
         /\ t.buckets[i] # Nil =>
              /\ t.buckets[i] \in Used(t) /\ Bucket(t, t.buckets[i]) = i
              /\ \A e \in Used(t) : Bucket(t, e) = i => p[t.buckets[i]] <= p[e]
<1>1. Chained(Members(t, i), t.buckets[i], t.next, p)
  BY DEF Whole
<1>2. \A f : f \in Members(t, i) <=> f \in Used(t) /\ Bucket(t, f) = i
  BY DEF Members
<1> QED BY <1>1, <1>2 DEF Chained

\* What ComeTo makes of a walk that stands before the row.
LEMMA ComeToRight ==
  ASSUME NEW p, Whole(tab, p), NEW w \in Walk, NEW x \in Used(tab), NEW i \in Slots(tab.level),
         w.stay \subseteq KeysOf(tab), w.seen \subseteq KeysOf(tab),
         ~w.moved => ~w.twice /\ w.nextIndex = i + 1 /\ Before(tab, w, p, x, i)
  PROVE  WalkRight(tab, ComeTo(w, x), p)
<1> DEFINE y == tab.next[x]
           v == ComeTo(w, x)
<1>1. /\ tab \in Table /\ x \in Entries /\ tab.next \in [Entries -> Entries \cup {Nil}]
      /\ tab.key[x] \in Keys /\ Nil \notin Entries /\ tab.level \in 1 .. Digits
  BY TableFields, UsedIs, SizesAssumption DEF Whole
<1>2. /\ v.phase = "script" /\ v.nextIndex = w.nextIndex /\ v.nextEntry = y
      /\ v.stay = w.stay /\ v.seen = w.seen \cup {tab.key[x]}
      /\ v.twice = (w.twice \/ tab.key[x] \in w.seen) /\ v.moved = w.moved /\ v.stray = w.stray
  BY DEF Walk, ComeTo
<1>3. v \in Walk
  BY <1>1 DEF Walk, ComeTo
<1> HIDE DEF v
<1>4. v.stay \subseteq KeysOf(tab) /\ v.seen \subseteq KeysOf(tab)
  BY <1>2 DEF KeysOf
<1>5. y \in Used(tab) \cup {Nil}
  BY NextIs
<1>6. ASSUME ~v.moved PROVE ~v.twice /\ Progress(tab, v, p)
  <2>1. /\ ~w.twice /\ w.nextIndex = i + 1 /\ Bucket(tab, x) = i
        /\ \A e \in Used(tab) :
             LET passed == Bucket(tab, e) < i \/ (Bucket(tab, e) = i /\ p[e] < p[x])
             IN  /\ tab.key[e] \in w.seen => passed
                 /\ tab.key[e] \in w.stay /\ passed => tab.key[e] \in w.seen
    BY <1>2, <1>6 DEF Before
  <2>2. \A e \in Used(tab) : Bucket(tab, e) \in Nat /\ p[e] \in Int
    <3>1. SUFFICES ASSUME NEW e \in Used(tab) PROVE Bucket(tab, e) \in Nat /\ p[e] \in Int
      OBVIOUS
    <3>2. Bucket(tab, e) \in Slots(tab.level) /\ p[e] \in Int
      BY NextIs
    <3> QED BY <3>2 DEF Slots
  <2>3. i \in Nat /\ i + 1 \in 0 .. Power[tab.level]
    <3>1. tab.level \in 0 .. Digits
      BY <1>1
    <3>2. Power[tab.level] \in Nat
      BY <3>1, PowerOf
    <3> QED BY <3>2 DEF Slots
  <2>4. tab.key[x] \notin w.seen
    BY <2>1, <2>2
  <2>5. \A e \in Used(tab) : tab.key[e] = tab.key[x] => e = x
    BY DEF Whole
  <2>6. ASSUME NEW e \in Used(tab)
        PROVE  Visited(tab, v, p, e) <=>
                 e = x \/ Bucket(tab, e) < i \/ (Bucket(tab, e) = i /\ p[e] < p[x])
    <3>1. Bucket(tab, e) \in Nat /\ p[e] \in Int /\ p[x] \in Int
      BY <2>2
    <3>2. Bucket(tab, e) = i /\ p[e] = p[x] => e = x
      BY <2>1, NextIs
    <3>3. CASE y = Nil
      <4>1. Bucket(tab, e) = i => p[e] <= p[x]
        BY <2>1, <3>3, NextIs
      <4>2. Visited(tab, v, p, e) <=> Bucket(tab, e) < i + 1
        BY <1>2, <2>1, <3>3 DEF Visited
      <4> QED BY <2>1, <2>3, <3>1, <3>2, <4>1, <4>2
    <3>4. CASE y # Nil
      <4>1. /\ y \in Used(tab) /\ p[x] < p[y]
            /\ Bucket(tab, e) = i => p[e] <= p[x] \/ p[y] <= p[e]
        BY <2>1, <3>4, NextIs
      <4>2. Visited(tab, v, p, e) <=>
              Bucket(tab, e) < (i + 1) - 1 \/ (Bucket(tab, e) = (i + 1) - 1 /\ p[e] < p[y])
        BY <1>2, <2>1, <3>4 DEF Visited
      <4>3. (i + 1) - 1 = i /\ p[y] \in Int
        BY <2>2, <2>3, <4>1
      <4> HIDE DEF y
      <4> QED BY <2>1, <2>3, <3>1, <3>2, <4>1, <4>2, <4>3
    <3> QED BY <3>3, <3>4
  <2>7. ~v.twice
    BY <1>2, <2>1, <2>4
  <2>8. v.nextIndex \in 0 .. Power[tab.level]
    BY <1>2, <2>1, <2>3
  <2>9. ASSUME v.nextEntry # Nil
        PROVE  v.nextEntry \in Used(tab) /\ Bucket(tab, v.nextEntry) = v.nextIndex - 1
    <3>1. y \in Used(tab) /\ Bucket(tab, y) = i
      BY <1>2, <2>1, <2>9, NextIs
    <3> QED BY <1>2, <2>1, <2>3, <3>1
  <2>10. ASSUME NEW e \in Used(tab), tab.key[e] \in v.seen PROVE Visited(tab, v, p, e)
    BY <1>2, <2>1, <2>5, <2>6, <2>10
  <2>11. ASSUME NEW e \in Used(tab), tab.key[e] \in v.stay, Visited(tab, v, p, e)
         PROVE  tab.key[e] \in v.seen
    BY <1>2, <2>1, <2>6, <2>11
  <2> QED BY <2>7, <2>8, <2>9, <2>10, <2>11 DEF Progress
<1>7. v.phase # "no" /\ v.phase # "over" /\ v.nextEntry \in Used(tab) \cup {Nil}
  BY <1>2, <1>5
<1> HIDE DEF y
<1> QED BY <1>3, <1>4, <1>6, <1>7 DEF WalkRight, v

\* ctable_NextHashEntry keeps a walk right.
LEMMA AdvanceRight ==
  ASSUME NEW p, Whole(tab, p), NEW w \in Walk,
         w.stay \subseteq KeysOf(tab), w.seen \subseteq KeysOf(tab),
         w.nextEntry \in Used(tab) \cup {Nil},
         ~w.moved => ~w.twice /\ Progress(tab, w, p)
  PROVE  WalkRight(tab, Advance(w), p)
<1> DEFINE i == CHOOSE j \in Ahead(w) : \A l \in Ahead(w) : j <= l
           v == [w EXCEPT !.nextIndex = i + 1]
<1>1. Advance(w) = IF w.nextEntry # Nil THEN ComeTo(w, w.nextEntry)
                   ELSE IF Ahead(w) = {} THEN [w EXCEPT !.phase = "over"]
                   ELSE ComeTo(v, tab.buckets[i])
  BY DEF Advance
<1>2. tab \in Table /\ tab.level \in 1 .. Digits /\ tab.level \in 0 .. Digits /\ Nil \notin Entries
  BY TableFields, SizesAssumption DEF Whole
<1>3. Power[tab.level] \in Nat \ {0} /\ Power[tab.level] <= Power[Digits] /\ Power[Digits] \in Nat
  <2>1. Digits \in 0 .. Digits
    BY SizesAssumption
  <2> QED BY <1>2, <2>1, PowerOf, PowerGrows
<1>4. \A e \in Used(tab) : Bucket(tab, e) \in Slots(tab.level) /\ p[e] \in Int
  BY NextIs
<1>5. CASE w.nextEntry # Nil
  <2> DEFINE x == w.nextEntry
             j == Bucket(tab, x)
  <2>1. x \in Used(tab) /\ j \in Slots(tab.level) /\ j \in Nat
    BY <1>4, <1>5 DEF Slots
  <2>2. ASSUME ~w.moved PROVE ~w.twice /\ w.nextIndex = j + 1 /\ Before(tab, w, p, x, j)
    <3>1. /\ ~w.twice /\ j = w.nextIndex - 1 /\ w.nextIndex \in Nat
          /\ \A e \in Used(tab) : tab.key[e] \in w.seen => Visited(tab, w, p, e)
          /\ \A e \in Used(tab) :
               tab.key[e] \in w.stay /\ Visited(tab, w, p, e) => tab.key[e] \in w.seen
      BY <1>3, <1>5, <2>2 DEF Progress
    <3>2. \A e \in Used(tab) :
            Visited(tab, w, p, e) <=> Bucket(tab, e) < j \/ (Bucket(tab, e) = j /\ p[e] < p[x])
      BY <1>5, <3>1 DEF Visited
    <3> QED BY <2>1, <3>1, <3>2 DEF Before
  <2> HIDE DEF x, j
  <2>3. WalkRight(tab, ComeTo(w, x), p)
    BY <2>1, <2>2, ComeToRight
  <2> QED BY <1>1, <1>5, <2>3 DEF x
<1>6. CASE w.nextEntry = Nil /\ Ahead(w) = {}
  <2> DEFINE o == [w EXCEPT !.phase = "over"]
  <2>1. /\ o \in Walk /\ o.phase = "over" /\ o.stay = w.stay /\ o.seen = w.seen
        /\ o.twice = w.twice /\ o.moved = w.moved
    BY DEF Walk
  <2>2. ASSUME ~w.moved, NEW k \in w.stay PROVE k \in w.seen
    <3>1. PICK e \in Used(tab) : tab.key[e] = k
      BY DEF KeysOf
    <3>2. Bucket(tab, e) \in Slots(tab.level) /\ tab.buckets[Bucket(tab, e)] # Nil
      BY <1>4, FirstIs
    <3>3. ~ (Bucket(tab, e) >= w.nextIndex)
      BY <1>6, <3>2 DEF Ahead
    <3>4. Progress(tab, w, p) /\ w.nextIndex \in Nat /\ Bucket(tab, e) \in Nat
      BY <1>3, <2>2, <3>2 DEF Progress, Slots
    <3>5. Visited(tab, w, p, e)
      BY <1>6, <3>3, <3>4 DEF Visited
    <3> QED BY <3>1, <3>4, <3>5 DEF Progress
  <2> HIDE DEF o
  <2>3. WalkRight(tab, o, p)
    BY <2>1, <2>2 DEF WalkRight
  <2> QED BY <1>1, <1>6, <2>3 DEF o
<1>7. CASE w.nextEntry = Nil /\ Ahead(w) # {}
  <2> DEFINE x == tab.buckets[i]
  <2>1. i \in Ahead(w) /\ \A l \in Ahead(w) : i <= l
    <3>1. Ahead(w) \subseteq Nat
      BY <1>3 DEF Ahead, Slots
    <3>2. \E j \in Ahead(w) : \A l \in Ahead(w) : j <= l
      BY <1>7, <3>1, LeastNatural
    <3> QED BY <3>2
  <2> HIDE DEF i
  <2>2. i \in Slots(tab.level) /\ i \in Nat /\ i >= w.nextIndex /\ x # Nil
    BY <1>3, <2>1 DEF Ahead, Slots
  <2>3. i + 1 \in 0 .. Power[Digits]
    BY <1>3, <2>2 DEF Slots
  <2>4. /\ v \in Walk /\ v.nextIndex = i + 1 /\ v.stay = w.stay /\ v.seen = w.seen
        /\ v.twice = w.twice /\ v.moved = w.moved
    BY <2>3 DEF Walk
  <2> HIDE DEF v
  <2>5. /\ x \in Used(tab) /\ Bucket(tab, x) = i
        /\ \A e \in Used(tab) : Bucket(tab, e) = i => p[x] <= p[e]
    BY <2>2, FirstIs
  <2>6. ASSUME ~w.moved PROVE ~w.twice /\ Before(tab, w, p, x, i)
    <3>1. /\ ~w.twice /\ w.nextIndex \in Nat
          /\ \A e \in Used(tab) : tab.key[e] \in w.seen => Visited(tab, w, p, e)
          /\ \A e \in Used(tab) :
               tab.key[e] \in w.stay /\ Visited(tab, w, p, e) => tab.key[e] \in w.seen
      BY <1>3, <2>6 DEF Progress
    <3>2. ASSUME NEW e \in Used(tab)
          PROVE  Visited(tab, w, p, e) <=> Bucket(tab, e) < i \/ (Bucket(tab, e) = i /\ p[e] < p[x])
      <4>1. Bucket(tab, e) \in Nat /\ Bucket(tab, e) \in Slots(tab.level) /\ p[e] \in Int /\ p[x] \in Int
        BY <1>4, <2>5 DEF Slots
      <4>2. ~ (Bucket(tab, e) = i /\ p[e] < p[x])
        BY <2>5, <4>1
      <4>3. tab.buckets[Bucket(tab, e)] # Nil
        BY <4>1, FirstIs
      <4>4. Bucket(tab, e) >= w.nextIndex => i <= Bucket(tab, e)
        BY <2>1, <4>1, <4>3 DEF Ahead
      <4>5. Visited(tab, w, p, e) <=> Bucket(tab, e) < w.nextIndex
        BY <1>7 DEF Visited
      <4> QED BY <2>2, <3>1, <4>1, <4>2, <4>4, <4>5
    <3> QED BY <2>5, <3>1, <3>2 DEF Before
  <2>7. ~v.moved => ~v.twice /\ v.nextIndex = i + 1 /\ Before(tab, v, p, x, i)
    BY <2>4, <2>6 DEF Before
  <2> HIDE DEF x
  <2>8. WalkRight(tab, ComeTo(v, x), p)
    BY <2>2, <2>4, <2>5, <2>7, ComeToRight
  <2> QED BY <1>1, <1>7, <2>8 DEF x
<1> QED BY <1>5, <1>6, <1>7

-----------------------------------------------------------------------------
(* What the commands do to what is found.                                  *)

\* What is found under each key is the row that has it.
MapOf(t) == [k \in Keys |-> Find(t, k)]

LEMMA MapIs ==
  ASSUME NEW t, NEW p, Whole(t, p), NEW k \in Keys
  PROVE  /\ \A e \in Used(t) : t.key[e] = k <=> MapOf(t)[k] = e
         /\ MapOf(t)[k] = Nil <=> \A e \in Used(t) : t.key[e] # k
         /\ MapOf(t)[k] # Nil => MapOf(t)[k] \in Used(t)
<1>1. Nil \notin Used(t)
  BY SizesAssumption DEF Used
<1>2. MapOf(t)[k] = Find(t, k)
  BY DEF MapOf
<1> QED BY <1>1, <1>2, FindIs, FoundIs

Finds(t, f) ==
  /\ f = [k \in Keys |-> f[k]]
  /\ \A k \in Keys, e \in Used(t) : t.key[e] = k => f[k] = e
  /\ \A k \in Keys : (\A e \in Used(t) : t.key[e] # k) => f[k] = Nil

LEMMA MapMade ==
  ASSUME NEW t, NEW p, Whole(t, p), NEW f, Finds(t, f)
  PROVE  MapOf(t) = f
<1>1. ASSUME NEW k \in Keys PROVE f[k] = Find(t, k)
  <2>1. \A e \in Used(t) : t.key[e] = k => f[k] = e
    BY DEF Finds
  <2>2. (\A e \in Used(t) : t.key[e] # k) => f[k] = Nil
    BY DEF Finds
  <2> QED BY <2>1, <2>2, FindIs
<1>2. MapOf(t) = [k \in Keys |-> Find(t, k)]
  BY DEF MapOf
<1>3. f = [k \in Keys |-> Find(t, k)]
  <2>1. f = [k \in Keys |-> f[k]]
    BY DEF Finds
  <2> QED BY <1>1, <2>1
<1> QED BY <1>2, <1>3

LEMMA KeyOfUsed ==
  ASSUME NEW t, NEW p, Whole(t, p), NEW e \in Used(t)
  PROVE  t.key[e] \in Keys /\ e \in Entries /\ t.key \in [Entries -> Keys \cup {NoKey}]
BY TableFields, UsedIs DEF Whole

\* A row that is stored is found, and all others are found as before.
LEMMA MapStored ==
  ASSUME NEW t, NEW p, Whole(t, p), NEW u, NEW q, Whole(u, q),
         NEW e \in Unused(t), NEW k \in Keys, MapOf(t)[k] = Nil,
         u.key = [t.key EXCEPT ![e] = k], Used(u) = Used(t) \cup {e}
  PROVE  MapOf(u) = [MapOf(t) EXCEPT ![k] = e]
<1> DEFINE f == [MapOf(t) EXCEPT ![k] = e]
<1>1. e \in Entries /\ e \notin Used(t) /\ t.key \in [Entries -> Keys \cup {NoKey}]
  BY TableFields DEF Whole, Used, Unused
<1>2. u.key[e] = k /\ \A d \in Used(t) : d # e /\ u.key[d] = t.key[d]
  BY <1>1 DEF Used
<1>3. f[k] = e /\ (\A l \in Keys \ {k} : f[l] = MapOf(t)[l]) /\ f = [l \in Keys |-> f[l]]
  BY DEF MapOf
<1> HIDE DEF f
<1>4. ASSUME NEW l \in Keys, NEW d \in Used(u), u.key[d] = l PROVE f[l] = d
  <2>1. CASE d = e
    BY <1>2, <1>3, <1>4, <2>1
  <2>2. CASE d # e
    <3>1. d \in Used(t) /\ t.key[d] = l
      BY <1>2, <1>4, <2>2
    <3>2. l # k
      BY <3>1, MapIs
    <3> QED BY <1>3, <3>1, <3>2, MapIs
  <2> QED BY <2>1, <2>2
<1>5. ASSUME NEW l \in Keys, \A d \in Used(u) : u.key[d] # l PROVE f[l] = Nil
  <2>1. l # k
    BY <1>2, <1>5
  <2>2. \A d \in Used(t) : t.key[d] # l
    BY <1>2, <1>5
  <2> QED BY <1>3, <2>1, <2>2, MapIs
<1>6. Finds(u, f)
  BY <1>3, <1>4, <1>5 DEF Finds
<1>7. MapOf(u) = f
  BY <1>6, MapMade
<1> QED BY <1>7 DEF f

\* A row that is taken out is found no more, and all others are found as before.
LEMMA MapDeleted ==
  ASSUME NEW t, NEW p, Whole(t, p), NEW u, NEW q, Whole(u, q),
         NEW k \in Keys, NEW e \in Used(t), t.key[e] = k,
         u.key = [t.key EXCEPT ![e] = NoKey], Used(u) = Used(t) \ {e}
  PROVE  MapOf(u) = [MapOf(t) EXCEPT ![k] = Nil]
<1> DEFINE f == [MapOf(t) EXCEPT ![k] = Nil]
<1>1. e \in Entries /\ t.key \in [Entries -> Keys \cup {NoKey}]
  BY TableFields DEF Whole, Used
<1>2. \A d \in Used(u) : d \in Used(t) /\ d # e /\ u.key[d] = t.key[d]
  BY <1>1 DEF Used
<1>3. f[k] = Nil /\ (\A l \in Keys \ {k} : f[l] = MapOf(t)[l]) /\ f = [l \in Keys |-> f[l]]
  BY DEF MapOf
<1> HIDE DEF f
<1>4. ASSUME NEW l \in Keys, NEW d \in Used(u), u.key[d] = l PROVE f[l] = d
  <2>1. d \in Used(t) /\ d # e /\ t.key[d] = l
    BY <1>2, <1>4
  <2>2. l # k
    BY <2>1 DEF Whole
  <2> QED BY <1>3, <2>1, <2>2, MapIs
<1>5. ASSUME NEW l \in Keys, \A d \in Used(u) : u.key[d] # l PROVE f[l] = Nil
  <2>1. CASE l = k
    BY <1>3, <2>1
  <2>2. CASE l # k
    <3>1. \A d \in Used(t) : t.key[d] # l
      BY <1>2, <1>5, <2>2
    <3> QED BY <1>3, <2>2, <3>1, MapIs
  <2> QED BY <2>1, <2>2
<1>6. Finds(u, f)
  BY <1>3, <1>4, <1>5 DEF Finds
<1>7. MapOf(u) = f
  BY <1>6, MapMade
<1> QED BY <1>7 DEF f

LEMMA MapEmpty == MapOf(Empty) = [k \in Keys |-> Nil]
<1>1. \A k \in Keys : Find(Empty, k) = Nil
  BY EmptyWhole, FindIs
<1> QED BY <1>1 DEF MapOf

-----------------------------------------------------------------------------
(* The inductive invariant is kept.                                        *)

LEMMA NoWalkRight ==
  ASSUME NEW t, NEW p
  PROVE  WalkRight(t, NoWalk, p)
<1>1. 0 \in 0 .. Power[Digits]
  BY SizesAssumption, PowerOf
<1>2. NoWalk \in Walk
  BY <1>1 DEF NoWalk, Walk
<1>3. NoWalk.phase = "no" /\ NoWalk.stay = {} /\ NoWalk.seen = {} /\ ~NoWalk.twice
  BY DEF NoWalk
<1> QED BY <1>2, <1>3 DEF WalkRight

LEMMA HashInit ==
  ASSUME Init
  PROVE  HashInv /\ MapOf(tab) = [k \in Keys |-> Nil]
BY EmptyWhole, NoWalkRight, MapEmpty DEF Init, HashInv

\* A row is stored that was not in use.
LEMMA StoreKeeps ==
  ASSUME HashInv, NEW k \in Keys, NEW e \in Entries, Store(k, e)
  PROVE  /\ HashInv'
         /\ MapOf(tab)[k] = Nil /\ \A l \in Keys : MapOf(tab)[l] # e
         /\ MapOf(tab)' = [MapOf(tab) EXCEPT ![k] = e]
<1> DEFINE moves == tab'.level # tab.level
<1>1. PICK p : Whole(tab, p) /\ WalkRight(tab, walk, p)
  BY DEF HashInv
<1>2. /\ Find(tab, k) = Nil /\ e \in Unused(tab) /\ e \notin Used(tab) /\ e # Nil
      /\ walk.phase # "over" /\ tab' = Stored(tab, e, k)
      /\ walk' = Walking(walk, moves, {}, {})
  BY SizesAssumption DEF Store, Runs, Used, Unused
<1>3. \A f \in Used(tab) : tab.key[f] # k
  BY <1>1, <1>2, FoundIs
<1>4. /\ tab'.key = [tab.key EXCEPT ![e] = k] /\ Used(tab') = Used(tab) \cup {e}
      /\ \E q : /\ Whole(tab', q)
                /\ tab'.level = tab.level =>
                     \A f \in Used(tab) : q[f] = p[f] /\ Bucket(tab', f) = Bucket(tab, f)
  BY <1>1, <1>2, <1>3, StoredWhole
<1>5. PICK q : /\ Whole(tab', q)
               /\ tab'.level = tab.level =>
                    \A f \in Used(tab) : q[f] = p[f] /\ Bucket(tab', f) = Bucket(tab, f)
  BY <1>4
<1>6. /\ tab.key \in [Entries -> Keys \cup {NoKey}] /\ tab'.key[e] = k
      /\ \A f \in Used(tab) : f # e /\ tab'.key[f] = tab.key[f]
  BY <1>1, <1>2, <1>4, TableFields DEF Whole, Used
<1>7. Keeping(tab, tab', p, q, moves, {}, {})
  <2>1. KeysOf(tab) \subseteq KeysOf(tab')
    BY <1>4, <1>6 DEF KeysOf
  <2>2. k \notin KeysOf(tab)
    BY <1>3 DEF KeysOf
  <2> QED BY <1>4, <1>5, <1>6, <2>1, <2>2 DEF Keeping
<1>8. WalkRight(tab', walk', q)
  BY <1>1, <1>2, <1>7, WalkingRight
<1>9. MapOf(tab)[k] = Nil
  BY <1>2 DEF MapOf
<1>10. MapOf(tab') = [MapOf(tab) EXCEPT ![k] = e]
  BY <1>1, <1>2, <1>4, <1>5, <1>9, MapStored
<1>11. \A l \in Keys : MapOf(tab)[l] # e
  BY <1>1, <1>2, MapIs
<1> QED BY <1>5, <1>8, <1>9, <1>10, <1>11 DEF HashInv

\* A row is taken out.
LEMMA DeleteKeeps ==
  ASSUME HashInv, NEW k \in Keys, Delete(k)
  PROVE  /\ HashInv'
         /\ MapOf(tab)[k] # Nil /\ MapOf(tab)' = [MapOf(tab) EXCEPT ![k] = Nil]
<1> DEFINE e == Find(tab, k)
           d == Deleted(tab, e)
<1>1. PICK p : Whole(tab, p) /\ WalkRight(tab, walk, p)
  BY DEF HashInv
<1>2. /\ e # Nil /\ walk.phase # "over"
      /\ tab' = Cleared(d, e) /\ walk' = Walking(walk, FALSE, {e}, {k})
  BY DEF Delete, Runs
<1>3. e \in Used(tab) /\ tab.key[e] = k
  BY <1>1, <1>2, FoundIs
<1>4. MapOf(tab)[k] # Nil
  BY <1>2 DEF MapOf
<1> HIDE DEF e
<1>5. /\ Whole(d, p) /\ d.level = tab.level /\ d.key = [tab.key EXCEPT ![e] = NoKey]
      /\ Used(d) = Used(tab) \ {e} /\ \A f \in Entries : Bucket(d, f) = Bucket(tab, f)
  BY <1>1, <1>3, DeletedWhole
<1>6. e \in Unused(d)
  BY <1>3, <1>5 DEF Used
<1> HIDE DEF d
<1>7. /\ Whole(tab', p) /\ tab'.level = d.level /\ tab'.key = d.key
      /\ Used(tab') = Used(d) /\ \A f \in Used(d) : Bucket(tab', f) = Bucket(d, f)
  BY <1>2, <1>5, <1>6, ClearedWhole
<1>8. /\ tab.key \in [Entries -> Keys \cup {NoKey}]
      /\ \A f \in Used(tab') : f \in Entries /\ f # e /\ tab'.key[f] = tab.key[f]
  BY <1>1, <1>5, <1>7, TableFields DEF Whole, Used
<1>9. Keeping(tab, tab', p, p, FALSE, {e}, {k})
  <2>1. KeysOf(tab) \ {k} \subseteq KeysOf(tab')
    BY <1>3, <1>5, <1>7, <1>8 DEF KeysOf
  <2> QED BY <1>5, <1>7, <1>8, <2>1 DEF Keeping
<1>10. WalkRight(tab', walk', p)
  BY <1>1, <1>2, <1>9, WalkingRight
<1>11. MapOf(tab') = [MapOf(tab) EXCEPT ![k] = Nil]
  BY <1>1, <1>3, <1>5, <1>7, MapDeleted
<1> QED BY <1>4, <1>7, <1>10, <1>11 DEF HashInv

\* A row gets another key.
LEMMA RenameKeeps ==
  ASSUME HashInv, NEW k \in Keys, NEW l \in Keys, Rename(k, l)
  PROVE  /\ HashInv'
         /\ MapOf(tab)[k] # Nil /\ MapOf(tab)[l] = Nil
         /\ MapOf(tab)' = [MapOf(tab) EXCEPT ![l] = MapOf(tab)[k], ![k] = Nil]
<1> DEFINE e == Find(tab, k)
           d == Deleted(tab, e)
<1>1. PICK p : Whole(tab, p) /\ WalkRight(tab, walk, p)
  BY DEF HashInv
<1>2. /\ e # Nil /\ Find(tab, l) = Nil /\ walk.phase # "over"
      /\ tab' = Stored(d, e, l) /\ walk' = Walking(walk, TRUE, {}, {k})
  BY DEF Rename, Runs
<1>3. e \in Used(tab) /\ tab.key[e] = k
  BY <1>1, <1>2, FoundIs
<1>4. MapOf(tab)[k] = e /\ MapOf(tab)[l] = Nil
  BY <1>2 DEF MapOf
<1> HIDE DEF e
<1>5. k # l
  BY <1>2, <1>4
<1>6. /\ Whole(d, p) /\ d.level = tab.level /\ d.key = [tab.key EXCEPT ![e] = NoKey]
      /\ Used(d) = Used(tab) \ {e}
  BY <1>1, <1>3, DeletedWhole
<1>7. e \in Unused(d)
  BY <1>3, <1>6 DEF Used
<1> HIDE DEF d
<1>8. /\ tab.key \in [Entries -> Keys \cup {NoKey}]
      /\ \A f \in Used(d) : f \in Entries /\ f # e /\ f \in Used(tab) /\ d.key[f] = tab.key[f]
  BY <1>1, <1>6, TableFields DEF Whole, Used
<1>9. \A f \in Used(d) : d.key[f] # l
  BY <1>1, <1>2, <1>8, FoundIs
<1>10. /\ tab'.key = [d.key EXCEPT ![e] = l] /\ Used(tab') = Used(d) \cup {e}
       /\ \E q : Whole(tab', q)
  <2>1. Whole(d, p)
    BY <1>6
  <2>2. LET u == Stored(d, e, l)
        IN  /\ u.key = [d.key EXCEPT ![e] = l] /\ Used(u) = Used(d) \cup {e}
            /\ \E q : /\ Whole(u, q)
                      /\ u.level = d.level =>
                           \A f \in Used(d) : q[f] = p[f] /\ Bucket(u, f) = Bucket(d, f)
    BY <1>7, <1>9, <2>1, StoredWhole
  <2> QED BY <1>2, <2>2
<1>11. PICK q : Whole(tab', q)
  BY <1>10
<1>12. Used(tab') = Used(tab) /\ \A f \in Used(tab) \ {e} : tab'.key[f] = tab.key[f]
  BY <1>3, <1>6, <1>8, <1>10 DEF Used
<1>13. Keeping(tab, tab', p, q, TRUE, {}, {k})
  <2>1. KeysOf(tab) \ {k} \subseteq KeysOf(tab')
    BY <1>3, <1>12 DEF KeysOf
  <2> QED BY <1>12, <2>1 DEF Keeping
<1>14. WalkRight(tab', walk', q)
  BY <1>1, <1>2, <1>13, WalkingRight
<1>15. MapOf(d) = [MapOf(tab) EXCEPT ![k] = Nil]
  BY <1>1, <1>3, <1>6, MapDeleted
<1>16. MapOf(tab') = [MapOf(d) EXCEPT ![l] = e]
  <2>1. MapOf(d)[l] = Nil
    BY <1>4, <1>5, <1>15 DEF MapOf
  <2> QED BY <1>6, <1>7, <1>10, <1>11, <2>1, MapStored
<1>17. MapOf(tab') = [MapOf(tab) EXCEPT ![l] = MapOf(tab)[k], ![k] = Nil]
  <2> DEFINE m == MapOf(tab)
  <2>1. m = [x \in Keys |-> m[x]]
    BY DEF MapOf
  <2> HIDE DEF m
  <2> QED BY <1>4, <1>5, <1>15, <1>16, <2>1 DEF m
<1>18. e # Nil
  BY <1>2
<1> QED BY <1>4, <1>11, <1>14, <1>17, <1>18 DEF HashInv

LEMMA ResetKeeps ==
  ASSUME HashInv, Reset
  PROVE  HashInv' /\ MapOf(tab)' = [k \in Keys |-> Nil]
<1>1. PICK p : Whole(tab, p) /\ WalkRight(tab, walk, p)
  BY DEF HashInv
<1>2. /\ tab' = Empty /\ walk' = Walking(walk, TRUE, Entries, Keys) /\ walk.phase # "over"
  BY DEF Reset, Runs
<1> DEFINE q == [e \in Entries |-> 0]
<1>3. Whole(tab', q) /\ Used(tab') = {}
  BY <1>2, EmptyWhole
<1>4. Keeping(tab, tab', p, q, TRUE, Entries, Keys)
  <2>1. KeysOf(tab) \subseteq Keys
    BY <1>1, KeyOfUsed DEF KeysOf
  <2>2. Used(tab) \subseteq Entries
    BY DEF Used
  <2> QED BY <2>1, <2>2 DEF Keeping
<1> HIDE DEF q
<1>5. WalkRight(tab', walk', q)
  BY <1>1, <1>2, <1>4, WalkingRight
<1> QED BY <1>2, <1>3, <1>5, MapEmpty DEF HashInv

\* A foreach begins: nothing is behind it.
LEMMA ForeachKeeps ==
  ASSUME HashInv, Foreach
  PROVE  HashInv' /\ tab' = tab
<1> DEFINE w == [NoWalk EXCEPT !.stay = {tab.key[e] : e \in Entries} \ {NoKey}]
<1>1. PICK p : Whole(tab, p) /\ WalkRight(tab, walk, p)
  BY DEF HashInv
<1>2. tab' = tab /\ walk' = Advance(w)
  BY DEF Foreach
<1>3. /\ w.stay = {tab.key[e] : e \in Entries} \ {NoKey} /\ w.seen = {} /\ w.nextIndex = 0
      /\ w.nextEntry = Nil /\ ~w.twice
      /\ w = [x \in {"phase", "nextIndex", "nextEntry", "stay", "seen", "twice", "moved",
                     "stray"} |-> w[x]]
      /\ w.phase = "no" /\ w.moved = FALSE /\ w.stray = FALSE /\ w.twice = FALSE
  BY DEF NoWalk
<1> HIDE DEF w
<1>4. w.stay \subseteq KeysOf(tab) /\ w.stay \subseteq Keys
  <2>1. KeysOf(tab) \subseteq Keys
    BY <1>1, KeyOfUsed DEF KeysOf
  <2>2. w.stay \subseteq KeysOf(tab)
    BY <1>3, UsedIs DEF KeysOf
  <2> QED BY <2>1, <2>2
<1>5. tab \in Table /\ tab.level \in 1 .. Digits /\ tab.level \in 0 .. Digits /\ Digits \in 0 .. Digits
  BY <1>1, TableFields, SizesAssumption DEF Whole
<1>6. 0 \in 0 .. Power[Digits] /\ 0 \in 0 .. Power[tab.level]
  BY <1>5, PowerOf
<1>7. w \in Walk
  BY <1>3, <1>4, <1>6 DEF Walk
<1>8. Progress(tab, w, p)
  <2>1. \A e \in Used(tab) : ~Visited(tab, w, p, e)
    <3>1. SUFFICES ASSUME NEW e \in Used(tab) PROVE ~Visited(tab, w, p, e)
      OBVIOUS
    <3>2. Bucket(tab, e) \in Nat
      BY <1>5, BucketSlot, PowerOf DEF Slots, Used
    <3> QED BY <1>3, <3>2 DEF Visited
  <2> QED BY <1>3, <1>6, <2>1 DEF Progress
<1>9. WalkRight(tab, Advance(w), p)
  BY <1>1, <1>3, <1>4, <1>7, <1>8, AdvanceRight
<1> QED BY <1>1, <1>2, <1>9 DEF HashInv

LEMMA NextRowKeeps ==
  ASSUME HashInv, NextRow
  PROVE  HashInv' /\ tab' = tab
<1>1. PICK p : Whole(tab, p) /\ WalkRight(tab, walk, p)
  BY DEF HashInv
<1>2. tab' = tab /\ walk' = Advance(walk) /\ walk.phase = "script" /\ ~walk.stray
  BY DEF NextRow
<1>3. /\ walk \in Walk /\ walk.stay \subseteq KeysOf(tab) /\ walk.seen \subseteq KeysOf(tab)
      /\ walk.nextEntry \in Used(tab) \cup {Nil}
      /\ ~walk.moved => ~walk.twice /\ Progress(tab, walk, p)
  BY <1>1, <1>2 DEF WalkRight
<1>4. WalkRight(tab, Advance(walk), p)
  BY <1>1, <1>3, AdvanceRight
<1> QED BY <1>1, <1>2, <1>4 DEF HashInv

LEMMA LeaveKeeps ==
  ASSUME HashInv, Leave
  PROVE  HashInv' /\ tab' = tab
BY NoWalkRight DEF HashInv, Leave

LEMMA StutterKeeps ==
  ASSUME HashInv, UNCHANGED vars
  PROVE  HashInv' /\ tab' = tab
BY DEF HashInv, vars

LEMMA HashStep ==
  ASSUME HashInv, [Next]_vars
  PROVE  HashInv'
<1>1. ASSUME NEW k \in Keys, NEW e \in Entries, Store(k, e) PROVE HashInv'
  BY <1>1, StoreKeeps
<1>2. ASSUME NEW k \in Keys, NEW l \in Keys, Rename(k, l) PROVE HashInv'
  BY <1>2, RenameKeeps
<1>3. ASSUME NEW k \in Keys, Delete(k) PROVE HashInv'
  BY <1>3, DeleteKeeps
<1>4. CASE Reset
  BY <1>4, ResetKeeps
<1>5. CASE Foreach
  BY <1>5, ForeachKeeps
<1>6. CASE NextRow
  BY <1>6, NextRowKeeps
<1>7. CASE Leave
  BY <1>7, LeaveKeeps
<1>8. CASE UNCHANGED vars
  BY <1>8, StutterKeeps
<1> QED BY <1>1, <1>2, <1>3, <1>4, <1>5, <1>6, <1>7, <1>8 DEF Next

\* What a step does to what is found under the keys.
LEMMA MapStep ==
  ASSUME HashInv, [Next]_vars
  PROVE  Map!Next \/ MapOf(tab)' = MapOf(tab)
<1>1. ASSUME NEW k \in Keys, NEW e \in Entries, Store(k, e)
      PROVE  Map!Store(k, e)
  <2>1. /\ MapOf(tab)[k] = Nil /\ \A l \in Keys : MapOf(tab)[l] # e
        /\ MapOf(tab)' = [MapOf(tab) EXCEPT ![k] = e]
    BY <1>1, StoreKeeps
  <2> QED BY <2>1 DEF Map!Store, Map!Unused, MapOf
<1>2. ASSUME NEW k \in Keys, NEW l \in Keys, Rename(k, l)
      PROVE  Map!Rename(k, l)
  <2>1. /\ MapOf(tab)[k] # Nil /\ MapOf(tab)[l] = Nil
        /\ MapOf(tab)' = [MapOf(tab) EXCEPT ![l] = MapOf(tab)[k], ![k] = Nil]
    BY <1>2, RenameKeeps
  <2> QED BY <2>1 DEF Map!Rename, MapOf
<1>3. ASSUME NEW k \in Keys, Delete(k)
      PROVE  Map!Delete(k)
  <2>1. MapOf(tab)[k] # Nil /\ MapOf(tab)' = [MapOf(tab) EXCEPT ![k] = Nil]
    BY <1>3, DeleteKeeps
  <2> QED BY <2>1 DEF Map!Delete, MapOf
<1>4. ASSUME Reset
      PROVE  Map!Clear
  <2>1. MapOf(tab)' = [k \in Keys |-> Nil]
    BY <1>4, ResetKeeps
  <2> QED BY <2>1 DEF Map!Clear, MapOf
<1>5. ASSUME Foreach \/ NextRow \/ Leave \/ UNCHANGED vars
      PROVE  MapOf(tab)' = MapOf(tab)
  <2>1. tab' = tab
    BY <1>5, ForeachKeeps, NextRowKeeps, LeaveKeeps, StutterKeeps
  <2> QED BY <2>1
<1>6. ASSUME Next
      PROVE  Map!Next \/ Foreach \/ NextRow \/ Leave
  BY <1>1, <1>2, <1>3, <1>4, <1>6 DEF Next, Map!Next
<1> QED BY <1>5, <1>6

-----------------------------------------------------------------------------
(* Theorems.                                                               *)

\* The inductive invariant.
THEOREM Invariance == Spec => []HashInv
<1>1. Init => HashInv
  BY HashInit
<1>2. HashInv /\ [Next]_vars => HashInv'
  BY HashStep
<1> QED BY <1>1, <1>2, PTL DEF Spec

\* Whatever is stored, renamed, deleted, rebuilt and dropped, each row in use
\* is once in one chain, in the bucket that the digits of its hash select in
\* the table as large as it is now, under the hash of its key, and numEntries
\* counts the rows: ctable_DeleteHashEntry never finds a "malformed bucket
\* chain", and no search in a bucket runs forever or into a row that is free.
THEOREM AlwaysWhole == Spec => []ChainsAreWhole
<1>1. HashInv => ChainsAreWhole
  <2> SUFFICES ASSUME HashInv PROVE ChainsAreWhole
    OBVIOUS
  <2>1. PICK p : Whole(tab, p) /\ WalkRight(tab, walk, p)
    BY DEF HashInv
  <2>2. TypeOK
    BY <2>1, WholeChains DEF TypeOK, WalkRight
  <2>3. InUse = Used(tab)
    BY DEF InUse, Used
  <2> QED BY <2>1, <2>2, <2>3, WholeChains DEF ChainsAreWhole
<1> QED BY <1>1, Invariance, PTL

\* The entries of the buckets, chained and split as they are, implement a map
\* from keys to rows: ctable_FindHashEntry finds the row that was stored last
\* under a key, and each command changes what is found for its own keys only.
THEOREM IsAMap == Spec => ImplementsMap
<1>1. Init => Map!Init
  BY HashInit DEF Map!Init, MapOf
<1>2. HashInv /\ [Next]_vars => [Map!Next]_(MapOf(tab))
  BY MapStep
<1>3. HashInv /\ [Next]_vars => [Map!Next]_([k \in Keys |-> Find(tab, k)])
  BY <1>2 DEF MapOf
<1> QED BY <1>1, <1>3, Invariance, PTL DEF Spec, ImplementsMap, Map!Spec

\* ctable_NextHashEntry comes to no row twice and leaves none out that is
\* there all the time, whatever rows the script stores and deletes, as long as
\* the table is not rebuilt and no row is moved under way.
THEOREM WalksOnce == Spec => []EachOnce
<1>1. HashInv => EachOnce
  BY DEF HashInv, WalkRight, EachOnce
<1> QED BY <1>1, Invariance, PTL

=============================================================================
