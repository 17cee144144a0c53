---------------------------- MODULE MarketProofs ----------------------------
(***************************************************************************)
(* Proofs about the part of Report that works on a market: for any         *)
(* history of candles, whatever TA-Lib and numpy return and whatever the   *)
(* votes, what the detectors report is there, the scanner's list is        *)
(* complete and sorted, a level has counted every touch, a strong verdict  *)
(* is never traded against, a scenario pays what it risks, and a mirrored  *)
(* market gets a mirrored plan.                                            *)
(***************************************************************************)
EXTENDS Report, FiniteSetTheorems, SequenceTheorems, WellFoundedInduction, TLAPS

(***************************************************************************)
(* Minima and recursion                                                    *)
(***************************************************************************)
Before == OpToRel(<, Nat)
LEMMA BeforeIff ==
    ASSUME NEW x \in Nat, NEW y \in Nat
    PROVE  <<x, y>> \in Before <=> x < y
BY DEF Before, OpToRel

LEMMA MinOfNaturals ==
    ASSUME NEW S \in SUBSET Nat, S # {}
    PROVE  \E m \in S : \A x \in S : m <= x
<1>1. IsWellFoundedOn(Before, Nat)
  BY NatLessThanWellFounded DEF Before
<1>2. PICK m \in S : \A x \in S : <<x, m>> \notin Before
  BY <1>1, WFMin
<1>3. ASSUME NEW x \in S PROVE m <= x
  <2>1. ~(x < m)
    BY <1>2, BeforeIff
  <2>2. QED
    BY <2>1
<1>4. QED
  BY <1>3

\* A set that holds 0, and i + 1 with every i below n, holds 0..n.
LEMMA Upwards ==
    ASSUME NEW n \in Nat, NEW S, 0 \in S, \A i \in 0..(n - 1) : i \in S => i + 1 \in S
    PROVE  0..n \subseteq S
<1> SUFFICES ASSUME NEW k \in 0..n, k \notin S PROVE FALSE
  OBVIOUS
<1> DEFINE T == {i \in 0..n : i \notin S}
<1>0. T \in SUBSET Nat /\ k \in T
  OBVIOUS
<1>1. PICK m \in T : \A x \in T : m <= x
  <2> HIDE DEF T
  <2>1. QED
    BY <1>0, MinOfNaturals
<1>2. m # 0 /\ m - 1 \in 0..(n - 1) /\ m - 1 \in 0..n
  OBVIOUS
<1>3. m - 1 \in S
  BY <1>1, <1>2
<1>4. (m - 1) + 1 = m
  BY <1>2
<1>5. m \in S
  BY <1>2, <1>3, <1>4
<1>6. QED
  BY <1>5

Steps(g, n, V) == g \in [(1..n) \X V -> V]
Recurs(f, n, base, g) == f = [i \in 1..n |-> IF i = 1 THEN base ELSE g[<<i, f[i - 1]>>]]

\* Recursion over 1..n has a solution.
LEMMA Recursion ==
    ASSUME NEW V, NEW n \in Nat \ {0}, NEW base \in V, NEW g, Steps(g, n, V)
    PROVE  \E f : Recurs(f, n, base, g)
<1>g. g \in [(1..n) \X V -> V]
  BY DEF Steps
<1> DEFINE Solves(f, m) == /\ f \in [1..m -> V]
                           /\ f[1] = base
                           /\ \A i \in 2..m : f[i] = g[<<i, f[i - 1]>>]
           S == {m \in 0..(n - 1) : \E f \in [1..(m + 1) -> V] : Solves(f, m + 1)}
<1>1. 0 \in S
  <2> DEFINE f == [i \in 1..1 |-> base]
  <2>1. Solves(f, 1)
    OBVIOUS
  <2>2. f \in [1..1 -> V]
    OBVIOUS
  <2> HIDE DEF f, Solves
  <2>3. 0 + 1 = 1 /\ 0 \in 0..(n - 1)
    OBVIOUS
  <2>4. QED
    BY <2>1, <2>2, <2>3
<1>2. ASSUME NEW m \in 0..((n - 1) - 1), m \in S PROVE m + 1 \in S
  <2> DEFINE k == m + 1
  <2>0. k \in 1..(n - 1) /\ k + 1 \in 1..n
    OBVIOUS
  <2>1. PICK f \in [1..k -> V] : Solves(f, k)
    BY <1>2
  <2> DEFINE h == [i \in 1..(k + 1) |-> IF i = k + 1 THEN g[<<k + 1, f[k]>>] ELSE f[i]]
  <2> HIDE DEF k
  <2>2. g[<<k + 1, f[k]>>] \in V
    BY <1>g, <2>0, <2>1
  <2>3. h \in [1..(k + 1) -> V]
    BY <2>0, <2>2
  <2>4. h[1] = base
    BY <2>0, <2>1
  <2>5. \A i \in 2..(k + 1) : h[i] = g[<<i, h[i - 1]>>]
    <3> SUFFICES ASSUME NEW i \in 2..(k + 1) PROVE h[i] = g[<<i, h[i - 1]>>]
      OBVIOUS
    <3>0. h[i - 1] = f[i - 1]
      BY <2>0, <2>1
    <3>1. CASE i = k + 1
      <4>1. h[i] = g[<<k + 1, f[k]>>]
        BY <2>0, <3>1
      <4>2. h[i - 1] = f[k]
        BY <2>0, <3>0, <3>1
      <4>3. QED
        BY <3>1, <4>1, <4>2
    <3>2. CASE i \in 2..k
      BY <2>0, <3>0, <3>2, <2>1
    <3>3. QED
      BY <2>0, <3>1, <3>2
  <2> HIDE DEF h
  <2>6. Solves(h, k + 1)
    BY <2>3, <2>4, <2>5
  <2> HIDE DEF Solves
  <2>7. k \in S
    BY <2>0, <2>3, <2>6
  <2>8. QED
    BY <2>7 DEF k
<1>3. n - 1 \in S
  <2> HIDE DEF S
  <2>1. n - 1 \in Nat
    OBVIOUS
  <2>2. 0..(n - 1) \subseteq S
    BY <1>1, <1>2, <2>1, Upwards
  <2>3. QED
    BY <2>1, <2>2
<1>4. PICK f \in [1..n -> V] : Solves(f, n)
  <2>1. (n - 1) + 1 = n
    OBVIOUS
  <2>2. QED
    BY <1>3, <2>1
<1>5. Recurs(f, n, base, g)
  BY <1>4 DEF Recurs
<1>6. QED
  BY <1>5

Binary(g, S, V) == g \in [S \X V -> V]
Picks(pick, S) == \A s \in SUBSET S : s # {} => pick[s] \in s
Folds(f, S, V, base, g, pick) ==
    /\ f \in [SUBSET S -> V]
    /\ f = [s \in SUBSET S |-> IF s = {} THEN base ELSE g[<<pick[s], f[s \ {pick[s]}]>>]]

\* Recursion over the subsets of a finite set, one element picked at a time.
LEMMA SetRecursion ==
    ASSUME NEW V, NEW S, IsFiniteSet(S), NEW base \in V, NEW g, Binary(g, S, V),
           NEW pick, Picks(pick, S)
    PROVE  \E f : Folds(f, S, V, base, g, pick)
<1>g. g \in [S \X V -> V] /\ \A s \in SUBSET S : s # {} => pick[s] \in s
  BY DEF Binary, Picks
<1> DEFINE n == Cardinality(S)
           Small(m) == {s \in SUBSET S : Cardinality(s) <= m}
           Solves(f, m) ==
               /\ f \in [Small(m) -> V]
               /\ \A s \in Small(m) : f[s] = IF s = {} THEN base ELSE g[<<pick[s], f[s \ {pick[s]}]>>]
           T == {m \in 0..n : \E f \in [Small(m) -> V] : Solves(f, m)}
<1>1. n \in Nat
  BY FS_CardinalityType
<1>2. ASSUME NEW s \in SUBSET S
      PROVE  /\ IsFiniteSet(s) /\ Cardinality(s) \in 0..n
             /\ (Cardinality(s) = 0) <=> (s = {})
             /\ s # {} => Cardinality(s \ {pick[s]}) = Cardinality(s) - 1
  <2>1. IsFiniteSet(s) /\ Cardinality(s) <= n
    BY FS_Subset
  <2>2. Cardinality(s) \in Nat
    BY <2>1, FS_CardinalityType
  <2>3. (Cardinality(s) = 0) <=> (s = {})
    BY <2>1, FS_EmptySet
  <2>4. s # {} => Cardinality(s \ {pick[s]}) = Cardinality(s) - 1
    BY <2>1, <1>g, FS_RemoveElement
  <2>5. QED
    BY <1>1, <2>1, <2>2, <2>3, <2>4
<1>2a. \A m, s : s \in Small(m) <=> s \in SUBSET S /\ Cardinality(s) <= m
  OBVIOUS
<1> HIDE DEF n, Small
<1>3. 0 \in T
  <2> DEFINE f == [s \in Small(0) |-> base]
  <2>1. ASSUME NEW s \in Small(0) PROVE s = {}
    <3>1. s \in SUBSET S /\ Cardinality(s) <= 0
      BY <1>2a
    <3>2. Cardinality(s) \in 0..n /\ ((Cardinality(s) = 0) <=> (s = {}))
      BY <3>1, <1>2
    <3>3. QED
      BY <1>1, <3>1, <3>2
  <2>2. f \in [Small(0) -> V] /\ Solves(f, 0)
    BY <2>1
  <2> HIDE DEF f, Solves
  <2>3. QED
    BY <1>1, <2>2
<1>4. ASSUME NEW m \in 0..(n - 1), m \in T PROVE m + 1 \in T
  <2>1. PICK f \in [Small(m) -> V] : Solves(f, m)
    BY <1>4
  <2> DEFINE h == [s \in Small(m + 1) |-> IF s = {} THEN base ELSE g[<<pick[s], f[s \ {pick[s]}]>>]]
  <2>2. ASSUME NEW s \in Small(m + 1), s # {}
        PROVE  s \ {pick[s]} \in Small(m) /\ pick[s] \in S
    <3>1. s \in SUBSET S /\ Cardinality(s) <= m + 1 /\ pick[s] \in s
      BY <1>2a, <2>2, <1>g
    <3>2. /\ Cardinality(s) \in 0..n
          /\ Cardinality(s \ {pick[s]}) = Cardinality(s) - 1
      BY <3>1, <1>2, <2>2
    <3>3. Cardinality(s \ {pick[s]}) <= m
      BY <3>1, <3>2, <1>1
    <3>4. QED
      BY <3>1, <3>3, <1>2a
  <2>3. h \in [Small(m + 1) -> V]
    BY <2>1, <2>2, <1>g
  <2>4. ASSUME NEW s \in Small(m) PROVE s \in Small(m + 1) /\ h[s] = f[s]
    <3>1. s \in SUBSET S /\ Cardinality(s) <= m
      BY <1>2a
    <3>2a. Cardinality(s) \in 0..n
      BY <3>1, <1>2
    <3>2. Cardinality(s) <= m + 1
      BY <3>1, <1>1, <3>2a
    <3>3. s \in Small(m + 1)
      BY <3>1, <3>2, <1>2a
    <3>4. QED
      BY <2>1, <3>3
  <2>5. \A s \in Small(m + 1) : h[s] = IF s = {} THEN base ELSE g[<<pick[s], h[s \ {pick[s]}]>>]
    BY <2>2, <2>4
  <2> HIDE DEF h
  <2>6. Solves(h, m + 1) /\ m + 1 \in 0..n
    BY <1>1, <2>3, <2>5
  <2> HIDE DEF Solves
  <2>7. QED
    BY <2>3, <2>6
<1>5. n \in T
  <2> HIDE DEF T
  <2>1. 0..n \subseteq T
    BY <1>1, <1>3, <1>4, Upwards
  <2>2. QED
    BY <1>1, <2>1
<1>6. PICK f \in [Small(n) -> V] : Solves(f, n)
  BY <1>5
<1>7. Small(n) = SUBSET S
  <2>1. ASSUME NEW s \in SUBSET S PROVE s \in Small(n)
    <3>1. Cardinality(s) \in 0..n
      BY <1>2
    <3>2. QED
      BY <1>1, <1>2a, <3>1
  <2>2. ASSUME NEW s \in Small(n) PROVE s \in SUBSET S
    BY <1>2a
  <2>3. QED
    BY <2>1, <2>2, <1>g
<1>8. f = [s \in SUBSET S |-> IF s = {} THEN base ELSE g[<<pick[s], f[s \ {pick[s]}]>>]]
  BY <1>6, <1>7
<1>9. QED
  BY <1>6, <1>7, <1>8 DEF Folds

(***************************************************************************)
(* Orders on a finite set: the place of each element, and who is at each   *)
(* place.                                                                  *)
(***************************************************************************)
Under(E, D, j) == {i \in D : <<i, j>> \in E}
RankIn(E, D, j) == 1 + Cardinality(Under(E, D, j))

Orders(E, D) ==
    /\ \A i \in D : <<i, i>> \notin E
    /\ \A i, j \in D : i # j => <<i, j>> \in E \/ <<j, i>> \in E
    /\ \A i, j, k \in D : <<i, j>> \in E /\ <<j, k>> \in E => <<i, k>> \in E

LEMMA RanksOrder ==
    ASSUME NEW D, IsFiniteSet(D), NEW E, Orders(E, D)
    PROVE  /\ \A j \in D : RankIn(E, D, j) \in 1..Cardinality(D)
           /\ \A i, j \in D : <<i, j>> \in E => RankIn(E, D, i) < RankIn(E, D, j)
           /\ \A i, j \in D : i # j => RankIn(E, D, i) # RankIn(E, D, j)
           /\ \A k \in 1..Cardinality(D) : \E j \in D : RankIn(E, D, j) = k
<1> DEFINE n == Cardinality(D)
<1>1. n \in Nat
  BY FS_CardinalityType
<1>2. ASSUME NEW j \in D
      PROVE  IsFiniteSet(Under(E, D, j)) /\ Cardinality(Under(E, D, j)) \in 0..(n - 1)
  <2>1. Under(E, D, j) \cup {j} \in SUBSET D /\ Under(E, D, j) \in SUBSET D /\ j \notin Under(E, D, j)
    BY DEF Under, Orders
  <2>2. Cardinality(Under(E, D, j) \cup {j}) <= n
    BY <2>1, FS_Subset
  <2>3. IsFiniteSet(Under(E, D, j)) /\ Cardinality(Under(E, D, j)) \in Nat
    BY <2>1, FS_Subset, FS_CardinalityType
  <2>4. Cardinality(Under(E, D, j) \cup {j}) = Cardinality(Under(E, D, j)) + 1
    BY <2>1, <2>3, FS_AddElement
  <2>5. QED
    BY <1>1, <2>2, <2>3, <2>4
<1>3. \A j \in D : RankIn(E, D, j) \in 1..n
  BY <1>1, <1>2 DEF RankIn
<1>4. ASSUME NEW i \in D, NEW j \in D, <<i, j>> \in E
      PROVE  RankIn(E, D, i) < RankIn(E, D, j)
  <2>1. i \notin Under(E, D, i) /\ Under(E, D, i) \cup {i} \in SUBSET Under(E, D, j)
    BY <1>4 DEF Orders, Under
  <2>2. Cardinality(Under(E, D, i) \cup {i}) = Cardinality(Under(E, D, i)) + 1
    BY <1>2, <2>1, FS_AddElement
  <2>3. Cardinality(Under(E, D, i) \cup {i}) <= Cardinality(Under(E, D, j))
    BY <1>2, <2>1, FS_Subset
  <2>4. Cardinality(Under(E, D, i)) \in Nat /\ Cardinality(Under(E, D, j)) \in Nat
    BY <1>2
  <2>5. QED
    BY <2>2, <2>3, <2>4 DEF RankIn
<1>5. ASSUME NEW i \in D, NEW j \in D, i # j PROVE RankIn(E, D, i) # RankIn(E, D, j)
  <2>1. <<i, j>> \in E \/ <<j, i>> \in E
    BY <1>5 DEF Orders
  <2>2. RankIn(E, D, i) < RankIn(E, D, j) \/ RankIn(E, D, j) < RankIn(E, D, i)
    BY <1>4, <2>1
  <2>3. RankIn(E, D, i) \in 1..n /\ RankIn(E, D, j) \in 1..n
    BY <1>3
  <2> HIDE DEF n
  <2>4. QED
    BY <1>1, <2>2, <2>3
<1>6. \A k \in 1..n : \E j \in D : RankIn(E, D, j) = k
  <2> DEFINE rank == [j \in D |-> RankIn(E, D, j)]
  <2>1. rank \in Injection(D, 1..n)
    BY <1>3, <1>5 DEF Injection, IsInjective
  <2>2. IsFiniteSet(1..n) /\ Cardinality(1..n) = Cardinality(D)
    BY <1>1, FS_Interval
  <2>3. rank \in Surjection(D, 1..n)
    <3> HIDE DEF rank, n
    <3>1. QED
      BY <2>1, <2>2, FS_Injection
  <2>4. QED
    BY <2>3 DEF Surjection
<1>7. QED
  BY <1>3, <1>4, <1>5, <1>6

Places(at, E, D) ==
    /\ at \in [1..Cardinality(D) -> D]
    /\ \A k \in 1..Cardinality(D) : RankIn(E, D, at[k]) = k

ListsAll(at, E, D) ==
    /\ at \in [1..Cardinality(D) -> D]
    /\ \A j \in D : \E k \in 1..Cardinality(D) : at[k] = j
    /\ \A k, l \in 1..Cardinality(D) : k < l => <<at[k], at[l]>> \in E
    /\ \A k, l \in 1..Cardinality(D) : k # l => at[k] # at[l]

\* Who is at each place: everybody, once, in order.
LEMMA PlacesOrder ==
    ASSUME NEW D, IsFiniteSet(D), NEW E, Orders(E, D), NEW at, Places(at, E, D)
    PROVE  ListsAll(at, E, D)
<1> DEFINE n == Cardinality(D)
           rank(j) == RankIn(E, D, j)
<1>1. /\ \A j \in D : rank(j) \in 1..n
      /\ \A i, j \in D : <<i, j>> \in E => rank(i) < rank(j)
      /\ \A i, j \in D : i # j => rank(i) # rank(j)
  BY RanksOrder
<1>2. \A k \in 1..n : at[k] \in D /\ rank(at[k]) = k
  BY DEF Places
<1>3. at \in [1..n -> D]
  BY DEF Places
<1>4. n \in Nat
  BY FS_CardinalityType
<1> HIDE DEF rank, n
<1>5. \A j \in D : \E k \in 1..n : at[k] = j
  BY <1>1, <1>2
<1>6. ASSUME NEW k \in 1..n, NEW l \in 1..n, k < l PROVE <<at[k], at[l]>> \in E
  <2>1. at[k] # at[l]
    <3>1. rank(at[k]) = k /\ rank(at[l]) = l
      BY <1>2
    <3>2. k # l
      BY <1>4, <1>6
    <3>3. QED
      BY <3>1, <3>2
  <2>2. ASSUME <<at[l], at[k]>> \in E PROVE FALSE
    <3>1. rank(at[l]) < rank(at[k])
      BY <1>1, <1>2, <2>2
    <3>2. QED
      BY <1>2, <1>4, <1>6, <3>1
  <2>3. QED
    BY <1>2, <2>1, <2>2 DEF Orders
<1>7. \A k, l \in 1..n : k # l => at[k] # at[l]
  BY <1>2
<1>8. QED
  BY <1>3, <1>5, <1>6, <1>7 DEF n, ListsAll

Numbers(K) == K \subseteq Nat

\* InOrder lists every number of a set once, ascending.
LEMMA InOrderIs ==
    ASSUME NEW K, IsFiniteSet(K), Numbers(K)
    PROVE  /\ Cardinality(K) \in Nat
           /\ InOrder(K) \in [1..Cardinality(K) -> K]
           /\ \A j \in K : \E k \in 1..Cardinality(K) : InOrder(K)[k] = j
           /\ \A k, l \in 1..Cardinality(K) : k < l => InOrder(K)[k] < InOrder(K)[l]
<1> DEFINE E == {q \in K \X K : q[1] < q[2]}
           at == InOrder(K)
           n == Cardinality(K)
<1>1. \A i, j \in K : <<i, j>> \in E <=> i < j
  OBVIOUS
<1> HIDE DEF E
<1>2. Orders(E, K)
  BY <1>1 DEF Orders, Numbers
<1>3. ASSUME NEW j \in K PROVE Under(E, K, j) = {i \in K : i < j}
  BY <1>1 DEF Under
<1>4. n \in Nat
  BY FS_CardinalityType
<1> DEFINE Less(i) == {j \in K : j < i}
           chosen(k) == CHOOSE i \in K : Cardinality(Less(i)) = k - 1
<1>5. \A i \in K : RankIn(E, K, i) = 1 + Cardinality(Less(i))
  BY <1>3 DEF RankIn
<1>6. at = [k \in 1..n |-> chosen(k)]
  BY DEF InOrder
<1>7. \A i \in K : Cardinality(Less(i)) \in Nat
  <2> SUFFICES ASSUME NEW i \in K PROVE Cardinality(Less(i)) \in Nat
    OBVIOUS
  <2>1. Less(i) \in SUBSET K
    OBVIOUS
  <2> HIDE DEF Less
  <2>2. QED
    BY <2>1, FS_Subset, FS_CardinalityType
<1> HIDE DEF at, Less, chosen
<1>8. \A k \in 1..n : \E j \in K : RankIn(E, K, j) = k
  <2>1. \A k \in 1..Cardinality(K) : \E j \in K : RankIn(E, K, j) = k
    BY <1>2, RanksOrder
  <2>2. QED
    BY <2>1
<1> HIDE DEF n
<1>9. ASSUME NEW k \in 1..n PROVE at[k] \in K /\ RankIn(E, K, at[k]) = k
  <2>1. PICK j \in K : RankIn(E, K, j) = k
    BY <1>8
  <2>2. Cardinality(Less(j)) = k - 1
    BY <1>5, <1>7, <2>1
  <2>3. at[k] \in K /\ Cardinality(Less(at[k])) = k - 1
    BY <1>6, <2>2 DEF chosen
  <2>4. RankIn(E, K, at[k]) = 1 + (k - 1)
    BY <1>5, <2>3
  <2>5. 1 + (k - 1) = k
    BY <1>4
  <2>6. QED
    BY <2>3, <2>4, <2>5
<1>10. at = [k \in 1..n |-> at[k]]
  <2> HIDE DEF chosen
  <2>1. QED
    BY <1>6
<1>11. at \in [1..n -> K]
  BY <1>9, <1>10
<1>12. /\ \A j \in K : \E k \in 1..n : at[k] = j
       /\ \A k, l \in 1..n : k < l => <<at[k], at[l]>> \in E
  <2>1. \A k \in 1..Cardinality(K) : RankIn(E, K, at[k]) = k
    BY <1>9 DEF n
  <2>2. at \in [1..Cardinality(K) -> K]
    BY <1>11 DEF n
  <2>3. Places(at, E, K)
    BY <2>1, <2>2 DEF Places
  <2>4. ListsAll(at, E, K)
    BY <1>2, <2>3, PlacesOrder
  <2>5. QED
    BY <2>4 DEF n, ListsAll
<1>13. QED
  <2>1. \A k, l \in 1..n : k < l => at[k] < at[l]
    BY <1>1, <1>11, <1>12
  <2>2. QED
    BY <1>4, <1>11, <1>12, <2>1 DEF at, n

\* The elements of a sequence that stand at the places of K.
Taken(s, K) == [k \in DOMAIN InOrder(K) |-> s[InOrder(K)[k]]]

LEMMA PlacesInOrder ==
    ASSUME NEW n \in Nat, NEW K, K \subseteq 1..n
    PROVE  /\ IsFiniteSet(K) /\ Numbers(K) /\ Cardinality(K) \in Nat
           /\ InOrder(K) \in [1..Cardinality(K) -> 1..n]
           /\ \A k \in 1..Cardinality(K) : InOrder(K)[k] \in K
           /\ \A j \in K : \E k \in 1..Cardinality(K) : InOrder(K)[k] = j
           /\ \A k, l \in 1..Cardinality(K) : k < l => InOrder(K)[k] < InOrder(K)[l]
<1>1. IsFiniteSet(K)
  <2> DEFINE D == 1..n
  <2>1. IsFiniteSet(D) /\ K \in SUBSET D
    BY FS_Interval
  <2> HIDE DEF D
  <2>2. QED
    BY <2>1, FS_Subset
<1>2. Numbers(K)
  BY DEF Numbers
<1>3. /\ Cardinality(K) \in Nat
      /\ InOrder(K) \in [1..Cardinality(K) -> K]
      /\ \A j \in K : \E k \in 1..Cardinality(K) : InOrder(K)[k] = j
      /\ \A k, l \in 1..Cardinality(K) : k < l => InOrder(K)[k] < InOrder(K)[l]
  BY <1>1, <1>2, InOrderIs
<1>4. QED
  BY <1>1, <1>2, <1>3

PlacesOf(K, s) == K \subseteq 1..Len(s)

LEMMA TakenIs ==
    ASSUME NEW S, NEW s \in Seq(S), NEW K, PlacesOf(K, s)
    PROVE  /\ Taken(s, K) \in Seq(S)
           /\ Len(Taken(s, K)) = Cardinality(K) /\ Cardinality(K) \in Nat
           /\ \A k \in 1..Cardinality(K) : Taken(s, K)[k] = s[InOrder(K)[k]]
           /\ \A k \in 1..Len(Taken(s, K)) : \E i \in K : Taken(s, K)[k] = s[i]
           /\ \A i \in K : \E k \in 1..Len(Taken(s, K)) : Taken(s, K)[k] = s[i]
<1> DEFINE at == InOrder(K)
           n == Cardinality(K)
           t == Taken(s, K)
<1>0. Len(s) \in Nat /\ \A i \in 1..Len(s) : s[i] \in S
  OBVIOUS
<1>1. /\ n \in Nat /\ at \in [1..n -> 1..Len(s)]
      /\ \A k \in 1..n : at[k] \in K
      /\ \A j \in K : \E k \in 1..n : at[k] = j
  BY <1>0, PlacesInOrder DEF PlacesOf
<1>2. t = [k \in DOMAIN at |-> s[at[k]]]
  BY DEF Taken
<1> HIDE DEF at, n, t
<1>3. t = [k \in 1..n |-> s[at[k]]] /\ \A k \in 1..n : t[k] = s[at[k]] /\ t[k] \in S
  BY <1>0, <1>1, <1>2
<1>4. t \in Seq(S) /\ Len(t) = n
  BY <1>1, <1>3
<1>5. /\ \A k \in 1..Len(t) : \E i \in K : t[k] = s[i]
      /\ \A i \in K : \E k \in 1..Len(t) : t[k] = s[i]
  BY <1>1, <1>3, <1>4
<1>6. QED
  BY <1>1, <1>3, <1>4, <1>5 DEF at, n, t

\* A stable sort: the ranks, and the places they lead to.
Ranks(E, n) == [j \in 1..n |-> RankIn(E, 1..n, j)]
PlaceOf(rank, n) == [k \in 1..n |-> CHOOSE j \in 1..n : rank[j] = k]
Arranged(s, E) == [k \in 1..Len(s) |-> s[PlaceOf(Ranks(E, Len(s)), Len(s))[k]]]

LEMMA PlaceOfIs ==
    ASSUME NEW n \in Nat, NEW E, Orders(E, 1..n)
    PROVE  LET at == PlaceOf(Ranks(E, n), n) IN
           /\ at \in [1..n -> 1..n]
           /\ \A j \in 1..n : \E k \in 1..n : at[k] = j
           /\ \A k, l \in 1..n : k < l => <<at[k], at[l]>> \in E
           /\ \A k, l \in 1..n : k # l => at[k] # at[l]
<1> DEFINE D == 1..n
           rank == Ranks(E, n)
           at == PlaceOf(rank, n)
<1>1. IsFiniteSet(D) /\ Cardinality(D) = n
  BY FS_Interval
<1>2. \A j \in D : rank[j] = RankIn(E, D, j)
  BY DEF Ranks
<1>3. Orders(E, D)
  OBVIOUS
<1>4. \A k \in 1..n : at[k] = CHOOSE j \in D : rank[j] = k
  BY DEF PlaceOf
<1>5. at = [k \in 1..n |-> at[k]]
  BY DEF PlaceOf
<1> HIDE DEF D, rank, at
<1>6. \A k \in 1..Cardinality(D) : \E j \in D : RankIn(E, D, j) = k
  <2>1. IsFiniteSet(D)
    BY <1>1
  <2>2. QED
    BY <1>3, <2>1, RanksOrder
<1>7. ASSUME NEW k \in 1..n PROVE at[k] \in D /\ RankIn(E, D, at[k]) = k
  <2>1. \E j \in D : rank[j] = k
    BY <1>1, <1>2, <1>6
  <2>2. at[k] \in D /\ rank[at[k]] = k
    BY <1>4, <2>1
  <2>3. QED
    BY <1>2, <2>2
<1>8. Places(at, E, D)
  <2>1. at \in [1..n -> D]
    BY <1>5, <1>7
  <2>2. QED
    BY <1>1, <1>7, <2>1 DEF Places
<1>9. ListsAll(at, E, D)
  BY <1>1, <1>3, <1>8, PlacesOrder
<1>10. QED
  BY <1>1, <1>9 DEF ListsAll, D, at, rank

Sorted(t, s, E) ==
    \A k, l \in 1..Len(s) : k < l =>
        \E i, j \in 1..Len(s) : <<i, j>> \in E /\ t[k] = s[i] /\ t[l] = s[j]

LEMMA ArrangedIs ==
    ASSUME NEW S, NEW s \in Seq(S), NEW E, Orders(E, 1..Len(s))
    PROVE  LET t == Arranged(s, E) IN
           /\ t \in Seq(S) /\ Len(t) = Len(s)
           /\ \A k \in 1..Len(s) : \E j \in 1..Len(s) : t[k] = s[j]
           /\ \A j \in 1..Len(s) : \E k \in 1..Len(s) : t[k] = s[j]
           /\ Sorted(t, s, E)
<1> DEFINE n == Len(s)
           at == PlaceOf(Ranks(E, n), n)
           t == Arranged(s, E)
<1>1. n \in Nat /\ \A i \in 1..n : s[i] \in S
  OBVIOUS
<1>2. /\ at \in [1..n -> 1..n]
      /\ \A j \in 1..n : \E k \in 1..n : at[k] = j
      /\ \A k, l \in 1..n : k < l => <<at[k], at[l]>> \in E
  BY <1>1, PlaceOfIs
<1>3. t = [k \in 1..n |-> s[at[k]]]
  BY DEF Arranged
<1> HIDE DEF n, at, t
<1>4. \A k \in 1..n : at[k] \in 1..n /\ t[k] = s[at[k]] /\ t[k] \in S
  BY <1>1, <1>2, <1>3
<1>5. t \in Seq(S) /\ Len(t) = n
  BY <1>1, <1>3, <1>4
<1>6. \A j \in 1..n : \E k \in 1..n : t[k] = s[j]
  <2> TAKE j \in 1..n
  <2>1. PICK k \in 1..n : at[k] = j
    BY <1>2
  <2>2. t[k] = s[j]
    BY <1>4, <2>1
  <2>3. QED
    BY <2>2
<1>7. ASSUME NEW k \in 1..n, NEW l \in 1..n, k < l
      PROVE  \E i, j \in 1..n : <<i, j>> \in E /\ t[k] = s[i] /\ t[l] = s[j]
  <2>1. <<at[k], at[l]>> \in E
    BY <1>2, <1>7
  <2>2. at[k] \in 1..n /\ at[l] \in 1..n /\ t[k] = s[at[k]] /\ t[l] = s[at[l]]
    BY <1>4
  <2>3. QED
    BY <2>1, <2>2
<1>8. Sorted(t, s, E)
  BY <1>7 DEF Sorted, n
<1>9. QED
  BY <1>4, <1>5, <1>6, <1>8 DEF n, t

\* Sorting by numbers: the smaller key first, equal keys in the order they came.
KeyOrder(key, n) ==
    {q \in (1..n) \X (1..n) : \/ key[q[1]] < key[q[2]]
                              \/ q[1] < q[2] /\ ~(key[q[2]] < key[q[1]])}

LEMMA KeyOrderIs ==
    ASSUME NEW n \in Nat, NEW key \in [1..n -> Int]
    PROVE  /\ \A i, j \in 1..n : <<i, j>> \in KeyOrder(key, n)
                                  <=> (key[i] < key[j] \/ (i < j /\ ~(key[j] < key[i])))
           /\ Orders(KeyOrder(key, n), 1..n)
<1> DEFINE E == KeyOrder(key, n)
           D == 1..n
<1>1. \A i, j \in D : <<i, j>> \in E <=> (key[i] < key[j] \/ (i < j /\ ~(key[j] < key[i])))
  BY DEF KeyOrder
<1>2. \A i \in D : i \in Int /\ key[i] \in Int
  OBVIOUS
<1> HIDE DEF E, D
<1>3. Orders(E, D)
  <2>1. \A i \in D : <<i, i>> \notin E
    BY <1>1, <1>2
  <2>2. \A i, j \in D : i # j => <<i, j>> \in E \/ <<j, i>> \in E
    BY <1>1, <1>2
  <2>3. \A i, j, k \in D : <<i, j>> \in E /\ <<j, k>> \in E => <<i, k>> \in E
    <3>1. ASSUME NEW i \in D, NEW j \in D, NEW k \in D, <<i, j>> \in E, <<j, k>> \in E
          PROVE  <<i, k>> \in E
      <4>1. /\ key[i] < key[j] \/ (i < j /\ ~(key[j] < key[i]))
            /\ key[j] < key[k] \/ (j < k /\ ~(key[k] < key[j]))
        BY <1>1, <3>1
      <4>2. i \in Int /\ j \in Int /\ k \in Int /\ key[i] \in Int /\ key[j] \in Int /\ key[k] \in Int
        BY <1>2
      <4>3. key[i] < key[k] \/ (i < k /\ ~(key[k] < key[i]))
        BY <4>1, <4>2
      <4>4. QED
        BY <1>1, <4>3
    <3>2. QED
      BY <3>1
  <2>4. QED
    BY <2>1, <2>2, <2>3 DEF Orders
<1>4. QED
  BY <1>1, <1>3 DEF E, D

LEMMA RankedBy ==
    ASSUME NEW n \in Nat, NEW E, NEW rank, rank = [j \in 1..n |-> rank[j]],
           \A j \in 1..n : rank[j] = RankIn(E, 1..n, j)
    PROVE  rank = Ranks(E, n)
BY DEF Ranks

\* The elements at the places k in K, as a set, are finitely many.
LEMMA ImageFinite ==
    ASSUME NEW f, IsFiniteSet(DOMAIN f), f = [x \in DOMAIN f |-> f[x]]
    PROVE  IsFiniteSet({f[x] : x \in DOMAIN f})
<1> DEFINE T == {f[x] : x \in DOMAIN f}
<1>1. f \in Surjection(DOMAIN f, T)
  <2>1. f \in [DOMAIN f -> T]
    OBVIOUS
  <2>2. QED
    BY <2>1 DEF Surjection
<1> HIDE DEF T
<1>2. IsFiniteSet(T)
  BY <1>1, FS_Surjection
<1>3. QED
  BY <1>2 DEF T

Whole(S) == S \subseteq Int

\* A finite set that is not empty has a first element in every order.
LEMMA FirstExists ==
    ASSUME NEW D, IsFiniteSet(D), D # {}, NEW E, Orders(E, D)
    PROVE  \E j \in D : \A i \in D : <<i, j>> \notin E
<1>1. Cardinality(D) \in Nat /\ Cardinality(D) # 0
  BY FS_CardinalityType, FS_EmptySet
<1>2. 1 \in 1..Cardinality(D)
  BY <1>1
<1>3. PICK j \in D : RankIn(E, D, j) = 1
  BY <1>2, RanksOrder
<1>4. IsFiniteSet(Under(E, D, j))
  <2>1. Under(E, D, j) \in SUBSET D
    BY DEF Under
  <2>2. QED
    BY <2>1, FS_Subset
<1>5. Cardinality(Under(E, D, j)) \in Nat
  BY <1>4, FS_CardinalityType
<1>6. Cardinality(Under(E, D, j)) = 0
  BY <1>3, <1>5 DEF RankIn
<1>7. Under(E, D, j) = {}
  BY <1>4, <1>6, FS_EmptySet
<1>8. QED
  BY <1>7 DEF Under

LEMMA MaxIs ==
    ASSUME NEW S, IsFiniteSet(S), Whole(S), S # {}
    PROVE  /\ Max(S) \in S /\ Max(S) \in Int
           /\ \A x \in S : x <= Max(S)
<1> DEFINE E == {q \in S \X S : q[1] > q[2]}
<1>1. \A i, j \in S : <<i, j>> \in E <=> i > j
  OBVIOUS
<1>0. \A i \in S : i \in Int
  BY DEF Whole
<1> HIDE DEF E
<1>2. Orders(E, S)
  BY <1>0, <1>1 DEF Orders
<1>3. PICK m \in S : \A i \in S : <<i, m>> \notin E
  BY <1>2, FirstExists
<1>4. ASSUME NEW i \in S PROVE m >= i
  <2>1. i \in Int /\ m \in Int
    BY <1>0
  <2>2. ~(i > m)
    BY <1>1, <1>3
  <2>3. QED
    BY <2>1, <2>2
<1>5. Max(S) \in S /\ \A y \in S : Max(S) >= y
  BY <1>4 DEF Max
<1>6. QED
  BY <1>0, <1>5

LEMMA MinIs ==
    ASSUME NEW S, IsFiniteSet(S), Whole(S), S # {}
    PROVE  /\ Min(S) \in S /\ Min(S) \in Int
           /\ \A x \in S : Min(S) <= x
<1> DEFINE E == {q \in S \X S : q[1] < q[2]}
<1>1. \A i, j \in S : <<i, j>> \in E <=> i < j
  OBVIOUS
<1>0. \A i \in S : i \in Int
  BY DEF Whole
<1> HIDE DEF E
<1>2. Orders(E, S)
  BY <1>0, <1>1 DEF Orders
<1>3. PICK m \in S : \A i \in S : <<i, m>> \notin E
  BY <1>2, FirstExists
<1>4. ASSUME NEW i \in S PROVE m <= i
  <2>1. i \in Int /\ m \in Int
    BY <1>0
  <2>2. ~(i < m)
    BY <1>1, <1>3
  <2>3. QED
    BY <2>1, <2>2
<1>5. Min(S) \in S /\ \A y \in S : Min(S) <= y
  BY <1>4 DEF Min
<1>6. QED
  BY <1>0, <1>5

(***************************************************************************)
(* Sums                                                                    *)
(***************************************************************************)
\* The partial sums of a function over the subsets of its domain.
Summing(f, S, it) ==
    it = [s \in SUBSET S |-> IF s = {} THEN 0
                             ELSE f[CHOOSE x \in s : TRUE] + it[s \ {CHOOSE x \in s : TRUE}]]

LEMMA SumExists ==
    ASSUME NEW S, IsFiniteSet(S), NEW f \in [S -> Int]
    PROVE  \E it : Summing(f, S, it)
<1> DEFINE V == Int
           g == [q \in S \X V |-> f[q[1]] + q[2]]
           pick == [s \in SUBSET S |-> CHOOSE x \in s : TRUE]
<1>1. Binary(g, S, V) /\ 0 \in V
  BY DEF Binary
<1>2. \A s \in SUBSET S : s # {} => pick[s] \in s
  OBVIOUS
<1>3. PICK it : Folds(it, S, V, 0, g, pick)
  <2>1. Picks(pick, S)
    BY <1>2 DEF Picks
  <2> HIDE DEF V, g, pick
  <2>2. QED
    BY <1>1, <2>1, SetRecursion
<1>4. ASSUME NEW s \in SUBSET S, s # {}
      PROVE  g[<<pick[s], it[s \ {pick[s]}]>>] = f[CHOOSE x \in s : TRUE] + it[s \ {CHOOSE x \in s : TRUE}]
  <2>1. pick[s] = CHOOSE x \in s : TRUE
    OBVIOUS
  <2>2. pick[s] \in S /\ it[s \ {pick[s]}] \in Int
    BY <1>2, <1>3, <1>4 DEF Folds
  <2> HIDE DEF pick
  <2>3. g[<<pick[s], it[s \ {pick[s]}]>>] = f[pick[s]] + it[s \ {pick[s]}]
    BY <2>2
  <2>4. QED
    BY <2>1, <2>3
<1>5. Summing(f, S, it)
  <2> HIDE DEF g, pick
  <2>1. QED
    BY <1>3, <1>4 DEF Summing, Folds
<1>6. QED
  BY <1>5

LEMMA SumIs ==
    ASSUME NEW S, IsFiniteSet(S), NEW f \in [S -> Int]
    PROVE  \E it : Summing(f, S, it) /\ SumFunction(f) = it[S]
<1>1. DOMAIN f = S
  OBVIOUS
<1> DEFINE it == CHOOSE iter :
                    iter = [s \in SUBSET S |-> IF s = {} THEN 0
                                ELSE f[CHOOSE x \in s : TRUE] + iter[s \ {CHOOSE x \in s : TRUE}]]
<1>2. SumFunction(f) = it[S]
  BY <1>1 DEF SumFunction, SumFunctionOnSet, FoldFunctionOnSet, MapThenFoldSet
<1>3. \E iter : iter = [s \in SUBSET S |-> IF s = {} THEN 0
                                ELSE f[CHOOSE x \in s : TRUE] + iter[s \ {CHOOSE x \in s : TRUE}]]
  <2>1. PICK iter : Summing(f, S, iter)
    BY SumExists
  <2> HIDE DEF it
  <2>2. QED
    BY <2>1 DEF Summing
<1>4. Summing(f, S, it)
  BY <1>3 DEF Summing
<1>5. QED
  BY <1>2, <1>4

\* What holds of the empty set, and of a set when it holds of the set without
\* any of its elements, holds of every finite set.
LEMMA SmallerSets ==
    ASSUME NEW S, IsFiniteSet(S), NEW P, {} \in P,
           \A s \in SUBSET S : s # {} /\ (\A x \in s : s \ {x} \in P) => s \in P
    PROVE  SUBSET S \subseteq P
<1> SUFFICES ASSUME NEW s0 \in SUBSET S, s0 \notin P PROVE FALSE
  OBVIOUS
<1> DEFINE N == {n \in Nat : \E s \in SUBSET S : s \notin P /\ Cardinality(s) = n}
<1>1. \A s \in SUBSET S : IsFiniteSet(s) /\ Cardinality(s) \in Nat
  BY FS_Subset, FS_CardinalityType
<1>2. N \in SUBSET Nat /\ N # {}
  BY <1>1
<1>3. PICK m \in N : \A n \in N : m <= n
  <2> HIDE DEF N
  <2>1. QED
    BY <1>2, MinOfNaturals
<1>4. PICK s \in SUBSET S : s \notin P /\ Cardinality(s) = m
  BY <1>3
<1>5. PICK x \in s : s \ {x} \notin P
  <2>1. s # {}
    BY <1>4
  <2>2. QED
    BY <1>4, <2>1
<1>6. s \ {x} \in SUBSET S /\ s \ {x} \notin P
  BY <1>4, <1>5
<1>7. Cardinality(s \ {x}) = m - 1 /\ Cardinality(s \ {x}) \in Nat /\ m \in Nat
  BY <1>1, <1>3, <1>4, <1>5, FS_RemoveElement
<1>8. m - 1 \in N
  BY <1>6, <1>7
<1>9. QED
  BY <1>3, <1>7, <1>8

\* The same when it holds of a set because of one element of it.
LEMMA SetInduction ==
    ASSUME NEW S, IsFiniteSet(S), NEW P, {} \in P,
           \A s \in SUBSET S : s # {} => \E x \in s : s \ {x} \in P => s \in P
    PROVE  SUBSET S \subseteq P
<1>1. \A s \in SUBSET S : s # {} /\ (\A x \in s : s \ {x} \in P) => s \in P
  OBVIOUS
<1>2. QED
  BY <1>1, SmallerSets

\* The sum over nothing, and one step of a sum.
LEMMA SummingNone ==
    ASSUME NEW S, NEW f, NEW it, Summing(f, S, it)
    PROVE  it[{}] = 0
BY DEF Summing

LEMMA SummingStep ==
    ASSUME NEW S, NEW f, NEW it, Summing(f, S, it), NEW s \in SUBSET S, s # {}
    PROVE  \E x \in s : x = (CHOOSE y \in s : TRUE) /\ it[s] = f[x] + it[s \ {x}]
<1> DEFINE x == CHOOSE y \in s : TRUE
<1>1. x \in s
  OBVIOUS
<1>2. it[s] = f[x] + it[s \ {x}]
  BY DEF Summing
<1> HIDE DEF x
<1>3. QED
  BY <1>1, <1>2 DEF x

LEMMA SumsInt ==
    ASSUME NEW S, IsFiniteSet(S), NEW f \in [S -> Int], NEW it, Summing(f, S, it)
    PROVE  \A s \in SUBSET S : it[s] \in Int
<1> DEFINE P == {s \in SUBSET S : it[s] \in Int}
<1>2. {} \in P
  BY SummingNone
<1>3. ASSUME NEW s \in SUBSET S, s # {} PROVE \E x \in s : (s \ {x} \in P => s \in P)
  <2>1. PICK x \in s : x = (CHOOSE y \in s : TRUE) /\ it[s] = f[x] + it[s \ {x}]
    BY <1>3, SummingStep
  <2>2. f[x] \in Int
    OBVIOUS
  <2>3. ASSUME s \ {x} \in P PROVE s \in P
    BY <2>1, <2>2, <2>3
  <2>4. QED
    BY <2>3
<1>4. SUBSET S \subseteq P
  <2> HIDE DEF P
  <2>1. QED
    BY <1>2, <1>3, SetInduction
<1>5. QED
  BY <1>4

LEMMA SumInt ==
    ASSUME NEW S, IsFiniteSet(S), NEW f \in [S -> Int]
    PROVE  SumFunction(f) \in Int
<1>1. PICK it : Summing(f, S, it) /\ SumFunction(f) = it[S]
  BY SumIs
<1>2. \A s \in SUBSET S : it[s] \in Int
  BY <1>1, SumsInt
<1>3. QED
  BY <1>1, <1>2

\* A function nowhere further from zero than a multiple of another has its sum
\* no further from zero than that multiple of the other's.
LEMMA SumWithin ==
    ASSUME NEW S, IsFiniteSet(S), NEW f \in [S -> Int], NEW g \in [S -> Int], NEW c \in Int,
           \A x \in S : -(c * g[x]) <= f[x] /\ f[x] <= c * g[x]
    PROVE  -(c * SumFunction(g)) <= SumFunction(f) /\ SumFunction(f) <= c * SumFunction(g)
<1>1. PICK it : Summing(f, S, it) /\ SumFunction(f) = it[S]
  BY SumIs
<1>2. PICK jt : Summing(g, S, jt) /\ SumFunction(g) = jt[S]
  BY SumIs
<1> DEFINE P == {s \in SUBSET S : it[s] \in Int /\ jt[s] \in Int 
                                  /\ -(c * jt[s]) <= it[s] /\ it[s] <= c * jt[s]}
<1>3. {} \in P
  <2>1. it[{}] = 0 /\ jt[{}] = 0
    BY <1>1, <1>2, SummingNone
  <2>2. -(c * 0) <= 0 /\ 0 <= c * 0
    OBVIOUS
  <2>3. QED
    BY <2>1, <2>2
<1>4. ASSUME NEW s \in SUBSET S, s # {} PROVE \E x \in s : (s \ {x} \in P => s \in P)
  <2>1. PICK x \in s : x = (CHOOSE y \in s : TRUE) /\ it[s] = f[x] + it[s \ {x}]
    BY <1>1, <1>4, SummingStep
  <2>2. jt[s] = g[x] + jt[s \ {x}]
    <3>1. PICK z \in s : z = (CHOOSE y \in s : TRUE) /\ jt[s] = g[z] + jt[s \ {z}]
      BY <1>2, <1>4, SummingStep
    <3>2. QED
      BY <2>1, <3>1
  <2>3. f[x] \in Int /\ g[x] \in Int /\ -(c * g[x]) <= f[x] /\ f[x] <= c * g[x]
    OBVIOUS
  <2>4. ASSUME s \ {x} \in P PROVE s \in P
    <3> DEFINE a == it[s \ {x}]
               b == jt[s \ {x}]
    <3>1. a \in Int /\ b \in Int /\ -(c * b) <= a /\ a <= c * b
      BY <2>4
    <3>2. it[s] = f[x] + a /\ jt[s] = g[x] + b
      BY <2>1, <2>2
    <3> HIDE DEF a, b
    <3>3. \A u, v, w, z \in Int : /\ u <= c * w /\ v <= c * z => u + v <= c * (w + z)
                                 /\ -(c * w) <= u /\ -(c * z) <= v => -(c * (w + z)) <= u + v
      OBVIOUS
    <3>4. -(c * (g[x] + b)) <= f[x] + a /\ f[x] + a <= c * (g[x] + b)
      BY <2>3, <3>1, <3>3
    <3>5. QED
      BY <2>3, <3>1, <3>2, <3>4
  <2>5. QED
    BY <2>4
<1>5. SUBSET S \subseteq P
  <2> HIDE DEF P
  <2>1. QED
    BY <1>3, <1>4, SetInduction
<1>6. QED
  BY <1>1, <1>2, <1>5

LEMMA SumNotNegative ==
    ASSUME NEW S, IsFiniteSet(S), NEW f \in [S -> Int], \A x \in S : f[x] >= 0
    PROVE  SumFunction(f) >= 0
<1>1. PICK it : Summing(f, S, it) /\ SumFunction(f) = it[S]
  BY SumIs
<1> DEFINE P == {s \in SUBSET S : it[s] \in Int /\ it[s] >= 0}
<1>2. {} \in P
  BY <1>1, SummingNone
<1>3. ASSUME NEW s \in SUBSET S, s # {} PROVE \E x \in s : (s \ {x} \in P => s \in P)
  <2>1. PICK x \in s : x = (CHOOSE y \in s : TRUE) /\ it[s] = f[x] + it[s \ {x}]
    BY <1>1, <1>3, SummingStep
  <2>2. f[x] \in Int /\ f[x] >= 0
    OBVIOUS
  <2>3. ASSUME s \ {x} \in P PROVE s \in P
    BY <2>1, <2>2, <2>3
  <2>4. QED
    BY <2>3
<1>4. SUBSET S \subseteq P
  <2> HIDE DEF P
  <2>1. QED
    BY <1>2, <1>3, SetInduction
<1>5. QED
  BY <1>1, <1>4

LEMMA SumPositive ==
    ASSUME NEW S, IsFiniteSet(S), S # {}, NEW f \in [S -> Int], \A x \in S : f[x] >= 1
    PROVE  SumFunction(f) >= 1
<1>1. PICK it : Summing(f, S, it) /\ SumFunction(f) = it[S]
  BY SumIs
<1> DEFINE P == {s \in SUBSET S : it[s] \in Int /\ it[s] >= 0 /\ (s # {} => it[s] >= 1)}
<1>2. {} \in P
  BY <1>1, SummingNone
<1>3. ASSUME NEW s \in SUBSET S, s # {} PROVE \E x \in s : (s \ {x} \in P => s \in P)
  <2>1. PICK x \in s : x = (CHOOSE y \in s : TRUE) /\ it[s] = f[x] + it[s \ {x}]
    BY <1>1, <1>3, SummingStep
  <2>2. f[x] \in Int /\ f[x] >= 1
    OBVIOUS
  <2>3. ASSUME s \ {x} \in P PROVE s \in P
    BY <2>1, <2>2, <2>3
  <2>4. QED
    BY <2>3
<1>4. SUBSET S \subseteq P
  <2> HIDE DEF P
  <2>1. QED
    BY <1>2, <1>3, SetInduction
<1>5. QED
  BY <1>1, <1>4

\* A sum does not depend on the order of its terms.
AnyFirst(f, S, it) == \A s \in SUBSET S : \A x \in s : it[s] = f[x] + it[s \ {x}]

LEMMA AnyTerm ==
    ASSUME NEW S, IsFiniteSet(S), NEW f \in [S -> Int], NEW it, Summing(f, S, it)
    PROVE  AnyFirst(f, S, it)
<1> DEFINE P == {s \in SUBSET S : \A x \in s : it[s] = f[x] + it[s \ {x}]}
<1>0. \A s \in SUBSET S : it[s] \in Int
  BY SumsInt
<1>1. {} \in P
  OBVIOUS
<1>2. ASSUME NEW s \in SUBSET S, s # {}, \A x \in s : s \ {x} \in P PROVE s \in P
  <2>1. PICK c \in s : it[s] = f[c] + it[s \ {c}]
    BY <1>2, SummingStep
  <2>2. ASSUME NEW x \in s PROVE it[s] = f[x] + it[s \ {x}]
    <3>1. CASE x = c
      BY <2>1, <3>1
    <3>2. CASE x # c
      <4> DEFINE r == (s \ {c}) \ {x}
                 u == s \ {c}
                 v == s \ {x}
      <4>1. r = v \ {c} /\ r \in SUBSET S /\ u \in P /\ v \in P /\ x \in u /\ c \in v
        BY <1>2, <3>2
      <4>2. it[u] = f[x] + it[r] /\ it[v] = f[c] + it[r]
        BY <4>1
      <4>3. it[s] = f[c] + it[u]
        BY <2>1
      <4>4. f[c] \in Int /\ f[x] \in Int /\ it[r] \in Int
        BY <1>0, <4>1
      <4> HIDE DEF r, u
      <4>5. it[s] = f[x] + it[v]
        <5> HIDE DEF v
        <5>1. QED
          BY <4>2, <4>3, <4>4
      <4>6. QED
        BY <4>5
    <3>3. QED
      BY <3>1, <3>2
  <2>3. QED
    BY <2>2
<1>3. SUBSET S \subseteq P
  <2> HIDE DEF P
  <2>1. QED
    BY <1>1, <1>2, SmallerSets
<1>4. QED
  BY <1>3 DEF AnyFirst

\* The sum over a part of the domain is a partial sum.
LEMMA SumOfPart ==
    ASSUME NEW S, IsFiniteSet(S), NEW f \in [S -> Int], NEW it, Summing(f, S, it),
           NEW T \in SUBSET S, NEW g \in [T -> Int], \A x \in T : g[x] = f[x]
    PROVE  SumFunction(g) = it[T]
<1>0. IsFiniteSet(T)
  BY FS_Subset
<1>1. PICK jt : Summing(g, T, jt) /\ SumFunction(g) = jt[T]
  BY <1>0, SumIs
<1> DEFINE P == {s \in SUBSET T : jt[s] = it[s]}
<1>2. {} \in P
  BY <1>1, SummingNone
<1>3. ASSUME NEW s \in SUBSET T, s # {} PROVE \E x \in s : (s \ {x} \in P => s \in P)
  <2>1. PICK x \in s : x = (CHOOSE y \in s : TRUE) /\ jt[s] = g[x] + jt[s \ {x}]
    BY <1>1, <1>3, SummingStep
  <2>2. it[s] = f[x] + it[s \ {x}]
    <3>1. PICK z \in s : z = (CHOOSE y \in s : TRUE) /\ it[s] = f[z] + it[s \ {z}]
      BY <1>3, SummingStep
    <3>2. QED
      BY <2>1, <3>1
  <2>3. g[x] = f[x]
    OBVIOUS
  <2>4. ASSUME s \ {x} \in P PROVE s \in P
    BY <2>1, <2>2, <2>3, <2>4
  <2>5. QED
    BY <2>4
<1>4. SUBSET T \subseteq P
  <2> HIDE DEF P
  <2>1. QED
    BY <1>0, <1>2, <1>3, SetInduction
<1>5. QED
  BY <1>1, <1>4

\* A sum is any of its terms and the sum of the others.
OthersOf(f, S, x, g) == g \in [S \ {x} -> Int] /\ \A y \in S \ {x} : g[y] = f[y]

LEMMA SumStep ==
    ASSUME NEW S, IsFiniteSet(S), NEW f \in [S -> Int], NEW x \in S, NEW g, OthersOf(f, S, x, g)
    PROVE  SumFunction(f) = f[x] + SumFunction(g)
<1>1. PICK it : Summing(f, S, it) /\ SumFunction(f) = it[S]
  BY SumIs
<1>2. it[S] = f[x] + it[S \ {x}]
  <2>1. AnyFirst(f, S, it)
    BY <1>1, AnyTerm
  <2>2. S \in SUBSET S
    OBVIOUS
  <2>3. QED
    BY <2>1, <2>2 DEF AnyFirst
<1>3. SumFunction(g) = it[S \ {x}]
  <2> DEFINE T == S \ {x}
  <2>1. T \in SUBSET S /\ g \in [T -> Int] /\ \A y \in T : g[y] = f[y]
    BY DEF OthersOf
  <2> HIDE DEF T
  <2>2. SumFunction(g) = it[T]
    BY <1>1, <2>1, SumOfPart
  <2>3. QED
    BY <2>2 DEF T
<1>4. QED
  BY <1>1, <1>2, <1>3

(***************************************************************************)
(* Numbers                                                                 *)
(***************************************************************************)
LEMMA DivIs ==
    ASSUME NEW x \in Int, NEW d \in Nat \ {0}
    PROVE  x \div d \in Int /\ d * (x \div d) <= x /\ x < d * (x \div d) + d
OBVIOUS

LEMMA RoundDivIs ==
    ASSUME NEW a \in Int, NEW b \in Nat \ {0}
    PROVE  /\ RoundDiv(a, b) \in Int
           /\ 2 * a < 2 * b * RoundDiv(a, b) + b
           /\ 2 * b * RoundDiv(a, b) <= 2 * a + b
           /\ a >= 0 => RoundDiv(a, b) >= 0
           /\ \A c \in Nat : a <= c * b => RoundDiv(a, b) <= c
<1> DEFINE q == RoundDiv(a, b)
<1>1. q \in Int /\ (2 * b) * q <= 2 * a + b /\ 2 * a + b < (2 * b) * q + 2 * b
  <2>1. 2 * a + b \in Int /\ 2 * b \in Nat \ {0}
    OBVIOUS
  <2>2. QED
    BY <2>1, DivIs DEF RoundDiv
<1> HIDE DEF q
<1>2. ASSUME a >= 0 PROVE q >= 0
  <2>1. ASSUME q <= -1 PROVE FALSE
    <3>1. (2 * b) * q <= (2 * b) * (-1)
      BY <1>1, <2>1
    <3>2. QED
      BY <1>1, <1>2, <3>1
  <2>2. QED
    BY <1>1, <2>1
<1>3. ASSUME NEW c \in Nat, a <= c * b PROVE q <= c
  <2>1. ASSUME q >= c + 1 PROVE FALSE
    <3>1. (2 * b) * q >= (2 * b) * (c + 1)
      BY <1>1, <2>1
    <3>2. (2 * b) * (c + 1) = 2 * (c * b) + 2 * b
      OBVIOUS
    <3>3. QED
      BY <1>1, <1>3, <3>1, <3>2
  <2>2. QED
    BY <1>1, <2>1
<1>4. 2 * a < 2 * b * q + b /\ 2 * b * q <= 2 * a + b
  BY <1>1
<1>5. QED
  BY <1>1, <1>2, <1>3, <1>4 DEF q

LEMMA AbsIs ==
    ASSUME NEW x \in Int
    PROVE  Abs(x) \in Nat /\ Abs(x) >= x /\ Abs(x) >= -x /\ (Abs(x) = x \/ Abs(x) = -x)
BY DEF Abs

LEMMA LeastIs ==
    ASSUME NEW a \in Int, NEW b \in Int
    PROVE  Least(a, b) \in {a, b} /\ Least(a, b) \in Int /\ Least(a, b) <= a /\ Least(a, b) <= b
BY DEF Least

LEMMA TextInt ==
    ASSUME NEW a \in Int, NEW b \in Nat \ {0}
    PROVE  Text(a, b) \in Int
<1>1. CentUnits \in Nat \ {0}
  BY PatternsAssumption
<1>2. b * CentUnits \in Nat \ {0}
  BY <1>1
<1>3. RoundDiv(a, b * CentUnits) \in Int
  BY <1>2, RoundDivIs
<1>4. QED
  BY <1>1, <1>3 DEF Text

LEMMA PairIs ==
    ASSUME NEW a \in Int, NEW b \in Int
    PROVE  /\ Max({a, b}) \in {a, b} /\ Max({a, b}) \in Int /\ Max({a, b}) >= a /\ Max({a, b}) >= b
           /\ Min({a, b}) \in {a, b} /\ Min({a, b}) \in Int /\ Min({a, b}) <= a /\ Min({a, b}) <= b
<1>1. IsFiniteSet({a, b}) /\ Whole({a, b}) /\ {a, b} # {}
  <2>1. {a, b} = {a} \cup {b}
    OBVIOUS
  <2>2. IsFiniteSet({a} \cup {b})
    BY FS_Singleton, FS_AddElement
  <2>3. QED
    BY <2>1, <2>2 DEF Whole
<1>2. /\ Max({a, b}) \in {a, b} /\ Max({a, b}) \in Int /\ \A x \in {a, b} : x <= Max({a, b})
      /\ Min({a, b}) \in {a, b} /\ Min({a, b}) \in Int /\ \A x \in {a, b} : Min({a, b}) <= x
  BY <1>1, MaxIs, MinIs
<1>3. QED
  BY <1>2

\* Some places of a sequence, as numbers.
LEMMA PlacesIs ==
    ASSUME NEW n \in Nat, NEW K, K \subseteq 1..n
    PROVE  IsFiniteSet(K) /\ Whole(K) /\ (K # {} => Max(K) \in K /\ Min(K) \in K)
<1>1. IsFiniteSet(K)
  BY PlacesInOrder
<1>2. Whole(K)
  BY DEF Whole
<1>3. QED
  BY <1>1, <1>2, MaxIs, MinIs

(***************************************************************************)
(* Candles                                                                 *)
(***************************************************************************)
CandleOk ==
    {c \in [open : Int, close : Int, high : Int, low : Int] :
        0 < c.low /\ c.low <= c.open /\ c.low <= c.close /\ c.open <= c.high /\ c.close <= c.high}

LEMMA CandleIs ==
    ASSUME NEW c \in CandleOk
    PROVE  /\ c.open \in Int /\ c.close \in Int /\ c.high \in Int /\ c.low \in Int
           /\ 0 < c.low /\ c.low <= c.open /\ c.low <= c.close /\ c.open <= c.high /\ c.close <= c.high
           /\ 0 < c.close /\ 0 < c.open /\ c.low <= c.high
BY DEF CandleOk

LEMMA CandlesAre ==
    ASSUME NEW h \in Seq(CandleOk)
    PROVE  /\ Len(h) \in Nat /\ DOMAIN h = 1..Len(h)
           /\ \A i \in 1..Len(h) :
                /\ h[i] \in CandleOk
                /\ h[i].open \in Int /\ h[i].close \in Int /\ h[i].high \in Int /\ h[i].low \in Int
                /\ 0 < h[i].low /\ h[i].low <= h[i].close /\ h[i].close <= h[i].high
                /\ 0 < h[i].close /\ h[i].low <= h[i].high
<1>1. Len(h) \in Nat /\ DOMAIN h = 1..Len(h) /\ \A i \in 1..Len(h) : h[i] \in CandleOk
  OBVIOUS
<1>2. QED
  BY <1>1, CandleIs

LEMMA CloseIs ==
    ASSUME NEW h \in Seq(CandleOk), Len(h) >= 1
    PROVE  Close(h) \in Nat \ {0}
<1>1. Len(h) \in 1..Len(h)
  BY CandlesAre
<1>2. h[Len(h)].close \in Int /\ 0 < h[Len(h)].close
  BY <1>1, CandlesAre
<1>3. QED
  BY <1>2 DEF Close

LEMMA TrueRangeIs ==
    ASSUME NEW h \in Seq(CandleOk), NEW i \in 2..Len(h)
    PROVE  TrueRange(h, i) \in Nat
<1>1. i \in 1..Len(h) /\ i - 1 \in 1..Len(h)
  BY CandlesAre
<1> DEFINE a == h[i].high - h[i].low
           b == Abs(h[i].high - h[i - 1].close)
           c == Abs(h[i].low - h[i - 1].close)
<1>2. a \in Nat /\ b \in Nat /\ c \in Nat
  <2>1. /\ h[i].high \in Int /\ h[i].low \in Int /\ h[i].low <= h[i].high
        /\ h[i - 1].close \in Int
    BY <1>1, CandlesAre
  <2>2. h[i].high - h[i - 1].close \in Int /\ h[i].low - h[i - 1].close \in Int
    BY <2>1
  <2>3. b \in Nat
    BY <2>2, AbsIs
  <2>4. c \in Nat
    BY <2>2, AbsIs
  <2>5. QED
    BY <2>1, <2>3, <2>4
<1>3. TrueRange(h, i) = Max({a, b, c})
  BY DEF TrueRange
<1> HIDE DEF a, b, c
<1>4. IsFiniteSet({a, b, c}) /\ Whole({a, b, c}) /\ {a, b, c} # {}
  <2>1. {a, b, c} = ({a} \cup {b}) \cup {c}
    OBVIOUS
  <2>2. IsFiniteSet(({a} \cup {b}) \cup {c})
    BY FS_Singleton, FS_AddElement
  <2>3. IsFiniteSet({a, b, c})
    BY <2>1, <2>2, Zenon
  <2>4. {a, b, c} \subseteq Int /\ {a, b, c} # {}
    BY <1>2
  <2>5. QED
    BY <2>3, <2>4 DEF Whole
<1>5. Max({a, b, c}) \in {a, b, c}
  BY <1>4, MaxIs
<1>6. QED
  BY <1>2, <1>3, <1>5

\* The mean of true ranges is a number that is not negative.
LEMMA AtrIs ==
    ASSUME NEW h \in Seq(CandleOk)
    PROVE  Atr(h) \in Nat /\ FullAtr(h) \in Nat /\ (FullAtr(h) # 0 => FullAtr(h) = Atr(h))
<1> DEFINE n == Len(h)
           k == Least(AtrPeriod, n - 1)
           D == (n - k + 1)..n
           f == [i \in D |-> TrueRange(h, i)]
<1>1. AtrPeriod \in Nat \ {0} /\ n \in Nat
  BY PatternsAssumption
<1>3. Atr(h) = IF n < 2 THEN 0 ELSE SumFunction(f) \div k
  BY DEF Atr
<1>5. FullAtr(h) = IF n < AtrPeriod + 1 THEN 0 ELSE Atr(h)
  BY DEF FullAtr
<1> HIDE DEF n
<1>2. ASSUME n >= 2 PROVE SumFunction(f) \div k \in Nat
  <2>1. k \in Nat \ {0} /\ k <= n - 1
    <3>1. n - 1 \in Nat \ {0}
      BY <1>1, <1>2
    <3>2. AtrPeriod \in Int /\ n - 1 \in Int
      BY <1>1
    <3>3. k \in {AtrPeriod, n - 1} /\ k <= n - 1
      BY <3>2, LeastIs
    <3>4. QED
      BY <1>1, <3>1, <3>3
  <2>2. \A i \in D : i \in 2..n
    BY <1>1, <2>1
  <2>3. IsFiniteSet(D)
    <3> HIDE DEF k
    <3>1. n - k + 1 \in Int
      BY <1>1, <2>1
    <3>2. QED
      BY <1>1, <3>1, FS_Interval
  <2> HIDE DEF D, k
  <2>4. f \in [D -> Int] /\ \A i \in D : f[i] >= 0
    BY <2>2, TrueRangeIs DEF n
  <2> HIDE DEF f
  <2>5. SumFunction(f) \in Int /\ SumFunction(f) >= 0
    BY <2>3, <2>4, SumInt, SumNotNegative
  <2> DEFINE s == SumFunction(f)
  <2> HIDE DEF s
  <2>6. s \in Int /\ s >= 0
    BY <2>5 DEF s
  <2>7. s \div k \in Int /\ s < k * (s \div k) + k
    BY <2>1, <2>6, DivIs
  <2>8. s \div k >= 0
    <3>1. ASSUME s \div k <= -1 PROVE FALSE
      <4>1. k * (s \div k) <= k * (-1)
        BY <2>1, <2>7, <3>1
      <4>2. QED
        BY <2>1, <2>6, <2>7, <4>1
    <3>2. QED
      BY <2>7, <3>1
  <2>9. QED
    BY <2>7, <2>8 DEF s
<1>4. Atr(h) \in Nat
  <2> HIDE DEF f, k
  <2>1. CASE n < 2
    BY <1>3, <2>1
  <2>2. CASE ~(n < 2)
    BY <1>1, <1>2, <1>3, <2>2
  <2>3. QED
    BY <2>1, <2>2
<1>6. QED
  BY <1>4, <1>5

(***************************************************************************)
(* What the detectors find                                                 *)
(***************************************************************************)
PatternKinds == {"candlestick", "support_resistance", "fibonacci", "chart", "iki"}
PatternNames ==
    CandlestickPatterns \cup {FiboNames[k] : k \in DOMAIN FiboNames}
    \cup {"level", "ema", "iki", "none", "Symmetric Triangle", "Descending Triangle", "Ascending Triangle",
          "Pennant", "Flag", "Rising Wedge", "Falling Wedge"}

\* What a detector says of a history of n candles.
Sound(n) == [category : PatternKinds, name : PatternNames, bullish : BOOLEAN,
             confidence : 1..100, at : 1..n, price : Int, reliability : 1..3]
Kind(n, kind) == {p \in Sound(n) : p.category = kind}

LEMMA PatternSound ==
    ASSUME NEW n \in Nat, NEW kind \in PatternKinds, NEW name \in PatternNames, NEW bullish \in BOOLEAN,
           NEW confidence \in 1..100, NEW at \in 1..n, NEW price \in Int
    PROVE  Pattern(kind, name, bullish, confidence, at, price) \in Kind(n, kind)
BY DEF Pattern, Kind, Sound

Signal == [func : CandlestickPatterns, raw : Int, at : Nat \ {0}]

LEMMA DetectionSound ==
    ASSUME NEW n \in Nat, NEW s \in Signal, s.at <= n
    PROVE  DetectionFromSignal(s) \in Kind(n, "candlestick")
<1> DEFINE p == Pattern("candlestick", s.func, s.raw > 0, ConfidenceFromSignal(Abs(s.raw)), s.at, NoPrice)
           r == ReliabilityFromSignal(Abs(s.raw))
<1>0. s.func \in CandlestickPatterns /\ s.raw \in Int /\ s.at \in Nat \ {0}
  BY DEF Signal
<1>0a. s.func \in PatternNames
  BY <1>0 DEF PatternNames
<1>0b. s.at \in 1..n
  BY <1>0
<1>1. s.func \in PatternNames /\ s.raw \in Int /\ s.at \in 1..n
  BY <1>0, <1>0a, <1>0b
<1>2. Abs(s.raw) \in Int
  BY <1>1, AbsIs
<1>3. ConfidenceFromSignal(Abs(s.raw)) \in 1..100 /\ r \in 1..3
  BY <1>2 DEF ConfidenceFromSignal, ReliabilityFromSignal
<1>4. "candlestick" \in PatternKinds /\ NoPrice \in Int /\ (s.raw > 0) \in BOOLEAN
  BY DEF PatternKinds, NoPrice
<1>5. p \in Kind(n, "candlestick")
  BY <1>1, <1>3, <1>4, PatternSound
<1>6. DetectionFromSignal(s) = [p EXCEPT !.reliability = r]
  BY DEF DetectionFromSignal
<1> HIDE DEF p, r
<1>7. QED
  BY <1>3, <1>5, <1>6 DEF Kind, Sound

LEMMA CandlesticksSound ==
    ASSUME NEW h \in Seq(CandleOk), NEW signals \in Seq(Signal)
    PROVE  DetectCandlestickPatterns(h, signals) \in Seq(Kind(Len(h), "candlestick"))
<1> DEFINE n == Len(h)
           K == {i \in DOMAIN signals : n - ScanCandles < signals[i].at /\ signals[i].at <= n}
           t == Taken(signals, K)
<1>1. n \in Nat /\ PlacesOf(K, signals)
  BY DEF PlacesOf
<1>2. /\ t \in Seq(Signal)
      /\ \A k \in 1..Len(t) : \E i \in K : t[k] = signals[i]
  <2> HIDE DEF K, n
  <2>1. QED
    BY <1>1, TakenIs
<1>3. Filter(signals, LAMBDA s : n - ScanCandles < s.at /\ s.at <= n) = t
  BY DEF Filter, Taken
<1> DEFINE found == [k \in DOMAIN t |-> DetectionFromSignal(t[k])]
<1>4. DetectCandlestickPatterns(h, signals) = IF n < MinCandles THEN <<>> ELSE found
  BY <1>3 DEF DetectCandlestickPatterns
<1>5. ASSUME NEW k \in 1..Len(t) PROVE t[k] \in Signal /\ t[k].at <= n
  BY <1>2
<1> HIDE DEF K, t, n
<1>6. found \in Seq(Kind(n, "candlestick"))
  <2>1. \A k \in 1..Len(t) : DetectionFromSignal(t[k]) \in Kind(n, "candlestick")
    BY <1>1, <1>5, DetectionSound
  <2>2. Len(t) \in Nat /\ DOMAIN t = 1..Len(t)
    BY <1>2
  <2>3. QED
    BY <2>1, <2>2
<1> HIDE DEF found
<1>7. QED
  BY <1>4, <1>6 DEF n

Shapely(x) == x = NoShape \/ (x.name \in PatternNames /\ x.bullish \in BOOLEAN /\ x.confidence \in 1..100)

LEMMA ShapeNamed ==
    ASSUME NEW name \in PatternNames, NEW bullish \in BOOLEAN, NEW confidence \in 1..100
    PROVE  Shapely(Shape(name, bullish, confidence))
BY DEF Shapely, Shape

LEMMA ChartsSound ==
    ASSUME NEW h \in Seq(CandleOk), NEW lines
    PROVE  DetectChartPatterns(h, lines) \in Seq(Kind(Len(h), "chart"))
<1> DEFINE n == Len(h)
           window == [i \in 1..Lookback |-> h[Len(h) - Lookback + i].close]
           shape == ClassifyPattern(lines.upper, lines.lower, HasPriorImpulse(window))
           p == Pattern("chart", shape.name, shape.bullish, shape.confidence, n - Lookback + 1, NoPrice)
<1>1. Lookback \in Nat \ {0} /\ n \in Nat
  BY ScannerAssumption
<1>2. shape = NoShape \/ (shape.name \in PatternNames /\ shape.bullish \in BOOLEAN /\ shape.confidence \in 1..100)
  <2> DEFINE u == lines.upper
             l == lines.lower
             i == HasPriorImpulse(window)
  <2>1. (u < 0) \in BOOLEAN
    OBVIOUS
  <2> HIDE DEF i, u, l
  <2> DEFINE up == u < 0
  <2>2. up \in BOOLEAN
    BY <2>1
  <2>3. shape \in {Shape("Symmetric Triangle", TRUE, 55), Shape("Descending Triangle", FALSE, 60),
                   Shape("Ascending Triangle", TRUE, 60), Shape("Pennant", TRUE, 60), Shape("Flag", up, 60),
                   Shape("Rising Wedge", FALSE, 55), Shape("Falling Wedge", TRUE, 55), NoShape}
    BY DEF ClassifyPattern, u, l, i
  <2>4. /\ Shapely(Shape("Symmetric Triangle", TRUE, 55)) /\ Shapely(Shape("Descending Triangle", FALSE, 60))
        /\ Shapely(Shape("Ascending Triangle", TRUE, 60)) /\ Shapely(Shape("Pennant", TRUE, 60))
        /\ Shapely(Shape("Flag", up, 60)) /\ Shapely(Shape("Rising Wedge", FALSE, 55))
        /\ Shapely(Shape("Falling Wedge", TRUE, 55)) /\ Shapely(NoShape)
    <3>1. {"Symmetric Triangle", "Descending Triangle", "Ascending Triangle",
           "Pennant", "Flag", "Rising Wedge", "Falling Wedge"} \subseteq PatternNames
      BY DEF PatternNames
    <3>2. TRUE \in BOOLEAN /\ FALSE \in BOOLEAN /\ 55 \in 1..100 /\ 60 \in 1..100
      OBVIOUS
    <3>3. Shapely(NoShape)
      BY DEF Shapely
    <3> HIDE DEF up
    <3>4. QED
      BY <2>2, <3>1, <3>2, <3>3, ShapeNamed
  <2>5. Shapely(shape)
    <3> HIDE DEF shape, up
    <3>1. QED
      BY <2>3, <2>4
  <2>6. QED
    BY <2>5 DEF Shapely
<1>3. DetectChartPatterns(h, lines) = IF n < Lookback THEN <<>>
                                      ELSE IF ~lines.fitted \/ shape = NoShape THEN <<>> ELSE <<p>>
  BY DEF DetectChartPatterns
<1> HIDE DEF window, shape
<1>4. CASE n >= Lookback /\ shape # NoShape
  <2>1. n - Lookback + 1 \in 1..n
    BY <1>1, <1>4
  <2>2. "chart" \in PatternKinds /\ NoPrice \in Int
    BY DEF PatternKinds, NoPrice
  <2>3. p \in Kind(n, "chart")
    <3> HIDE DEF n
    <3>1. QED
      BY <1>1, <1>2, <1>4, <2>1, <2>2, PatternSound
  <2> HIDE DEF p, n
  <2>4. QED
    BY <1>3, <2>3 DEF n
<1>5. CASE ~(n >= Lookback /\ shape # NoShape)
  <2> HIDE DEF p, n
  <2>1. DetectChartPatterns(h, lines) = <<>>
    BY <1>1, <1>3, <1>5
  <2>2. QED
    BY <2>1
<1>6. QED
  BY <1>4, <1>5

(***************************************************************************)
(* The swing                                                               *)
(***************************************************************************)
LEMMA ExtremaThere ==
    ASSUME NEW h \in Seq(CandleOk), Len(h) >= 1
    PROVE  /\ Maxima(h) \subseteq 1..Len(h) /\ Maxima(h) # {}
           /\ Minima(h) \subseteq 1..Len(h) /\ Minima(h) # {}
           /\ Max(Maxima(h)) \in Maxima(h) /\ Max(Minima(h)) \in Minima(h)
           /\ \A i \in Maxima(h) : i <= Max(Maxima(h))
           /\ \A i \in Minima(h) : i <= Max(Minima(h))
<1> DEFINE n == Len(h)
           top == [i \in 1..n |-> h[i].high]
           low == [i \in 1..n |-> h[i].low]
           tops == {top[i] : i \in 1..n}
           lows == {low[i] : i \in 1..n}
<1>1. n \in Nat /\ 1 \in 1..n /\ DOMAIN h = 1..n
  BY CandlesAre
<1>2. \A i \in 1..n : top[i] \in Int /\ low[i] \in Int /\ top[i] = h[i].high /\ low[i] = h[i].low
  BY CandlesAre
<1>3. IsFiniteSet(tops) /\ Whole(tops) /\ tops # {}
  <2>1. DOMAIN top = 1..n /\ top = [x \in DOMAIN top |-> top[x]]
    OBVIOUS
  <2>2. IsFiniteSet(1..n)
    BY <1>1, FS_Interval
  <2> HIDE DEF top, n
  <2>3. IsFiniteSet({top[x] : x \in DOMAIN top})
    BY <2>1, <2>2, ImageFinite
  <2>4. IsFiniteSet(tops)
    BY <2>1, <2>3
  <2>5. QED
    BY <1>1, <1>2, <2>4 DEF Whole
<1>4. IsFiniteSet(lows) /\ Whole(lows) /\ lows # {}
  <2>1. DOMAIN low = 1..n /\ low = [x \in DOMAIN low |-> low[x]]
    OBVIOUS
  <2>2. IsFiniteSet(1..n)
    BY <1>1, FS_Interval
  <2> HIDE DEF low, n
  <2>3. IsFiniteSet({low[x] : x \in DOMAIN low})
    BY <2>1, <2>2, ImageFinite
  <2>4. IsFiniteSet(lows)
    BY <2>1, <2>3
  <2>5. QED
    BY <1>1, <1>2, <2>4 DEF Whole
<1> HIDE DEF top, low, n
<1>5. PICK t \in 1..n : \A i \in 1..n : h[i].high <= h[t].high
  <2>1. Max(tops) \in tops /\ \A x \in tops : x <= Max(tops)
    <3> HIDE DEF tops
    <3>1. QED
      BY <1>3, MaxIs
  <2>2. PICK t \in 1..n : Max(tops) = top[t]
    BY <2>1
  <2>3. \A i \in 1..n : top[i] <= top[t]
    BY <2>1, <2>2
  <2>4. QED
    BY <1>2, <2>3
<1>6. PICK b \in 1..n : \A i \in 1..n : h[b].low <= h[i].low
  <2>1. Min(lows) \in lows /\ \A x \in lows : Min(lows) <= x
    <3> HIDE DEF lows
    <3>1. QED
      BY <1>4, MinIs
  <2>2. PICK b \in 1..n : Min(lows) = low[b]
    BY <2>1
  <2>3. \A i \in 1..n : low[b] <= low[i]
    BY <2>1, <2>2
  <2>4. QED
    BY <1>2, <2>3
<1>7. t \in Maxima(h) /\ b \in Minima(h)
  <2>1. Near(h, t) \subseteq 1..n /\ Near(h, b) \subseteq 1..n
    BY <1>1 DEF Near
  <2>2. \A j \in Near(h, t) : h[t].high >= h[j].high
    BY <1>2, <1>5, <2>1
  <2>3. \A j \in Near(h, b) : h[b].low <= h[j].low
    BY <1>6, <2>1
  <2>4. QED
    BY <1>1, <2>2, <2>3 DEF Maxima, Minima
<1>8. Maxima(h) \subseteq 1..n /\ Minima(h) \subseteq 1..n
  BY <1>1 DEF Maxima, Minima
<1> DEFINE A == Maxima(h)
           B == Minima(h)
<1> HIDE DEF A, B
<1>9. /\ A # {} /\ B # {} /\ IsFiniteSet(A) /\ Whole(A) /\ IsFiniteSet(B) /\ Whole(B)
  BY <1>1, <1>7, <1>8, PlacesIs DEF A, B
<1>10. Max(A) \in A /\ Max(B) \in B /\ (\A i \in A : i <= Max(A)) /\ (\A i \in B : i <= Max(B))
  BY <1>9, MaxIs
<1>11. QED
  BY <1>8, <1>9, <1>10 DEF A, B, n

\* No candle after the last maximum is higher, none after the last minimum lower.
LEMMA LastExtrema ==
    ASSUME NEW h \in Seq(CandleOk), Len(h) >= 1
    PROVE  /\ \A i \in Max(Maxima(h))..Len(h) : h[i].high <= h[Max(Maxima(h))].high
           /\ \A i \in Max(Minima(h))..Len(h) : h[Max(Minima(h))].low <= h[i].low
<1> DEFINE n == Len(h)
           t == Max(Maxima(h))
           b == Max(Minima(h))
<1>0. n \in Nat /\ DOMAIN h = 1..n /\ Order \in Nat \ {0}
  BY CandlesAre, PatternsAssumption
<1>1. /\ t \in 1..n /\ b \in 1..n /\ t \in Maxima(h) /\ b \in Minima(h)
      /\ \A i \in Maxima(h) : i <= t
      /\ \A i \in Minima(h) : i <= b
  BY ExtremaThere
<1>2. \A i \in 1..n : h[i].high \in Int /\ h[i].low \in Int
  BY CandlesAre
<1> HIDE DEF n, t, b
<1>3. /\ \A j \in 1..n : t - Order <= j /\ j <= t + Order => h[t].high >= h[j].high
      /\ \A j \in 1..n : b - Order <= j /\ j <= b + Order => h[b].low <= h[j].low
  BY <1>0, <1>1 DEF Maxima, Minima, Near
<1>4. ASSUME NEW m \in t..n, h[m].high > h[t].high PROVE FALSE
  <2> DEFINE S == {i \in 1..n : i >= t /\ h[i].high > h[t].high}
             top == [i \in S |-> h[i].high]
             tops == {top[i] : i \in S}
  <2>1. S \subseteq 1..n /\ S # {} /\ IsFiniteSet(S)
    <3>1. S \subseteq 1..n /\ m \in S
      BY <1>0, <1>1, <1>4
    <3> HIDE DEF S
    <3>2. QED
      BY <1>0, <3>1, PlacesInOrder
  <2>2. \A i \in S : i >= t /\ h[i].high > h[t].high
    OBVIOUS
  <2>2a. \A i \in 1..n : i >= t /\ h[i].high > h[t].high => i \in S
    OBVIOUS
  <2> HIDE DEF S
  <2>3. IsFiniteSet(tops) /\ Whole(tops) /\ tops # {}
    <3>1. DOMAIN top = S /\ top = [x \in DOMAIN top |-> top[x]]
      OBVIOUS
    <3>2. \A i \in S : top[i] \in Int
      BY <1>2, <2>1
    <3> HIDE DEF top
    <3>3. IsFiniteSet({top[x] : x \in DOMAIN top})
      BY <3>1, <2>1, ImageFinite
    <3>4. IsFiniteSet(tops)
      BY <3>1, <3>3
    <3>5. QED
      BY <2>1, <3>2, <3>4 DEF Whole
  <2>4. Max(tops) \in tops /\ \A x \in tops : x <= Max(tops)
    <3> HIDE DEF tops
    <3>1. QED
      BY <2>3, MaxIs
  <2>5. PICK p \in S : Max(tops) = h[p].high
    BY <2>4
  <2>6. \A i \in S : h[i].high <= h[p].high
    BY <2>4, <2>5
  <2>7. p \in 1..n /\ p >= t /\ h[p].high > h[t].high
    BY <2>1, <2>2
  <2>8. ASSUME NEW j \in 1..n, p - Order <= j, j <= p + Order PROVE h[p].high >= h[j].high
    <3>1. CASE j >= t
      <4>1. CASE h[j].high > h[t].high
        BY <2>2a, <2>6, <3>1, <4>1, <1>2, <2>7
      <4>2. CASE ~(h[j].high > h[t].high)
        BY <1>1, <1>2, <2>7, <4>2
      <4>3. QED
        BY <4>1, <4>2
    <3>2. CASE j < t
      <4>1. t - Order <= j /\ j <= t + Order
        BY <1>0, <1>1, <2>7, <2>8, <3>2
      <4>2. h[t].high >= h[j].high
        BY <1>3, <4>1
      <4>3. QED
        BY <1>1, <1>2, <2>7, <4>2
    <3>3. QED
      BY <1>1, <3>1, <3>2
  <2>9. p \in Maxima(h)
    BY <1>0, <2>7, <2>8 DEF Maxima, Near
  <2>10. p = t
    BY <1>1, <2>7, <2>9
  <2>11. QED
    BY <1>1, <1>2, <2>7, <2>10
<1>5. ASSUME NEW m \in b..n, h[m].low < h[b].low PROVE FALSE
  <2> DEFINE S == {i \in 1..n : i >= b /\ h[i].low < h[b].low}
             low == [i \in S |-> h[i].low]
             lows == {low[i] : i \in S}
  <2>1. S \subseteq 1..n /\ S # {} /\ IsFiniteSet(S)
    <3>1. S \subseteq 1..n /\ m \in S
      BY <1>0, <1>1, <1>5
    <3> HIDE DEF S
    <3>2. QED
      BY <1>0, <3>1, PlacesInOrder
  <2>2. \A i \in S : i >= b /\ h[i].low < h[b].low
    OBVIOUS
  <2>2a. \A i \in 1..n : i >= b /\ h[i].low < h[b].low => i \in S
    OBVIOUS
  <2> HIDE DEF S
  <2>3. IsFiniteSet(lows) /\ Whole(lows) /\ lows # {}
    <3>1. DOMAIN low = S /\ low = [x \in DOMAIN low |-> low[x]]
      OBVIOUS
    <3>2. \A i \in S : low[i] \in Int
      BY <1>2, <2>1
    <3> HIDE DEF low
    <3>3. IsFiniteSet({low[x] : x \in DOMAIN low})
      BY <3>1, <2>1, ImageFinite
    <3>4. IsFiniteSet(lows)
      BY <3>1, <3>3
    <3>5. QED
      BY <2>1, <3>2, <3>4 DEF Whole
  <2>4. Min(lows) \in lows /\ \A x \in lows : Min(lows) <= x
    <3> HIDE DEF lows
    <3>1. QED
      BY <2>3, MinIs
  <2>5. PICK p \in S : Min(lows) = h[p].low
    BY <2>4
  <2>6. \A i \in S : h[p].low <= h[i].low
    BY <2>4, <2>5
  <2>7. p \in 1..n /\ p >= b /\ h[p].low < h[b].low
    BY <2>1, <2>2
  <2>8. ASSUME NEW j \in 1..n, p - Order <= j, j <= p + Order PROVE h[p].low <= h[j].low
    <3>1. CASE j >= b
      <4>1. CASE h[j].low < h[b].low
        BY <2>2a, <2>6, <3>1, <4>1, <1>2, <2>7
      <4>2. CASE ~(h[j].low < h[b].low)
        BY <1>1, <1>2, <2>7, <4>2
      <4>3. QED
        BY <4>1, <4>2
    <3>2. CASE j < b
      <4>1. b - Order <= j /\ j <= b + Order
        BY <1>0, <1>1, <2>7, <2>8, <3>2
      <4>2. h[b].low <= h[j].low
        BY <1>3, <4>1
      <4>3. QED
        BY <1>1, <1>2, <2>7, <4>2
    <3>3. QED
      BY <1>1, <3>1, <3>2
  <2>9. p \in Minima(h)
    BY <1>0, <2>7, <2>8 DEF Minima, Near
  <2>10. p = b
    BY <1>1, <2>7, <2>9
  <2>11. QED
    BY <1>1, <1>2, <2>7, <2>10
<1>6. ASSUME NEW i \in t..n PROVE h[i].high <= h[t].high
  <2>1. i \in 1..n
    BY <1>0, <1>1
  <2>2. QED
    BY <1>1, <1>2, <1>4, <2>1
<1>7. ASSUME NEW i \in b..n PROVE h[b].low <= h[i].low
  <2>1. i \in 1..n
    BY <1>0, <1>1
  <2>2. QED
    BY <1>1, <1>2, <1>5, <2>1
<1>8. QED
  BY <1>6, <1>7 DEF n, t, b

LEMMA SwingIs ==
    ASSUME NEW h \in Seq(CandleOk), Len(h) >= 1
    PROVE  /\ Swing(h).top \in 1..Len(h) /\ Swing(h).bottom \in 1..Len(h)
           /\ Swing(h).low \in Int /\ Swing(h).high \in Int
           /\ Swing(h).low <= Swing(h).high
<1> DEFINE n == Len(h)
           t == Max(Maxima(h))
           b == Max(Minima(h))
<1>0. n \in Nat
  OBVIOUS
<1>1. t \in 1..n /\ b \in 1..n
  BY ExtremaThere
<1>2. \A i \in 1..n : h[i].high \in Int /\ h[i].low \in Int /\ h[i].low <= h[i].high
  BY CandlesAre
<1>3. /\ \A i \in t..n : h[i].high <= h[t].high
      /\ \A i \in b..n : h[b].low <= h[i].low
  BY LastExtrema
<1>4. Swing(h) = [top |-> t, bottom |-> b, high |-> h[t].high, low |-> h[b].low]
  BY DEF Swing
<1> HIDE DEF n, t, b
<1>5. h[b].low <= h[t].high
  <2>1. CASE t <= b
    <3>1. h[b].high <= h[t].high
      BY <1>0, <1>1, <1>3, <2>1
    <3>2. QED
      BY <1>1, <1>2, <3>1
  <2>2. CASE b < t
    <3>1. h[b].low <= h[t].low
      BY <1>0, <1>1, <1>3, <2>2
    <3>2. QED
      BY <1>1, <1>2, <3>1
  <2>3. QED
    BY <1>0, <1>1, <2>1, <2>2
<1>6. QED
  BY <1>1, <1>2, <1>4, <1>5 DEF n

\* A share, in thousandths.
Share == {x \in Int : 0 <= x /\ x <= 1000}

\* A retracement of r, from either end.
Inside(low, high, r) ==
    /\ 1000 * low <= 1000 * high - r /\ 1000 * high - r <= 1000 * high
    /\ 1000 * low <= 1000 * low + r /\ 1000 * low + r <= 1000 * high

LEMMA FiboInside ==
    ASSUME NEW low \in Int, NEW high \in Int, low <= high, NEW level \in Share
    PROVE  Inside(low, high, level * (high - low))
<1> DEFINE d == high - low
<1>0. level \in Int /\ 0 <= level /\ level <= 1000
  BY DEF Share
<1>1. d \in Nat /\ high = low + d
  OBVIOUS
<1> HIDE DEF d
<1>2. 0 <= level * d /\ level * d <= 1000 * d
  BY <1>0, <1>1
<1>3. level * d \in Int
  BY <1>0, <1>1
<1>4. QED
  BY <1>1, <1>2, <1>3 DEF d, Inside

LEMMA FibosAre ==
    /\ DOMAIN FiboLevels = 1..5
    /\ \A k \in DOMAIN FiboLevels : FiboLevels[k] \in Share
    /\ \A k \in DOMAIN FiboLevels : FiboNames[k] \in PatternNames
<1>1. DOMAIN FiboLevels = 1..5 /\ DOMAIN FiboNames = 1..5
  BY DEF FiboLevels, FiboNames
<1>2. ASSUME NEW k \in 1..5 PROVE FiboLevels[k] \in Share
  <2>1. k = 1 \/ k = 2 \/ k = 3 \/ k = 4 \/ k = 5
    OBVIOUS
  <2>2. QED
    BY <2>1 DEF FiboLevels, Share
<1>3. ASSUME NEW k \in 1..5 PROVE FiboNames[k] \in PatternNames
  BY <1>1 DEF PatternNames
<1>4. QED
  BY <1>1, <1>2, <1>3

LEMMA FiboPriceInside ==
    ASSUME NEW h \in Seq(CandleOk), Len(h) >= 1, NEW k \in DOMAIN FiboLevels
    PROVE  FiboPrice(Swing(h), FiboLevels[k]) \in 1000 * Swing(h).low .. 1000 * Swing(h).high
<1>1. FiboLevels[k] \in Share
  BY FibosAre
<1> DEFINE s == Swing(h)
           level == FiboLevels[k]
           low == s.low
           high == s.high
           r == level * (high - low)
<1>2. low \in Int /\ high \in Int /\ low <= high
  BY SwingIs
<1>3. level \in Share
  BY <1>1
<1>4. FiboPrice(s, level) = IF s.bottom < s.top THEN 1000 * high - r ELSE 1000 * low + r
  BY DEF FiboPrice
<1> HIDE DEF s, level, low, high
<1>5. /\ 1000 * low <= 1000 * high - r /\ 1000 * high - r <= 1000 * high
      /\ 1000 * low <= 1000 * low + r /\ 1000 * low + r <= 1000 * high
  <2>1. Inside(low, high, r)
    BY <1>2, <1>3, FiboInside
  <2>2. QED
    BY <2>1 DEF Inside
<1>6. r \in Int
  <2>1. level \in Int /\ high - low \in Int
    BY <1>2, <1>3 DEF Share
  <2>2. QED
    BY <2>1
<1> HIDE DEF r
<1>7. FiboPrice(s, level) \in 1000 * low .. 1000 * high
  BY <1>2, <1>4, <1>5, <1>6
<1>8. QED
  BY <1>7 DEF s, level, low, high

LEMMA FibonacciSound ==
    ASSUME NEW h \in Seq(CandleOk), Len(h) >= 1
    PROVE  CalculateFibonacciLevels(h) \in Seq(Kind(Len(h), "fibonacci"))
<1> DEFINE n == Len(h)
           s == Swing(h)
           list == [k \in DOMAIN FiboLevels |-> FiboPattern(h, s, k)]
<1>1. n \in Nat /\ n >= 1
  OBVIOUS
<1>2. ASSUME NEW k \in 1..5 PROVE FiboPattern(h, s, k) \in Kind(n, "fibonacci")
  <2>0. DOMAIN FiboLevels = 1..5
    BY DEF FiboLevels
  <2> DEFINE price == FiboPrice(s, FiboLevels[k])
             active == 100 * Abs(1000 * Close(h) - price) <= 1000 * Close(h)
             at == IF s.bottom < s.top THEN s.top ELSE s.bottom
  <2>1. price \in Int /\ at \in 1..n /\ (s.bottom < s.top) \in BOOLEAN
    <3>1. s.top \in 1..n /\ s.bottom \in 1..n /\ s.low \in Int /\ s.high \in Int
      BY SwingIs
    <3>2. price \in 1000 * s.low .. 1000 * s.high
      BY <2>0, FiboPriceInside
    <3> HIDE DEF price, s
    <3>3. QED
      BY <3>1, <3>2
  <2>2. FiboNames[k] \in PatternNames /\ "fibonacci" \in PatternKinds
    BY FibosAre DEF PatternKinds
  <2>3. Text(price, 1000) \in Int
    <3> HIDE DEF price
    <3>1. 1000 \in Nat \ {0}
      OBVIOUS
    <3>2. QED
      BY <2>1, <3>1, TextInt
  <2>4. FiboPattern(h, s, k) = Pattern("fibonacci", FiboNames[k], s.bottom < s.top,
                                       IF active THEN 80 ELSE 50, at, Text(price, 1000))
    BY DEF FiboPattern
  <2>5. (IF active THEN 80 ELSE 50) \in 1..100
    <3> HIDE DEF active
    <3>1. QED
      OBVIOUS
  <2> DEFINE confidence == IF active THEN 80 ELSE 50
             text == Text(price, 1000)
             bullish == s.bottom < s.top
             name == FiboNames[k]
  <2>6. /\ bullish \in BOOLEAN /\ confidence \in 1..100 /\ at \in 1..n /\ text \in Int
        /\ name \in PatternNames /\ "fibonacci" \in PatternKinds /\ n \in Nat
    BY <1>1, <2>1, <2>2, <2>3, <2>5
  <2>7. FiboPattern(h, s, k) = Pattern("fibonacci", name, bullish, confidence, at, text)
    BY <2>4
  <2> HIDE DEF confidence, text, bullish, name, at, n, s, active, price
  <2>8. QED
    BY <2>6, <2>7, PatternSound
<1>3. DOMAIN FiboLevels = 1..5
  BY DEF FiboLevels
<1>4. CalculateFibonacciLevels(h) = IF n < MinSwing THEN <<>> ELSE IF s.high = s.low THEN <<>> ELSE list
  BY DEF CalculateFibonacciLevels
<1> HIDE DEF n, s
<1>5. list \in Seq(Kind(n, "fibonacci"))
  BY <1>2, <1>3
<1> HIDE DEF list
<1>6. QED
  BY <1>4, <1>5 DEF n

(***************************************************************************)
(* Impulse, correction, impulse                                            *)
(***************************************************************************)
LEMMA ReachInt ==
    ASSUME NEW h \in Seq(CandleOk), NEW bullish, NEW i \in 1..Len(h), NEW j \in 1..Len(h)
    PROVE  Reach(h, bullish, i, j) \in Int /\ Retrace(h, bullish, i, j) \in Int
<1>1. h[i].high \in Int /\ h[i].low \in Int /\ h[j].high \in Int /\ h[j].low \in Int
  BY CandlesAre
<1>2. QED
  BY <1>1 DEF Reach, Retrace

Window(a, b, n) == a..Least(b, n)

LEMMA WindowIs ==
    ASSUME NEW n \in Nat, NEW a \in Nat, NEW b \in Int, NEW K, K \subseteq Window(a, b, n), a >= 1
    PROVE  K # {} => Min(K) \in K /\ Min(K) \in 1..n /\ Min(K) >= a
<1>1. Least(b, n) \in Int /\ Least(b, n) <= n
  BY LeastIs
<1>2. K \subseteq 1..n /\ \A k \in K : k >= a
  BY <1>1 DEF Window
<1>3. K # {} => Min(K) \in K
  BY <1>2, PlacesIs
<1>4. QED
  BY <1>2, <1>3

LEMMA SecondImpulseIs ==
    ASSUME NEW h \in Seq(CandleOk), NEW bullish, NEW c \in 1..Len(h), NEW t \in Nat \ {0}
    PROVE  LET f == SecondImpulse(h, bullish, c, t) IN
           /\ f \in 0..100
           /\ f # 0 => \E m \in 1..Len(h) : c < m /\ 2 * Reach(h, bullish, c, m) >= t
<1> DEFINE n == Len(h)
           K == {m \in Window(c + 1, c + MaxImpulse - 1, n) : 2 * Reach(h, bullish, c, m) >= t}
           second == IF K = {} THEN 0 ELSE Min(K)
           reach == Reach(h, bullish, c, second)
           f == SecondImpulse(h, bullish, c, t)
<1>0. n \in Nat /\ MaxImpulse \in Nat
  BY PatternsAssumption
<1>1. f = IF second = 0 THEN 0 ELSE Least(100, 30 + RoundDiv(70 * reach, t))
  BY DEF SecondImpulse, First, Window
<1>2. K # {} => Min(K) \in K /\ Min(K) \in 1..n /\ Min(K) >= c + 1
  <2>1. c + 1 \in Nat /\ c + MaxImpulse - 1 \in Int /\ c + 1 >= 1
    BY <1>0
  <2>2. K \subseteq Window(c + 1, c + MaxImpulse - 1, n)
    OBVIOUS
  <2> HIDE DEF K, n
  <2>3. QED
    BY <1>0, <2>1, <2>2, WindowIs
<1>3. CASE second = 0
  <2> HIDE DEF second, f, reach
  <2>1. f = 0
    BY <1>1, <1>3
  <2>2. QED
    BY <2>1 DEF f
<1>4. CASE second # 0
  <2>1. second \in 1..n /\ c < second /\ 2 * reach >= t
    <3>1. K # {} /\ second = Min(K)
      BY <1>4
    <3>2. Min(K) \in K
      BY <1>2, <3>1
    <3>3. 2 * Reach(h, bullish, c, Min(K)) >= t
      BY <3>2
    <3> HIDE DEF K
    <3>4. second \in 1..n /\ c < second
      BY <1>0, <1>2, <3>1
    <3>5. QED
      BY <3>1, <3>3, <3>4
  <2>2. reach \in Int
    <3> HIDE DEF second
    <3>1. QED
      BY <2>1, ReachInt
  <2> HIDE DEF second, reach, f
  <2> DEFINE x == 70 * reach
             r == RoundDiv(x, t)
  <2>3. x \in Int /\ x >= 0
    BY <2>1, <2>2
  <2>4. r \in Nat
    <3> HIDE DEF x
    <3>1. r \in Int /\ r >= 0
      BY <2>3, RoundDivIs
    <3>2. QED
      BY <3>1
  <2>5. f \in 0..100
    <3> HIDE DEF r
    <3>1. f = Least(100, 30 + r)
      BY <1>1, <1>4 DEF r
    <3>2. QED
      BY <2>4, <3>1 DEF Least
  <2>6. QED
    BY <2>1, <2>5 DEF f, n, reach
<1>5. QED
  BY <1>3, <1>4

LEMMA AfterImpulseIs ==
    ASSUME NEW h \in Seq(CandleOk), NEW bullish, NEW j \in 1..Len(h), NEW size \in Nat \ {0}, NEW t \in Nat \ {0}
    PROVE  LET f == AfterImpulse(h, bullish, j, size, t) IN
           /\ f \in 0..100
           /\ f # 0 => \E k, m \in 1..Len(h) :
                            /\ j < k /\ k < m
                            /\ Retrace(h, bullish, j, k) < size
                            /\ 2 * Reach(h, bullish, k, m) >= t
<1> DEFINE n == Len(h)
           K == {k \in Window(j + 1, j + MaxCorrection - 1, n) : 1000 * Retrace(h, bullish, j, k) >= 382 * size}
           c == IF K = {} THEN 0 ELSE Min(K)
           back == Retrace(h, bullish, j, c)
           next == SecondImpulse(h, bullish, c, t)
           f == AfterImpulse(h, bullish, j, size, t)
<1>0. n \in Nat /\ MaxCorrection \in Nat
  BY PatternsAssumption
<1>1. f = IF c = 0 THEN 0 ELSE IF 1000 * back > 618 * size THEN 0 ELSE next
  BY DEF AfterImpulse, First, Window
<1>2. K # {} => Min(K) \in K /\ Min(K) \in 1..n /\ Min(K) >= j + 1
  <2>1. j + 1 \in Nat /\ j + MaxCorrection - 1 \in Int /\ j + 1 >= 1
    BY <1>0
  <2>2. K \subseteq Window(j + 1, j + MaxCorrection - 1, n)
    OBVIOUS
  <2> HIDE DEF K, n
  <2>3. QED
    BY <1>0, <2>1, <2>2, WindowIs
<1>3. c # 0 => c \in 1..n /\ j < c
  <2> HIDE DEF K
  <2>1. QED
    BY <1>0, <1>2
<1>4. CASE c = 0 \/ 1000 * back > 618 * size
  <2> HIDE DEF c, f, back, next
  <2>1. f = 0
    BY <1>1, <1>4
  <2>2. QED
    BY <2>1 DEF f
<1>5. CASE ~(c = 0 \/ 1000 * back > 618 * size)
  <2>1. c \in 1..n /\ j < c /\ back \in Int
    <3> HIDE DEF c
    <3>1. QED
      BY <1>3, <1>5, ReachInt
  <2>2. /\ next \in 0..100
        /\ next # 0 => \E m \in 1..n : c < m /\ 2 * Reach(h, bullish, c, m) >= t
    <3> HIDE DEF c
    <3>1. QED
      BY <2>1, SecondImpulseIs
  <2> HIDE DEF c, f, next, back
  <2>3. f = next
    BY <1>1, <1>5
  <2>4. back < size
    BY <1>5, <2>1
  <2>5. QED
    BY <2>1, <2>2, <2>3, <2>4 DEF f, back
<1>6. QED
  BY <1>4, <1>5

\* What IkiIsReal asks of one pattern.
IkiThere(h, bullish, at) ==
    \E j, k, m \in DOMAIN h :
        /\ at < j /\ j < k /\ k < m
        /\ Reach(h, bullish, at, j) >= 2 * Atr(h)
        /\ Reach(h, bullish, k, m) >= Atr(h)
        /\ Retrace(h, bullish, j, k) < Reach(h, bullish, at, j)

LEMMA FindIkiIs ==
    ASSUME NEW h \in Seq(CandleOk), NEW bullish, NEW i \in 1..Len(h), FullAtr(h) # 0
    PROVE  LET f == FindIki(h, i, bullish) IN
           f \in 0..100 /\ (f # 0 => IkiThere(h, bullish, i))
<1> DEFINE n == Len(h)
           t == 2 * FullAtr(h)
           K == {j \in Window(i + 2, i + MaxImpulse - 1, n) : Reach(h, bullish, i, j) >= t}
           impulse == IF K = {} THEN 0 ELSE Min(K)
           size == Reach(h, bullish, i, impulse)
           next == AfterImpulse(h, bullish, impulse, size, t)
           f == FindIki(h, i, bullish)
<1>0. n \in Nat /\ MaxImpulse \in Nat /\ DOMAIN h = 1..n
  BY PatternsAssumption, CandlesAre
<1>1. f = IF impulse = 0 THEN 0 ELSE next
  BY DEF FindIki, First, Window
<1>2. K # {} => Min(K) \in K /\ Min(K) \in 1..n /\ Min(K) >= i + 2
  <2>1. i + 2 \in Nat /\ i + MaxImpulse - 1 \in Int /\ i + 2 >= 1
    BY <1>0
  <2>2. K \subseteq Window(i + 2, i + MaxImpulse - 1, n)
    OBVIOUS
  <2> HIDE DEF K, n
  <2>3. QED
    BY <1>0, <2>1, <2>2, WindowIs
<1>3. impulse # 0 => impulse \in 1..n /\ i < impulse /\ size >= t
  <2>1. SUFFICES ASSUME impulse # 0 PROVE impulse \in 1..n /\ i < impulse /\ size >= t
    OBVIOUS
  <2>2. K # {} /\ impulse = Min(K)
    BY <2>1
  <2>3. Min(K) \in K
    BY <1>2, <2>2
  <2>4. Reach(h, bullish, i, Min(K)) >= t
    BY <2>3
  <2> HIDE DEF K
  <2>5. impulse \in 1..n /\ i < impulse
    BY <1>0, <1>2, <2>2
  <2>6. QED
    BY <2>2, <2>4, <2>5
<1>4. Atr(h) \in Nat \ {0} /\ FullAtr(h) = Atr(h) /\ t = 2 * Atr(h) /\ t \in Nat \ {0}
  <2>1. Atr(h) \in Nat /\ FullAtr(h) \in Nat /\ FullAtr(h) = Atr(h)
    BY AtrIs
  <2>2. QED
    BY <2>1
<1> HIDE DEF K, impulse
<1>5. CASE impulse = 0
  <2>1. f = 0
    <3> HIDE DEF f, next
    <3>1. QED
      BY <1>1, <1>5
  <2>2. QED
    BY <2>1
<1>6. CASE impulse # 0
  <2>1. impulse \in 1..n /\ i < impulse /\ size \in Int /\ size >= t
    BY <1>3, <1>6, ReachInt
  <2> HIDE DEF t, size
  <2>2. size \in Nat \ {0}
    BY <1>4, <2>1
  <2>3. /\ next \in 0..100
        /\ next # 0 => \E k, m \in 1..n :
                            /\ impulse < k /\ k < m
                            /\ Retrace(h, bullish, impulse, k) < size
                            /\ 2 * Reach(h, bullish, k, m) >= t
    BY <1>4, <2>1, <2>2, AfterImpulseIs
  <2>4. f = next
    <3> HIDE DEF f, next
    <3>1. QED
      BY <1>1, <1>6
  <2>5. ASSUME next # 0 PROVE IkiThere(h, bullish, i)
    <3>1. PICK k \in 1..n, m \in 1..n :
                            /\ impulse < k /\ k < m
                            /\ Retrace(h, bullish, impulse, k) < size
                            /\ 2 * Reach(h, bullish, k, m) >= t
      BY <2>3, <2>5
    <3>2. Reach(h, bullish, k, m) \in Int
      BY ReachInt
    <3>3. Reach(h, bullish, k, m) >= Atr(h)
      BY <1>4, <3>1, <3>2
    <3>4. Reach(h, bullish, i, impulse) >= 2 * Atr(h) /\ Reach(h, bullish, i, impulse) = size
      BY <1>4, <2>1 DEF size
    <3> HIDE DEF n
    <3>5. QED
      BY <1>0, <2>1, <3>1, <3>3, <3>4 DEF IkiThere
  <2>6. QED
    BY <2>3, <2>4, <2>5
<1>7. QED
  BY <1>5, <1>6

IkiKind(h) == {p \in Kind(Len(h), "iki") : IkiThere(h, p.bullish, p.at)}

LEMMA NewestSound ==
    ASSUME NEW h \in Seq(CandleOk), NEW bullish \in BOOLEAN, NEW starts, starts \subseteq 1..Len(h), FullAtr(h) # 0
    PROVE  Newest(h, bullish, starts) \in Seq(IkiKind(h))
<1> DEFINE n == Len(h)
           found == {i \in starts : FindIki(h, i, bullish) > 0}
           at == Max(found)
           p == Pattern("iki", "iki", bullish, FindIki(h, at, bullish), at, NoPrice)
<1>0. n \in Nat
  OBVIOUS
<1>1. Newest(h, bullish, starts) = IF found = {} THEN <<>> ELSE <<p>>
  BY DEF Newest
<1>2. CASE found # {}
  <2>1. at \in found
    <3>1. found \subseteq 1..n
      OBVIOUS
    <3> HIDE DEF found, n
    <3>2. QED
      BY <1>0, <1>2, <3>1, PlacesIs
  <2>2. at \in 1..n /\ FindIki(h, at, bullish) > 0
    BY <2>1
  <2> HIDE DEF at, found
  <2>3. FindIki(h, at, bullish) \in 1..100 /\ IkiThere(h, bullish, at)
    BY <2>2, FindIkiIs
  <2>4. "iki" \in PatternKinds /\ "iki" \in PatternNames /\ NoPrice \in Int
    BY DEF PatternKinds, PatternNames, NoPrice
  <2>5. p \in Kind(n, "iki")
    BY <1>0, <2>2, <2>3, <2>4, PatternSound
  <2>6. p.bullish = bullish /\ p.at = at
    BY DEF Pattern
  <2> HIDE DEF p
  <2>7. p \in IkiKind(h)
    BY <2>3, <2>5, <2>6 DEF IkiKind
  <2>8. QED
    BY <1>1, <1>2, <2>7
<1>3. CASE found = {}
  BY <1>1, <1>3
<1>4. QED
  BY <1>2, <1>3

LEMMA IkisSound ==
    ASSUME NEW h \in Seq(CandleOk)
    PROVE  DetectIki(h) \in Seq(IkiKind(h))
<1> DEFINE n == Len(h)
           low == Max({AtrPeriod, n - ScanBack})
           starts == low + 1 .. n - ScanTail
           both == Newest(h, TRUE, starts) \o Newest(h, FALSE, starts)
           S == IkiKind(h)
<1>0. n \in Nat /\ AtrPeriod \in Nat \ {0} /\ ScanBack \in Nat /\ ScanTail \in Nat
  BY PatternsAssumption
<1>1. starts \subseteq 1..n
  <2>1. low \in Int /\ low >= AtrPeriod
    <3>1. AtrPeriod \in Int /\ n - ScanBack \in Int
      BY <1>0
    <3> DEFINE b == n - ScanBack
    <3> HIDE DEF b
    <3>2. QED
      BY <3>1, PairIs DEF b
  <2> HIDE DEF low, n
  <2>2. QED
    BY <1>0, <2>1
<1>2. DetectIki(h) = IF n < MinIki \/ FullAtr(h) = 0 THEN <<>>
                     ELSE both
  BY DEF DetectIki
<1> HIDE DEF starts
<1>3. ASSUME FullAtr(h) # 0 PROVE both \in Seq(S)
  <2>1. Newest(h, TRUE, starts) \in Seq(S) /\ Newest(h, FALSE, starts) \in Seq(S)
    BY <1>1, <1>3, NewestSound
  <2> HIDE DEF S
  <2>2. QED
    BY <2>1, ConcatProperties
<1>4. DetectIki(h) \in {<<>>, both} /\ (FullAtr(h) = 0 => DetectIki(h) = <<>>)
  <2> HIDE DEF both, n
  <2>1. QED
    BY <1>2
<1> HIDE DEF S, both
<1>5. DetectIki(h) \in Seq(S)
  <2>1. <<>> \in Seq(S)
    OBVIOUS
  <2>2. QED
    BY <1>3, <1>4, <2>1
<1>6. QED
  BY <1>5 DEF S

(***************************************************************************)
(* Clusters and averages                                                   *)
(***************************************************************************)
Cluster == [sum : Int, count : Nat \ {0}, tops : Nat]
Extreme == [price : Int, resistance : BOOLEAN]

LEMMA ClustersAdd ==
    ASSUME NEW clusters \in Seq(Cluster), NEW e \in Extreme
    PROVE  AddToClusters(clusters, e) \in Seq(Cluster)
<1> DEFINE c == Last(clusters)
           added == Append(clusters, Opened(e))
           joined == Append(Front(clusters), Joined(c, e))
<1>1. AddToClusters(clusters, e) = IF clusters # <<>> /\ Belongs(c, e) THEN joined ELSE added
  BY DEF AddToClusters
<1>2. Opened(e) \in Cluster
  BY DEF Opened, Cluster, Extreme
<1>3. added \in Seq(Cluster)
  BY <1>2
<1>4. ASSUME clusters # <<>> PROVE joined \in Seq(Cluster)
  <2>1. c \in Cluster /\ Front(clusters) \in Seq(Cluster)
    <3>1. Len(clusters) \in Nat \ {0} /\ Len(clusters) - 1 \in 0..Len(clusters) /\ Len(clusters) \in 1..Len(clusters)
      BY <1>4
    <3>2. c \in Cluster
      BY <3>1 DEF Last
    <3>3. SubSeq(clusters, 1, Len(clusters) - 1) \in Seq(Cluster)
      BY <3>1, SubSeqProperties
    <3>4. QED
      BY <3>2, <3>3 DEF Front
  <2> HIDE DEF c
  <2>2. Joined(c, e) \in Cluster
    BY <2>1 DEF Joined, Cluster, Extreme
  <2> HIDE DEF Cluster
  <2>3. QED
    BY <2>1, <2>2
<1> HIDE DEF added, joined
<1>5. QED
  BY <1>1, <1>3, <1>4

LEMMA ListIs ==
    ASSUME NEW S, NEW m \in Nat, NEW f \in [1..m -> S]
    PROVE  f \in Seq(S) /\ Len(f) = m
OBVIOUS

Rising(e) == \A i, j \in 1..Len(e) : i < j => e[i].price <= e[j].price
SeenIn(h, e) == \A k \in 1..Len(e) : \E i \in 1..Len(h) : e[k].price = h[i].high \/ e[k].price = h[i].low

LEMMA ExtremaSound ==
    ASSUME NEW h \in Seq(CandleOk), Len(h) >= 1
    PROVE  /\ Extrema(h) \in Seq(Extreme)
           /\ Len(Extrema(h)) = Cardinality(Maxima(h)) + Cardinality(Minima(h))
           /\ Rising(Extrema(h)) /\ SeenIn(h, Extrema(h))
<1> DEFINE tops == InOrder(Maxima(h))
           bottoms == InOrder(Minima(h))
           a == [k \in DOMAIN tops |-> Extremum(h[tops[k]].high, TRUE)]
           b == [k \in DOMAIN bottoms |-> Extremum(h[bottoms[k]].low, FALSE)]
           s == a \o b
           Earlier(i, j) == s[i].price < s[j].price \/ (i < j /\ ~(s[j].price < s[i].price))
           rank == [j \in DOMAIN s |-> 1 + Cardinality({i \in DOMAIN s : Earlier(i, j)})]
           t == [k \in DOMAIN s |-> s[CHOOSE j \in DOMAIN s : rank[j] = k]]
<1>1. Extrema(h) = t
  BY DEF Extrema, StableSort
<1>2. /\ a \in Seq(Extreme) /\ Len(a) = Cardinality(Maxima(h)) /\ SeenIn(h, a)
      /\ b \in Seq(Extreme) /\ Len(b) = Cardinality(Minima(h)) /\ SeenIn(h, b)
  <2>0. Len(h) \in Nat /\ Maxima(h) \subseteq 1..Len(h) /\ Minima(h) \subseteq 1..Len(h)
    BY ExtremaThere
  <2>1. /\ Cardinality(Maxima(h)) \in Nat /\ tops \in [1..Cardinality(Maxima(h)) -> 1..Len(h)]
        /\ Cardinality(Minima(h)) \in Nat /\ bottoms \in [1..Cardinality(Minima(h)) -> 1..Len(h)]
    BY <2>0, PlacesInOrder
  <2>2. \A i \in 1..Len(h) : Extremum(h[i].high, TRUE) \in Extreme /\ Extremum(h[i].low, FALSE) \in Extreme
    <3>1. \A i \in 1..Len(h) : h[i].high \in Int /\ h[i].low \in Int
      BY CandlesAre
    <3>2. QED
      BY <3>1 DEF Extremum, Extreme
  <2> DEFINE m == Cardinality(Maxima(h))
             l == Cardinality(Minima(h))
  <2> HIDE DEF tops, bottoms, m, l
  <2>3. /\ m \in Nat /\ tops \in [1..m -> 1..Len(h)]
        /\ l \in Nat /\ bottoms \in [1..l -> 1..Len(h)]
    BY <2>1 DEF m, l
  <2>3a. DOMAIN tops = 1..m /\ DOMAIN bottoms = 1..l
    BY <2>3
  <2>3b. \A k \in 1..m : a[k] \in Extreme
    BY <2>2, <2>3
  <2>3c. \A k \in 1..l : b[k] \in Extreme
    BY <2>2, <2>3
  <2>3d. \A k \in 1..m : tops[k] \in 1..Len(h) /\ a[k].price = h[tops[k]].high
    BY <2>3 DEF Extremum
  <2>3e. \A k \in 1..l : bottoms[k] \in 1..Len(h) /\ b[k].price = h[bottoms[k]].low
    BY <2>3 DEF Extremum
  <2>4. a \in Seq(Extreme) /\ Len(a) = m
    <3>1. a = [k \in 1..m |-> a[k]]
      BY <2>3a
    <3> HIDE DEF a
    <3>2. a \in [1..m -> Extreme]
      BY <2>3b, <3>1
    <3>3. QED
      BY <2>3, <3>2, ListIs
  <2>5. b \in Seq(Extreme) /\ Len(b) = l
    <3>1. b = [k \in 1..l |-> b[k]]
      BY <2>3a
    <3> HIDE DEF b
    <3>2. b \in [1..l -> Extreme]
      BY <2>3c, <3>1
    <3>3. QED
      BY <2>3, <3>2, ListIs
  <2> HIDE DEF a, b
  <2>6. SeenIn(h, a) /\ SeenIn(h, b)
    BY <2>3d, <2>3e, <2>4, <2>5 DEF SeenIn
  <2>7. QED
    BY <2>4, <2>5, <2>6 DEF m, l
<1> HIDE DEF a, b
<1>3. s \in Seq(Extreme) /\ Len(s) = Len(a) + Len(b)
  BY <1>2, ConcatProperties
<1>3a. SeenIn(h, s)
  <2>1. Len(a) \in Nat /\ Len(b) \in Nat
    BY <1>2
  <2>2. ASSUME NEW k \in 1..Len(s)
        PROVE  (k \in 1..Len(a) /\ s[k] = a[k]) \/ (k - Len(a) \in 1..Len(b) /\ s[k] = b[k - Len(a)])
    <3>1. s[k] = IF k <= Len(a) THEN a[k] ELSE b[k - Len(a)]
      BY <1>2, <1>3, ConcatProperties
    <3>2. k \in Int /\ 1 <= k /\ k <= Len(a) + Len(b)
      BY <1>3, <2>1
    <3>3. QED
      BY <2>1, <3>1, <3>2
  <2> HIDE DEF s
  <2>3. ASSUME NEW k \in 1..Len(s)
        PROVE  \E i \in 1..Len(h) : s[k].price = h[i].high \/ s[k].price = h[i].low
    <3>1. CASE k \in 1..Len(a) /\ s[k] = a[k]
      BY <1>2, <3>1 DEF SeenIn
    <3>2. CASE k - Len(a) \in 1..Len(b) /\ s[k] = b[k - Len(a)]
      BY <1>2, <3>2 DEF SeenIn
    <3>3. QED
      BY <2>2, <3>1, <3>2
  <2>4. QED
    BY <2>3 DEF SeenIn
<1> DEFINE n == Len(s)
           key == [i \in 1..n |-> s[i].price]
           E == KeyOrder(key, n)
<1> HIDE DEF s
<1>4. n \in Nat /\ DOMAIN s = 1..n /\ key \in [1..n -> Int]
  <2>1. n \in Nat /\ DOMAIN s = 1..n /\ \A i \in 1..n : s[i] \in Extreme
    BY <1>3
  <2>2. \A i \in 1..n : s[i].price \in Int
    BY <2>1 DEF Extreme
  <2>3. QED
    BY <2>1, <2>2
<1>5. /\ \A i, j \in 1..n : <<i, j>> \in E <=> Earlier(i, j)
      /\ Orders(E, 1..n)
  <2> HIDE DEF key, n
  <2>1. Orders(E, 1..n) /\ \A i, j \in 1..n : <<i, j>> \in E
                            <=> (key[i] < key[j] \/ (i < j /\ ~(key[j] < key[i])))
    BY <1>4, KeyOrderIs
  <2>2. \A i \in 1..n : key[i] = s[i].price
    BY DEF key
  <2>3. QED
    BY <2>1, <2>2
<1>6. rank = Ranks(E, n)
  <2> HIDE DEF E, n, Earlier
  <2>1. \A j \in 1..n : {i \in 1..n : Earlier(i, j)} = Under(E, 1..n, j)
    BY <1>5 DEF Under
  <2>2. \A j \in 1..n : rank[j] = RankIn(E, 1..n, j)
    BY <1>4, <2>1 DEF RankIn
  <2>3. rank = [j \in 1..n |-> rank[j]]
    BY <1>4
  <2> HIDE DEF rank
  <2>4. QED
    BY <1>4, <2>2, <2>3, RankedBy
<1>7. t = Arranged(s, E)
  <2> HIDE DEF rank, E
  <2>1. QED
    BY <1>4, <1>6 DEF Arranged, PlaceOf
<1> DEFINE x == Arranged(s, E)
<1>8. /\ x \in Seq(Extreme) /\ Len(x) = n
      /\ \A k \in 1..n : \E j \in 1..n : x[k] = s[j]
      /\ Sorted(x, s, E)
  <2> HIDE DEF E
  <2>0. s \in Seq(Extreme) /\ Orders(E, 1..Len(s))
    BY <1>3, <1>5 DEF n
  <2>1. x \in Seq(Extreme) /\ Len(x) = n
    BY <2>0, ArrangedIs DEF n
  <2>2. \A k \in 1..n : \E j \in 1..n : x[k] = s[j]
    BY <2>0, ArrangedIs DEF n
  <2>3. Sorted(x, s, E)
    BY <2>0, ArrangedIs
  <2>4. QED
    BY <2>1, <2>2, <2>3
<1> HIDE DEF x, t
<1>9. Rising(x)
  <2>1. ASSUME NEW k \in 1..n, NEW l \in 1..n, k < l PROVE x[k].price <= x[l].price
    <3>1. PICK i \in 1..n, j \in 1..n : <<i, j>> \in E /\ x[k] = s[i] /\ x[l] = s[j]
      BY <1>8, <2>1 DEF Sorted, n
    <3>2. s[i].price < s[j].price \/ ~(s[j].price < s[i].price)
      BY <1>5, <3>1
    <3>3. s[i].price \in Int /\ s[j].price \in Int
      <4>1. s[i] \in Extreme /\ s[j] \in Extreme
        BY <1>3, <1>4
      <4>2. QED
        BY <4>1 DEF Extreme
    <3>4. QED
      BY <3>1, <3>2, <3>3
  <2>2. QED
    BY <1>8, <2>1 DEF Rising
<1>10. SeenIn(h, x)
  <2>1. ASSUME NEW k \in 1..Len(x)
        PROVE  \E i \in 1..Len(h) : x[k].price = h[i].high \/ x[k].price = h[i].low
    <3>1. PICK j \in 1..n : x[k] = s[j]
      BY <1>8, <2>1
    <3>2. QED
      BY <1>3a, <3>1 DEF SeenIn, n
  <2>2. QED
    BY <2>1 DEF SeenIn
<1>11. Len(x) = Cardinality(Maxima(h)) + Cardinality(Minima(h))
  BY <1>2, <1>3, <1>8 DEF n
<1>12. Extrema(h) = x
  BY <1>1, <1>7 DEF x
<1>13. QED
  BY <1>8, <1>9, <1>10, <1>11, <1>12

\* The clusters of the extrema at the places of a set.
Clustering(e, it) ==
    /\ it[{}] = <<>>
    /\ \A s \in SUBSET DOMAIN e : s # {} =>
            Max(s) \in s /\ it[s] = AddToClusters(it[s \ {Max(s)}], e[Max(s)])

LEMMA ClustersFold ==
    ASSUME NEW extrema \in Seq(Extreme)
    PROVE  \E it : Clustering(extrema, it) /\ FoldLeft(AddToClusters, <<>>, extrema) = it[DOMAIN extrema]
<1> DEFINE D == DOMAIN extrema
           V == Seq(Cluster)
           g == [q \in D \X V |-> AddToClusters(q[2], extrema[q[1]])]
           pick == [s \in SUBSET D |-> Max(s)]
           Is(it) == it = [s \in SUBSET D |-> IF s = {} THEN <<>>
                                                ELSE AddToClusters(it[s \ {Max(s)}], extrema[Max(s)])]
           it == CHOOSE f : Is(f)
<1>1. FoldLeft(AddToClusters, <<>>, extrema) = it[D]
  BY DEF FoldLeft, MapThenFoldSet
<1>2. IsFiniteSet(D) /\ Picks(pick, D) /\ \A s \in SUBSET D : s # {} => Max(s) \in s
  <2>1. Len(extrema) \in Nat /\ D = 1..Len(extrema)
    OBVIOUS
  <2>2. ASSUME NEW s \in SUBSET D, s # {} PROVE Max(s) \in s
    BY <2>1, <2>2, PlacesIs
  <2>3. IsFiniteSet(D)
    BY <2>1, FS_Interval
  <2>4. \A s \in SUBSET D : s # {} => pick[s] \in s
    BY <2>2
  <2>5. QED
    BY <2>2, <2>3, <2>4 DEF Picks
<1>3. \A v \in V, i \in D : AddToClusters(v, extrema[i]) \in V
  BY ClustersAdd
<1>4. Binary(g, D, V) /\ <<>> \in V
  BY <1>3 DEF Binary
<1> HIDE DEF V, D
<1>5. PICK f : Folds(f, D, V, <<>>, g, pick)
  <2> HIDE DEF g, pick
  <2>1. QED
    BY <1>2, <1>4, SetRecursion
<1>6. Is(f)
  <2>1. ASSUME NEW s \in SUBSET D, s # {}
        PROVE  g[<<pick[s], f[s \ {pick[s]}]>>] = AddToClusters(f[s \ {Max(s)}], extrema[Max(s)])
    <3>1. pick[s] = Max(s) /\ Max(s) \in D
      BY <1>2, <2>1
    <3>2. f[s \ {Max(s)}] \in V
      BY <1>5 DEF Folds
    <3>3. QED
      BY <3>1, <3>2
  <2>2. QED
    <3> HIDE DEF g, pick
    <3>1. QED
      BY <1>5, <2>1 DEF Folds
<1>7. Is(it)
  <2> HIDE DEF Is
  <2>1. QED
    BY <1>6
<1> HIDE DEF it, g, pick
<1>8. it[{}] = <<>>
  BY <1>7
<1>9. \A s \in SUBSET D : s # {} => it[s] = AddToClusters(it[s \ {Max(s)}], extrema[Max(s)])
  BY <1>7
<1>10. Clustering(extrema, it)
  BY <1>2, <1>8, <1>9 DEF Clustering, D
<1>11. QED
  BY <1>1, <1>10 DEF D

LEMMA ClustersSound ==
    ASSUME NEW extrema \in Seq(Extreme), NEW it, Clustering(extrema, it)
    PROVE  \A s \in SUBSET DOMAIN extrema : it[s] \in Seq(Cluster)
<1> DEFINE D == DOMAIN extrema
           P == {s \in SUBSET D : it[s] \in Seq(Cluster)}
<1>1. IsFiniteSet(D) /\ \A i \in D : extrema[i] \in Extreme
  <2>1. D = 1..Len(extrema) /\ Len(extrema) \in Nat /\ \A i \in D : extrema[i] \in Extreme
    OBVIOUS
  <2>2. QED
    BY <2>1, FS_Interval
<1>2. /\ it[{}] = <<>>
      /\ \A s \in SUBSET D : s # {} => Max(s) \in s /\ it[s] = AddToClusters(it[s \ {Max(s)}], extrema[Max(s)])
  BY DEF Clustering
<1> HIDE DEF D
<1>3. {} \in P
  <2>1. <<>> \in Seq(Cluster)
    OBVIOUS
  <2>2. QED
    BY <1>2, <2>1
<1>4. ASSUME NEW s \in SUBSET D, s # {} PROVE \E x \in s : (s \ {x} \in P => s \in P)
  <2>1. Max(s) \in s /\ it[s] = AddToClusters(it[s \ {Max(s)}], extrema[Max(s)])
    BY <1>2, <1>4
  <2>2. ASSUME s \ {Max(s)} \in P PROVE s \in P
    <3>1. it[s \ {Max(s)}] \in Seq(Cluster) /\ extrema[Max(s)] \in Extreme
      BY <1>1, <2>1, <2>2
    <3>2. it[s] \in Seq(Cluster)
      BY <2>1, <3>1, ClustersAdd
    <3>3. QED
      BY <3>2
  <2>3. QED
    BY <2>1, <2>2
<1>5. SUBSET D \subseteq P
  <2> HIDE DEF P
  <2>1. QED
    BY <1>1, <1>3, <1>4, SetInduction
<1>6. QED
  BY <1>5 DEF D

Level == [price : Int, resistance : BOOLEAN, touches : Nat \ {0}]

LEMMA LevelsAre ==
    ASSUME NEW h \in Seq(CandleOk), Len(h) >= 1
    PROVE  ClusterLevels(Extrema(h)) \in Seq(Level)
<1> DEFINE c == FoldLeft(AddToClusters, <<>>, Extrema(h))
           list == [k \in DOMAIN c |-> [price |-> Text(c[k].sum, c[k].count),
                                        resistance |-> 2 * c[k].tops >= c[k].count,
                                        touches |-> c[k].count]]
<1>1. ClusterLevels(Extrema(h)) = list
  BY DEF ClusterLevels
<1>2. c \in Seq(Cluster)
  <2> DEFINE e == Extrema(h)
  <2>1. e \in Seq(Extreme)
    BY ExtremaSound
  <2> HIDE DEF e
  <2>2. PICK it : Clustering(e, it) /\ FoldLeft(AddToClusters, <<>>, e) = it[DOMAIN e]
    BY <2>1, ClustersFold
  <2>3. \A s \in SUBSET DOMAIN e : it[s] \in Seq(Cluster)
    BY <2>1, <2>2, ClustersSound
  <2>4. QED
    BY <2>2, <2>3 DEF e
<1> HIDE DEF c
<1>3. Len(c) \in Nat /\ DOMAIN c = 1..Len(c)
  BY <1>2
<1>4. ASSUME NEW k \in 1..Len(c) PROVE list[k] \in Level
  <2>1. c[k].sum \in Int /\ c[k].count \in Nat \ {0} /\ c[k].tops \in Nat
    <3>1. c[k] \in Cluster
      BY <1>2, <1>3
    <3>2. QED
      BY <3>1 DEF Cluster
  <2>2. Text(c[k].sum, c[k].count) \in Int
    BY <2>1, TextInt
  <2>3. (2 * c[k].tops >= c[k].count) \in BOOLEAN
    BY <2>1
  <2>4. list[k] = [price |-> Text(c[k].sum, c[k].count), resistance |-> 2 * c[k].tops >= c[k].count,
                   touches |-> c[k].count]
    BY <1>3
  <2> HIDE DEF list
  <2>5. QED
    BY <2>1, <2>2, <2>3, <2>4 DEF Level
<1>5. list = [k \in 1..Len(c) |-> list[k]]
  BY <1>3
<1> HIDE DEF list
<1>6. list \in [1..Len(c) -> Level]
  BY <1>4, <1>5
<1>7. QED
  BY <1>1, <1>3, <1>6, ListIs

LEMMA LevelPatternSound ==
    ASSUME NEW h \in Seq(CandleOk), Len(h) >= 1, NEW level \in Level
    PROVE  LevelPattern(level, h) \in Kind(Len(h), "support_resistance")
<1> DEFINE n == Len(h)
           c == Least(100, 20 * level.touches)
<1>1. n \in Nat /\ n \in 1..n
  OBVIOUS
<1>2. level.price \in Int /\ level.resistance \in BOOLEAN /\ level.touches \in Nat \ {0}
  BY DEF Level
<1>3. c \in 1..100
  <2> DEFINE x == 20 * level.touches
  <2>1. x \in Int /\ x >= 1
    BY <1>2
  <2> HIDE DEF x
  <2>2. Least(100, x) \in 1..100
    BY <2>1 DEF Least
  <2>3. QED
    BY <2>2 DEF x
<1>4. "support_resistance" \in PatternKinds /\ "level" \in PatternNames
  BY DEF PatternKinds, PatternNames
<1> DEFINE b == ~level.resistance
           price == level.price
<1>5. LevelPattern(level, h) = Pattern("support_resistance", "level", b, c, n, price)
  BY DEF LevelPattern
<1>6. b \in BOOLEAN /\ price \in Int
  BY <1>2
<1> HIDE DEF n, c, b, price
<1>7. LevelPattern(level, h) \in Kind(n, "support_resistance")
  <2>1. Pattern("support_resistance", "level", b, c, n, price) \in Kind(n, "support_resistance")
    BY <1>1, <1>2, <1>3, <1>4, <1>6, PatternSound
  <2>2. QED
    BY <1>5, <2>1
<1>8. QED
  BY <1>7 DEF n

Fraction == [num : Nat \ {0}, den : Nat \ {0}]

LEMMA EmaPositive ==
    ASSUME NEW h \in Seq(CandleOk), Len(h) >= 1, NEW p \in Nat \ {0}
    PROVE  EmaAt(h, p) \in Fraction
<1> DEFINE n == Len(h)
           V == Fraction
           base == [num |-> h[1].close, den |-> 1]
           after(i, v) == [num |-> 2 * h[i].close * v.den + (p - 1) * v.num, den |-> (p + 1) * v.den]
           g == [q \in (1..n) \X V |-> after(q[1], q[2])]
           Is(f) == f = [i \in 1..n |-> IF i = 1 THEN base ELSE after(i, f[i - 1])]
           ema == CHOOSE f : Is(f)
<1>1. EmaAt(h, p) = ema[n]
  BY DEF EmaAt
<1>2. n \in Nat \ {0} /\ \A i \in 1..n : h[i].close \in Nat \ {0}
  <2>1. \A i \in 1..n : h[i].close \in Int /\ 0 < h[i].close
    BY CandlesAre
  <2>2. n \in Nat \ {0}
    OBVIOUS
  <2>3. QED
    BY <2>1, <2>2
<1> HIDE DEF n
<1>3. base \in V
  BY <1>2 DEF Fraction
<1>4. ASSUME NEW i \in 1..n, NEW v \in V PROVE after(i, v) \in V
  <2> DEFINE c == h[i].close
             a == v.num
             b == v.den
  <2>1. c \in Nat \ {0} /\ a \in Nat \ {0} /\ b \in Nat \ {0}
    BY <1>2 DEF Fraction
  <2>2. after(i, v) = [num |-> 2 * c * b + (p - 1) * a, den |-> (p + 1) * b]
    OBVIOUS
  <2> HIDE DEF c, a, b
  <2>3. c * b \in Nat \ {0} /\ (p - 1) * a \in Nat /\ (p + 1) * b \in Nat \ {0} /\ 2 * c * b = 2 * (c * b)
    BY <2>1
  <2>4. 2 * c * b + (p - 1) * a \in Nat \ {0}
    BY <2>3
  <2>5. QED
    BY <2>2, <2>3, <2>4 DEF Fraction
<1> HIDE DEF V, base, after
<1>5. g \in [(1..n) \X V -> V] /\ \A i \in 1..n, v \in V : g[<<i, v>>] = after(i, v)
  BY <1>4
<1> HIDE DEF g
<1>5a. PICK f : Recurs(f, n, base, g)
  <2>1. Steps(g, n, V)
    BY <1>5 DEF Steps
  <2>2. QED
    BY <1>2, <1>3, <2>1, Recursion
<1>6. f = [i \in 1..n |-> IF i = 1 THEN base ELSE g[<<i, f[i - 1]>>]]
  BY <1>5a DEF Recurs
<1> DEFINE S(e) == {i \in 0..(n - 1) : e[i + 1] \in V}
<1>7. \A i \in 1..n : f[i] \in V
  <2>1. 0 \in S(f)
    BY <1>2, <1>3, <1>6
  <2>2. ASSUME NEW i \in 0..((n - 1) - 1), i \in S(f) PROVE i + 1 \in S(f)
    <3>1. i + 2 \in 1..n /\ i + 2 # 1 /\ (i + 2) - 1 = i + 1 /\ i + 1 \in 1..n
      BY <1>2
    <3>2. f[i + 2] = g[<<i + 2, f[i + 1]>>]
      BY <1>6, <3>1
    <3>3. f[i + 2] \in V
      BY <1>5, <2>2, <3>1, <3>2
    <3>4. (i + 1) + 1 = i + 2 /\ i + 1 \in 0..(n - 1)
      BY <1>2
    <3>5. QED
      BY <3>3, <3>4
  <2>3. 0..(n - 1) \subseteq S(f)
    <3>1. n - 1 \in Nat
      BY <1>2
    <3> HIDE DEF S
    <3>2. QED
      BY <2>1, <2>2, <3>1, Upwards
  <2>4. ASSUME NEW i \in 1..n PROVE f[i] \in V
    <3>1. i - 1 \in 0..(n - 1) /\ (i - 1) + 1 = i
      BY <1>2
    <3>2. QED
      BY <2>3, <3>1
  <2>5. QED
    BY <2>4
<1>8. Is(f)
  <2>1. ASSUME NEW i \in 1..n, i # 1 PROVE g[<<i, f[i - 1]>>] = after(i, f[i - 1])
    <3>1. i - 1 \in 1..n
      BY <1>2, <2>1
    <3>2. QED
      BY <1>5, <1>7, <3>1
  <2>2. QED
    BY <1>6, <2>1
<1>9. Is(ema)
  <2> HIDE DEF Is
  <2>1. QED
    BY <1>8
<1> HIDE DEF ema
<1>10. 0..(n - 1) \subseteq S(ema)
  <2>1. 0 \in S(ema)
    BY <1>2, <1>3, <1>9
  <2>2. ASSUME NEW i \in 0..((n - 1) - 1), i \in S(ema) PROVE i + 1 \in S(ema)
    <3>1. i + 2 \in 1..n /\ i + 2 # 1 /\ (i + 2) - 1 = i + 1 /\ i + 1 \in 1..n
      BY <1>2
    <3>2. ema[i + 2] = after(i + 2, ema[i + 1])
      BY <1>9, <3>1
    <3>3. ema[i + 2] \in V
      BY <1>4, <2>2, <3>1, <3>2
    <3>4. (i + 1) + 1 = i + 2 /\ i + 1 \in 0..(n - 1)
      BY <1>2
    <3>5. QED
      BY <3>3, <3>4
  <2>3. n - 1 \in Nat
    BY <1>2
  <2> HIDE DEF S
  <2>4. QED
    BY <2>1, <2>2, <2>3, Upwards
<1>11. ema[n] \in V
  <2>1. n - 1 \in 0..(n - 1) /\ (n - 1) + 1 = n
    BY <1>2
  <2>2. QED
    BY <1>10, <2>1
<1>12. QED
  BY <1>1, <1>11 DEF V

LEMMA BounceIs ==
    ASSUME NEW x \in Int, x >= 0, NEW num \in Nat \ {0}, x <= 30 * num
    PROVE  90 - RoundDiv(x, num) \in 60..90
<1> DEFINE r == RoundDiv(x, num)
<1>1. r \in Int /\ r >= 0 /\ \A c \in Nat : x <= c * num => r <= c
  BY RoundDivIs
<1> HIDE DEF r
<1>2. r \in 0..30
  BY <1>1
<1>3. QED
  BY <1>2 DEF r

LEMMA EmaBouncesSound ==
    ASSUME NEW h \in Seq(CandleOk), Len(h) >= 1
    PROVE  EmaBounces(h) \in Seq(Kind(Len(h), "support_resistance"))
<1> DEFINE n == Len(h)
           Ema(p) == EmaAt(h, p)
           Gap(p) == Abs(Close(h) * Ema(p).den - Ema(p).num)
           up(p) == Close(h) * Ema(p).den >= Ema(p).num
           confidence(p) == 90 - RoundDiv(3000 * Gap(p), Ema(p).num)
           Bounce(p) == Pattern("support_resistance", "ema", up(p), confidence(p), n, NoPrice)
           Q == {q \in EmaPeriods : n >= q /\ 100 * Gap(q) <= Ema(q).num}
           near == InOrder(Q)
           list == [k \in DOMAIN near |-> Bounce(near[k])]
           S == Kind(n, "support_resistance")
<1>1. EmaBounces(h) = list
  BY DEF EmaBounces
<1>2. EmaPeriods \subseteq Nat \ {0} /\ IsFiniteSet(EmaPeriods)
  BY PatternsAssumption
<1>3. n \in Nat /\ n \in 1..n
  OBVIOUS
<1>4. \A p \in EmaPeriods : Ema(p).num \in Nat \ {0} /\ Ema(p).den \in Nat \ {0}
  <2>1. \A p \in EmaPeriods : Ema(p) \in Fraction
    BY <1>2, EmaPositive
  <2> HIDE DEF Ema
  <2>2. QED
    BY <2>1 DEF Fraction
<1>5. Close(h) \in Nat \ {0}
  BY CloseIs
<1> HIDE DEF Ema
<1>6. \A p \in EmaPeriods : Gap(p) \in Nat /\ up(p) \in BOOLEAN
  <2>1. ASSUME NEW p \in EmaPeriods PROVE Gap(p) \in Nat /\ up(p) \in BOOLEAN
    <3>1. Close(h) * Ema(p).den - Ema(p).num \in Int
      BY <1>4, <1>5
    <3>2. Gap(p) \in Nat
      BY <3>1, AbsIs
    <3>3. QED
      BY <3>2
  <2>2. QED
    BY <2>1
<1> HIDE DEF Gap, up
<1>7. ASSUME NEW p \in Q PROVE Bounce(p) \in S
  <2>1. p \in EmaPeriods /\ 100 * Gap(p) <= Ema(p).num
    OBVIOUS
  <2>2. confidence(p) \in 60..90
    <3> DEFINE x == 3000 * Gap(p)
               num == Ema(p).num
    <3>1. x \in Int /\ x >= 0 /\ num \in Nat \ {0} /\ x <= 30 * num
      BY <1>4, <1>6, <2>1
    <3> HIDE DEF x, num
    <3>2. 90 - RoundDiv(x, num) \in 60..90
      BY <3>1, BounceIs
    <3>3. QED
      BY <3>2 DEF x, num
  <2> HIDE DEF confidence
  <2>3. confidence(p) \in 1..100
    BY <2>2
  <2>4. "support_resistance" \in PatternKinds /\ "ema" \in PatternNames /\ NoPrice \in Int
    BY DEF PatternKinds, PatternNames, NoPrice
  <2>5. up(p) \in BOOLEAN
    BY <1>6, <2>1
  <2> HIDE DEF Q, n
  <2>6. QED
    BY <1>3, <2>3, <2>4, <2>5, PatternSound
<1>8. IsFiniteSet(Q) /\ Numbers(Q)
  <2>1. Q \in SUBSET EmaPeriods
    OBVIOUS
  <2> HIDE DEF Q
  <2>2. QED
    BY <1>2, <2>1, FS_Subset DEF Numbers
<1> HIDE DEF S, Bounce
<1>9. \A p \in Q : Bounce(p) \in S
  BY <1>7
<1> HIDE DEF Q
<1>10. list \in Seq(S)
  <2> DEFINE m == Cardinality(Q)
  <2>1. m \in Nat /\ near \in [1..m -> Q]
    BY <1>8, InOrderIs
  <2> HIDE DEF m, near
  <2>2. list = [k \in 1..m |-> Bounce(near[k])] /\ \A k \in 1..m : near[k] \in Q
    BY <2>1
  <2>3. list \in [1..m -> S]
    BY <1>9, <2>2
  <2> HIDE DEF list
  <2>4. QED
    BY <2>1, <2>3, ListIs
<1>11. QED
  BY <1>1, <1>10 DEF S

LEMMA LevelsSound ==
    ASSUME NEW h \in Seq(CandleOk), Len(h) >= 1
    PROVE  DetectSupportResistance(h) \in Seq(Kind(Len(h), "support_resistance"))
<1> DEFINE n == Len(h)
           S == Kind(n, "support_resistance")
           levels == ClusterLevels(Extrema(h))
           list == [k \in DOMAIN levels |-> LevelPattern(levels[k], h)]
           all == list \o EmaBounces(h)
<1>1. DetectSupportResistance(h) = IF n < 2 * Order + 1 THEN <<>> ELSE all
  BY DEF DetectSupportResistance
<1>2. levels \in Seq(Level)
  BY LevelsAre
<1> HIDE DEF levels
<1>3. Len(levels) \in Nat /\ DOMAIN levels = 1..Len(levels) /\ \A k \in 1..Len(levels) : levels[k] \in Level
  BY <1>2
<1>4. list \in Seq(S)
  <2>1. \A k \in 1..Len(levels) : list[k] \in S
    BY <1>3, LevelPatternSound
  <2>2. list = [k \in 1..Len(levels) |-> list[k]]
    BY <1>3
  <2> HIDE DEF list, S
  <2>3. list \in [1..Len(levels) -> S]
    BY <2>1, <2>2
  <2>4. QED
    BY <1>3, <2>3, ListIs
<1>5. EmaBounces(h) \in Seq(S)
  BY EmaBouncesSound
<1> HIDE DEF S, list
<1>6. all \in Seq(S)
  BY <1>4, <1>5, ConcatProperties
<1>7. <<>> \in Seq(S)
  OBVIOUS
<1> HIDE DEF all, n
<1>8. DetectSupportResistance(h) \in Seq(S)
  BY <1>1, <1>6, <1>7
<1>9. QED
  BY <1>8 DEF S, n

(***************************************************************************)
(* What a pattern is worth                                                 *)
(***************************************************************************)
LEMMA ProximityIs ==
    ASSUME NEW p, p.price \in Int, NEW current \in Nat \ {0}
    PROVE  Proximity(p, current) \in Nat /\ Proximity(p, current) <= 1500
<1> DEFINE a == 20 * Abs(current - p.price)
           x == Least(current, a)
           r == RoundDiv(1500 * x, current)
<1>1. a \in Nat
  <2>1. current - p.price \in Int
    OBVIOUS
  <2>2. Abs(current - p.price) \in Nat
    BY <2>1, AbsIs
  <2>3. QED
    BY <2>2
<1>4. Proximity(p, current) = IF p.price = NoPrice THEN 1500 ELSE 1500 - r
  BY DEF Proximity
<1> HIDE DEF a
<1>2. x \in Nat /\ x <= current
  BY <1>1 DEF Least
<1> HIDE DEF x
<1>3. r \in Nat /\ r <= 1500
  <2> DEFINE y == 1500 * x
  <2>1. y \in Int /\ y >= 0 /\ y <= 1500 * current
    BY <1>2
  <2> HIDE DEF y
  <2>2. RoundDiv(y, current) \in Int /\ RoundDiv(y, current) >= 0
        /\ \A c \in Nat : y <= c * current => RoundDiv(y, current) <= c
    BY <2>1, RoundDivIs
  <2>3. RoundDiv(y, current) <= 1500
    BY <2>1, <2>2
  <2>4. QED
    BY <2>2, <2>3 DEF y
<1> HIDE DEF r
<1>5. QED
  BY <1>3, <1>4

\* What a pattern may be worth.
Worth == {x \in Int : 0 <= x /\ x <= 10000}

LEMMA WorthIs == \A x : x \in Worth <=> x \in Int /\ 0 <= x /\ x <= 10000
  BY DEF Worth

LEMMA WorthRange ==
    ASSUME NEW x \in Worth
    PROVE  x \in 0..FullRelevance
<1>1. x \in Int /\ 0 <= x /\ x <= FullRelevance /\ FullRelevance \in Int
  BY DEF Worth, FullRelevance
<1>2. QED
  BY <1>1

LEMMA RelevanceIs ==
    ASSUME NEW h \in Seq(CandleOk), Len(h) >= 1, NEW p \in Sound(Len(h))
    PROVE  Relevance(p, h) \in Worth
<1> DEFINE n == Len(h)
           current == Close(h)
           near == Proximity(p, current)
           at == p.at
           y == 3500 * at
           share == RoundDiv(y, n)
           confidence == p.confidence
<1>1. n \in Nat \ {0} /\ current \in Nat \ {0}
  BY CloseIs
<1>2. confidence \in 1..100 /\ at \in 1..n /\ p.price \in Int
  BY DEF Sound
<1>3. Relevance(p, h) = 50 * confidence + share + near
  BY DEF Relevance
<1> HIDE DEF n, current, at, confidence
<1>4. near \in Nat /\ near <= 1500
  BY <1>1, <1>2, ProximityIs
<1> HIDE DEF near
<1>5. y \in Int /\ y >= 0 /\ y <= 3500 * n
  BY <1>1, <1>2
<1> HIDE DEF y
<1>6. share \in Int /\ share >= 0 /\ \A c \in Nat : y <= c * n => share <= c
  <2>1. n \in Nat \ {0} /\ y \in Int /\ y >= 0
    BY <1>1, <1>5
  <2>2. RoundDiv(y, n) \in Int /\ (y >= 0 => RoundDiv(y, n) >= 0)
        /\ \A c \in Nat : y <= c * n => RoundDiv(y, n) <= c
    BY <2>1, RoundDivIs
  <2>3. QED
    BY <2>1, <2>2
<1> HIDE DEF share
<1>7. share <= 3500
  BY <1>5, <1>6
<1>8. confidence \in Int /\ 0 <= confidence /\ confidence <= 100
  BY <1>2
<1> DEFINE sum == 50 * confidence + share + near
<1>9. sum \in Int /\ 0 <= sum /\ sum <= 10000
  BY <1>4, <1>6, <1>7, <1>8
<1> HIDE DEF sum
<1>10. sum \in Worth
  BY <1>9, WorthIs
<1>11. QED
  BY <1>3, <1>10 DEF sum

LEMMA TargetIs ==
    ASSUME NEW h \in Seq(CandleOk), Len(h) >= 1, NEW p \in Sound(Len(h))
    PROVE  TargetForPattern(p, h) \in Int
<1> DEFINE run == (HalfRanges(p.category) * FullAtr(h)) \div 2
<1>1. run \in Int
  <2>1. HalfRanges(p.category) \in Nat
    BY DEF HalfRanges
  <2>2. FullAtr(h) \in Nat
    BY AtrIs
  <2>3. HalfRanges(p.category) * FullAtr(h) \in Int
    BY <2>1, <2>2
  <2>4. 2 \in Nat \ {0}
    OBVIOUS
  <2>5. QED
    BY <2>3, <2>4, DivIs
<1>2. Close(h) \in Int /\ p.price \in Int /\ NoPrice \in Int
  BY CloseIs DEF Sound, NoPrice
<1>3. TargetForPattern(p, h) = CASE p.category \in {"candlestick", "chart", "iki"} ->
                                       IF FullAtr(h) = 0 THEN NoPrice
                                       ELSE IF p.bullish THEN Close(h) + run ELSE Close(h) - run
                                 [] OTHER -> p.price
  BY DEF TargetForPattern
<1> HIDE DEF run
<1>4. QED
  BY <1>1, <1>2, <1>3

\* A pattern of the pipeline, with what it is worth.
Scored(n) == [category : PatternKinds, name : PatternNames, bullish : BOOLEAN,
              confidence : 1..100, at : 1..n, price : Int, reliability : 1..3,
              target : Int, relevance : Worth]

Found(h) == {p \in Sound(Len(h)) : p.category = "iki" => IkiThere(h, p.bullish, p.at)}
ScoredFound(h) == {p \in Scored(Len(h)) : p.category = "iki" => IkiThere(h, p.bullish, p.at)}

LEMMA ScoredIs ==
    ASSUME NEW h \in Seq(CandleOk), Len(h) >= 1, NEW p \in Found(h)
    PROVE  ScoredPattern(p, h) \in ScoredFound(h)
<1> DEFINE s == ScoredPattern(p, h)
           n == Len(h)
<1>1. p \in Sound(n) /\ (p.category = "iki" => IkiThere(h, p.bullish, p.at))
  BY DEF Found
<1>2. Relevance(p, h) \in Worth /\ TargetForPattern(p, h) \in Int
  BY <1>1, RelevanceIs, TargetIs
<1>3. s = [category |-> p.category, name |-> p.name, bullish |-> p.bullish, confidence |-> p.confidence,
           at |-> p.at, price |-> p.price, reliability |-> p.reliability,
           target |-> TargetForPattern(p, h), relevance |-> Relevance(p, h)]
  BY DEF ScoredPattern
<1> HIDE DEF s, n
<1>4. s \in Scored(n)
  BY <1>1, <1>2, <1>3 DEF Scored, Sound
<1>5. s.category = p.category /\ s.bullish = p.bullish /\ s.at = p.at
  BY <1>3
<1>6. s \in ScoredFound(h)
  BY <1>1, <1>4, <1>5 DEF ScoredFound, n
<1>7. QED
  BY <1>6 DEF s

LEMMA RankedIs ==
    ASSUME NEW h \in Seq(CandleOk), Len(h) >= 1, NEW found \in Seq(Found(h))
    PROVE  Ranked(found, h) \in Seq(ScoredFound(h))
<1> DEFINE s == [k \in DOMAIN found |-> ScoredPattern(found[k], h)]
           S == ScoredFound(h)
           Earlier(i, j) == s[i].relevance > s[j].relevance \/ (i < j /\ ~(s[j].relevance > s[i].relevance))
           rank == [j \in DOMAIN s |-> 1 + Cardinality({i \in DOMAIN s : Earlier(i, j)})]
           t == [k \in DOMAIN s |-> s[CHOOSE j \in DOMAIN s : rank[j] = k]]
<1>1. Ranked(found, h) = t
  BY DEF Ranked, StableSort
<1>2. s \in Seq(S)
  <2>1. Len(found) \in Nat /\ DOMAIN found = 1..Len(found) /\ \A k \in 1..Len(found) : found[k] \in Found(h)
    OBVIOUS
  <2>2. \A k \in 1..Len(found) : s[k] \in S
    BY <2>1, ScoredIs
  <2>3. s = [k \in 1..Len(found) |-> s[k]]
    BY <2>1
  <2> HIDE DEF s, S
  <2>4. s \in [1..Len(found) -> S]
    BY <2>2, <2>3
  <2>5. QED
    BY <2>1, <2>4, ListIs
<1>3. \A p \in S : p.relevance \in Int
  <2>1. \A p \in S : p.relevance \in Worth
    BY DEF ScoredFound, Scored
  <2> HIDE DEF S
  <2>2. QED
    BY <2>1, WorthIs
<1> DEFINE n == Len(s)
           key == [i \in 1..n |-> -s[i].relevance]
           E == KeyOrder(key, n)
<1> HIDE DEF s, S
<1>4. n \in Nat /\ DOMAIN s = 1..n /\ key \in [1..n -> Int] /\ \A i \in 1..n : s[i].relevance \in Int
  <2>1. n \in Nat /\ DOMAIN s = 1..n /\ \A i \in 1..n : s[i] \in S
    BY <1>2
  <2>2. \A i \in 1..n : s[i].relevance \in Int
    BY <1>3, <2>1
  <2>3. QED
    BY <2>1, <2>2
<1>5. /\ \A i, j \in 1..n : <<i, j>> \in E <=> Earlier(i, j)
      /\ Orders(E, 1..n)
  <2> HIDE DEF key, n
  <2>1. Orders(E, 1..n) /\ \A i, j \in 1..n : <<i, j>> \in E
                            <=> (key[i] < key[j] \/ (i < j /\ ~(key[j] < key[i])))
    BY <1>4, KeyOrderIs
  <2>2. \A i \in 1..n : key[i] = -s[i].relevance
    BY DEF key
  <2>3. \A i, j \in 1..n : key[i] < key[j] <=> s[i].relevance > s[j].relevance
    BY <1>4, <2>2
  <2>4. QED
    BY <2>1, <2>3
<1>6. rank = Ranks(E, n)
  <2> HIDE DEF E, n, Earlier
  <2>1. \A j \in 1..n : {i \in 1..n : Earlier(i, j)} = Under(E, 1..n, j)
    BY <1>5 DEF Under
  <2>2. \A j \in 1..n : rank[j] = RankIn(E, 1..n, j)
    BY <1>4, <2>1 DEF RankIn
  <2>3. rank = [j \in 1..n |-> rank[j]]
    BY <1>4
  <2> HIDE DEF rank
  <2>4. QED
    BY <1>4, <2>2, <2>3, RankedBy
<1>7. t = Arranged(s, E)
  <2> HIDE DEF rank, E
  <2>1. QED
    BY <1>4, <1>6 DEF Arranged, PlaceOf
<1>8. Arranged(s, E) \in Seq(S)
  <2> HIDE DEF E
  <2>1. QED
    BY <1>2, <1>5, ArrangedIs DEF n
<1>9. QED
  BY <1>1, <1>7, <1>8 DEF S

LEMMA RecognisedIs ==
    ASSUME NEW h \in Seq(CandleOk), Len(h) >= 1, NEW signals \in Seq(Signal), NEW lines, NEW failed
    PROVE  RecognisePatterns(h, signals, lines, failed) \in Seq(ScoredFound(h))
<1> DEFINE n == Len(h)
           Of(detector, detected) == IF detector = failed THEN <<>> ELSE detected
           a == Of("candlestick", DetectCandlestickPatterns(h, signals))
           b == Of("support_resistance", DetectSupportResistance(h))
           c == Of("fibonacci", CalculateFibonacciLevels(h))
           d == Of("chart", DetectChartPatterns(h, lines))
           e == Of("iki", DetectIki(h))
           S == Found(h)
<1>1. RecognisePatterns(h, signals, lines, failed) = Ranked(a \o b \o c \o d \o e, h)
  BY DEF RecognisePatterns
<1>2. /\ Kind(n, "candlestick") \subseteq S /\ Kind(n, "support_resistance") \subseteq S
      /\ Kind(n, "fibonacci") \subseteq S /\ Kind(n, "chart") \subseteq S /\ IkiKind(h) \subseteq S
  BY DEF Kind, Found, IkiKind
<1>3. /\ DetectCandlestickPatterns(h, signals) \in Seq(S) /\ DetectSupportResistance(h) \in Seq(S)
      /\ CalculateFibonacciLevels(h) \in Seq(S) /\ DetectChartPatterns(h, lines) \in Seq(S)
      /\ DetectIki(h) \in Seq(S)
  <2> HIDE DEF S
  <2>1. DetectCandlestickPatterns(h, signals) \in Seq(S)
    BY <1>2, CandlesticksSound
  <2>2. DetectSupportResistance(h) \in Seq(S)
    BY <1>2, LevelsSound
  <2>3. CalculateFibonacciLevels(h) \in Seq(S)
    BY <1>2, FibonacciSound
  <2>4. DetectChartPatterns(h, lines) \in Seq(S)
    BY <1>2, ChartsSound
  <2>5. DetectIki(h) \in Seq(S)
    BY <1>2, IkisSound
  <2>6. QED
    BY <2>1, <2>2, <2>3, <2>4, <2>5
<1> HIDE DEF S
<1>4. <<>> \in Seq(S)
  OBVIOUS
<1>5. a \in Seq(S) /\ b \in Seq(S) /\ c \in Seq(S) /\ d \in Seq(S) /\ e \in Seq(S)
  BY <1>3, <1>4
<1> HIDE DEF a, b, c, d, e
<1>6. a \o b \o c \o d \o e \in Seq(S)
  <2>1. a \o b \in Seq(S)
    BY <1>5, ConcatProperties
  <2>2. a \o b \o c \in Seq(S)
    BY <1>5, <2>1, ConcatProperties
  <2>3. a \o b \o c \o d \in Seq(S)
    BY <1>5, <2>2, ConcatProperties
  <2>4. QED
    BY <1>5, <2>3, ConcatProperties
<1>7. QED
  BY <1>1, <1>6, RankedIs DEF S

(***************************************************************************)
(* The market, stage by stage                                              *)
(***************************************************************************)
MarketVotes == [buy : Nat, sell : Nat, neutral : Nat]
MacroScore == {NoScore} \cup (-1000)..1000

\* What the aggregation decided, from the patterns and the verdict it read.
Decided ==
    /\ decision.votes \in MarketVotes /\ decision.fundamental \in MacroScore
    /\ decision.overall = CalculateSummaries(decision.votes, NoVotes).overall
    /\ decision.direction = DetermineDirection(CalculateWeightedScore(decision.overall, patterns, decision.fundamental))

Planned ==
    strategies = BuildStrategies(decision.direction, Close(history), Atr(history), patterns, Confidence)

\* The candles are candles; from the second stage on the patterns are what the
\* detectors may say of them, then the decision is the one made from them, and
\* last the strategies are those built on it.
MarketInv ==
    /\ part # "market" => history = <<>> /\ decision = NoDecision /\ stage \in {"working", "done"}
    /\ part = "market" =>
        /\ history \in Seq(CandleOk)
        /\ stage \in {"working", "recognised", "aggregated", "done"}
        /\ stage # "working" => Len(history) >= 1 /\ patterns \in Seq(ScoredFound(history))
        /\ stage \in {"aggregated", "done"} => Decided
        /\ stage = "done" => Planned

LEMMA MarketConstants ==
    /\ Start \in Nat \ {0} /\ MaxHistory \in Nat \ {0, 1}
    /\ Moves \subseteq [gap : Int, body : Int, upper : Nat, lower : Nat]
BY ReportAssumption, Zenon

LEMMA ExternalIs == \A x \in External : x.signals \in Seq(Signal)
<1>1. \A x \in External : x.signals \in Seq([func : CandlestickPatterns, raw : Int, at : Nat \ {0}])
  BY ReportAssumption, Zenon
<1>2. QED
  BY <1>1 DEF Signal

LEMMA VerdictsAre == \A v \in Verdicts : v.votes \in MarketVotes /\ v.fundamental \in MacroScore
<1>1. \A v \in Verdicts : /\ v.votes \in [buy : Nat, sell : Nat, neutral : Nat]
                         /\ v.fundamental \in {NoScore} \cup (-1000)..1000
  BY ReportAssumption, Zenon
<1>2. QED
  BY <1>1, Zenon DEF MarketVotes, MacroScore

LEMMA MarketInit == Init => MarketInv
BY DEF Init, MarketInv

\* A move makes a candle of a candle.
LEMMA NextCandleIs ==
    ASSUME history \in Seq(CandleOk), NEW move \in Moves, NextCandle(move).low > 0
    PROVE  NextCandle(move) \in CandleOk
<1> DEFINE before == IF history = <<>> THEN Start ELSE Close(history)
           open == before + move.gap
           close == open + move.body
           top == Max({open, close})
           bottom == Min({open, close})
           c == NextCandle(move)
<1>1. move.gap \in Int /\ move.body \in Int /\ move.upper \in Nat /\ move.lower \in Nat
  BY MarketConstants
<1>2. before \in Int
  <2>1. CASE history = <<>>
    BY <2>1, MarketConstants
  <2>2. CASE history # <<>>
    <3>1. Len(history) >= 1
      BY <2>2, EmptySeq
    <3>2. Close(history) \in Nat \ {0}
      BY <3>1, CloseIs
    <3>3. QED
      BY <2>2, <3>2
  <2>3. QED
    BY <2>1, <2>2
<1>3. c = [open |-> open, close |-> close, high |-> top + move.upper, low |-> bottom - move.lower]
  BY DEF NextCandle
<1> HIDE DEF before
<1>4. open \in Int /\ close \in Int
  BY <1>1, <1>2
<1> HIDE DEF open, close
<1>5. /\ top \in Int /\ top >= open /\ top >= close
      /\ bottom \in Int /\ bottom <= open /\ bottom <= close
  BY <1>4, PairIs
<1> HIDE DEF top, bottom
<1>6. c.low > 0
  OBVIOUS
<1> HIDE DEF c
<1>7. c \in CandleOk
  <2>1. top + move.upper \in Int /\ top + move.upper >= top
        /\ bottom - move.lower \in Int /\ bottom - move.lower <= bottom
    BY <1>1, <1>5
  <2>2. c \in [open : Int, close : Int, high : Int, low : Int]
    BY <1>3, <1>4, <2>1
  <2>3. c.open = open /\ c.close = close /\ c.high = top + move.upper /\ c.low = bottom - move.lower
    BY <1>3
  <2>4. c.low <= c.open /\ c.low <= c.close /\ c.open <= c.high /\ c.close <= c.high
    BY <1>4, <1>5, <2>1, <2>3
  <2>5. QED
    BY <1>6, <2>2, <2>4 DEF CandleOk
<1>8. QED
  BY <1>7 DEF c

LEMMA CandleInv == MarketInv /\ Candle => MarketInv'
<1> SUFFICES ASSUME MarketInv, Candle PROVE MarketInv'
  OBVIOUS
<1>1. part = "market" /\ part' = part /\ stage = "working" /\ stage' = stage
  BY DEF Candle
<1>2. history \in Seq(CandleOk)
  BY <1>1 DEF MarketInv
<1>3. PICK move \in Moves : NextCandle(move).low > 0 /\ history' = Append(history, NextCandle(move))
  BY DEF Candle
<1>4. NextCandle(move) \in CandleOk
  BY <1>2, <1>3, NextCandleIs
<1>5. history' \in Seq(CandleOk)
  BY <1>2, <1>3, <1>4, AppendProperties
<1>6. QED
  BY <1>1, <1>5 DEF MarketInv

LEMMA RecogniseInv == MarketInv /\ Recognise => MarketInv'
<1> SUFFICES ASSUME MarketInv, Recognise PROVE MarketInv'
  OBVIOUS
<1>1. /\ part = "market" /\ part' = part /\ stage = "working" /\ stage' = "recognised"
      /\ history' = history /\ Len(history) >= MaxHistory - 1
  BY DEF Recognise
<1>2. history \in Seq(CandleOk) /\ Len(history) >= 1
  <2>1. history \in Seq(CandleOk)
    BY <1>1 DEF MarketInv
  <2>2. Len(history) \in Nat
    BY <2>1
  <2>3. QED
    BY <1>1, <2>1, <2>2, MarketConstants
<1>3. PICK x \in External : patterns' = RecognisePatterns(history, x.signals, x.lines, x.failed)
  BY DEF Recognise
<1>4. x.signals \in Seq(Signal)
  BY ExternalIs
<1>5. patterns' \in Seq(ScoredFound(history))
  BY <1>2, <1>3, <1>4, RecognisedIs
<1>6. QED
  BY <1>1, <1>2, <1>5 DEF MarketInv

LEMMA AggregateInv == MarketInv /\ Aggregate => MarketInv'
<1> SUFFICES ASSUME MarketInv, Aggregate PROVE MarketInv'
  OBVIOUS
<1>1. /\ part = "market" /\ part' = part /\ stage = "recognised" /\ stage' = "aggregated"
      /\ history' = history /\ patterns' = patterns
  BY DEF Aggregate
<1>2. history \in Seq(CandleOk) /\ Len(history) >= 1 /\ patterns \in Seq(ScoredFound(history))
  BY <1>1 DEF MarketInv
<1>3. PICK v \in Verdicts :
        LET overall == CalculateSummaries(v.votes, NoVotes).overall IN
        decision' =
            [direction |-> DetermineDirection(CalculateWeightedScore(overall, patterns, v.fundamental)),
             votes |-> v.votes, fundamental |-> v.fundamental, overall |-> overall]
  BY DEF Aggregate
<1>4. v.votes \in MarketVotes /\ v.fundamental \in MacroScore
  BY VerdictsAre
<1>5. Decided'
  BY <1>1, <1>3, <1>4 DEF Decided
<1>6. QED
  BY <1>1, <1>2, <1>5 DEF MarketInv

LEMMA BuildReportInv == MarketInv /\ BuildReport => MarketInv'
<1> SUFFICES ASSUME MarketInv, BuildReport PROVE MarketInv'
  OBVIOUS
<1>1. /\ part = "market" /\ part' = part /\ stage = "aggregated" /\ stage' = "done"
      /\ history' = history /\ patterns' = patterns /\ decision' = decision
  BY DEF BuildReport
<1>2. history \in Seq(CandleOk) /\ Len(history) >= 1 /\ patterns \in Seq(ScoredFound(history)) /\ Decided
  BY <1>1 DEF MarketInv
<1>3. Decided'
  BY <1>1, <1>2 DEF Decided
<1>4. Planned'
  BY <1>1 DEF BuildReport, Planned, Confidence
<1>5. QED
  BY <1>1, <1>2, <1>3, <1>4 DEF MarketInv

LEMMA MarketStep == MarketInv /\ [Next]_vars => MarketInv'
<1> SUFFICES ASSUME MarketInv, [Next]_vars PROVE MarketInv'
  OBVIOUS
<1>1. CASE Candle \/ Recognise \/ Aggregate \/ BuildReport
  BY <1>1, CandleInv, RecogniseInv, AggregateInv, BuildReportInv
<1>2. CASE RateIndicator \/ IndicatorsFail \/ RateAverages \/ AveragesFail \/ Summarise
  <2>1. part' = part /\ part # "market" /\ history' = history /\ decision' = decision /\ stage' \in {stage, "done"}
    BY <1>2 DEF RateIndicator, IndicatorsFail, RateAverages, AveragesFail, Summarise, market
  <2>2. QED
    BY <2>1 DEF MarketInv
<1>3. CASE Pivot \/ CandlestickSignal \/ ChartShape \/ Scan
  <2>1. part' = part /\ part # "market" /\ history' = history /\ decision' = decision /\ stage' = "done"
    BY <1>3 DEF Pivot, CandlestickSignal, ChartShape, Scan, market
  <2>2. QED
    BY <2>1 DEF MarketInv
<1>4. CASE Forex \/ Commodity \/ Index \/ Unrecognised
  <2>1. part' = part /\ part # "market" /\ history' = history /\ decision' = decision /\ stage' = "done"
    BY <1>4 DEF Forex, Commodity, Index, Unrecognised, Instrument, market
  <2>2. QED
    BY <2>1 DEF MarketInv
<1>5. CASE UNCHANGED vars
  BY <1>5 DEF MarketInv, Decided, Planned, Confidence, vars
<1>6. QED
  BY <1>1, <1>2, <1>3, <1>4, <1>5 DEF Next

(***************************************************************************)
(* What the detectors report is there                                      *)
(***************************************************************************)
LEMMA PatternsThere == MarketInv => SwingSpans /\ IkiIsReal /\ PatternsInRange
<1>1. ASSUME MarketInv, stage = "working", history # <<>>
      PROVE  /\ Maxima(history) # {} /\ Minima(history) # {}
             /\ Swing(history).low <= Swing(history).high
             /\ \A k \in DOMAIN FiboLevels :
                    FiboPrice(Swing(history), FiboLevels[k])
                        \in 1000 * Swing(history).low .. 1000 * Swing(history).high
  <2>1. history \in Seq(CandleOk)
    BY <1>1 DEF MarketInv
  <2>2. Len(history) >= 1
    BY <1>1, <2>1, EmptySeq
  <2>3. Maxima(history) # {} /\ Minima(history) # {}
    BY <2>1, <2>2, ExtremaThere
  <2>4. Swing(history).low <= Swing(history).high
    BY <2>1, <2>2, SwingIs
  <2>5. \A k \in DOMAIN FiboLevels :
            FiboPrice(Swing(history), FiboLevels[k]) \in 1000 * Swing(history).low .. 1000 * Swing(history).high
    BY <2>1, <2>2, FiboPriceInside
  <2>6. QED
    BY <2>3, <2>4, <2>5
<1>2. ASSUME MarketInv, stage = "recognised"
      PROVE  \A k \in DOMAIN patterns : patterns[k] \in ScoredFound(history)
  BY <1>2 DEF MarketInv
<1>3. MarketInv => SwingSpans
  BY <1>1 DEF SwingSpans
<1>4. MarketInv => IkiIsReal
  <2> SUFFICES ASSUME MarketInv, stage = "recognised",
                      NEW k \in DOMAIN patterns, patterns[k].category = "iki"
               PROVE  \E j, i, m \in DOMAIN history :
                        /\ patterns[k].at < j /\ j < i /\ i < m
                        /\ Reach(history, patterns[k].bullish, patterns[k].at, j) >= 2 * Atr(history)
                        /\ Reach(history, patterns[k].bullish, i, m) >= Atr(history)
                        /\ Retrace(history, patterns[k].bullish, j, i)
                                < Reach(history, patterns[k].bullish, patterns[k].at, j)
    BY DEF IkiIsReal
  <2>1. patterns[k] \in ScoredFound(history)
    BY <1>2
  <2>2. IkiThere(history, patterns[k].bullish, patterns[k].at)
    BY <2>1 DEF ScoredFound
  <2>3. QED
    BY <2>2 DEF IkiThere
<1>5. MarketInv => PatternsInRange
  <2> SUFFICES ASSUME MarketInv, stage = "recognised", NEW k \in DOMAIN patterns
               PROVE  /\ patterns[k].relevance \in 0..FullRelevance
                      /\ patterns[k].confidence \in 1..100
                      /\ patterns[k].at \in 1..Len(history)
    BY DEF PatternsInRange
  <2>1. patterns[k] \in Scored(Len(history))
    BY <1>2 DEF ScoredFound
  <2>2. patterns[k].relevance \in Worth /\ patterns[k].confidence \in 1..100 /\ patterns[k].at \in 1..Len(history)
    BY <2>1 DEF Scored
  <2>3. patterns[k].relevance \in 0..FullRelevance
    BY <2>2, WorthRange
  <2>4. QED
    BY <2>2, <2>3
<1>6. QED
  BY <1>3, <1>4, <1>5

\* The indication of a candlestick function comes from the sign it returned.
CandlestickInv ==
    Done("candlestick") =>
        \E func \in CandlestickPatterns : \E sign \in SignalSigns(func) :
            /\ output.found.bullish = (sign > 0)
            /\ output.indication = DirectionalIndication(func, sign > 0)

LEMMA CandlestickStep == CandlestickInv /\ [Next]_vars => CandlestickInv'
<1> SUFFICES ASSUME CandlestickInv, [Next]_vars PROVE CandlestickInv'
  OBVIOUS
<1>1. CASE CandlestickSignal
  <2>1. PICK func \in CandlestickPatterns, size \in {50, 100, 200} : \E sign \in SignalSigns(func) :
            /\ input' = [func |-> func, raw |-> sign * size, at |-> 1]
            /\ output' = [found |-> DetectionFromSignal(input'),
                          indication |-> DirectionalIndication(func, sign > 0)]
    BY <1>1 DEF CandlestickSignal
  <2>2. PICK sign \in SignalSigns(func) :
            /\ input' = [func |-> func, raw |-> sign * size, at |-> 1]
            /\ output' = [found |-> DetectionFromSignal(input'),
                          indication |-> DirectionalIndication(func, sign > 0)]
    BY <2>1
  <2>3. sign \in {-1, 1}
    BY DEF SignalSigns
  <2>4. DetectionFromSignal(input').bullish = (input'.raw > 0)
    BY DEF DetectionFromSignal, Pattern
  <2>5. (input'.raw > 0) = (sign > 0)
    <3>1. input'.raw = sign * size
      BY <2>2
    <3>2. sign * size > 0 <=> sign > 0
      BY <2>3
    <3>3. QED
      BY <3>1, <3>2
  <2>6. /\ output'.found.bullish = (sign > 0)
        /\ output'.indication = DirectionalIndication(func, sign > 0)
    BY <2>2, <2>4, <2>5
  <2>7. QED
    BY <2>6 DEF CandlestickInv
<1>2. CASE RateIndicator \/ IndicatorsFail \/ RateAverages \/ AveragesFail \/ Summarise
  <2>1. part' = part /\ part = "technical"
    BY <1>2 DEF RateIndicator, IndicatorsFail, RateAverages, AveragesFail, Summarise
  <2>2. QED
    BY <2>1 DEF CandlestickInv, Done
<1>3. CASE Candle \/ Recognise \/ Aggregate \/ BuildReport
  <2>1. part' = part /\ part = "market"
    BY <1>3 DEF Candle, Recognise, Aggregate, BuildReport
  <2>2. QED
    BY <2>1 DEF CandlestickInv, Done
<1>4. CASE Pivot \/ ChartShape \/ Scan
  <2>1. part' = part /\ part \in {"pivots", "chart", "scanner"}
    BY <1>4 DEF Pivot, ChartShape, Scan
  <2>2. QED
    BY <2>1 DEF CandlestickInv, Done
<1>5. CASE Forex \/ Commodity \/ Index \/ Unrecognised
  <2>1. part' = part /\ part = "fundamental"
    BY <1>5 DEF Forex, Commodity, Index, Unrecognised, Instrument
  <2>2. QED
    BY <2>1 DEF CandlestickInv, Done
<1>6. CASE UNCHANGED vars
  BY <1>6 DEF CandlestickInv, Done, vars
<1>7. QED
  BY <1>1, <1>2, <1>3, <1>4, <1>5, <1>6 DEF Next

LEMMA IndicationIs ==
    ASSUME NEW func \in CandlestickPatterns, NEW sign \in SignalSigns(func)
    PROVE  /\ sign > 0 => DirectionalIndication(func, sign > 0) \notin {"bearish", "bulls weaken"}
           /\ ~(sign > 0) => DirectionalIndication(func, sign > 0) # "bullish"
<1> DEFINE says == DirectionalIndication(func, sign > 0)
<1>1. sign \in {-1, 1}
  BY DEF SignalSigns
<1>2. CASE func \in TwoSided
  <2>0. func \notin BullishOnly \cup BearishOnly \cup Weakening \cup Indecision
    BY <1>2 DEF TwoSided, Reversals, Momentum, Continuations, BullishOnly, BearishOnly, Weakening, Indecision
  <2>1. says = IF sign > 0 THEN "bullish" ELSE "bearish"
    BY <1>2, <2>0 DEF DirectionalIndication
  <2> HIDE DEF says
  <2>2. /\ sign > 0 => says \notin {"bearish", "bulls weaken"}
        /\ ~(sign > 0) => says # "bullish"
    BY <2>1
  <2>3. QED
    BY <2>2 DEF says
<1>3. CASE func \in BullishOnly
  <2>1. func \notin TwoSided \cup BearishOnly \cup Weakening \cup Indecision
    BY <1>3 DEF TwoSided, Reversals, Momentum, Continuations, BullishOnly, BearishOnly, Weakening, Indecision
  <2>2. sign = 1
    BY <1>3, <2>1 DEF SignalSigns
  <2>3. says = "bullish"
    BY <1>3, <2>1 DEF DirectionalIndication
  <2> HIDE DEF says
  <2>4. says \notin {"bearish", "bulls weaken"}
    BY <2>3
  <2>5. sign > 0
    BY <2>2
  <2>6. QED
    BY <2>4, <2>5 DEF says
<1>4. CASE func \in BearishOnly \cup Weakening
  <2>1. func \notin TwoSided \cup BullishOnly \cup {"DOJI"}
    BY <1>4 DEF TwoSided, Reversals, Momentum, Continuations, BullishOnly, BearishOnly, Weakening
  <2>2. sign = -1
    BY <1>4, <2>1 DEF SignalSigns
  <2>3. says \in {"bearish", "bulls weaken"}
    BY <1>4, <2>1 DEF DirectionalIndication, BearishOnly, Weakening, Indecision
  <2> HIDE DEF says
  <2>4. says # "bullish"
    BY <2>3
  <2>5. ~(sign > 0)
    BY <2>2
  <2>6. QED
    BY <2>4, <2>5 DEF says
<1>5. CASE func \in Indecision
  <2>1. func \notin TwoSided \cup BullishOnly \cup BearishOnly \cup Weakening
    BY <1>5 DEF TwoSided, Reversals, Momentum, Continuations, BullishOnly, BearishOnly, Weakening, Indecision
  <2>2. says = "indecision"
    BY <1>5, <2>1 DEF DirectionalIndication
  <2>3. QED
    BY <2>2
<1>6. QED
  BY <1>2, <1>3, <1>4, <1>5 DEF CandlestickPatterns

LEMMA IndicationsThere == CandlestickInv => IndicationsAgree
<1> SUFFICES ASSUME CandlestickInv, Done("candlestick")
             PROVE  /\ output.found.bullish => output.indication \notin {"bearish", "bulls weaken"}
                    /\ ~output.found.bullish => output.indication # "bullish"
  BY DEF IndicationsAgree
<1>1. PICK func \in CandlestickPatterns : \E sign \in SignalSigns(func) :
            /\ output.found.bullish = (sign > 0)
            /\ output.indication = DirectionalIndication(func, sign > 0)
  BY DEF CandlestickInv
<1>2. PICK sign \in SignalSigns(func) :
            /\ output.found.bullish = (sign > 0)
            /\ output.indication = DirectionalIndication(func, sign > 0)
  BY <1>1
<1>3. QED
  BY <1>2, IndicationIs

LEMMA MarketInvHolds == Spec => [](MarketInv /\ CandlestickInv)
<1>1. Init => MarketInv /\ CandlestickInv
  BY MarketInit DEF Init, CandlestickInv, Done
<1>2. MarketInv /\ CandlestickInv /\ [Next]_vars => (MarketInv /\ CandlestickInv)'
  BY MarketStep, CandlestickStep
<1>3. QED
  BY <1>1, <1>2, PTL DEF Spec

\* Whatever the candles and whatever TA-Lib and numpy return: the swing, the
\* impulses and the sides the detectors report are there in the history, and
\* what a pattern is worth is within its range.
THEOREM PatternsRealHolds == Spec => []PatternsReal
<1>1. MarketInv /\ CandlestickInv => PatternsReal
  BY PatternsThere, IndicationsThere DEF PatternsReal
<1>2. QED
  BY <1>1, MarketInvHolds, PTL

(***************************************************************************)
(* Scenarios                                                               *)
(***************************************************************************)
Quoted(S) == \A p \in S : p.price \in Int

LEMMA LevelsTaken ==
    ASSUME NEW S, NEW ps \in Seq(S)
    PROVE  LevelsOf(ps) \in Seq(S) /\ RetracementsOf(ps) \in Seq(S)
<1> DEFINE K == {i \in DOMAIN ps : ps[i].category = "support_resistance" /\ ps[i].name = "level"}
           L == {i \in DOMAIN ps : ps[i].category = "fibonacci"}
<1>1. PlacesOf(K, ps) /\ PlacesOf(L, ps)
  BY DEF PlacesOf
<1>2. LevelsOf(ps) = Taken(ps, K) /\ RetracementsOf(ps) = Taken(ps, L)
  BY DEF LevelsOf, RetracementsOf, Filter, Taken
<1> HIDE DEF K, L
<1>3. Taken(ps, K) \in Seq(S) /\ Taken(ps, L) \in Seq(S)
  BY <1>1, TakenIs
<1>4. QED
  BY <1>2, <1>3

PricesAt(s, K) == {s[k].price : k \in K}

LEMMA PricesFinite ==
    ASSUME NEW S, Quoted(S), NEW s \in Seq(S), NEW K, PlacesOf(K, s)
    PROVE  IsFiniteSet(PricesAt(s, K)) /\ Whole(PricesAt(s, K))
<1> DEFINE P == PricesAt(s, K)
           f == [k \in K |-> s[k].price]
<1>1. Len(s) \in Nat /\ K \subseteq 1..Len(s) /\ \A k \in 1..Len(s) : s[k] \in S
  BY DEF PlacesOf
<1>2. IsFiniteSet(K)
  BY <1>1, PlacesInOrder
<1>3. P = {f[k] : k \in DOMAIN f}
  BY DEF PricesAt
<1>4. IsFiniteSet(P)
  <2>1. DOMAIN f = K /\ f = [k \in DOMAIN f |-> f[k]]
    OBVIOUS
  <2> HIDE DEF f, P
  <2>2. IsFiniteSet({f[k] : k \in DOMAIN f})
    BY <1>2, <2>1, ImageFinite
  <2>3. QED
    BY <1>3, <2>2
<1>5. Whole(P)
  BY <1>1 DEF PricesAt, Whole, Quoted
<1>6. QED
  BY <1>4, <1>5

LEMMA PricesAre ==
    ASSUME NEW S, Quoted(S), NEW s \in Seq(S), NEW K, PlacesOf(K, s), PricesAt(s, K) # {}
    PROVE  /\ Max(PricesAt(s, K)) \in PricesAt(s, K) /\ Max(PricesAt(s, K)) \in Int
           /\ Min(PricesAt(s, K)) \in PricesAt(s, K) /\ Min(PricesAt(s, K)) \in Int
<1> DEFINE P == PricesAt(s, K)
<1>1. IsFiniteSet(P) /\ Whole(P) /\ P # {}
  BY PricesFinite
<1> HIDE DEF P
<1>2. Max(P) \in P /\ Max(P) \in Int /\ Min(P) \in P /\ Min(P) \in Int
  BY <1>1, MaxIs, MinIs
<1>3. QED
  BY <1>2 DEF P

LEMMA PullbackIs ==
    ASSUME NEW S, Quoted(S), NEW s \in Seq(S), NEW current \in Int, NEW d \in {Long, Short}
    PROVE  Pullback(d, current, s) \in Seq(Int)
<1> DEFINE K == {k \in DOMAIN s : s[k].price < current}
           L == {k \in DOMAIN s : s[k].price > current}
           below == PricesAt(s, K)
           above == PricesAt(s, L)
<1>1. PlacesOf(K, s) /\ PlacesOf(L, s)
  BY DEF PlacesOf
<1>2. Pullback(d, current, s) = CASE d = Long /\ below # {} -> <<Max(below)>>
                                  [] d = Short /\ above # {} -> <<Min(above)>>
                                  [] OTHER -> <<>>
  BY DEF Pullback, Prices, PricesAt
<1>3. (below # {} => Max(below) \in Int) /\ (above # {} => Min(above) \in Int)
  <2> HIDE DEF K, L
  <2>1. QED
    BY <1>1, PricesAre
<1> HIDE DEF below, above
<1>4. Long # Short
  BY DEF Long, Short
<1>5. QED
  BY <1>2, <1>3, <1>4

LEMMA EntriesAre ==
    ASSUME NEW S, Quoted(S), NEW s \in Seq(S), NEW t \in Seq(S), NEW current \in Int, NEW d \in {Long, Short}
    PROVE  EntryPoints(d, current, s, t) \in Seq(Int)
<1> DEFINE a == <<current>>
           b == Pullback(d, current, s)
           c == Pullback(d, current, t)
<1>1. a \in Seq(Int) /\ b \in Seq(Int) /\ c \in Seq(Int)
  <2>1. b \in Seq(Int)
    BY PullbackIs
  <2>2. c \in Seq(Int)
    BY PullbackIs
  <2>3. QED
    BY <2>1, <2>2
<1>2. EntryPoints(d, current, s, t) = a \o b \o c
  BY DEF EntryPoints
<1> HIDE DEF a, b, c
<1>3. a \o b \in Seq(Int)
  BY <1>1, ConcatProperties
<1>4. a \o b \o c \in Seq(Int)
  BY <1>1, <1>3, ConcatProperties
<1>5. QED
  BY <1>2, <1>4

\* The halves of an average true range.
LEMMA HalvesAre ==
    ASSUME NEW atr \in Nat \ {0}
    PROVE  /\ atr \div 2 \in Int /\ atr \div 2 >= 0
           /\ (3 * atr) \div 2 \in Int /\ (3 * atr) \div 2 >= 1
<1> DEFINE x == atr \div 2
           y == (3 * atr) \div 2
<1>1. atr \in Int /\ 3 * atr \in Int /\ 2 \in Nat \ {0}
  OBVIOUS
<1>2. x \in Int /\ 2 * x <= atr /\ atr < 2 * x + 2
  BY <1>1, DivIs
<1>3. y \in Int /\ 2 * y <= 3 * atr /\ 3 * atr < 2 * y + 2
  BY <1>1, DivIs
<1> HIDE DEF x, y
<1>4. x >= 0 /\ y >= 1
  BY <1>2, <1>3
<1>5. QED
  BY <1>2, <1>3, <1>4 DEF x, y

\* The stop is on the side that loses.
LEMMA StopIs ==
    ASSUME NEW S, Quoted(S), NEW s \in Seq(S), NEW entry \in Int, NEW d \in {Long, Short}, NEW atr \in Nat \ {0}
    PROVE  /\ CalculateSl(d, entry, s, atr) \in Int
           /\ d = Long => CalculateSl(d, entry, s, atr) < entry
           /\ d = Short => CalculateSl(d, entry, s, atr) > entry
<1> DEFINE K == {k \in DOMAIN s : s[k].bullish /\ s[k].price < entry}
           L == {k \in DOMAIN s : ~s[k].bullish /\ s[k].price > entry}
           below == PricesAt(s, K)
           above == PricesAt(s, L)
           half == atr \div 2
           more == (3 * atr) \div 2
           stop == CalculateSl(d, entry, s, atr)
<1>1. PlacesOf(K, s) /\ PlacesOf(L, s)
  BY DEF PlacesOf
<1>2. /\ d = Long /\ below # {} => stop = Max(below) - half
      /\ d = Long /\ below = {} => stop = entry - more
      /\ d = Short /\ above # {} => stop = Min(above) + half
      /\ d = Short /\ above = {} => stop = entry + more
  <2>1. Supports(entry, s) = below /\ Resistances(entry, s) = above
    BY DEF Supports, Resistances, Prices, PricesAt
  <2> HIDE DEF below, above, half, more
  <2>2. Long # Short
    BY DEF Long, Short
  <2>3. stop = CASE d = Long /\ below # {} -> Max(below) - half
                 [] d = Long /\ below = {} -> entry - more
                 [] d = Short /\ above # {} -> Min(above) + half
                 [] d = Short /\ above = {} -> entry + more
    BY <2>1 DEF CalculateSl, half, more
  <2> HIDE DEF stop
  <2>4. QED
    BY <2>2, <2>3
<1>3. /\ below # {} => Max(below) \in Int /\ Max(below) \in below
      /\ above # {} => Min(above) \in Int /\ Min(above) \in above
  <2> HIDE DEF K, L
  <2>1. QED
    BY <1>1, PricesAre
<1>4. (\A x \in below : x < entry) /\ (\A x \in above : x > entry)
  BY DEF PricesAt
<1>5. half \in Int /\ half >= 0 /\ more \in Int /\ more >= 1
  BY HalvesAre
<1> HIDE DEF below, above, half, more, stop
<1>6. CASE d = Long
  <2>1. stop \in Int /\ stop < entry
    BY <1>2, <1>3, <1>4, <1>5, <1>6
  <2>2. QED
    BY <1>6, <2>1 DEF stop, Long, Short
<1>7. CASE d = Short
  <2>1. stop \in Int /\ stop > entry
    BY <1>2, <1>3, <1>4, <1>5, <1>7
  <2>2. QED
    BY <1>7, <2>1 DEF stop, Long, Short
<1>8. QED
  BY <1>6, <1>7

\* The levels a scenario may aim at, their prices, and the order it takes them in.
TargetPlaces(d, entry, s) ==
    {i \in DOMAIN s : IF d = Long THEN ~s[i].bullish /\ s[i].price > entry
                                  ELSE s[i].bullish /\ s[i].price < entry}
PricesOf(s) == [k \in DOMAIN s |-> s[k].price]
TargetPrices(d, entry, s) == PricesOf(Taken(s, TargetPlaces(d, entry, s)))
SoonerKey(d, prices) == [i \in 1..Len(prices) |-> IF d = Long THEN prices[i] ELSE -prices[i]]
TargetOrder(d, prices) == KeyOrder(SoonerKey(d, prices), Len(prices))

LEMMA PricesOfAre ==
    ASSUME NEW S, Quoted(S), NEW s \in Seq(S)
    PROVE  /\ PricesOf(s) \in Seq(Int) /\ Len(PricesOf(s)) = Len(s)
           /\ \A k \in 1..Len(s) : PricesOf(s)[k] = s[k].price
<1> DEFINE t == PricesOf(s)
<1>1. Len(s) \in Nat /\ DOMAIN s = 1..Len(s) /\ \A k \in 1..Len(s) : s[k].price \in Int
  BY DEF Quoted
<1>2. t = [k \in 1..Len(s) |-> t[k]] /\ \A k \in 1..Len(s) : t[k] = s[k].price
  BY <1>1 DEF PricesOf
<1> HIDE DEF t
<1>3. t \in [1..Len(s) -> Int]
  BY <1>1, <1>2
<1>4. t \in Seq(Int) /\ Len(t) = Len(s)
  BY <1>1, <1>3, ListIs
<1>5. QED
  BY <1>2, <1>4 DEF t

LEMMA TargetPricesAre ==
    ASSUME NEW S, Quoted(S), NEW s \in Seq(S), NEW entry \in Int, NEW d \in {Long, Short}
    PROVE  TargetPrices(d, entry, s) \in Seq(Int)
<1> DEFINE K == TargetPlaces(d, entry, s)
<1>1. PlacesOf(K, s)
  BY DEF PlacesOf, TargetPlaces
<1> HIDE DEF K
<1>2. Taken(s, K) \in Seq(S)
  BY <1>1, TakenIs
<1>3. PricesOf(Taken(s, K)) \in Seq(Int)
  BY <1>2, PricesOfAre
<1>4. QED
  BY <1>3 DEF TargetPrices, K

LEMMA TargetsArranged ==
    ASSUME NEW S, Quoted(S), NEW s \in Seq(S), NEW entry \in Int, NEW d \in {Long, Short}
    PROVE  LET prices == TargetPrices(d, entry, s) IN
           /\ Targets(d, entry, s) = Arranged(prices, TargetOrder(d, prices))
           /\ Orders(TargetOrder(d, prices), 1..Len(prices))
<1> DEFINE prices == TargetPrices(d, entry, s)
           Sooner(a, b) == IF d = Long THEN a < b ELSE a > b
           Earlier(i, j) == Sooner(prices[i], prices[j]) \/ (i < j /\ ~Sooner(prices[j], prices[i]))
           rank == [j \in DOMAIN prices |-> 1 + Cardinality({i \in DOMAIN prices : Earlier(i, j)})]
           t == [k \in DOMAIN prices |-> prices[CHOOSE j \in DOMAIN prices : rank[j] = k]]
           n == Len(prices)
           key == SoonerKey(d, prices)
           E == TargetOrder(d, prices)
<1>1. Targets(d, entry, s) = t
  BY DEF Targets, StableSort, Filter, Taken, TargetPrices, TargetPlaces, PricesOf
<1>4. prices \in Seq(Int)
  BY TargetPricesAre
<1>5. /\ n \in Nat /\ DOMAIN prices = 1..n /\ \A i \in 1..n : prices[i] \in Int
      /\ key \in [1..n -> Int] /\ \A i \in 1..n : key[i] = IF d = Long THEN prices[i] ELSE -prices[i]
  <2> HIDE DEF prices
  <2>1. n \in Nat /\ DOMAIN prices = 1..n /\ \A i \in 1..n : prices[i] \in Int
    BY <1>4
  <2>2. QED
    BY <2>1 DEF SoonerKey
<1>6. /\ \A i, j \in 1..n : <<i, j>> \in E <=> Earlier(i, j)
      /\ Orders(E, 1..n)
  <2> HIDE DEF key, n, prices
  <2>1. E = KeyOrder(key, n)
    BY DEF E, key, n, TargetOrder
  <2> HIDE DEF E
  <2>2. Orders(E, 1..n) /\ \A i, j \in 1..n : <<i, j>> \in E
                            <=> (key[i] < key[j] \/ (i < j /\ ~(key[j] < key[i])))
    BY <1>5, <2>1, KeyOrderIs
  <2>3. \A i, j \in 1..n : key[i] < key[j] <=> Sooner(prices[i], prices[j])
    BY <1>5
  <2>4. QED
    BY <2>2, <2>3
<1>7. rank = Ranks(E, n)
  <2> HIDE DEF E, n, Earlier, prices
  <2>1. \A j \in 1..n : {i \in 1..n : Earlier(i, j)} = Under(E, 1..n, j)
    BY <1>6 DEF Under
  <2>2. \A j \in 1..n : rank[j] = RankIn(E, 1..n, j)
    BY <1>5, <2>1 DEF RankIn
  <2>3. rank = [j \in 1..n |-> rank[j]]
    BY <1>5
  <2> HIDE DEF rank
  <2>4. QED
    BY <1>5, <2>2, <2>3, RankedBy
<1>8. t = Arranged(prices, E)
  <2> HIDE DEF rank, E, prices
  <2>1. QED
    BY <1>5, <1>7 DEF Arranged, PlaceOf
<1>9. QED
  BY <1>1, <1>6, <1>8

LEMMA TargetsAre ==
    ASSUME NEW S, Quoted(S), NEW s \in Seq(S), NEW entry \in Int, NEW d \in {Long, Short}
    PROVE  Targets(d, entry, s) \in Seq(Int)
<1> DEFINE prices == TargetPrices(d, entry, s)
           E == TargetOrder(d, prices)
<1>1. Targets(d, entry, s) = Arranged(prices, E) /\ Orders(E, 1..Len(prices))
  BY TargetsArranged
<1>2. prices \in Seq(Int)
  BY TargetPricesAre
<1> HIDE DEF prices, E
<1>3. Arranged(prices, E) \in Seq(Int)
  BY <1>1, <1>2, ArrangedIs
<1>4. QED
  BY <1>1, <1>3

LEMMA HeadTaken ==
    ASSUME NEW s \in Seq(Int), NEW K, PlacesOf(K, s), Taken(s, K) # <<>>
    PROVE  /\ Taken(s, K) \in Seq(Int) /\ Tail(Taken(s, K)) \in Seq(Int)
           /\ \E i \in K : Head(Taken(s, K)) = s[i]
<1> DEFINE t == Taken(s, K)
<1>1. t \in Seq(Int) /\ \A k \in 1..Len(t) : \E i \in K : t[k] = s[i]
  <2>1. Taken(s, K) \in Seq(Int)
    BY TakenIs
  <2>2. \A k \in 1..Len(Taken(s, K)) : \E i \in K : Taken(s, K)[k] = s[i]
    BY TakenIs
  <2>3. QED
    BY <2>1, <2>2
<1> HIDE DEF t
<1>2. t # <<>>
  BY DEF t
<1>3. Len(t) \in Nat /\ Len(t) # 0
  BY <1>1, <1>2, EmptySeq
<1>4. Head(t) = t[1] /\ 1 \in 1..Len(t) /\ Tail(t) \in Seq(Int)
  BY <1>1, <1>2, <1>3
<1>5. QED
  BY <1>1, <1>4 DEF t

\* What the two loops pick, by which targets are far enough for them.
Reached(d, T, entry, risk) ==
    {i \in DOMAIN T : IF d = Long THEN T[i] >= entry + risk ELSE T[i] <= entry - risk}
After(T, K) == IF Taken(T, K) = <<>> THEN <<>> ELSE Tail(Taken(T, K))

NearPick(d, entry, s, risk) ==
    LET T == Targets(d, entry, s) IN FirstOf(Taken(T, Reached(d, T, entry, risk)))
FarPick(d, entry, s, risk) ==
    LET T == Targets(d, entry, s)
        R == After(T, Reached(d, T, entry, risk)) IN
    FirstOf(Taken(R, Reached(d, R, entry, 2 * risk)))

LEMMA PicksAre ==
    ASSUME NEW d \in {Long, Short}, NEW entry, NEW s, NEW risk, NEW atr
    PROVE  CalculateTp(d, entry, s, risk, atr)
            = TakeProfits(d, entry, NearTarget(d, entry, NearPick(d, entry, s, risk), atr),
                          FarPick(d, entry, s, risk), risk, atr)
<1>1. CASE d = Long
  <2> DEFINE T == Targets(Long, entry, s)
             K == {i \in DOMAIN T : T[i] >= entry + risk}
             R == After(T, K)
             L == {i \in DOMAIN R : R[i] >= entry + 2 * risk}
  <2>1. CalculateTp(Long, entry, s, risk, atr)
            = TakeProfits(Long, entry, NearTarget(Long, entry, FirstOf(Taken(T, K)), atr),
                          FirstOf(Taken(R, L)), risk, atr)
    BY DEF CalculateTp, Picked, Filter, Taken, After
  <2>2. Reached(Long, T, entry, risk) = K /\ Reached(Long, R, entry, 2 * risk) = L
    BY DEF Reached
  <2>3. FirstOf(Taken(T, K)) = NearPick(Long, entry, s, risk)
    BY <2>2 DEF NearPick
  <2>4. FirstOf(Taken(R, L)) = FarPick(Long, entry, s, risk)
    BY <2>2 DEF FarPick
  <2> HIDE DEF T, K, R, L
  <2>5. QED
    BY <1>1, <2>1, <2>3, <2>4
<1>2. CASE d = Short
  <2> DEFINE T == Targets(Short, entry, s)
             K == {i \in DOMAIN T : T[i] <= entry - risk}
             R == After(T, K)
             L == {i \in DOMAIN R : R[i] <= entry - 2 * risk}
  <2>0. Short # Long
    BY DEF Short, Long
  <2>1. CalculateTp(Short, entry, s, risk, atr)
            = TakeProfits(Short, entry, NearTarget(Short, entry, FirstOf(Taken(T, K)), atr),
                          FirstOf(Taken(R, L)), risk, atr)
    BY <2>0 DEF CalculateTp, Picked, Filter, Taken, After
  <2>2. Reached(Short, T, entry, risk) = K /\ Reached(Short, R, entry, 2 * risk) = L
    BY <2>0 DEF Reached
  <2>3. FirstOf(Taken(T, K)) = NearPick(Short, entry, s, risk)
    BY <2>2 DEF NearPick
  <2>4. FirstOf(Taken(R, L)) = FarPick(Short, entry, s, risk)
    BY <2>2 DEF FarPick
  <2> HIDE DEF T, K, R, L
  <2>5. QED
    BY <1>2, <2>1, <2>3, <2>4
<1>3. QED
  BY <1>1, <1>2

\* A target that was found lies as far off as was asked.
FarEnough(d, found, entry, risk) ==
    \/ found = <<>>
    \/ \E x \in Int : found = <<x>> /\ IF d = Long THEN x >= entry + risk ELSE x <= entry - risk

LEMMA FirstReached ==
    ASSUME NEW T \in Seq(Int), NEW d, NEW entry, NEW risk
    PROVE  /\ FarEnough(d, FirstOf(Taken(T, Reached(d, T, entry, risk))), entry, risk)
           /\ After(T, Reached(d, T, entry, risk)) \in Seq(Int)
<1> DEFINE K == Reached(d, T, entry, risk)
           t == Taken(T, K)
<1>1. PlacesOf(K, T)
  BY DEF PlacesOf, Reached
<1>2. \A i \in K : T[i] \in Int /\ IF d = Long THEN T[i] >= entry + risk ELSE T[i] <= entry - risk
  BY DEF Reached
<1> HIDE DEF K
<1>3. CASE t = <<>>
  BY <1>3 DEF FirstOf, FarEnough, After, K
<1>4. CASE t # <<>>
  <2>1. Tail(t) \in Seq(Int) /\ \E i \in K : Head(t) = T[i]
    BY <1>1, <1>4, HeadTaken
  <2> HIDE DEF t
  <2>2. FirstOf(t) = <<Head(t)>>
    BY <1>4 DEF FirstOf
  <2>3. FarEnough(d, FirstOf(t), entry, risk)
    BY <1>2, <2>1, <2>2 DEF FarEnough
  <2>4. After(T, K) = Tail(t)
    BY <1>4 DEF After, t
  <2>5. QED
    BY <2>1, <2>3, <2>4 DEF t, K
<1>5. QED
  BY <1>3, <1>4

LEMMA PicksReach ==
    ASSUME NEW S, Quoted(S), NEW s \in Seq(S), NEW entry \in Int, NEW d \in {Long, Short}, NEW risk
    PROVE  /\ FarEnough(d, NearPick(d, entry, s, risk), entry, risk)
           /\ FarEnough(d, FarPick(d, entry, s, risk), entry, 2 * risk)
<1> DEFINE T == Targets(d, entry, s)
           R == After(T, Reached(d, T, entry, risk))
<1>1. T \in Seq(Int)
  BY TargetsAre
<1> HIDE DEF T
<1>2. FarEnough(d, FirstOf(Taken(T, Reached(d, T, entry, risk))), entry, risk) /\ R \in Seq(Int)
  BY <1>1, FirstReached
<1> HIDE DEF R
<1>3. FarEnough(d, FirstOf(Taken(R, Reached(d, R, entry, 2 * risk))), entry, 2 * risk)
  BY <1>2, FirstReached
<1>4. QED
  BY <1>2, <1>3 DEF NearPick, FarPick, T, R

LEMMA LongProfits ==
    ASSUME NEW entry \in Int, NEW near, NEW far, NEW risk \in Nat \ {0}, NEW atr \in Nat \ {0},
           FarEnough(Long, near, entry, risk), FarEnough(Long, far, entry, 2 * risk)
    PROVE  LET tp == TakeProfits(Long, entry, NearTarget(Long, entry, near, atr), far, risk, atr) IN
           /\ tp.tp1 \in Int /\ tp.tp2 \in Int /\ tp.tp1 > entry
           /\ \/ tp.tp2 > tp.tp1 /\ tp.tp2 >= entry + 2 * risk
              \/ tp.tp2 >= tp.tp1 + risk
<1> DEFINE tp1 == NearTarget(Long, entry, near, atr)
           top == Max({entry + 6 * atr, tp1 + risk})
           tp2 == IF far # <<>> THEN Head(far) ELSE top
           last == IF tp2 <= tp1 THEN tp1 + risk ELSE tp2
<1>0. Long # Short
  BY DEF Long, Short
<1>1. tp1 = IF near # <<>> THEN Head(near) ELSE entry + 3 * atr
  BY <1>0 DEF NearTarget
<1>2. tp1 \in Int /\ tp1 > entry
  <2>1. near # <<>> => Head(near) \in Int /\ Head(near) >= entry + risk
    BY DEF FarEnough
  <2>2. QED
    BY <1>1, <2>1
<1>3. TakeProfits(Long, entry, tp1, far, risk, atr) = [tp1 |-> tp1, tp2 |-> last]
  BY <1>0 DEF TakeProfits
<1> HIDE DEF tp1
<1>4. top \in Int /\ top >= tp1 + risk
  <2>1. entry + 6 * atr \in Int /\ tp1 + risk \in Int
    BY <1>2
  <2>2. QED
    BY <2>1, PairIs
<1> HIDE DEF top
<1>5. tp2 \in Int /\ (tp2 >= entry + 2 * risk \/ tp2 >= tp1 + risk)
  <2>1. far # <<>> => Head(far) \in Int /\ Head(far) >= entry + 2 * risk
    BY DEF FarEnough
  <2>2. QED
    BY <1>4, <2>1
<1> HIDE DEF tp2
<1>6. /\ last \in Int
      /\ \/ last > tp1 /\ last >= entry + 2 * risk
         \/ last >= tp1 + risk
  BY <1>2, <1>5
<1> HIDE DEF last
<1>7. QED
  BY <1>2, <1>3, <1>6 DEF tp1

LEMMA ShortProfits ==
    ASSUME NEW entry \in Int, NEW near, NEW far, NEW risk \in Nat \ {0}, NEW atr \in Nat \ {0},
           FarEnough(Short, near, entry, risk), FarEnough(Short, far, entry, 2 * risk)
    PROVE  LET tp == TakeProfits(Short, entry, NearTarget(Short, entry, near, atr), far, risk, atr) IN
           /\ tp.tp1 \in Int /\ tp.tp2 \in Int /\ tp.tp1 < entry
           /\ \/ tp.tp2 < tp.tp1 /\ tp.tp2 <= entry - 2 * risk
              \/ tp.tp2 <= tp.tp1 - risk
<1> DEFINE tp1 == NearTarget(Short, entry, near, atr)
           top == Min({entry - 6 * atr, tp1 - risk})
           tp2 == IF far # <<>> THEN Head(far) ELSE top
           last == IF tp2 >= tp1 THEN tp1 - risk ELSE tp2
<1>0. Long # Short
  BY DEF Long, Short
<1>1. tp1 = IF near # <<>> THEN Head(near) ELSE entry - 3 * atr
  BY <1>0 DEF NearTarget
<1>2. tp1 \in Int /\ tp1 < entry
  <2>1. near # <<>> => Head(near) \in Int /\ Head(near) <= entry - risk
    BY <1>0 DEF FarEnough
  <2>2. QED
    BY <1>1, <2>1
<1>3. TakeProfits(Short, entry, tp1, far, risk, atr) = [tp1 |-> tp1, tp2 |-> last]
  BY <1>0 DEF TakeProfits
<1> HIDE DEF tp1
<1>4. top \in Int /\ top <= tp1 - risk
  <2>1. entry - 6 * atr \in Int /\ tp1 - risk \in Int
    BY <1>2
  <2>2. QED
    BY <2>1, PairIs
<1> HIDE DEF top
<1>5. tp2 \in Int /\ (tp2 <= entry - 2 * risk \/ tp2 <= tp1 - risk)
  <2>1. far # <<>> => Head(far) \in Int /\ Head(far) <= entry - 2 * risk
    BY <1>0 DEF FarEnough
  <2>2. QED
    BY <1>4, <2>1
<1> HIDE DEF tp2
<1>6. /\ last \in Int
      /\ \/ last < tp1 /\ last <= entry - 2 * risk
         \/ last <= tp1 - risk
  BY <1>2, <1>5
<1> HIDE DEF last
<1>7. QED
  BY <1>2, <1>3, <1>6 DEF tp1

\* A printed ratio of at most one means that, to half a percent, the target wins
\* what the stop risks.
LEMMA RatioIs ==
    ASSUME NEW risk \in Nat, NEW win \in Nat \ {0}
    PROVE  LET r == RoundDiv(100 * risk, win) IN
           r # NoRatio /\ (r <= 100 => 200 * risk < 201 * win)
<1> DEFINE a == 100 * risk
           r == RoundDiv(a, win)
           w == win * r
<1>1. a \in Int /\ a >= 0 /\ 2 * a = 200 * risk
  OBVIOUS
<1> HIDE DEF a
<1>2. r \in Int /\ r >= 0 /\ 2 * a < 2 * win * r + win
  BY <1>1, RoundDivIs
<1> HIDE DEF r
<1>3. w \in Int /\ 2 * win * r = 2 * w
  BY <1>2
<1>4. r <= 100 => w <= 100 * win
  <2>1. ASSUME r <= 100 PROVE w <= 100 * win
    <3>1. PICK e \in Nat : 100 = r + e
      BY <1>2, <2>1
    <3>2. win * e \in Nat
      BY <3>1
    <3>3. 100 * win = win * r + win * e
      BY <1>2, <3>1
    <3>4. QED
      BY <1>3, <3>2, <3>3
  <2>2. QED
    BY <2>1
<1> HIDE DEF w
<1>5. r <= 100 => 200 * risk < 201 * win
  BY <1>1, <1>2, <1>3, <1>4
<1>6. r # NoRatio
  BY <1>2 DEF NoRatio
<1>7. QED
  BY <1>5, <1>6 DEF r, a

\* A target that wins once the risk, to half a percent, and one that wins twice the
\* risk or once more than the first.
Beyond(risk, a, b) == (b > a /\ b >= 2 * risk) \/ b >= a + risk
PaysOnce(risk, a) == 200 * risk < 201 * a
PaysTwice(risk, a, b) == b - a > 0 /\ 400 * risk < 201 * b

LEMMA SecondPays ==
    ASSUME NEW risk \in Nat \ {0}, NEW a \in Int, NEW b \in Int, PaysOnce(risk, a), Beyond(risk, a, b)
    PROVE  PaysTwice(risk, a, b)
<1>1. CASE b > a /\ b >= 2 * risk
  BY <1>1 DEF PaysTwice
<1>2. CASE b >= a + risk
  BY <1>2 DEF PaysOnce, PaysTwice
<1>3. QED
  BY <1>1, <1>2 DEF Beyond

\* What StrategiesPay says of one scenario.
Pays(d, s) ==
    LET risk == d * (s.entry - s.stop) IN
    /\ risk > 0
    /\ s.tp1 # s.entry /\ d * (s.tp2 - s.tp1) > 0
    /\ 200 * risk < 201 * d * (s.tp1 - s.entry)
    /\ 400 * risk < 201 * d * (s.tp2 - s.entry)

Worthwhile(s) == s.ratio = NoRatio \/ s.ratio <= 100

LEMMA LongPays ==
    ASSUME NEW S, Quoted(S), NEW levels \in Seq(S), NEW entry \in Int, NEW atr \in Nat \ {0}, NEW confidence,
           Worthwhile(Scenario(Long, entry, levels, atr, confidence))
    PROVE  Pays(Long, Scenario(Long, entry, levels, atr, confidence))
<1> DEFINE stop == CalculateSl(Long, entry, levels, atr)
           risk == Abs(entry - stop)
           tp == CalculateTp(Long, entry, levels, risk, atr)
           tp1 == tp.tp1
           tp2 == tp.tp2
           r == RoundDiv(100 * risk, Abs(tp1 - entry))
           s == Scenario(Long, entry, levels, atr, confidence)
<1>1. s = [entry |-> entry, stop |-> stop, tp1 |-> tp1, tp2 |-> tp2, confidence |-> confidence,
           ratio |-> RiskReward(entry, stop, tp1), ratio2 |-> RiskReward(entry, stop, tp2)]
  BY DEF Scenario, Priced
<1>2. RiskReward(entry, stop, tp1) = IF tp1 = entry THEN NoRatio ELSE r
  BY DEF RiskReward
<1>3. stop \in Int /\ stop < entry
  BY StopIs
<1>4. Worthwhile(s)
  OBVIOUS
<1> HIDE DEF s, stop
<1>5. risk = entry - stop /\ risk \in Nat \ {0}
  BY <1>3 DEF Abs
<1> HIDE DEF risk
<1>6. /\ tp1 \in Int /\ tp2 \in Int /\ tp1 > entry
      /\ \/ tp2 > tp1 /\ tp2 >= entry + 2 * risk
         \/ tp2 >= tp1 + risk
  <2> DEFINE near == NearPick(Long, entry, levels, risk)
             far == FarPick(Long, entry, levels, risk)
  <2>1. FarEnough(Long, near, entry, risk) /\ FarEnough(Long, far, entry, 2 * risk)
    BY PicksReach
  <2>2. tp = TakeProfits(Long, entry, NearTarget(Long, entry, near, atr), far, risk, atr)
    BY PicksAre
  <2> HIDE DEF near, far
  <2>3. QED
    BY <1>5, <2>1, <2>2, LongProfits
<1> HIDE DEF tp1, tp2
<1>7. Abs(tp1 - entry) = tp1 - entry /\ tp1 - entry \in Nat \ {0}
  BY <1>6 DEF Abs
<1>8. r # NoRatio /\ (r <= 100 => 200 * risk < 201 * (tp1 - entry))
  BY <1>5, <1>7, RatioIs
<1>9. r <= 100
  <2>1. s.ratio = r
    BY <1>1, <1>2, <1>6
  <2>2. QED
    BY <1>4, <1>8, <2>1 DEF Worthwhile
<1>10. 200 * risk < 201 * (tp1 - entry)
  BY <1>8, <1>9
<1> HIDE DEF r
<1>11. /\ tp2 - tp1 > 0
       /\ 400 * risk < 201 * (tp2 - entry)
  <2> DEFINE a == tp1 - entry
             b == tp2 - entry
  <2>1. a \in Int /\ b \in Int /\ b - a = tp2 - tp1
    BY <1>6
  <2>2. PaysOnce(risk, a)
    BY <1>10 DEF PaysOnce
  <2>3. ASSUME tp2 > tp1 /\ tp2 >= entry + 2 * risk PROVE Beyond(risk, a, b)
    BY <1>5, <1>6, <2>3 DEF Beyond
  <2>4. ASSUME tp2 >= tp1 + risk PROVE Beyond(risk, a, b)
    BY <1>5, <1>6, <2>4 DEF Beyond
  <2>5. Beyond(risk, a, b)
    BY <1>6, <2>3, <2>4
  <2> HIDE DEF a, b
  <2>6. PaysTwice(risk, a, b)
    BY <1>5, <2>1, <2>2, <2>5, SecondPays
  <2>7. QED
    BY <2>1, <2>6 DEF b, PaysTwice
<1>12. s.entry = entry /\ s.stop = stop /\ s.tp1 = tp1 /\ s.tp2 = tp2
  BY <1>1
<1>13. Long * (entry - stop) = risk /\ Long * (tp2 - tp1) = tp2 - tp1
       /\ 201 * Long * (tp1 - entry) = 201 * (tp1 - entry) /\ 201 * Long * (tp2 - entry) = 201 * (tp2 - entry)
  BY <1>3, <1>5, <1>6 DEF Long
<1>14. risk > 0 /\ tp1 # entry
  BY <1>5, <1>6
<1>15. Pays(Long, s)
  BY <1>10, <1>11, <1>12, <1>13, <1>14 DEF Pays
<1>16. QED
  BY <1>15 DEF s

LEMMA ShortPays ==
    ASSUME NEW S, Quoted(S), NEW levels \in Seq(S), NEW entry \in Int, NEW atr \in Nat \ {0}, NEW confidence,
           Worthwhile(Scenario(Short, entry, levels, atr, confidence))
    PROVE  Pays(Short, Scenario(Short, entry, levels, atr, confidence))
<1> DEFINE stop == CalculateSl(Short, entry, levels, atr)
           risk == Abs(entry - stop)
           tp == CalculateTp(Short, entry, levels, risk, atr)
           tp1 == tp.tp1
           tp2 == tp.tp2
           r == RoundDiv(100 * risk, Abs(tp1 - entry))
           s == Scenario(Short, entry, levels, atr, confidence)
<1>1. s = [entry |-> entry, stop |-> stop, tp1 |-> tp1, tp2 |-> tp2, confidence |-> confidence,
           ratio |-> RiskReward(entry, stop, tp1), ratio2 |-> RiskReward(entry, stop, tp2)]
  BY DEF Scenario, Priced
<1>2. RiskReward(entry, stop, tp1) = IF tp1 = entry THEN NoRatio ELSE r
  BY DEF RiskReward
<1>3. stop \in Int /\ stop > entry
  BY StopIs
<1>4. Worthwhile(s)
  OBVIOUS
<1> HIDE DEF s, stop
<1>5. risk = stop - entry /\ risk \in Nat \ {0}
  BY <1>3 DEF Abs
<1> HIDE DEF risk
<1>6. /\ tp1 \in Int /\ tp2 \in Int /\ tp1 < entry
      /\ \/ tp2 < tp1 /\ tp2 <= entry - 2 * risk
         \/ tp2 <= tp1 - risk
  <2> DEFINE near == NearPick(Short, entry, levels, risk)
             far == FarPick(Short, entry, levels, risk)
  <2>1. FarEnough(Short, near, entry, risk) /\ FarEnough(Short, far, entry, 2 * risk)
    BY PicksReach
  <2>2. tp = TakeProfits(Short, entry, NearTarget(Short, entry, near, atr), far, risk, atr)
    BY PicksAre
  <2> HIDE DEF near, far
  <2>3. QED
    BY <1>5, <2>1, <2>2, ShortProfits
<1> HIDE DEF tp1, tp2
<1>7. Abs(tp1 - entry) = entry - tp1 /\ entry - tp1 \in Nat \ {0}
  BY <1>6 DEF Abs
<1>8. r # NoRatio /\ (r <= 100 => 200 * risk < 201 * (entry - tp1))
  BY <1>5, <1>7, RatioIs
<1>9. r <= 100
  <2>1. s.ratio = r
    BY <1>1, <1>2, <1>6
  <2>2. QED
    BY <1>4, <1>8, <2>1 DEF Worthwhile
<1>10. 200 * risk < 201 * (entry - tp1)
  BY <1>8, <1>9
<1> HIDE DEF r
<1>11. /\ tp1 - tp2 > 0
       /\ 400 * risk < 201 * (entry - tp2)
  <2> DEFINE a == entry - tp1
             b == entry - tp2
  <2>1. a \in Int /\ b \in Int /\ b - a = tp1 - tp2
    BY <1>6
  <2>2. PaysOnce(risk, a)
    BY <1>10 DEF PaysOnce
  <2>3. ASSUME tp2 < tp1 /\ tp2 <= entry - 2 * risk PROVE Beyond(risk, a, b)
    BY <1>5, <1>6, <2>3 DEF Beyond
  <2>4. ASSUME tp2 <= tp1 - risk PROVE Beyond(risk, a, b)
    BY <1>5, <1>6, <2>4 DEF Beyond
  <2>5. Beyond(risk, a, b)
    BY <1>6, <2>3, <2>4
  <2> HIDE DEF a, b
  <2>6. PaysTwice(risk, a, b)
    BY <1>5, <2>1, <2>2, <2>5, SecondPays
  <2>7. QED
    BY <2>1, <2>6 DEF b, PaysTwice
<1>12. s.entry = entry /\ s.stop = stop /\ s.tp1 = tp1 /\ s.tp2 = tp2
  BY <1>1
<1>13. Short * (entry - stop) = risk /\ Short * (tp2 - tp1) = tp1 - tp2
       /\ 201 * Short * (tp1 - entry) = 201 * (entry - tp1) /\ 201 * Short * (tp2 - entry) = 201 * (entry - tp2)
  BY <1>3, <1>5, <1>6 DEF Short
<1>14. risk > 0 /\ tp1 # entry
  BY <1>5, <1>6
<1>15. Pays(Short, s)
  BY <1>10, <1>11, <1>12, <1>13, <1>14 DEF Pays
<1>16. QED
  BY <1>15 DEF s

\* The strategies are the scenarios of the entries that are worthwhile.
LEMMA StrategiesAre ==
    ASSUME NEW S, Quoted(S), NEW ps \in Seq(S), NEW d \in {Long, Short}, NEW current \in Int,
           NEW atr \in Nat \ {0}, NEW confidence, NEW k \in DOMAIN BuildStrategies(d, current, atr, ps, confidence)
    PROVE  Pays(d, BuildStrategies(d, current, atr, ps, confidence)[k])
<1> DEFINE levels == LevelsOf(ps)
           entries == EntryPoints(d, current, levels, RetracementsOf(ps))
           all == [i \in DOMAIN entries |-> Scenario(d, entries[i], levels, atr, confidence)]
           K == {i \in DOMAIN all : all[i].ratio = NoRatio \/ all[i].ratio <= 100}
           built == BuildStrategies(d, current, atr, ps, confidence)
<1>1. levels \in Seq(S) /\ RetracementsOf(ps) \in Seq(S)
  BY LevelsTaken
<1>2. built = Taken(all, K)
  <2>1. d # NoDirection
    BY DEF Long, Short, NoDirection
  <2>2. QED
    BY <2>1 DEF BuildStrategies, Filter, Taken
<1> HIDE DEF levels, built
<1>3. entries \in Seq(Int)
  BY <1>1, EntriesAre
<1> HIDE DEF entries
<1>4. /\ Len(entries) \in Nat /\ DOMAIN entries = 1..Len(entries)
      /\ \A i \in 1..Len(entries) : entries[i] \in Int
  BY <1>3
<1> DEFINE Sc == {all[i] : i \in 1..Len(entries)}
<1>5. all \in Seq(Sc) /\ Len(all) = Len(entries) /\ \A i \in 1..Len(entries) : all[i] = Scenario(d, entries[i], levels, atr, confidence)
  <2>1. all = [i \in 1..Len(entries) |-> all[i]] /\ \A i \in 1..Len(entries) : all[i] \in Sc
    BY <1>4
  <2>2. \A i \in 1..Len(entries) : all[i] = Scenario(d, entries[i], levels, atr, confidence)
    BY <1>4
  <2> HIDE DEF all, Sc
  <2>3. all \in [1..Len(entries) -> Sc]
    BY <2>1
  <2>4. QED
    BY <1>4, <2>2, <2>3, ListIs
<1> HIDE DEF all, Sc
<1>6. PlacesOf(K, all)
  BY <1>5 DEF PlacesOf
<1>7. \A i \in K : i \in 1..Len(entries) /\ Worthwhile(all[i])
  BY <1>5 DEF Worthwhile
<1> HIDE DEF K
<1>8. built \in Seq(Sc) /\ \A j \in 1..Len(built) : \E i \in K : built[j] = all[i]
  BY <1>2, <1>5, <1>6, TakenIs
<1>9. k \in 1..Len(built)
  BY <1>8 DEF built
<1>10. PICK i \in K : built[k] = all[i]
  BY <1>8, <1>9
<1>11. entries[i] \in Int /\ all[i] = Scenario(d, entries[i], levels, atr, confidence) /\ Worthwhile(all[i])
  BY <1>4, <1>5, <1>7
<1>12. Pays(d, all[i])
  <2>1. CASE d = Long
    BY <1>1, <1>11, <2>1, LongPays
  <2>2. CASE d = Short
    BY <1>1, <1>11, <2>2, ShortPays
  <2>3. QED
    BY <2>1, <2>2
<1>13. QED
  BY <1>10, <1>12 DEF built

LEMMA MarketPays == MarketInv => StrategiesPay
<1> SUFFICES ASSUME MarketInv, Done("market"), Atr(history) > 0, NEW k \in DOMAIN strategies
             PROVE  Pays(decision.direction, strategies[k])
  BY DEF StrategiesPay, Pays
<1> DEFINE d == decision.direction
           S == ScoredFound(history)
           current == Close(history)
           atr == Atr(history)
<1>1. history \in Seq(CandleOk) /\ Len(history) >= 1 /\ patterns \in Seq(S) /\ Decided /\ Planned
  BY DEF MarketInv, Done
<1>2. current \in Int /\ atr \in Nat \ {0}
  <2>1. current \in Nat \ {0}
    BY <1>1, CloseIs
  <2>2. atr \in Nat
    BY <1>1, AtrIs
  <2>3. QED
    BY <2>1, <2>2
<1>3. Quoted(S)
  BY DEF Quoted, ScoredFound, Scored
<1>4. strategies = BuildStrategies(d, current, atr, patterns, Confidence)
  BY <1>1 DEF Planned
<1>5. d \in {Long, Short, NoDirection}
  BY <1>1 DEF Decided, DetermineDirection
<1>6. d # NoDirection
  <2>1. d = NoDirection => strategies = <<>>
    BY <1>4 DEF BuildStrategies
  <2>2. strategies # <<>>
    OBVIOUS
  <2>3. QED
    BY <2>1, <2>2
<1> HIDE DEF d, S, current, atr
<1>7. d \in {Long, Short}
  BY <1>5, <1>6
<1>8. k \in DOMAIN BuildStrategies(d, current, atr, patterns, Confidence)
  BY <1>4
<1>9. Pays(d, BuildStrategies(d, current, atr, patterns, Confidence)[k])
  BY <1>1, <1>2, <1>3, <1>7, <1>8, StrategiesAre
<1>10. QED
  BY <1>4, <1>9 DEF d

\* Whatever the candles, the patterns, the votes and the macro score: a scenario
\* of the report has its stop on the losing side and two targets that pay once
\* and twice what it risks, to half a percent.
THEOREM StrategiesPayHolds == Spec => []StrategiesPay
<1>1. MarketInv /\ CandlestickInv => StrategiesPay
  BY MarketPays
<1>2. QED
  BY <1>1, MarketInvHolds, PTL

(***************************************************************************)
(* The direction                                                           *)
(***************************************************************************)
LEMMA QuotientIs ==
    ASSUME NEW a \in Int, NEW b \in Nat \ {0}
    PROVE  /\ Quotient(a, b) \in Int
           /\ a >= 0 => Quotient(a, b) >= 0
           /\ a <= 0 => Quotient(a, b) <= 0
           /\ \A c \in Nat : a <= c * b => Quotient(a, b) <= c
           /\ \A c \in Nat : -(c * b) <= a => -c <= Quotient(a, b)
<1>1. ASSUME NEW x \in Nat
      PROVE  x \div b \in Nat /\ \A c \in Nat : x <= c * b => x \div b <= c
  <2> DEFINE q == x \div b
  <2>1. q \in Int /\ b * q <= x /\ x < b * q + b
    BY DivIs
  <2> HIDE DEF q
  <2>2. q >= 0
    <3>1. ASSUME q <= -1 PROVE FALSE
      <4>1. b * q <= b * (-1)
        BY <2>1, <3>1
      <4>2. QED
        BY <2>1, <4>1
    <3>2. QED
      BY <2>1, <3>1
  <2>3. ASSUME NEW c \in Nat, x <= c * b PROVE q <= c
    <3>1. ASSUME q >= c + 1 PROVE FALSE
      <4>1. b * q >= b * (c + 1)
        BY <2>1, <3>1
      <4>2. b * (c + 1) = c * b + b
        OBVIOUS
      <4>3. c * b \in Int
        OBVIOUS
      <4>4. QED
        BY <2>1, <2>3, <4>1, <4>2, <4>3
    <3>2. QED
      BY <2>1, <3>1
  <2>4. QED
    BY <2>1, <2>2, <2>3 DEF q
<1> DEFINE q == Quotient(a, b)
<1>2. q = IF a >= 0 THEN a \div b ELSE -((-a) \div b)
  BY DEF Quotient
<1> HIDE DEF q
<1>3. \A c \in Nat : c * b \in Int
  OBVIOUS
<1>4. CASE a >= 0
  <2> DEFINE p == a \div b
  <2>1. p \in Nat /\ \A c \in Nat : a <= c * b => p <= c
    BY <1>1, <1>4
  <2>2. q = p
    BY <1>2, <1>4
  <2>3. a <= 0 => p <= 0
    <3>1. a <= 0 => a <= 0 * b
      OBVIOUS
    <3>2. QED
      BY <2>1, <3>1
  <2> HIDE DEF p
  <2>4. QED
    BY <2>1, <2>2, <2>3 DEF q
<1>5. CASE ~(a >= 0)
  <2> DEFINE m == -a
             p == m \div b
  <2>1. m \in Nat
    BY <1>5
  <2>2. q = -p
    BY <1>2, <1>5
  <2>3. \A c \in Nat : -(c * b) <= a => m <= c * b
    BY <1>3
  <2> HIDE DEF m
  <2>4. p \in Nat /\ \A c \in Nat : m <= c * b => p <= c
    BY <1>1, <2>1
  <2> HIDE DEF p
  <2>5. q \in Int /\ q <= 0
    BY <2>2, <2>4
  <2>6. \A c \in Nat : -(c * b) <= a => -c <= q
    BY <2>2, <2>3, <2>4
  <2>7. \A c \in Nat : q <= c
    BY <2>5
  <2>8. QED
    BY <1>5, <2>5, <2>6, <2>7 DEF q
<1>6. QED
  BY <1>4, <1>5

\* However the patterns count, they weigh at most ten thousand times the most
\* they could weigh.
LEMMA WeighedIs ==
    ASSUME NEW n \in Nat, NEW ps \in Seq(Scored(n)), NEW way \in [DOMAIN ps -> {-1, 1}]
    PROVE  /\ Weighed(ps, way) \in Int /\ MostWeight(ps) \in Nat \ {0}
           /\ -(10000 * MostWeight(ps)) <= Weighed(ps, way)
           /\ Weighed(ps, way) <= 10000 * MostWeight(ps)
<1> DEFINE D == DOMAIN ps
           f == [k \in D |-> way[k] * Strength(ps[k]) * Multiplier[ps[k].reliability]]
           g == [k \in D |-> Multiplier[ps[k].reliability]]
<1>1. D = 1..Len(ps) /\ Len(ps) \in Nat /\ \A k \in D : ps[k] \in Scored(n)
  OBVIOUS
<1>2. IsFiniteSet(D)
  BY <1>1, FS_Interval
<1>3. ASSUME NEW k \in D
      PROVE  /\ g[k] \in Nat /\ g[k] >= 1 /\ f[k] \in Int
             /\ -(10000 * g[k]) <= f[k] /\ f[k] <= 10000 * g[k]
  <2> DEFINE p == ps[k]
             s == Strength(p)
             w == way[k]
             m == Multiplier[p.reliability]
             x == s * m
  <2>1. p \in Scored(n)
    BY <1>1
  <2>2. p.relevance \in Worth /\ p.confidence \in 1..100 /\ p.reliability \in 1..3
    BY <2>1 DEF Scored
  <2>3. s \in Nat /\ s <= 10000
    <3> DEFINE r == p.relevance
               c == p.confidence
    <3>0. c \in 1..100
      BY <2>2
    <3>1. r \in Int /\ 0 <= r /\ r <= 10000
      BY <2>2, WorthIs
    <3>2. s = IF r > 0 THEN r ELSE 100 * c
      BY DEF Strength
    <3> HIDE DEF r, c, s
    <3>3. c \in Int /\ 1 <= c /\ c <= 100
      BY <3>0
    <3>4. QED
      BY <3>1, <3>2, <3>3
  <2>4. m \in {10, 13, 16}
    BY <2>2 DEF Multiplier
  <2>5. w = 1 \/ w = -1
    OBVIOUS
  <2> HIDE DEF p, s, m, w
  <2>6. x \in Nat /\ x <= 10000 * m
    BY <2>3, <2>4
  <2>7. w * s * m = x \/ w * s * m = -x
    <3>1. CASE w = 1
      <4>1. w * s = s
        BY <2>3, <3>1
      <4>2. QED
        BY <4>1
    <3>2. CASE w = -1
      <4>1. w * s = -s
        BY <2>3, <3>2
      <4>2. (-s) * m = -(s * m)
        BY <2>3, <2>4
      <4>3. QED
        BY <4>1, <4>2
    <3>3. QED
      BY <2>5, <3>1, <3>2
  <2>8. f[k] = w * s * m /\ g[k] = m
    BY DEF p, s, m, w
  <2> HIDE DEF x, f, g
  <2>9. QED
    BY <2>4, <2>6, <2>7, <2>8
<1>4. f \in [D -> Int] /\ g \in [D -> Int]
  <2>1. f = [k \in D |-> f[k]] /\ g = [k \in D |-> g[k]]
    OBVIOUS
  <2> HIDE DEF f, g
  <2>2. QED
    BY <1>3, <2>1
<1>5. Weighed(ps, way) = SumFunction(f)
  BY DEF Weighed
<1>6. MostWeight(ps) = IF ps = <<>> THEN 1 ELSE SumFunction(g)
  BY DEF MostWeight
<1>7. ps # <<>> => D # {}
  BY <1>1, EmptySeq
<1> HIDE DEF f, g, D
<1>8. SumFunction(f) \in Int /\ SumFunction(g) \in Int
  BY <1>2, <1>4, SumInt
<1>9. /\ -(10000 * SumFunction(g)) <= SumFunction(f)
      /\ SumFunction(f) <= 10000 * SumFunction(g)
  <2> DEFINE c == 10000
  <2>1. c \in Int /\ \A k \in D : -(c * g[k]) <= f[k] /\ f[k] <= c * g[k]
    BY <1>3
  <2> HIDE DEF c
  <2>2. -(c * SumFunction(g)) <= SumFunction(f) /\ SumFunction(f) <= c * SumFunction(g)
    BY <1>2, <1>4, <2>1, SumWithin
  <2>3. QED
    BY <2>2 DEF c
<1>10. ps # <<>> => SumFunction(g) >= 1
  <2>1. \A k \in D : g[k] >= 1
    BY <1>3
  <2>2. QED
    BY <1>2, <1>4, <1>7, <2>1, SumPositive
<1>11. ps = <<>> => SumFunction(g) = 0
  <2>1. ASSUME ps = <<>> PROVE SumFunction(g) = 0
    <3>1. D = {}
      BY <2>1 DEF D
    <3>2. PICK it : Summing(g, D, it) /\ SumFunction(g) = it[D]
      BY <1>2, <1>4, SumIs
    <3>3. it[{}] = 0
      BY <3>2, SummingNone
    <3>4. QED
      BY <3>1, <3>2, <3>3
  <2>2. QED
    BY <2>1
<1>12. QED
  BY <1>5, <1>6, <1>8, <1>9, <1>10, <1>11

LEMMA PatternSignalIs ==
    ASSUME NEW n \in Nat, NEW ps \in Seq(Scored(n))
    PROVE  PatternSignal(ps) \in Int /\ -10000 <= PatternSignal(ps) /\ PatternSignal(ps) <= 10000
<1> DEFINE way == [k \in DOMAIN ps |-> Sign(ps[k])]
           W == Weighed(ps, way)
           M == MostWeight(ps)
           c == 10000
<1>1. way \in [DOMAIN ps -> {-1, 1}]
  BY DEF Sign
<1>2. PatternSignal(ps) = Quotient(W, M)
  BY DEF PatternSignal
<1> HIDE DEF way
<1>3. W \in Int /\ M \in Nat \ {0} /\ -(c * M) <= W /\ W <= c * M
  BY <1>1, WeighedIs
<1>4. c \in Nat
  OBVIOUS
<1> HIDE DEF W, M, c
<1>5. /\ Quotient(W, M) \in Int
      /\ \A x \in Nat : W <= x * M => Quotient(W, M) <= x
      /\ \A x \in Nat : -(x * M) <= W => -x <= Quotient(W, M)
  BY <1>3, QuotientIs
<1>6. Quotient(W, M) \in Int /\ Quotient(W, M) <= c /\ -c <= Quotient(W, M)
  BY <1>3, <1>4, <1>5
<1>7. QED
  BY <1>2, <1>6 DEF c

LEMMA FundamentalSignalIs ==
    ASSUME NEW score \in MacroScore
    PROVE  /\ FundamentalSignal(score) \in Int
           /\ -10000 <= FundamentalSignal(score) /\ FundamentalSignal(score) <= 10000
<1>1. CASE score = NoScore
  BY <1>1 DEF FundamentalSignal
<1>2. CASE score # NoScore
  <2>1. score \in Int /\ -1000 <= score /\ score <= 1000
    <3> DEFINE most == 1000
    <3>1. score \in (-most)..most /\ most \in Int
      BY <1>2 DEF MacroScore
    <3> HIDE DEF most
    <3>2. score \in Int /\ -most <= score /\ score <= most
      BY <3>1
    <3>3. QED
      BY <3>2 DEF most
  <2>2. FundamentalSignal(score) = 10 * score
    BY <1>2 DEF FundamentalSignal
  <2>3. QED
    BY <2>1, <2>2
<1>3. QED
  BY <1>1, <1>2

\* Three tenths of the patterns and two of the macro score never outweigh the
\* half of a strong verdict.
LEMMA StrongDecides ==
    ASSUME NEW n \in Nat, NEW ps \in Seq(Scored(n)), NEW score \in MacroScore
    PROVE  /\ DetermineDirection(CalculateWeightedScore(StrongBuy, ps, score)) # Short
           /\ DetermineDirection(CalculateWeightedScore(StrongSell, ps, score)) # Long
<1> DEFINE P == PatternSignal(ps)
           F == FundamentalSignal(score)
           up == 50000 + 3 * P + 2 * F
           down == -50000 + 3 * P + 2 * F
<1>1. P \in Int /\ -10000 <= P /\ P <= 10000
  BY PatternSignalIs
<1>2. F \in Int /\ -10000 <= F /\ F <= 10000
  BY FundamentalSignalIs
<1>3. /\ CalculateWeightedScore(StrongBuy, ps, score) = Quotient(up, 10)
      /\ CalculateWeightedScore(StrongSell, ps, score) = Quotient(down, 10)
  <2>1. 5 * 5000 * StrongBuy = 50000 /\ 5 * 5000 * StrongSell = -50000
    BY DEF StrongBuy, StrongSell
  <2> HIDE DEF P, F
  <2>2. QED
    BY <2>1 DEF CalculateWeightedScore, P, F
<1> HIDE DEF P, F
<1>4. up \in Int /\ up >= 0 /\ down \in Int /\ down <= 0
  BY <1>1, <1>2
<1> HIDE DEF up, down
<1>5. Quotient(up, 10) \in Int /\ Quotient(up, 10) >= 0
  <2>1. 10 \in Nat \ {0}
    OBVIOUS
  <2>2. QED
    BY <1>4, <2>1, QuotientIs
<1>6. Quotient(down, 10) \in Int /\ Quotient(down, 10) <= 0
  <2>1. 10 \in Nat \ {0}
    OBVIOUS
  <2>2. QED
    BY <1>4, <2>1, QuotientIs
<1>7. QED
  BY <1>3, <1>5, <1>6 DEF DetermineDirection, Long, Short, NoDirection

LEMMA StrongVerdicts == MarketInv => StrongVerdictNeverOpposed
<1> SUFFICES ASSUME MarketInv, stage \in {"aggregated", "done"}
             PROVE  /\ decision.overall = StrongBuy => decision.direction # Short
                    /\ decision.overall = StrongSell => decision.direction # Long
  BY DEF StrongVerdictNeverOpposed
<1>0. CASE part # "market"
  <2>1. decision.overall = Neutral
    BY <1>0 DEF MarketInv, NoDecision
  <2>2. Neutral # StrongBuy /\ Neutral # StrongSell
    BY DEF Neutral, StrongBuy, StrongSell
  <2>3. QED
    BY <2>1, <2>2
<1> SUFFICES ASSUME part = "market"
             PROVE  /\ decision.overall = StrongBuy => decision.direction # Short
                    /\ decision.overall = StrongSell => decision.direction # Long
  BY <1>0
<1>1. /\ history \in Seq(CandleOk) /\ patterns \in Seq(ScoredFound(history))
      /\ decision.fundamental \in MacroScore
      /\ decision.direction = DetermineDirection(CalculateWeightedScore(decision.overall, patterns, decision.fundamental))
  BY DEF MarketInv, Decided
<1>2. Len(history) \in Nat
  BY <1>1
<1>3. patterns \in Seq(Scored(Len(history)))
  BY <1>1 DEF ScoredFound
<1>4. QED
  BY <1>1, <1>2, <1>3, StrongDecides

\* Whatever the candles, the patterns and the macro score: no scenario trades
\* against a strong technical verdict.
THEOREM StrongVerdictNeverOpposedHolds == Spec => []StrongVerdictNeverOpposed
<1>1. MarketInv /\ CandlestickInv => StrongVerdictNeverOpposed
  BY StrongVerdicts
<1>2. QED
  BY <1>1, MarketInvHolds, PTL

(***************************************************************************)
(* The scanner's list                                                      *)
(***************************************************************************)
Frames == {"D1", "H1", "M15"}
Appearance == [of : ListedPattern, timeframe : Frames]

\* The better pattern first, equals in the order they came.
RankOrder(p, n) ==
    {q \in (1..n) \X (1..n) : \/ Outranks(p[q[1]], p[q[2]])
                              \/ q[1] < q[2] /\ ~Outranks(p[q[2]], p[q[1]])}

LEMMA OutranksIs ==
    ASSUME NEW a \in ListedPattern, NEW b \in ListedPattern
    PROVE  /\ ~Outranks(a, a)
           /\ Outranks(a, b) => ~Outranks(b, a)
           /\ \A c \in ListedPattern : Outranks(a, b) /\ Outranks(b, c) => Outranks(a, c)
           /\ \A c \in ListedPattern : Outranks(a, b) /\ ~Outranks(c, b) => Outranks(a, c)
           /\ \A c \in ListedPattern : ~Outranks(b, a) /\ Outranks(b, c) => Outranks(a, c)
           /\ \A c \in ListedPattern : ~Outranks(b, a) /\ ~Outranks(c, b) => ~Outranks(c, a)
<1>1. \A c \in ListedPattern : c.relevance \in Nat /\ c.confidence \in Nat /\ c.reliability \in Nat
  BY DEF ListedPattern
<1>2. ~Outranks(a, a) /\ (Outranks(a, b) => ~Outranks(b, a))
  BY <1>1 DEF Outranks
<1>3. ASSUME NEW c \in ListedPattern
      PROVE  /\ Outranks(a, b) /\ Outranks(b, c) => Outranks(a, c)
             /\ Outranks(a, b) /\ ~Outranks(c, b) => Outranks(a, c)
             /\ ~Outranks(b, a) /\ Outranks(b, c) => Outranks(a, c)
             /\ ~Outranks(b, a) /\ ~Outranks(c, b) => ~Outranks(c, a)
  <2>1. /\ a.relevance \in Nat /\ a.confidence \in Nat /\ a.reliability \in Nat
        /\ b.relevance \in Nat /\ b.confidence \in Nat /\ b.reliability \in Nat
        /\ c.relevance \in Nat /\ c.confidence \in Nat /\ c.reliability \in Nat
    BY <1>1
  <2>2. Outranks(a, b) /\ Outranks(b, c) => Outranks(a, c)
    BY <2>1 DEF Outranks
  <2>3. Outranks(a, b) /\ ~Outranks(c, b) => Outranks(a, c)
    BY <2>1 DEF Outranks
  <2>4. ~Outranks(b, a) /\ Outranks(b, c) => Outranks(a, c)
    BY <2>1 DEF Outranks
  <2>5. ~Outranks(b, a) /\ ~Outranks(c, b) => ~Outranks(c, a)
    BY <2>1 DEF Outranks
  <2>6. QED
    BY <2>2, <2>3, <2>4, <2>5
<1>4. QED
  BY <1>2, <1>3

LEMMA RankOrderIs ==
    ASSUME NEW n \in Nat, NEW p \in [1..n -> ListedPattern]
    PROVE  /\ \A i, j \in 1..n : <<i, j>> \in RankOrder(p, n)
                                  <=> (Outranks(p[i], p[j]) \/ (i < j /\ ~Outranks(p[j], p[i])))
           /\ Orders(RankOrder(p, n), 1..n)
<1> DEFINE E == RankOrder(p, n)
           D == 1..n
<1>1. \A i, j \in D : <<i, j>> \in E <=> (Outranks(p[i], p[j]) \/ (i < j /\ ~Outranks(p[j], p[i])))
  BY DEF RankOrder
<1>2. \A i \in D : i \in Int /\ p[i] \in ListedPattern
  OBVIOUS
<1> HIDE DEF E, D
<1>3. \A i \in D : <<i, i>> \notin E
  <2> TAKE i \in D
  <2>1. ~Outranks(p[i], p[i]) /\ ~(i < i)
    BY <1>2, OutranksIs
  <2>2. QED
    BY <1>1, <2>1
<1>4. ASSUME NEW i \in D, NEW j \in D, i # j PROVE <<i, j>> \in E \/ <<j, i>> \in E
  <2>1. i < j \/ j < i
    BY <1>2, <1>4
  <2>2. QED
    BY <1>1, <2>1
<1>5. ASSUME NEW i \in D, NEW j \in D, NEW k \in D, <<i, j>> \in E, <<j, k>> \in E
      PROVE  <<i, k>> \in E
  <2>1. /\ Outranks(p[i], p[j]) \/ (i < j /\ ~Outranks(p[j], p[i]))
        /\ Outranks(p[j], p[k]) \/ (j < k /\ ~Outranks(p[k], p[j]))
    BY <1>1, <1>5
  <2>2. /\ p[i] \in ListedPattern /\ p[j] \in ListedPattern /\ p[k] \in ListedPattern
        /\ i \in Int /\ j \in Int /\ k \in Int
    BY <1>2
  <2>3. /\ Outranks(p[i], p[j]) /\ Outranks(p[j], p[k]) => Outranks(p[i], p[k])
        /\ Outranks(p[i], p[j]) /\ ~Outranks(p[k], p[j]) => Outranks(p[i], p[k])
        /\ ~Outranks(p[j], p[i]) /\ Outranks(p[j], p[k]) => Outranks(p[i], p[k])
        /\ ~Outranks(p[j], p[i]) /\ ~Outranks(p[k], p[j]) => ~Outranks(p[k], p[i])
    BY <2>2, OutranksIs
  <2>4. i < j /\ j < k => i < k
    BY <2>2
  <2>5. Outranks(p[i], p[k]) \/ (i < k /\ ~Outranks(p[k], p[i]))
    BY <2>1, <2>3, <2>4
  <2>6. QED
    BY <1>1, <2>5
<1>6. Orders(E, D)
  BY <1>3, <1>4, <1>5 DEF Orders
<1>7. QED
  BY <1>1, <1>6 DEF E, D

\* What consolidate_patterns makes of one group of appearances.
Best(s, G) ==
    CHOOSE k \in G : \A j \in G : /\ ~Outranks(s[j].of, s[k].of)
                                  /\ j < k => Outranks(s[k].of, s[j].of)

LEMMA BestIs ==
    ASSUME NEW s \in Seq(Appearance), NEW G, PlacesOf(G, s), G # {}
    PROVE  Best(s, G) \in G /\ \A j \in G : ~Outranks(s[j].of, s[Best(s, G)].of)
<1> DEFINE n == Len(s)
           p == [i \in 1..n |-> s[i].of]
           E == RankOrder(p, n)
<1>1. n \in Nat /\ \A i \in 1..n : s[i].of \in ListedPattern
  <2>1. n \in Nat /\ \A i \in 1..n : s[i] \in Appearance
    OBVIOUS
  <2>2. QED
    BY <2>1 DEF Appearance
<1>2. p \in [1..n -> ListedPattern] /\ \A i \in 1..n : p[i] = s[i].of
  BY <1>1
<1>3. G \subseteq 1..n
  BY DEF PlacesOf
<1> HIDE DEF p, n
<1>4. /\ \A i, j \in 1..n : <<i, j>> \in E <=> (Outranks(p[i], p[j]) \/ (i < j /\ ~Outranks(p[j], p[i])))
      /\ Orders(E, 1..n)
  BY <1>1, <1>2, RankOrderIs
<1> HIDE DEF E
<1>5. Orders(E, G)
  BY <1>3, <1>4 DEF Orders
<1>6. IsFiniteSet(G)
  BY <1>1, <1>3, PlacesInOrder
<1>7. PICK k \in G : \A j \in G : <<j, k>> \notin E
  BY <1>5, <1>6, FirstExists
<1>8. ASSUME NEW j \in G
      PROVE  ~Outranks(s[j].of, s[k].of) /\ (j < k => Outranks(s[k].of, s[j].of))
  <2>1. j \in 1..n /\ k \in 1..n /\ <<j, k>> \notin E
    BY <1>3, <1>7
  <2>2. ~(Outranks(p[j], p[k]) \/ (j < k /\ ~Outranks(p[k], p[j])))
    BY <1>4, <2>1
  <2>3. p[j] = s[j].of /\ p[k] = s[k].of
    BY <1>2, <2>1
  <2>4. QED
    BY <2>2, <2>3
<1>9. QED
  BY <1>8 DEF Best

FramesOf(s, G) == Filter(ScannerTimeframes, LAMBDA t : \E k \in G : s[k].timeframe = t)

LEMMA FramesAre ==
    ASSUME NEW s \in Seq(Appearance), NEW G, PlacesOf(G, s)
    PROVE  ToSet(FramesOf(s, G)) = {s[k].timeframe : k \in G}
<1> DEFINE K == {i \in DOMAIN ScannerTimeframes : \E k \in G : s[k].timeframe = ScannerTimeframes[i]}
           t == Taken(ScannerTimeframes, K)
<1>1. FramesOf(s, G) = t
  BY DEF FramesOf, Filter, Taken
<1>2. ScannerTimeframes \in Seq(Frames) /\ Len(ScannerTimeframes) = 3 /\ DOMAIN ScannerTimeframes = 1..3
  BY DEF ScannerTimeframes, Frames
<1>3. PlacesOf(K, ScannerTimeframes)
  BY <1>2 DEF PlacesOf
<1>4. \A k \in G : \E i \in 1..3 : s[k].timeframe = ScannerTimeframes[i]
  <2>1. \A f \in Frames : \E i \in 1..3 : f = ScannerTimeframes[i]
    <3>1. \E i \in 1..3 : "D1" = ScannerTimeframes[i]
      BY DEF ScannerTimeframes
    <3>2. \E i \in 1..3 : "H1" = ScannerTimeframes[i]
      BY DEF ScannerTimeframes
    <3>3. \E i \in 1..3 : "M15" = ScannerTimeframes[i]
      BY DEF ScannerTimeframes
    <3>4. QED
      BY <3>1, <3>2, <3>3 DEF Frames
  <2>2. \A k \in G : s[k] \in Appearance
    BY DEF PlacesOf
  <2>3. \A k \in G : s[k].timeframe \in Frames
    BY <2>2 DEF Appearance
  <2>4. QED
    BY <2>1, <2>3
<1>5. /\ t \in Seq(Frames)
      /\ \A k \in 1..Len(t) : \E i \in K : t[k] = ScannerTimeframes[i]
      /\ \A i \in K : \E k \in 1..Len(t) : t[k] = ScannerTimeframes[i]
  <2> HIDE DEF K
  <2>0. ScannerTimeframes \in Seq(Frames) /\ PlacesOf(K, ScannerTimeframes)
    BY <1>2, <1>3
  <2>1. t \in Seq(Frames)
    BY <2>0, TakenIs
  <2>2. \A k \in 1..Len(t) : \E i \in K : t[k] = ScannerTimeframes[i]
    BY <2>0, TakenIs
  <2>3. \A i \in K : \E k \in 1..Len(t) : t[k] = ScannerTimeframes[i]
    BY <2>0, TakenIs
  <2>4. QED
    BY <2>1, <2>2, <2>3
<1> HIDE DEF t
<1>6. ToSet(t) = {t[k] : k \in 1..Len(t)}
  <2>1. DOMAIN t = 1..Len(t)
    BY <1>5
  <2>2. QED
    BY <2>1 DEF ToSet
<1>7. ASSUME NEW f \in ToSet(t) PROVE f \in {s[k].timeframe : k \in G}
  <2>1. PICK k \in 1..Len(t) : f = t[k]
    BY <1>6
  <2>2. PICK i \in K : t[k] = ScannerTimeframes[i]
    BY <1>5
  <2>3. QED
    BY <2>1, <2>2
<1>8. ASSUME NEW k \in G PROVE s[k].timeframe \in ToSet(t)
  <2>1. PICK i \in 1..3 : s[k].timeframe = ScannerTimeframes[i]
    BY <1>4
  <2>2. i \in K
    BY <1>2, <2>1
  <2>3. \E l \in 1..Len(t) : t[l] = ScannerTimeframes[i]
    BY <1>5, <2>2
  <2>4. QED
    BY <1>6, <2>1, <2>3
<1>9. QED
  BY <1>1, <1>7, <1>8

KeyGroup(s, key) == {k \in DOMAIN s : GroupKey(s[k]) = key}
Firsts(s) == {k \in DOMAIN s : \A j \in 1..(k - 1) : GroupKey(s[j]) # GroupKey(s[k])}
Merged(s, G) == [pattern |-> s[Best(s, G)].of, timeframes |-> FramesOf(s, G)]
MergedAt(s, k) == Merged(s, KeyGroup(s, GroupKey(s[k])))

\* A list of one result for each first appearance, no better one after a worse.
ListsFirsts(out, s, m, c) ==
    /\ c \in [1..m -> Firsts(s)]
    /\ \A f \in Firsts(s) : \E i \in 1..m : c[i] = f
    /\ \A i, j \in 1..m : i # j => c[i] # c[j]
    /\ DOMAIN out = 1..m
    /\ \A i \in 1..m : out[i] = MergedAt(s, c[i])
    /\ \A i, j \in 1..m : i < j => ~Outranks(out[j].pattern, out[i].pattern)

LEMMA MergedIs ==
    ASSUME NEW s \in Seq(Appearance), NEW k \in DOMAIN s
    PROVE  LET G == KeyGroup(s, GroupKey(s[k])) IN
           /\ PlacesOf(G, s) /\ k \in G
           /\ MergedAt(s, k).pattern \in ListedPattern
           /\ \E b \in G : MergedAt(s, k).pattern = s[b].of
           /\ \A j \in G : ~Outranks(s[j].of, MergedAt(s, k).pattern)
           /\ ToSet(MergedAt(s, k).timeframes) = {s[j].timeframe : j \in G}
<1> DEFINE G == KeyGroup(s, GroupKey(s[k]))
<1>0. Len(s) \in Nat /\ DOMAIN s = 1..Len(s) /\ \A i \in DOMAIN s : s[i] \in Appearance
  OBVIOUS
<1>1. PlacesOf(G, s) /\ k \in G
  BY <1>0 DEF PlacesOf, KeyGroup
<1>2. MergedAt(s, k) = [pattern |-> s[Best(s, G)].of, timeframes |-> FramesOf(s, G)]
  BY DEF MergedAt, Merged
<1> HIDE DEF G
<1>3. Best(s, G) \in G /\ \A j \in G : ~Outranks(s[j].of, s[Best(s, G)].of)
  BY <1>1, BestIs
<1>4. ToSet(FramesOf(s, G)) = {s[j].timeframe : j \in G}
  BY <1>1, FramesAre
<1>5. s[Best(s, G)].of \in ListedPattern
  <2>1. s[Best(s, G)] \in Appearance
    BY <1>0, <1>1, <1>3 DEF PlacesOf
  <2>2. QED
    BY <2>1 DEF Appearance
<1>6. MergedAt(s, k).pattern = s[Best(s, G)].of /\ MergedAt(s, k).timeframes = FramesOf(s, G)
  BY <1>2
<1>7. QED
  BY <1>1, <1>3, <1>4, <1>5, <1>6 DEF G

LEMMA FirstsInOrder ==
    ASSUME NEW s \in Seq(Appearance)
    PROVE  LET m == Cardinality(Firsts(s))
               at == InOrder(Firsts(s)) IN
           /\ m \in Nat /\ at \in [1..m -> Firsts(s)]
           /\ \A f \in Firsts(s) : \E i \in 1..m : at[i] = f
           /\ \A i, j \in 1..m : i # j => at[i] # at[j]
<1> DEFINE F == Firsts(s)
           m == Cardinality(F)
           at == InOrder(F)
<1>1. Len(s) \in Nat /\ F \subseteq 1..Len(s)
  BY DEF Firsts
<1> HIDE DEF F
<1>2. /\ m \in Nat /\ at \in [1..m -> 1..Len(s)]
      /\ \A i \in 1..m : at[i] \in F
      /\ \A f \in F : \E i \in 1..m : at[i] = f
      /\ \A i, j \in 1..m : i < j => at[i] < at[j]
  BY <1>1, PlacesInOrder
<1> HIDE DEF m, at
<1>3. at \in [1..m -> F]
  BY <1>2
<1>4. ASSUME NEW i \in 1..m, NEW j \in 1..m, i # j PROVE at[i] # at[j]
  <2>1. at[i] \in Int /\ at[j] \in Int /\ (i < j \/ j < i)
    BY <1>2, <1>4
  <2>2. QED
    BY <1>2, <2>1
<1>5. QED
  BY <1>2, <1>3, <1>4 DEF F, m, at

LEMMA ConsolidatedIs ==
    ASSUME NEW s \in Seq(Appearance)
    PROVE  \E m \in Nat : \E c : ListsFirsts(ConsolidatePatterns(s), s, m, c)
<1> DEFINE id == [k \in DOMAIN s |-> k]
           F == {i \in DOMAIN id : \A j \in 1..(id[i] - 1) : GroupKey(s[j]) # GroupKey(s[id[i]])}
           at == InOrder(F)
           m == Cardinality(F)
           first == [k \in DOMAIN at |-> id[at[k]]]
           R == [i \in DOMAIN first |-> MergedAt(s, first[i])]
           Earlier(i, j) == Outranks(R[i].pattern, R[j].pattern) \/ (i < j /\ ~Outranks(R[j].pattern, R[i].pattern))
           rank == [j \in DOMAIN R |-> 1 + Cardinality({i \in DOMAIN R : Earlier(i, j)})]
           t == [k \in DOMAIN R |-> R[CHOOSE j \in DOMAIN R : rank[j] = k]]
<1>1. ConsolidatePatterns(s) = t
  BY DEF ConsolidatePatterns, StableSort, Filter, MergedAt, Merged, KeyGroup, Best, FramesOf
<1>2. Len(s) \in Nat /\ DOMAIN s = 1..Len(s)
  OBVIOUS
<1>3. F = Firsts(s)
  BY <1>2 DEF Firsts
<1>4. \A k \in Firsts(s) : k \in DOMAIN s /\ id[k] = k
  BY DEF Firsts
<1> HIDE DEF id, F
<1>5. /\ m \in Nat /\ at \in [1..m -> Firsts(s)]
      /\ \A f \in Firsts(s) : \E i \in 1..m : at[i] = f
      /\ \A i, j \in 1..m : i # j => at[i] # at[j]
  BY <1>3, FirstsInOrder
<1> HIDE DEF at, m
<1>6. DOMAIN first = 1..m /\ \A k \in 1..m : first[k] = at[k]
  BY <1>4, <1>5
<1> HIDE DEF first
<1>7. DOMAIN R = 1..m /\ \A k \in 1..m : R[k] = MergedAt(s, at[k])
  BY <1>6
<1>8. \A k \in 1..m : R[k].pattern \in ListedPattern
  <2> TAKE k \in 1..m
  <2>1. at[k] \in DOMAIN s
    BY <1>4, <1>5
  <2>2. MergedAt(s, at[k]).pattern \in ListedPattern
    BY <2>1, MergedIs
  <2>3. QED
    BY <1>7, <2>2
<1> HIDE DEF R
<1> DEFINE p == [i \in 1..m |-> R[i].pattern]
           E == RankOrder(p, m)
           place == PlaceOf(Ranks(E, m), m)
           c == [i \in 1..m |-> at[place[i]]]
<1>9. p \in [1..m -> ListedPattern] /\ \A i \in 1..m : p[i] = R[i].pattern
  BY <1>8
<1> HIDE DEF p
<1>10. /\ \A i, j \in 1..m : <<i, j>> \in E <=> Earlier(i, j)
       /\ Orders(E, 1..m)
  <2>1. Orders(E, 1..m) /\ \A i, j \in 1..m : <<i, j>> \in E
                            <=> (Outranks(p[i], p[j]) \/ (i < j /\ ~Outranks(p[j], p[i])))
    BY <1>5, <1>9, RankOrderIs
  <2> HIDE DEF E
  <2>2. QED
    BY <1>9, <2>1
<1> HIDE DEF E
<1>11. rank = Ranks(E, m)
  <2> HIDE DEF Earlier
  <2>1. \A j \in 1..m : {i \in 1..m : Earlier(i, j)} = Under(E, 1..m, j)
    BY <1>10 DEF Under
  <2>2. \A j \in 1..m : rank[j] = RankIn(E, 1..m, j)
    BY <1>7, <2>1 DEF RankIn
  <2>3. rank = [j \in 1..m |-> rank[j]]
    BY <1>7
  <2> HIDE DEF rank
  <2>4. QED
    BY <1>5, <2>2, <2>3, RankedBy
<1>12. t = [k \in 1..m |-> R[place[k]]]
  <2> HIDE DEF rank
  <2>1. QED
    BY <1>7, <1>11 DEF PlaceOf
<1> HIDE DEF t
<1>13. /\ place \in [1..m -> 1..m]
       /\ \A j \in 1..m : \E k \in 1..m : place[k] = j
       /\ \A k, l \in 1..m : k < l => <<place[k], place[l]>> \in E
       /\ \A k, l \in 1..m : k # l => place[k] # place[l]
  BY <1>5, <1>10, PlaceOfIs
<1> HIDE DEF place
<1>14. c \in [1..m -> Firsts(s)] /\ \A i \in 1..m : c[i] = at[place[i]]
  BY <1>5, <1>13
<1>15. \A f \in Firsts(s) : \E i \in 1..m : c[i] = f
  <2> TAKE f \in Firsts(s)
  <2>1. PICK j \in 1..m : at[j] = f
    BY <1>5
  <2>2. PICK i \in 1..m : place[i] = j
    BY <1>13
  <2>3. QED
    BY <1>14, <2>1, <2>2
<1>16. \A i, j \in 1..m : i # j => c[i] # c[j]
  BY <1>5, <1>13, <1>14
<1>17. DOMAIN t = 1..m /\ \A i \in 1..m : t[i] = MergedAt(s, c[i])
  BY <1>7, <1>12, <1>13, <1>14
<1>18. ASSUME NEW i \in 1..m, NEW j \in 1..m, i < j
       PROVE  ~Outranks(t[j].pattern, t[i].pattern)
  <2>1. Earlier(place[i], place[j])
    BY <1>10, <1>13, <1>18
  <2>2. /\ t[i].pattern = R[place[i]].pattern /\ t[j].pattern = R[place[j]].pattern
        /\ t[i].pattern \in ListedPattern /\ t[j].pattern \in ListedPattern
    BY <1>8, <1>12, <1>13
  <2>3. Outranks(t[i].pattern, t[j].pattern) \/ ~Outranks(t[j].pattern, t[i].pattern)
    BY <2>1, <2>2
  <2>4. QED
    BY <2>2, <2>3, OutranksIs
<1> HIDE DEF c
<1>19. ListsFirsts(t, s, m, c)
  BY <1>14, <1>15, <1>16, <1>17, <1>18 DEF ListsFirsts
<1>20. QED
  BY <1>1, <1>5, <1>19

Shown(s, result) ==
    {k \in DOMAIN s : /\ s[k].of.name = result.pattern.name
                      /\ s[k].of.category = result.pattern.category
                      /\ s[k].of.bullish = result.pattern.bullish}

LEMMA ShownIs ==
    ASSUME NEW s \in Seq(Appearance), NEW k \in DOMAIN s
    PROVE  Shown(s, MergedAt(s, k)) = KeyGroup(s, GroupKey(s[k]))
<1> DEFINE key == GroupKey(s[k])
           result == MergedAt(s, k)
<1>1. PICK b \in KeyGroup(s, key) : result.pattern = s[b].of
  BY MergedIs
<1>2. GroupKey(s[b]) = key
  BY DEF KeyGroup
<1>3. key = <<result.pattern.name, result.pattern.category, result.pattern.bullish>>
  BY <1>1, <1>2 DEF GroupKey
<1> HIDE DEF key, result
<1>4. \A j \in DOMAIN s : GroupKey(s[j]) = key
                <=> /\ s[j].of.name = result.pattern.name
                    /\ s[j].of.category = result.pattern.category
                    /\ s[j].of.bullish = result.pattern.bullish
  BY <1>3 DEF GroupKey
<1>5. QED
  BY <1>4 DEF Shown, KeyGroup, key, result

\* Every appearance has a first one of its key.
LEMMA FirstOfKey ==
    ASSUME NEW s \in Seq(Appearance), NEW k \in DOMAIN s
    PROVE  \E f \in Firsts(s) : GroupKey(s[f]) = GroupKey(s[k])
<1> DEFINE G == KeyGroup(s, GroupKey(s[k]))
<1>0. DOMAIN s = 1..Len(s) /\ Len(s) \in Nat
  OBVIOUS
<1>1. G \in SUBSET Nat /\ k \in G /\ G # {}
  BY <1>0 DEF KeyGroup
<1>2. \A j \in G : j \in 1..Len(s) /\ GroupKey(s[j]) = GroupKey(s[k])
  BY <1>0 DEF KeyGroup
<1>3. \A j \in 1..Len(s) : GroupKey(s[j]) = GroupKey(s[k]) => j \in G
  BY <1>0 DEF KeyGroup
<1> HIDE DEF G
<1>4. PICK f \in G : \A x \in G : f <= x
  BY <1>1, MinOfNaturals
<1>5. ASSUME NEW j \in 1..(f - 1) PROVE GroupKey(s[j]) # GroupKey(s[f])
  <2>1. f \in 1..Len(s) /\ GroupKey(s[f]) = GroupKey(s[k])
    BY <1>2
  <2>2. j \in 1..Len(s) /\ ~(f <= j)
    BY <1>0, <2>1
  <2>3. j \notin G
    BY <1>4, <2>2
  <2>4. QED
    BY <1>3, <2>1, <2>2, <2>3
<1>6. f \in Firsts(s)
  BY <1>0, <1>2, <1>5 DEF Firsts
<1>7. QED
  BY <1>2, <1>6

LEMMA FirstsDiffer ==
    ASSUME NEW s \in Seq(Appearance), NEW f \in Firsts(s), NEW g \in Firsts(s),
           GroupKey(s[f]) = GroupKey(s[g])
    PROVE  f = g
<1>1. /\ f \in 1..Len(s) /\ \A j \in 1..(f - 1) : GroupKey(s[j]) # GroupKey(s[f])
      /\ g \in 1..Len(s) /\ \A j \in 1..(g - 1) : GroupKey(s[j]) # GroupKey(s[g])
  BY DEF Firsts
<1>2. Len(s) \in Nat
  OBVIOUS
<1>3. f < g => f \in 1..(g - 1)
  BY <1>1, <1>2
<1>4. g < f => g \in 1..(f - 1)
  BY <1>1, <1>2
<1>5. ~(f < g) /\ ~(g < f)
  BY <1>1, <1>3, <1>4
<1>6. QED
  BY <1>1, <1>2, <1>5

\* What ScannerComplete says of a list of appearances and a list of results.
ListsEach(s, out) ==
    \A k \in DOMAIN s : Cardinality({i \in DOMAIN out : k \in Shown(s, out[i])}) = 1
ListsBest(s, out) ==
    \A i \in DOMAIN out :
        /\ ToSet(out[i].timeframes) = {s[k].timeframe : k \in Shown(s, out[i])}
        /\ \A k \in Shown(s, out[i]) : ~Outranks(s[k].of, out[i].pattern)
        /\ \A j \in DOMAIN out : i < j => ~Outranks(out[j].pattern, out[i].pattern)

LEMMA ConsolidationComplete ==
    ASSUME NEW s \in Seq(Appearance)
    PROVE  ListsEach(s, ConsolidatePatterns(s)) /\ ListsBest(s, ConsolidatePatterns(s))
<1> DEFINE out == ConsolidatePatterns(s)
<1>1. PICK m \in Nat : \E c : ListsFirsts(out, s, m, c)
  BY ConsolidatedIs
<1>2. PICK c : ListsFirsts(out, s, m, c)
  BY <1>1
<1> HIDE DEF out
<1>3. /\ c \in [1..m -> Firsts(s)]
      /\ \A f \in Firsts(s) : \E i \in 1..m : c[i] = f
      /\ \A i, j \in 1..m : i # j => c[i] # c[j]
      /\ DOMAIN out = 1..m
      /\ \A i \in 1..m : out[i] = MergedAt(s, c[i])
      /\ \A i, j \in 1..m : i < j => ~Outranks(out[j].pattern, out[i].pattern)
  BY <1>2 DEF ListsFirsts
<1>4. \A i \in 1..m : c[i] \in Firsts(s) /\ c[i] \in DOMAIN s
  BY <1>3 DEF Firsts
<1>5. \A i \in 1..m : Shown(s, out[i]) = KeyGroup(s, GroupKey(s[c[i]]))
  BY <1>3, <1>4, ShownIs
<1>6. ASSUME NEW k \in DOMAIN s
      PROVE  Cardinality({i \in DOMAIN out : k \in Shown(s, out[i])}) = 1
  <2>1. PICK f \in Firsts(s) : GroupKey(s[f]) = GroupKey(s[k])
    BY FirstOfKey
  <2>2. PICK i \in 1..m : c[i] = f
    BY <1>3
  <2>3. \A j \in 1..m : k \in Shown(s, out[j]) <=> GroupKey(s[k]) = GroupKey(s[c[j]])
    BY <1>5 DEF KeyGroup
  <2>4. ASSUME NEW j \in 1..m, k \in Shown(s, out[j]) PROVE j = i
    <3>1. GroupKey(s[c[j]]) = GroupKey(s[c[i]])
      BY <2>1, <2>2, <2>3, <2>4
    <3>2. c[j] = c[i]
      BY <1>4, <3>1, FirstsDiffer
    <3>3. QED
      BY <1>3, <3>2
  <2>5. k \in Shown(s, out[i])
    BY <2>1, <2>2, <2>3
  <2>6. {j \in DOMAIN out : k \in Shown(s, out[j])} = {i}
    BY <1>3, <2>4, <2>5
  <2>7. QED
    BY <2>6, FS_Singleton
<1>7. ASSUME NEW i \in DOMAIN out
      PROVE  /\ ToSet(out[i].timeframes) = {s[k].timeframe : k \in Shown(s, out[i])}
             /\ \A k \in Shown(s, out[i]) : ~Outranks(s[k].of, out[i].pattern)
             /\ \A j \in DOMAIN out : i < j => ~Outranks(out[j].pattern, out[i].pattern)
  <2>1. i \in 1..m /\ c[i] \in DOMAIN s /\ out[i] = MergedAt(s, c[i])
        /\ Shown(s, out[i]) = KeyGroup(s, GroupKey(s[c[i]]))
    BY <1>3, <1>4, <1>5
  <2>2. ToSet(MergedAt(s, c[i]).timeframes) = {s[k].timeframe : k \in KeyGroup(s, GroupKey(s[c[i]]))}
    BY <2>1, MergedIs
  <2>3. \A k \in KeyGroup(s, GroupKey(s[c[i]])) : ~Outranks(s[k].of, MergedAt(s, c[i]).pattern)
    BY <2>1, MergedIs
  <2>4. QED
    BY <1>3, <2>1, <2>2, <2>3
<1>8. QED
  BY <1>6, <1>7 DEF out, ListsEach, ListsBest

LEMMA ListsAre == Lists \subseteq Seq(ListedPattern)
BY ReportAssumption, Zenon

LEMMA AppearancesAre ==
    ASSUME NEW frames \in SUBSET Frames, NEW found \in [frames -> Lists]
    PROVE  ScannerPatterns(frames, found) \in Seq(Appearance)
<1> DEFINE Of(frame) ==
                IF frame \in frames
                THEN [k \in DOMAIN found[frame] |-> [of |-> found[frame][k], timeframe |-> frame]]
                ELSE <<>>
<1>1. ASSUME NEW frame \in Frames PROVE Of(frame) \in Seq(Appearance)
  <2>1. CASE frame \in frames
    <3> DEFINE q == found[frame]
    <3>1. q \in Seq(ListedPattern)
      BY <2>1, ListsAre
    <3> HIDE DEF q
    <3>2. DOMAIN q = 1..Len(q) /\ Len(q) \in Nat /\ \A k \in 1..Len(q) : q[k] \in ListedPattern
      BY <3>1
    <3>3. \A k \in 1..Len(q) : [of |-> q[k], timeframe |-> frame] \in Appearance
      BY <3>2 DEF Appearance
    <3>4. [k \in DOMAIN q |-> [of |-> q[k], timeframe |-> frame]] \in [1..Len(q) -> Appearance]
      BY <3>2, <3>3
    <3>5. [k \in DOMAIN q |-> [of |-> q[k], timeframe |-> frame]] \in Seq(Appearance)
      BY <3>2, <3>4, ListIs
    <3>6. QED
      BY <2>1, <3>5 DEF q
  <2>2. CASE frame \notin frames
    BY <2>2
  <2>3. QED
    BY <2>1, <2>2
<1>2. ScannerPatterns(frames, found) = Of("D1") \o Of("H1") \o Of("M15")
  BY DEF ScannerPatterns
<1> HIDE DEF Of
<1>3. Of("D1") \in Seq(Appearance) /\ Of("H1") \in Seq(Appearance) /\ Of("M15") \in Seq(Appearance)
  BY <1>1 DEF Frames
<1>4. Of("D1") \o Of("H1") \in Seq(Appearance)
  BY <1>3, ConcatProperties
<1>5. QED
  BY <1>2, <1>3, <1>4, ConcatProperties

\* The scanner's list is what the consolidator makes of patterns that can be compared.
ScannerInv ==
    Done("scanner") => input \in Seq(Appearance) /\ output = ConsolidatePatterns(input)

LEMMA ScannerStep == ScannerInv /\ [Next]_vars => ScannerInv'
<1> SUFFICES ASSUME ScannerInv, [Next]_vars PROVE ScannerInv'
  OBVIOUS
<1>1. CASE Scan
  <2>1. PICK frames \in SUBSET ToSet(ScannerTimeframes) : \E found \in [frames -> Lists] :
            /\ input' = ScannerPatterns(frames, found)
            /\ output' = ConsolidatePatterns(ScannerPatterns(frames, found))
    BY <1>1 DEF Scan
  <2>2. PICK found \in [frames -> Lists] :
            /\ input' = ScannerPatterns(frames, found)
            /\ output' = ConsolidatePatterns(ScannerPatterns(frames, found))
    BY <2>1
  <2>3. ToSet(ScannerTimeframes) = Frames
    BY DEF ToSet, ScannerTimeframes, Frames
  <2>4. input' \in Seq(Appearance)
    BY <2>2, <2>3, AppearancesAre
  <2>5. QED
    BY <2>2, <2>4 DEF ScannerInv
<1>2. CASE RateIndicator \/ IndicatorsFail \/ RateAverages \/ AveragesFail \/ Summarise
  <2>1. part' = part /\ part = "technical"
    BY <1>2 DEF RateIndicator, IndicatorsFail, RateAverages, AveragesFail, Summarise
  <2>2. QED
    BY <2>1 DEF ScannerInv, Done
<1>3. CASE Candle \/ Recognise \/ Aggregate \/ BuildReport
  <2>1. part' = part /\ part = "market"
    BY <1>3 DEF Candle, Recognise, Aggregate, BuildReport
  <2>2. QED
    BY <2>1 DEF ScannerInv, Done
<1>4. CASE Pivot \/ ChartShape \/ CandlestickSignal
  <2>1. part' = part /\ part \in {"pivots", "chart", "candlestick"}
    BY <1>4 DEF Pivot, ChartShape, CandlestickSignal
  <2>2. QED
    BY <2>1 DEF ScannerInv, Done
<1>5. CASE Forex \/ Commodity \/ Index \/ Unrecognised
  <2>1. part' = part /\ part = "fundamental"
    BY <1>5 DEF Forex, Commodity, Index, Unrecognised, Instrument
  <2>2. QED
    BY <2>1 DEF ScannerInv, Done
<1>6. CASE UNCHANGED vars
  BY <1>6 DEF ScannerInv, Done, vars
<1>7. QED
  BY <1>1, <1>2, <1>3, <1>4, <1>5, <1>6 DEF Next

LEMMA ListComplete == ScannerInv => ScannerComplete
<1> SUFFICES ASSUME ScannerInv, Done("scanner") PROVE ScannerComplete
  BY DEF ScannerComplete
<1>1. ListsEach(input, output) /\ ListsBest(input, output)
  BY ConsolidationComplete DEF ScannerInv
<1>2. QED
  BY <1>1 DEF ScannerComplete, ListsEach, ListsBest, Shown

\* Whatever patterns the timeframes show, however many: each is listed once, on
\* all its timeframes, by its best appearance, and no better one after a worse.
THEOREM ScannerCompleteHolds == Spec => []ScannerComplete
<1>1. Init => ScannerInv
  BY DEF Init, ScannerInv, Done
<1>2. ScannerInv /\ [Next]_vars => ScannerInv'
  BY ScannerStep
<1>3. ScannerInv => ScannerComplete
  BY ListComplete
<1>4. QED
  BY <1>1, <1>2, <1>3, PTL DEF Spec

(***************************************************************************)
(* The levels of a history                                                 *)
(***************************************************************************)
LEMMA TimesOrder ==
    ASSUME NEW a \in Int, NEW b \in Int, NEW c \in Nat, a <= b
    PROVE  a * c <= b * c /\ c * a <= c * b
OBVIOUS

\* A cluster's mean is at most, or at least, a price.
NotOver(c, x) == c.sum <= x * c.count
NotUnder(c, x) == x * c.count <= c.sum

LEMMA ClusterIs ==
    ASSUME NEW c \in Cluster
    PROVE  c.sum \in Int /\ c.count \in Nat \ {0} /\ c.tops \in Nat
BY DEF Cluster

LEMMA OpenedBetween ==
    ASSUME NEW e \in Extreme, NEW x \in Int, x <= e.price
    PROVE  /\ Opened(e) \in Cluster /\ Opened(e).count = 1
           /\ NotOver(Opened(e), e.price) /\ NotUnder(Opened(e), x)
<1>1. e.price \in Int
  BY DEF Extreme
<1>2. Opened(e) \in Cluster /\ Opened(e).count = 1 /\ Opened(e).sum = e.price
  BY <1>1 DEF Opened, Cluster
<1>3. QED
  BY <1>1, <1>2 DEF NotOver, NotUnder

LEMMA AtMostMore ==
    ASSUME NEW c \in Cluster, NEW x \in Int, NEW y \in Int, NotOver(c, x), x <= y
    PROVE  NotOver(c, y)
<1>1. c.sum \in Int /\ c.count \in Nat /\ c.sum <= x * c.count
  BY ClusterIs DEF NotOver
<1>2. x * c.count <= y * c.count
  BY <1>1, TimesOrder
<1>3. QED
  BY <1>1, <1>2 DEF NotOver

LEMMA JoinedBetween ==
    ASSUME NEW c \in Cluster, NEW e \in Extreme, NEW x \in Int, NEW y \in Int,
           NotOver(c, x), x <= e.price, NotUnder(c, y), y <= e.price
    PROVE  /\ Joined(c, e) \in Cluster /\ Joined(c, e).count = c.count + 1
           /\ NotOver(Joined(c, e), e.price) /\ NotUnder(Joined(c, e), y)
<1>1. e.price \in Int /\ c.sum \in Int /\ c.count \in Nat /\ c.tops \in Nat
  BY ClusterIs DEF Extreme
<1>2. Joined(c, e) \in Cluster /\ Joined(c, e).count = c.count + 1 /\ Joined(c, e).sum = c.sum + e.price
  BY <1>1 DEF Joined, Cluster
<1>3. c.sum <= e.price * c.count
  BY AtMostMore, <1>1 DEF NotOver
<1>4. e.price * (c.count + 1) = e.price * c.count + e.price
  BY <1>1
<1>5. NotOver(Joined(c, e), e.price)
  BY <1>1, <1>2, <1>3, <1>4 DEF NotOver
<1>6. y * (c.count + 1) = y * c.count + y /\ y * c.count <= c.sum
  BY <1>1 DEF NotUnder
<1>7. NotUnder(Joined(c, e), y)
  BY <1>1, <1>2, <1>6 DEF NotUnder
<1>8. QED
  BY <1>2, <1>5, <1>7

\* The clusters stand one above the other: between every two there is a price.
Parted(a, b, top) == \E x \in Int : x <= top /\ NotOver(a, x) /\ NotUnder(b, x)
Stacked(cl, low, top) ==
    /\ \A k \in 1..Len(cl) : NotUnder(cl[k], low) /\ NotOver(cl[k], top)
    /\ \A k \in 2..Len(cl) : Parted(cl[k - 1], cl[k], top)

LEMMA SplitLast ==
    ASSUME NEW S, NEW s \in Seq(S), s # <<>>
    PROVE  /\ Front(s) \in Seq(S) /\ Last(s) \in S
           /\ Len(s) \in Nat \ {0} /\ Len(Front(s)) = Len(s) - 1 /\ Last(s) = s[Len(s)]
           /\ \A k \in 1..(Len(s) - 1) : Front(s)[k] = s[k]
           /\ s = Append(Front(s), Last(s))
<1>1. Len(s) \in Nat \ {0} /\ Len(s) - 1 \in 0..Len(s) /\ Len(s) \in 1..Len(s)
  OBVIOUS
<1>2. Last(s) \in S /\ Last(s) = s[Len(s)]
  BY <1>1 DEF Last
<1>3. /\ Front(s) \in Seq(S) /\ Len(Front(s)) = Len(s) - 1
      /\ \A k \in 1..(Len(s) - 1) : Front(s)[k] = s[k]
  <2>1. Front(s) = SubSeq(s, 1, Len(s) - 1)
    BY DEF Front
  <2> DEFINE f == SubSeq(s, 1, Len(s) - 1)
  <2>2. f \in Seq(S)
    BY <1>1, SubSeqProperties
  <2>3. f = [k \in 1..(Len(s) - 1) |-> s[k]]
    <3>1. f = [k \in 1..(1 + (Len(s) - 1) - 1) |-> s[1 + k - 1]]
      BY DEF SubSeq
    <3>2. \A k \in 1..(Len(s) - 1) : 1 + k - 1 = k
      OBVIOUS
    <3>3. 1 + (Len(s) - 1) - 1 = Len(s) - 1
      BY <1>1
    <3>4. QED
      BY <1>1, <3>1, <3>2, <3>3
  <2> HIDE DEF f
  <2>4. Len(f) = Len(s) - 1 /\ \A k \in 1..(Len(s) - 1) : f[k] = s[k]
    BY <1>1, <2>2, <2>3
  <2>5. QED
    BY <2>1, <2>2, <2>4 DEF f
<1> DEFINE f == Front(s)
           t == Append(f, s[Len(s)])
<1> HIDE DEF f
<1>4. f \in Seq(S) /\ Len(f) = Len(s) - 1 /\ \A k \in 1..(Len(s) - 1) : f[k] = s[k]
  BY <1>3 DEF f
<1>5. t \in Seq(S) /\ Len(t) = Len(s)
  BY <1>1, <1>4
<1>6. \A k \in 1..Len(s) : t[k] = s[k]
  <2> TAKE k \in 1..Len(s)
  <2>1. CASE k = Len(s)
    BY <1>1, <1>4, <2>1
  <2>2. CASE k # Len(s)
    <3>1. k \in 1..(Len(s) - 1)
      BY <1>1, <2>2
    <3>2. QED
      BY <1>1, <1>4, <3>1
  <2>3. QED
    BY <2>1, <2>2
<1> HIDE DEF t
<1>7. s = t
  BY <1>5, <1>6, SeqEqual
<1>8. QED
  BY <1>1, <1>2, <1>3, <1>7 DEF t, f

LEMMA StackedMore ==
    ASSUME NEW cl \in Seq(Cluster), NEW low \in Int, NEW top \in Int, NEW more \in Int,
           top <= more, Stacked(cl, low, top)
    PROVE  Stacked(cl, low, more)
<1>1. Len(cl) \in Nat /\ \A k \in 1..Len(cl) : cl[k] \in Cluster
  OBVIOUS
<1>2. \A k \in 1..Len(cl) : NotUnder(cl[k], low) /\ NotOver(cl[k], more)
  BY <1>1, AtMostMore DEF Stacked
<1>3. \A k \in 2..Len(cl) : Parted(cl[k - 1], cl[k], more)
  <2> TAKE k \in 2..Len(cl)
  <2>1. PICK x \in Int : x <= top /\ NotOver(cl[k - 1], x) /\ NotUnder(cl[k], x)
    BY DEF Stacked, Parted
  <2>2. x <= more
    BY <2>1
  <2>3. QED
    BY <2>1, <2>2 DEF Parted
<1>4. QED
  BY <1>2, <1>3 DEF Stacked

\* A cluster on top of the others.
LEMMA StackedAppend ==
    ASSUME NEW cl \in Seq(Cluster), NEW c \in Cluster, NEW low \in Int, NEW top \in Int,
           Stacked(cl, low, top), NotUnder(c, low), NotOver(c, top),
           cl # <<>> => Parted(cl[Len(cl)], c, top)
    PROVE  Stacked(Append(cl, c), low, top)
<1> DEFINE t == Append(cl, c)
<1>1. /\ Len(cl) \in Nat /\ Len(t) = Len(cl) + 1
      /\ \A k \in 1..Len(cl) : t[k] = cl[k]
      /\ t[Len(cl) + 1] = c
  OBVIOUS
<1> HIDE DEF t
<1>2. \A k \in 1..Len(t) : NotUnder(t[k], low) /\ NotOver(t[k], top)
  <2> TAKE k \in 1..Len(t)
  <2>1. k \in 1..Len(cl) \/ k = Len(cl) + 1
    BY <1>1
  <2>2. QED
    BY <1>1, <2>1 DEF Stacked
<1>3. \A k \in 2..Len(t) : Parted(t[k - 1], t[k], top)
  <2> TAKE k \in 2..Len(t)
  <2>1. CASE k \in 2..Len(cl)
    <3>1. k \in 1..Len(cl) /\ k - 1 \in 1..Len(cl)
      BY <1>1, <2>1
    <3>2. t[k] = cl[k] /\ t[k - 1] = cl[k - 1]
      BY <1>1, <3>1
    <3>3. Parted(cl[k - 1], cl[k], top)
      BY <2>1 DEF Stacked
    <3>4. QED
      BY <3>2, <3>3
  <2>2. CASE k = Len(cl) + 1
    <3>1. Len(cl) \in 1..Len(cl) /\ k - 1 = Len(cl) /\ cl # <<>>
      BY <1>1, <2>2
    <3>2. t[k] = c /\ t[k - 1] = cl[Len(cl)]
      BY <1>1, <2>2, <3>1
    <3>3. QED
      BY <3>1, <3>2
  <2>3. k \in 2..Len(cl) \/ k = Len(cl) + 1
    BY <1>1
  <2>4. QED
    BY <2>1, <2>2, <2>3
<1>4. QED
  BY <1>2, <1>3 DEF Stacked, t

LEMMA StackAdds ==
    ASSUME NEW cl \in Seq(Cluster), NEW e \in Extreme, NEW low \in Int, NEW top \in Int,
           Stacked(cl, low, top), low <= e.price, top <= e.price
    PROVE  Stacked(AddToClusters(cl, e), low, e.price)
<1>0. e.price \in Int
  BY DEF Extreme
<1>1. CASE cl # <<>> /\ Belongs(Last(cl), e)
  <2> DEFINE f == Front(cl)
             c == Last(cl)
             n == Len(cl)
  <2>1. /\ f \in Seq(Cluster) /\ c \in Cluster /\ n \in Nat \ {0}
        /\ Len(f) = n - 1 /\ c = cl[n] /\ \A k \in 1..(n - 1) : f[k] = cl[k]
    BY <1>1, SplitLast
  <2>2. AddToClusters(cl, e) = Append(f, Joined(c, e))
    BY <1>1 DEF AddToClusters
  <2> HIDE DEF f, c
  <2>3. NotUnder(c, low) /\ NotOver(c, top)
    BY <2>1 DEF Stacked
  <2>4. /\ Joined(c, e) \in Cluster
        /\ NotOver(Joined(c, e), e.price) /\ NotUnder(Joined(c, e), low)
    BY <2>1, <2>3, JoinedBetween
  <2>5. Stacked(f, low, top)
    <3>1. \A k \in 1..Len(f) : NotUnder(f[k], low) /\ NotOver(f[k], top)
      BY <2>1 DEF Stacked
    <3>2. ASSUME NEW k \in 2..Len(f) PROVE Parted(f[k - 1], f[k], top)
      <4>1. k \in 2..n /\ k \in 1..(n - 1) /\ k - 1 \in 1..(n - 1)
        BY <2>1
      <4>2. Parted(cl[k - 1], cl[k], top)
        BY <4>1 DEF Stacked
      <4>3. QED
        BY <2>1, <4>1, <4>2
    <3>3. QED
      BY <3>1, <3>2 DEF Stacked
  <2>6. Stacked(f, low, e.price)
    BY <1>0, <2>1, <2>5, StackedMore
  <2>7. ASSUME f # <<>> PROVE Parted(f[Len(f)], Joined(c, e), e.price)
    <3>1. Len(f) # 0
      BY <2>1, <2>7, EmptySeq
    <3>2. n \in 2..n /\ n - 1 \in 1..(n - 1)
      BY <2>1, <3>1
    <3>3. f[Len(f)] = cl[n - 1]
      BY <2>1, <3>2
    <3>4. PICK x \in Int : x <= top /\ NotOver(cl[n - 1], x) /\ NotUnder(c, x)
      BY <2>1, <3>2 DEF Stacked, Parted
    <3>5. x <= e.price
      BY <1>0, <3>4
    <3>6. NotUnder(Joined(c, e), x)
      BY <2>1, <2>3, <3>4, <3>5, JoinedBetween
    <3>7. QED
      BY <3>3, <3>4, <3>5, <3>6 DEF Parted
  <2>8. Stacked(Append(f, Joined(c, e)), low, e.price)
    BY <1>0, <2>1, <2>4, <2>6, <2>7, StackedAppend
  <2>9. QED
    BY <2>2, <2>8
<1>2. CASE ~(cl # <<>> /\ Belongs(Last(cl), e))
  <2> DEFINE n == Len(cl)
  <2>1. AddToClusters(cl, e) = Append(cl, Opened(e))
    BY <1>2 DEF AddToClusters
  <2>2. /\ Opened(e) \in Cluster /\ NotOver(Opened(e), e.price)
        /\ NotUnder(Opened(e), low) /\ NotUnder(Opened(e), top)
    BY OpenedBetween
  <2>3. Stacked(cl, low, e.price)
    BY <1>0, StackedMore
  <2>4. ASSUME cl # <<>> PROVE Parted(cl[n], Opened(e), e.price)
    <3>1. n \in 1..n
      BY <2>4
    <3>2. NotOver(cl[n], top)
      BY <3>1 DEF Stacked
    <3>3. QED
      BY <2>2, <3>2 DEF Parted
  <2>5. QED
    BY <1>0, <2>1, <2>2, <2>3, <2>4, StackedAppend
<1>3. QED
  BY <1>1, <1>2

\* The touches of a list of clusters.
Counts(cl) == [k \in DOMAIN cl |-> cl[k].count]
TouchTotal(cl) == SumFunction(Counts(cl))

LEMMA NoTotal == TouchTotal(<<>>) = 0
<1> DEFINE f == Counts(<<>>)
<1>1. f \in [{} -> Int]
  BY DEF Counts
<1> HIDE DEF f
<1>2. IsFiniteSet({})
  BY FS_EmptySet
<1>3. PICK it : Summing(f, {}, it) /\ SumFunction(f) = it[{}]
  BY <1>1, <1>2, SumIs
<1>4. it[{}] = 0
  BY <1>3, SummingNone
<1>5. QED
  BY <1>3, <1>4 DEF TouchTotal, f

LEMMA TotalAppend ==
    ASSUME NEW cl \in Seq(Cluster), NEW c \in Cluster
    PROVE  TouchTotal(cl) \in Int /\ TouchTotal(Append(cl, c)) = TouchTotal(cl) + c.count
<1> DEFINE n == Len(cl)
           t == Append(cl, c)
           f == Counts(t)
           g == Counts(cl)
           S == 1..(n + 1)
<1>1. /\ n \in Nat /\ DOMAIN cl = 1..n /\ DOMAIN t = S
      /\ \A k \in 1..n : t[k] = cl[k] /\ cl[k] \in Cluster
      /\ t[n + 1] = c
  OBVIOUS
<1>2. \A k \in 1..n : cl[k].count \in Int
  BY <1>1, ClusterIs
<1>3. c.count \in Int
  BY ClusterIs
<1> HIDE DEF t
<1>4. g \in [1..n -> Int] /\ \A k \in 1..n : g[k] = cl[k].count
  BY <1>1, <1>2 DEF Counts
<1>5. f \in [S -> Int] /\ f[n + 1] = c.count /\ \A k \in 1..n : f[k] = g[k]
  <2>1. f = [k \in S |-> t[k].count]
    BY <1>1 DEF Counts
  <2>2. ASSUME NEW k \in S PROVE t[k].count \in Int
    <3>1. k \in 1..n \/ k = n + 1
      BY <1>1
    <3>2. QED
      BY <1>1, <1>2, <1>3, <3>1
  <2>3. n + 1 \in S /\ \A k \in 1..n : k \in S
    BY <1>1
  <2> HIDE DEF g, S
  <2>4. QED
    BY <1>1, <1>4, <2>1, <2>2, <2>3
<1>6. S \ {n + 1} = 1..n /\ n + 1 \in S
  BY <1>1
<1>7. IsFiniteSet(S) /\ IsFiniteSet(1..n)
  BY <1>1, FS_Interval
<1> HIDE DEF f, g, S
<1>8. SumFunction(f) = f[n + 1] + SumFunction(g)
  <2>1. OthersOf(f, S, n + 1, g)
    BY <1>4, <1>5, <1>6 DEF OthersOf
  <2>2. QED
    BY <1>5, <1>6, <1>7, <2>1, SumStep
<1>9. SumFunction(g) \in Int
  BY <1>4, <1>7, SumInt
<1>10. QED
  BY <1>3, <1>5, <1>8, <1>9 DEF TouchTotal, f, g, t

\* Every extremum touches one cluster.
LEMMA TouchTotalAdds ==
    ASSUME NEW cl \in Seq(Cluster), NEW e \in Extreme
    PROVE  TouchTotal(cl) \in Int /\ TouchTotal(AddToClusters(cl, e)) = TouchTotal(cl) + 1
<1>0. TouchTotal(cl) \in Int
  <2>1. Opened(e) \in Cluster
    BY DEF Opened, Cluster, Extreme
  <2>2. QED
    BY <2>1, TotalAppend
<1>1. CASE cl # <<>> /\ Belongs(Last(cl), e)
  <2> DEFINE f == Front(cl)
             c == Last(cl)
  <2>1. f \in Seq(Cluster) /\ c \in Cluster /\ cl = Append(f, c)
    BY <1>1, SplitLast
  <2>2. AddToClusters(cl, e) = Append(f, Joined(c, e))
    BY <1>1 DEF AddToClusters
  <2> HIDE DEF f, c
  <2>3. Joined(c, e) \in Cluster /\ Joined(c, e).count = c.count + 1
    BY <2>1, ClusterIs DEF Joined, Cluster, Extreme
  <2>4. TouchTotal(f) \in Int /\ TouchTotal(cl) = TouchTotal(f) + c.count
    BY <2>1, TotalAppend
  <2>5. TouchTotal(Append(f, Joined(c, e))) = TouchTotal(f) + (c.count + 1)
    BY <2>1, <2>3, TotalAppend
  <2>6. c.count \in Int
    BY <2>1, ClusterIs
  <2>7. QED
    BY <1>0, <2>2, <2>4, <2>5, <2>6
<1>2. CASE ~(cl # <<>> /\ Belongs(Last(cl), e))
  <2>1. AddToClusters(cl, e) = Append(cl, Opened(e))
    BY <1>2 DEF AddToClusters
  <2>2. Opened(e) \in Cluster /\ Opened(e).count = 1
    BY DEF Opened, Cluster, Extreme
  <2>3. TouchTotal(Append(cl, Opened(e))) = TouchTotal(cl) + 1
    BY <2>2, TotalAppend
  <2>4. QED
    BY <1>0, <2>1, <2>3
<1>3. QED
  BY <1>1, <1>2

\* What the clustering of rising extrema comes to.
LEMMA ClustersStack ==
    ASSUME NEW e \in Seq(Extreme), Rising(e), NEW low \in Int, NEW top \in Int, low <= top,
           \A k \in 1..Len(e) : low <= e[k].price /\ e[k].price <= top
    PROVE  LET cl == FoldLeft(AddToClusters, <<>>, e) IN
           /\ cl \in Seq(Cluster) /\ Stacked(cl, low, top)
           /\ TouchTotal(cl) = Len(e)
<1> DEFINE D == 1..Len(e)
<1>0. Len(e) \in Nat /\ DOMAIN e = D /\ \A k \in D : e[k] \in Extreme /\ e[k].price \in Int
  <2>1. Len(e) \in Nat /\ DOMAIN e = D /\ \A k \in D : e[k] \in Extreme
    OBVIOUS
  <2>2. QED
    BY <2>1 DEF Extreme
<1>1. PICK it : Clustering(e, it) /\ FoldLeft(AddToClusters, <<>>, e) = it[D]
  BY <1>0, ClustersFold
<1>2. \A s \in SUBSET D : it[s] \in Seq(Cluster)
  BY <1>0, <1>1, ClustersSound
<1>3. /\ it[{}] = <<>>
      /\ \A s \in SUBSET D : s # {} => Max(s) \in s /\ it[s] = AddToClusters(it[s \ {Max(s)}], e[Max(s)])
  BY <1>0, <1>1 DEF Clustering
<1> DEFINE Highest(s) == IF s = {} THEN low ELSE e[Max(s)].price
           P == {s \in SUBSET D : /\ Stacked(it[s], low, Highest(s))
                                  /\ TouchTotal(it[s]) = Cardinality(s)}
<1>4. {} \in P
  <2>1. Stacked(<<>>, low, low)
    BY DEF Stacked
  <2>2. Cardinality({}) = 0
    BY FS_EmptySet
  <2>3. QED
    BY <1>3, <2>1, <2>2, NoTotal
<1>5. ASSUME NEW s \in SUBSET D, s # {} PROVE \E x \in s : (s \ {x} \in P => s \in P)
  <2> DEFINE m == Max(s)
             r == s \ {m}
  <2>1. /\ m \in s /\ it[s] = AddToClusters(it[r], e[m]) /\ r \in SUBSET D
        /\ IsFiniteSet(s) /\ Whole(s)
    BY <1>0, <1>3, <1>5, PlacesIs
  <2>2. \A x \in s : x <= m
    BY <1>5, <2>1, MaxIs
  <2>3. e[m] \in Extreme /\ e[m].price \in Int /\ low <= e[m].price
    BY <1>0, <2>1
  <2>4. r # {} => Max(r) \in r
    BY <1>3, <2>1
  <2> HIDE DEF m, r
  <2>5. Highest(r) \in Int /\ Highest(r) <= e[m].price
    <3>1. CASE r = {}
      BY <2>3, <3>1
    <3>2. CASE r # {}
      <4>1. Max(r) \in D /\ m \in D /\ Max(r) <= m /\ Max(r) \in s
        BY <2>1, <2>2, <2>4, <3>2 DEF r
      <4>2. Max(r) < m \/ Max(r) = m
        BY <4>1
      <4>3. e[Max(r)].price <= e[m].price
        BY <1>0, <4>1, <4>2 DEF Rising
      <4>4. QED
        BY <1>0, <3>2, <4>1, <4>3
    <3>3. QED
      BY <3>1, <3>2
  <2>6. ASSUME r \in P PROVE s \in P
    <3>1. /\ it[r] \in Seq(Cluster) /\ Stacked(it[r], low, Highest(r))
          /\ TouchTotal(it[r]) = Cardinality(r)
      BY <1>2, <2>1, <2>6
    <3>2. Stacked(it[s], low, e[m].price)
      <4> DEFINE h == Highest(r)
      <4>1. h \in Int /\ h <= e[m].price /\ Stacked(it[r], low, h)
        BY <2>5, <3>1
      <4> HIDE DEF h
      <4>2. QED
        BY <2>1, <2>3, <3>1, <4>1, StackAdds
    <3>3. TouchTotal(it[s]) = TouchTotal(it[r]) + 1 /\ TouchTotal(it[r]) \in Int
      BY <2>1, <2>3, <3>1, TouchTotalAdds
    <3>4. Cardinality(s) = Cardinality(r) + 1
      <4>1. Cardinality(s \ {m}) = Cardinality(s) - 1 /\ Cardinality(s) \in Nat
        BY <2>1, FS_RemoveElement, FS_CardinalityType
      <4>2. QED
        BY <4>1 DEF r
    <3>5. Highest(s) = e[m].price
      BY <1>5 DEF m
    <3>6. QED
      BY <3>1, <3>2, <3>3, <3>4, <3>5
  <2>7. QED
    BY <2>1, <2>6 DEF r
<1>6. D \in P
  <2>1. SUBSET D \subseteq P
    <3>1. IsFiniteSet(D)
      BY <1>0, FS_Interval
    <3> HIDE DEF P, D
    <3>2. QED
      BY <1>4, <1>5, <3>1, SetInduction
  <2>2. QED
    BY <2>1
<1>7. Cardinality(D) = Len(e)
  <2> DEFINE n == Len(e)
  <2>1. n \in Int /\ 1 \in Int /\ 1 <= n + 1 /\ n >= 0
    BY <1>0
  <2> HIDE DEF n
  <2>2. Cardinality(1..n) = IF 1 > n THEN 0 ELSE n - 1 + 1
    BY <2>1, FS_Interval
  <2>3. Cardinality(1..n) = n
    BY <2>1, <2>2
  <2>4. QED
    BY <2>3 DEF n
<1>8. Highest(D) \in Int /\ Highest(D) <= top
  <2>1. D # {} => Max(D) \in D
    BY <1>3
  <2>2. QED
    BY <1>0, <2>1
<1>9. Stacked(it[D], low, top)
  <2> DEFINE h == Highest(D)
  <2>1. h \in Int /\ h <= top /\ Stacked(it[D], low, h) /\ it[D] \in Seq(Cluster)
    BY <1>2, <1>6, <1>8
  <2> HIDE DEF h, D
  <2>2. QED
    BY <2>1, StackedMore
<1>10. it[D] \in Seq(Cluster) /\ TouchTotal(it[D]) = Len(e)
  BY <1>2, <1>6, <1>7
<1> HIDE DEF D
<1>11. QED
  BY <1>1, <1>9, <1>10

\* A mean on one side of a price is printed no further on its other side.
LEMMA TextOrder ==
    ASSUME NEW a \in Int, NEW b \in Nat \ {0}, NEW c \in Int, NEW d \in Nat \ {0}, NEW x \in Int,
           a <= x * b, x * d <= c
    PROVE  Text(a, b) <= Text(x, 1) /\ Text(x, 1) <= Text(c, d)
<1> DEFINE u == CentUnits
           p == RoundDiv(a, b * u)
           q == RoundDiv(x, 1 * u)
           r == RoundDiv(c, d * u)
<1>1. u \in Nat \ {0}
  BY PatternsAssumption
<1>2. b * u \in Nat \ {0} /\ d * u \in Nat \ {0} /\ 1 * u = u
  BY <1>1
<1>3. /\ p \in Int /\ 2 * (b * u) * p <= 2 * a + b * u /\ 2 * a < 2 * (b * u) * p + b * u
      /\ r \in Int /\ 2 * (d * u) * r <= 2 * c + d * u /\ 2 * c < 2 * (d * u) * r + d * u
  BY <1>2, RoundDivIs
<1>4. q \in Int /\ 2 * u * q <= 2 * x + u /\ 2 * x < 2 * u * q + u
  BY <1>1, <1>2, RoundDivIs
<1> HIDE DEF u, p, q, r
<1>5. p <= q
  <2> SUFFICES ASSUME p >= q + 1 PROVE FALSE
    BY <1>3, <1>4
  <2> DEFINE v == b * u
             w == 2 * u * q + u
  <2>1. v \in Nat /\ w \in Int
    BY <1>1, <1>2, <1>4
  <2>2. v * (q + 1) <= v * p
    BY <1>3, <1>4, <2>1, TimesOrder
  <2>3. 2 * (v * (q + 1)) = b * (w + u)
    BY <1>1, <1>4
  <2>4. b * (2 * x + 1) <= b * w
    <3>1. 2 * x + 1 <= w
      BY <1>1, <1>4
    <3>2. QED
      BY <2>1, <3>1, TimesOrder
  <2>5. b * (w + u) = b * w + v /\ b * (2 * x + 1) = 2 * (x * b) + b
    BY <1>1, <1>4
  <2>6. 2 * v * p <= 2 * a + v /\ 2 * v * p = 2 * (v * p)
    BY <1>3, <2>1
  <2> HIDE DEF v, w
  <2> DEFINE vq == v * (q + 1)
             vp == v * p
             bw == b * w
             bx == x * b
  <2>7. vq \in Int /\ vp \in Int /\ bw \in Int /\ bx \in Int
    BY <1>3, <1>4, <2>1
  <2>8. vq <= vp /\ 2 * vq = bw + v /\ 2 * bx + b <= bw /\ 2 * vp <= 2 * a + v /\ a <= bx
    BY <2>2, <2>3, <2>4, <2>5, <2>6
  <2> HIDE DEF vq, vp, bw, bx
  <2>9. QED
    BY <2>1, <2>7, <2>8
<1>6. q <= r
  <2> SUFFICES ASSUME q >= r + 1 PROVE FALSE
    BY <1>3, <1>4
  <2> DEFINE v == d * u
             w == 2 * u * q
  <2>1. v \in Nat /\ w \in Int
    BY <1>1, <1>2, <1>4
  <2>2. v * (r + 1) <= v * q
    BY <1>3, <1>4, <2>1, TimesOrder
  <2>3. 2 * (v * q) = d * w
    BY <1>1, <1>4
  <2>4. d * w <= d * (2 * x + u)
    BY <1>1, <1>4, <2>1, TimesOrder
  <2>5. d * (2 * x + u) = 2 * (x * d) + v
    BY <1>1
  <2>6. 2 * c < 2 * v * r + v /\ 2 * v * r + v + v = 2 * (v * (r + 1))
    BY <1>3, <2>1
  <2> HIDE DEF v, w
  <2> DEFINE vr == v * (r + 1)
             vq == v * q
             dx == x * d
  <2>7. vr \in Int /\ vq \in Int /\ dx \in Int
    BY <1>3, <1>4, <2>1
  <2>8. vr <= vq /\ 2 * vq <= 2 * dx + v /\ 2 * c + v < 2 * vr /\ dx <= c
    <3>1. 2 * vq <= 2 * dx + v
      BY <2>3, <2>4, <2>5
    <3>2. 2 * v * r \in Int
      BY <1>3, <2>1
    <3>3. 2 * c + v < 2 * vr
      BY <2>1, <2>6, <2>7, <3>2
    <3>4. QED
      BY <2>2, <3>1, <3>3
  <2> HIDE DEF vr, vq, dx
  <2>9. QED
    BY <2>1, <2>7, <2>8
<1>7. Text(a, b) = u * p /\ Text(x, 1) = u * q /\ Text(c, d) = u * r
  BY DEF Text, u, p, q, r
<1>8. u * p <= u * q /\ u * q <= u * r
  BY <1>1, <1>3, <1>4, <1>5, <1>6, TimesOrder
<1>9. QED
  BY <1>7, <1>8

LEMMA OneTextOrder ==
    ASSUME NEW x \in Int, NEW c \in Cluster
    PROVE  /\ NotUnder(c, x) => Text(x, 1) <= Text(c.sum, c.count)
           /\ NotOver(c, x) => Text(c.sum, c.count) <= Text(x, 1)
<1>1. c.sum \in Int /\ c.count \in Nat \ {0}
  BY ClusterIs
<1>2. x <= x * 1 /\ x * 1 <= x /\ 1 \in Nat \ {0}
  OBVIOUS
<1>3. NotUnder(c, x) => Text(x, 1) <= Text(c.sum, c.count)
  BY <1>1, <1>2, TextOrder DEF NotUnder
<1>4. NotOver(c, x) => Text(c.sum, c.count) <= Text(x, 1)
  BY <1>1, <1>2, TextOrder DEF NotOver
<1>5. QED
  BY <1>3, <1>4

\* The lowest and the highest price a history has seen.
LEMMA RangeIs ==
    ASSUME NEW h \in Seq(CandleOk), Len(h) >= 1
    PROVE  LET low == Min({h[i].low : i \in DOMAIN h})
               top == Max({h[i].high : i \in DOMAIN h}) IN
           /\ low \in Int /\ top \in Int /\ low <= top
           /\ \A i \in 1..Len(h) : low <= h[i].low /\ h[i].high <= top
<1> DEFINE D == DOMAIN h
           low == [i \in D |-> h[i].low]
           top == [i \in D |-> h[i].high]
           lows == {low[i] : i \in D}
           tops == {top[i] : i \in D}
<1>1. /\ Len(h) \in Nat /\ D = 1..Len(h) /\ 1 \in D
      /\ \A i \in D : h[i].low \in Int /\ h[i].high \in Int /\ h[i].low <= h[i].high
  BY CandlesAre
<1>2. IsFiniteSet(D)
  BY <1>1, FS_Interval
<1>3. DOMAIN low = D /\ DOMAIN top = D /\ \A i \in D : low[i] = h[i].low /\ top[i] = h[i].high
  OBVIOUS
<1>4. low = [i \in DOMAIN low |-> low[i]] /\ top = [i \in DOMAIN top |-> top[i]]
  BY <1>3
<1>5. {h[i].low : i \in D} = lows /\ {h[i].high : i \in D} = tops
  BY <1>3
<1> HIDE DEF low, top
<1>6. IsFiniteSet(lows) /\ IsFiniteSet(tops)
  <2>1. IsFiniteSet({low[i] : i \in DOMAIN low}) /\ IsFiniteSet({top[i] : i \in DOMAIN top})
    BY <1>2, <1>3, <1>4, ImageFinite
  <2>2. QED
    BY <1>3, <2>1
<1>7. Whole(lows) /\ Whole(tops) /\ lows # {} /\ tops # {}
  BY <1>1, <1>3 DEF Whole
<1>8. \A i \in D : h[i].low \in lows /\ h[i].high \in tops
  BY <1>3
<1> HIDE DEF lows, tops
<1>9. /\ Min(lows) \in Int /\ \A x \in lows : Min(lows) <= x
      /\ Max(tops) \in Int /\ \A x \in tops : x <= Max(tops)
  BY <1>6, <1>7, MinIs, MaxIs
<1>10. \A i \in D : Min(lows) <= h[i].low /\ h[i].high <= Max(tops)
  BY <1>8, <1>9
<1>11. Min(lows) <= Max(tops)
  BY <1>1, <1>9, <1>10
<1>12. QED
  BY <1>1, <1>5, <1>9, <1>10, <1>11

LEMMA LevelsTouched ==
    ASSUME NEW h \in Seq(CandleOk), Len(h) >= 1
    PROVE  LET levels == ClusterLevels(Extrema(h))
               low == Min({h[i].low : i \in DOMAIN h})
               top == Max({h[i].high : i \in DOMAIN h}) IN
           /\ SumFunction([k \in DOMAIN levels |-> levels[k].touches])
                = Cardinality(Maxima(h)) + Cardinality(Minima(h))
           /\ \A k \in DOMAIN levels :
                /\ Text(low, 1) <= levels[k].price /\ levels[k].price <= Text(top, 1)
                /\ k > 1 => levels[k - 1].price <= levels[k].price
<1> DEFINE e == Extrema(h)
           cl == FoldLeft(AddToClusters, <<>>, e)
           levels == ClusterLevels(e)
           low == Min({h[i].low : i \in DOMAIN h})
           top == Max({h[i].high : i \in DOMAIN h})
           all == Cardinality(Maxima(h)) + Cardinality(Minima(h))
<1>1. /\ low \in Int /\ top \in Int /\ low <= top
      /\ \A i \in 1..Len(h) : low <= h[i].low /\ h[i].high <= top
  BY RangeIs
<1>2. e \in Seq(Extreme) /\ Len(e) = all /\ Rising(e) /\ SeenIn(h, e)
  BY ExtremaSound
<1>3. levels = [k \in DOMAIN cl |-> [price |-> Text(cl[k].sum, cl[k].count),
                                     resistance |-> 2 * cl[k].tops >= cl[k].count,
                                     touches |-> cl[k].count]]
  BY DEF ClusterLevels
<1> HIDE DEF e, low, top, all, levels
<1>4. \A k \in 1..Len(e) : low <= e[k].price /\ e[k].price <= top
  <2> TAKE k \in 1..Len(e)
  <2>1. PICK i \in 1..Len(h) : e[k].price = h[i].high \/ e[k].price = h[i].low
    BY <1>2 DEF SeenIn
  <2>2. h[i].low \in Int /\ h[i].high \in Int /\ h[i].low <= h[i].high
    BY CandlesAre
  <2>3. low <= h[i].low /\ h[i].high <= top
    BY <1>1
  <2>4. QED
    BY <1>1, <2>1, <2>2, <2>3
<1>5. cl \in Seq(Cluster) /\ Stacked(cl, low, top) /\ TouchTotal(cl) = all
  BY <1>1, <1>2, <1>4, ClustersStack
<1> HIDE DEF cl
<1>6. DOMAIN cl = 1..Len(cl) /\ Len(cl) \in Nat /\ \A k \in 1..Len(cl) : cl[k] \in Cluster
  BY <1>5
<1>7. DOMAIN levels = 1..Len(cl)
      /\ \A k \in 1..Len(cl) : levels[k].price = Text(cl[k].sum, cl[k].count) /\ levels[k].touches = cl[k].count
  BY <1>3, <1>6
<1>8. SumFunction([k \in DOMAIN levels |-> levels[k].touches]) = all
  <2>1. [k \in DOMAIN levels |-> levels[k].touches] = Counts(cl)
    BY <1>6, <1>7 DEF Counts
  <2>2. QED
    BY <1>5, <2>1 DEF TouchTotal
<1>9. ASSUME NEW k \in 1..Len(cl)
      PROVE  /\ Text(low, 1) <= levels[k].price /\ levels[k].price <= Text(top, 1)
             /\ k > 1 => levels[k - 1].price <= levels[k].price
  <2>1. NotUnder(cl[k], low) /\ NotOver(cl[k], top) /\ cl[k] \in Cluster
    BY <1>5, <1>6 DEF Stacked
  <2>2. Text(low, 1) <= Text(cl[k].sum, cl[k].count) /\ Text(cl[k].sum, cl[k].count) <= Text(top, 1)
    BY <1>1, <2>1, OneTextOrder
  <2>3. ASSUME k > 1 PROVE levels[k - 1].price <= levels[k].price
    <3>1. k \in 2..Len(cl) /\ k - 1 \in 1..Len(cl)
      BY <1>6, <2>3
    <3>2. PICK x \in Int : NotOver(cl[k - 1], x) /\ NotUnder(cl[k], x)
      BY <1>5, <3>1 DEF Stacked, Parted
    <3>3. /\ cl[k - 1].sum \in Int /\ cl[k - 1].count \in Nat \ {0}
          /\ cl[k].sum \in Int /\ cl[k].count \in Nat \ {0}
      BY <1>6, <3>1, ClusterIs
    <3>4. /\ Text(cl[k - 1].sum, cl[k - 1].count) <= Text(x, 1)
          /\ Text(x, 1) <= Text(cl[k].sum, cl[k].count)
      BY <1>6, <3>1, <3>2, OneTextOrder
    <3>5. Text(cl[k - 1].sum, cl[k - 1].count) \in Int
      BY <3>3, TextInt
    <3>6. Text(cl[k].sum, cl[k].count) \in Int
      BY <3>3, TextInt
    <3>7. Text(x, 1) \in Int
      <4>1. x \in Int /\ 1 \in Nat \ {0}
        BY <3>2
      <4>2. QED
        BY <4>1, TextInt
    <3>8. QED
      BY <1>7, <3>1, <3>4, <3>5, <3>6, <3>7
  <2>4. QED
    BY <1>7, <2>2, <2>3
<1>10. QED
  BY <1>7, <1>8, <1>9 DEF levels, low, top, all, e

LEMMA TouchesCounted == MarketInv => EveryTouchCounted
<1> SUFFICES ASSUME MarketInv, stage = "working", history # <<>> PROVE EveryTouchCounted
  BY DEF EveryTouchCounted
<1>1. history \in Seq(CandleOk)
  BY DEF MarketInv
<1>2. Len(history) >= 1
  <2>1. Len(history) \in Nat /\ Len(history) # 0
    BY <1>1, EmptySeq
  <2>2. QED
    BY <2>1
<1>3. QED
  BY <1>1, <1>2, LevelsTouched DEF EveryTouchCounted

\* For histories of any length: every extremum touches exactly one level, the
\* levels rise, and none lies outside the prices the history has seen.
THEOREM EveryTouchCountedHolds == Spec => []EveryTouchCounted
<1>1. MarketInv /\ CandlestickInv => EveryTouchCounted
  BY TouchesCounted
<1>2. QED
  BY <1>1, MarketInvHolds, PTL

(***************************************************************************)
(* The market mirrored at a price                                          *)
(***************************************************************************)
Mirror(c, x) == 2 * c - x

LEMMA MirrorIs ==
    ASSUME NEW c \in Int, NEW x \in Int
    PROVE  Mirror(c, x) \in Int /\ Mirror(c, Mirror(c, x)) = x
BY DEF Mirror

\* One series of prices is the mirror of the other; one series of levels is,
\* supports against resistances.
Mirrored(b, a, c) == Len(b) = Len(a) /\ \A k \in 1..Len(a) : b[k] = Mirror(c, a[k])
Facing(t, s, c) ==
    Len(t) = Len(s) /\ \A k \in 1..Len(s) : /\ t[k].price = Mirror(c, s[k].price)
                                            /\ t[k].bullish = ~s[k].bullish
Sided(S) == \A p \in S : p.bullish \in BOOLEAN

LEMMA FacingBack ==
    ASSUME NEW S, Quoted(S), Sided(S), NEW s \in Seq(S), NEW t, NEW c \in Int, Facing(t, s, c)
    PROVE  Facing(s, t, c)
<1>1. \A k \in 1..Len(s) : s[k].price \in Int /\ s[k].bullish \in BOOLEAN
  BY DEF Quoted, Sided
<1>2. Len(t) = Len(s) /\ \A k \in 1..Len(s) : t[k].price = Mirror(c, s[k].price) /\ t[k].bullish = ~s[k].bullish
  BY DEF Facing
<1>3. ASSUME NEW k \in 1..Len(s) PROVE s[k].price = Mirror(c, t[k].price)
  <2>1. s[k].price \in Int /\ t[k].price = Mirror(c, s[k].price)
    BY <1>1, <1>2
  <2>2. QED
    BY <2>1 DEF Mirror
<1>4. \A k \in 1..Len(s) : s[k].bullish = ~t[k].bullish
  BY <1>1, <1>2
<1>5. QED
  BY <1>2, <1>3, <1>4 DEF Facing

\* Where the elements taken come from.
TakenFrom(s, K) ==
    /\ Len(Taken(s, K)) = Cardinality(K)
    /\ \A k \in 1..Cardinality(K) : InOrder(K)[k] \in 1..Len(s) /\ Taken(s, K)[k] = s[InOrder(K)[k]]

LEMMA TakenFromIs ==
    ASSUME NEW S, NEW s \in Seq(S), NEW K, PlacesOf(K, s)
    PROVE  TakenFrom(s, K)
<1>1. Len(Taken(s, K)) = Cardinality(K) /\ \A k \in 1..Cardinality(K) : Taken(s, K)[k] = s[InOrder(K)[k]]
  BY TakenIs
<1>2. \A k \in 1..Cardinality(K) : InOrder(K)[k] \in 1..Len(s)
  <2>1. Len(s) \in Nat /\ K \subseteq 1..Len(s)
    BY DEF PlacesOf
  <2>2. InOrder(K) \in [1..Cardinality(K) -> 1..Len(s)]
    BY <2>1, PlacesInOrder
  <2>3. QED
    BY <2>2
<1>3. QED
  BY <1>1, <1>2 DEF TakenFrom

LEMMA TakenMirrored ==
    ASSUME NEW a \in Seq(Int), NEW b \in Seq(Int), NEW c \in Int, Mirrored(b, a, c), NEW K, PlacesOf(K, a)
    PROVE  Mirrored(Taken(b, K), Taken(a, K), c)
<1>1. PlacesOf(K, b)
  BY DEF PlacesOf, Mirrored
<1>2. TakenFrom(a, K)
  BY TakenFromIs
<1>3. TakenFrom(b, K)
  BY <1>1, TakenFromIs
<1>4. QED
  BY <1>2, <1>3 DEF Mirrored, TakenFrom

LEMMA TakenFacing ==
    ASSUME NEW S, NEW s \in Seq(S), NEW T, NEW t \in Seq(T), NEW c \in Int, Facing(t, s, c), NEW K, PlacesOf(K, s)
    PROVE  Facing(Taken(t, K), Taken(s, K), c)
<1>1. PlacesOf(K, t)
  BY DEF PlacesOf, Facing
<1>2. TakenFrom(s, K)
  BY TakenFromIs
<1>3. TakenFrom(t, K)
  BY <1>1, TakenFromIs
<1>4. QED
  BY <1>2, <1>3 DEF Facing, TakenFrom

\* What is picked first, and what is left after it.
LEMMA FirstMirrored ==
    ASSUME NEW a \in Seq(Int), NEW b \in Seq(Int), NEW c \in Int, Mirrored(b, a, c)
    PROVE  Mirrored(FirstOf(b), FirstOf(a), c)
<1>1. Len(a) \in Nat /\ Len(b) = Len(a)
  BY DEF Mirrored
<1>2. CASE a = <<>>
  <2>1. b = <<>>
    BY <1>1, <1>2, EmptySeq
  <2>2. FirstOf(a) = <<>> /\ FirstOf(b) = <<>>
    BY <1>2, <2>1 DEF FirstOf
  <2>3. QED
    BY <2>2 DEF Mirrored
<1>3. CASE a # <<>>
  <2>1. Len(a) # 0 /\ b # <<>>
    BY <1>1, <1>3, EmptySeq
  <2>2. 1 \in 1..Len(a) /\ Head(a) = a[1] /\ Head(b) = b[1]
    BY <1>1, <2>1
  <2>3. FirstOf(a) = <<a[1]>> /\ FirstOf(b) = <<b[1]>>
    BY <1>3, <2>1, <2>2 DEF FirstOf
  <2>4. b[1] = Mirror(c, a[1])
    BY <2>2 DEF Mirrored
  <2>5. QED
    BY <2>3, <2>4 DEF Mirrored
<1>4. QED
  BY <1>2, <1>3

LEMMA AfterMirrored ==
    ASSUME NEW a \in Seq(Int), NEW b \in Seq(Int), NEW c \in Int, Mirrored(b, a, c), NEW K, PlacesOf(K, a)
    PROVE  Mirrored(After(b, K), After(a, K), c)
<1> DEFINE x == Taken(a, K)
           y == Taken(b, K)
<1>1. Mirrored(y, x, c)
  BY TakenMirrored
<1>2. x \in Seq(Int) /\ y \in Seq(Int)
  <2>1. PlacesOf(K, b)
    BY DEF PlacesOf, Mirrored
  <2>2. x \in Seq(Int)
    BY TakenIs
  <2>3. y \in Seq(Int)
    BY <2>1, TakenIs
  <2>4. QED
    BY <2>2, <2>3
<1>3. /\ After(a, K) = IF x = <<>> THEN <<>> ELSE Tail(x)
      /\ After(b, K) = IF y = <<>> THEN <<>> ELSE Tail(y)
  BY DEF After
<1> HIDE DEF x, y
<1>4. Len(x) \in Nat /\ Len(y) = Len(x) /\ \A k \in 1..Len(x) : y[k] = Mirror(c, x[k])
  BY <1>1, <1>2 DEF Mirrored
<1>5. CASE x = <<>>
  <2>1. y = <<>>
    BY <1>2, <1>4, <1>5, EmptySeq
  <2>2. QED
    BY <1>3, <1>5, <2>1 DEF Mirrored
<1>6. CASE x # <<>>
  <2>1. y # <<>> /\ Len(x) # 0
    BY <1>2, <1>4, <1>6, EmptySeq
  <2>2. /\ Len(Tail(x)) = Len(x) - 1 /\ \A k \in 1..(Len(x) - 1) : Tail(x)[k] = x[k + 1]
        /\ Len(Tail(y)) = Len(x) - 1 /\ \A k \in 1..(Len(x) - 1) : Tail(y)[k] = y[k + 1]
    BY <1>2, <1>4, <1>6, <2>1
  <2>3. \A k \in 1..(Len(x) - 1) : k + 1 \in 1..Len(x)
    BY <1>4
  <2>4. Mirrored(Tail(y), Tail(x), c)
    BY <1>4, <2>2, <2>3 DEF Mirrored
  <2>5. QED
    BY <1>3, <1>6, <2>1, <2>4
<1>7. QED
  BY <1>5, <1>6

\* The least price of some levels is the mirror of the greatest on the other side.
LEMMA PricesMirrored ==
    ASSUME NEW S, Quoted(S), NEW s \in Seq(S), NEW T, Quoted(T), NEW t \in Seq(T), NEW c \in Int,
           Facing(t, s, c), NEW K, PlacesOf(K, s), PricesAt(s, K) # {}
    PROVE  /\ PricesAt(t, K) # {} /\ Max(PricesAt(s, K)) \in Int
           /\ Min(PricesAt(t, K)) = Mirror(c, Max(PricesAt(s, K)))
<1> DEFINE P == PricesAt(s, K)
           Q == PricesAt(t, K)
           m == Max(P)
           l == Min(Q)
<1>1. \A k \in K : /\ k \in 1..Len(s) /\ s[k].price \in Int
                   /\ t[k].price = Mirror(c, s[k].price)
  BY DEF PlacesOf, Facing, Quoted
<1>2. PlacesOf(K, t)
  BY DEF PlacesOf, Facing
<1>3. IsFiniteSet(P) /\ Whole(P)
  BY PricesFinite
<1>4. IsFiniteSet(Q) /\ Whole(Q)
  BY <1>2, PricesFinite
<1>5. P # {} /\ Q # {}
  BY DEF PricesAt
<1>6. /\ \A x \in P : Mirror(c, x) \in Q
      /\ \A y \in Q : \E x \in P : y = Mirror(c, x)
  BY <1>1 DEF PricesAt
<1> HIDE DEF P, Q
<1>7. m \in P /\ m \in Int /\ \A x \in P : x <= m
  BY <1>3, <1>5, MaxIs
<1>8. l \in Q /\ l \in Int /\ \A y \in Q : l <= y
  BY <1>4, <1>5, MinIs
<1> HIDE DEF m, l
<1>9. l <= Mirror(c, m)
  BY <1>6, <1>7, <1>8
<1>10. PICK x \in P : l = Mirror(c, x)
  BY <1>6, <1>8
<1>11. x \in Int /\ x <= m
  BY <1>3, <1>7 DEF Whole
<1>12. l = Mirror(c, m)
  BY <1>7, <1>8, <1>9, <1>10, <1>11 DEF Mirror
<1>13. QED
  BY <1>5, <1>7, <1>12 DEF P, Q, m, l

\* The greatest price of some levels is the mirror of the least on the other side.
LEMMA PricesMirroredBack ==
    ASSUME NEW S, Quoted(S), Sided(S), NEW s \in Seq(S), NEW T, Quoted(T), NEW t \in Seq(T), NEW c \in Int,
           Facing(t, s, c), NEW K, PlacesOf(K, s), PricesAt(s, K) # {}
    PROVE  /\ PricesAt(t, K) # {} /\ Min(PricesAt(s, K)) \in Int
           /\ Max(PricesAt(t, K)) = Mirror(c, Min(PricesAt(s, K)))
<1>1. Facing(s, t, c)
  BY FacingBack
<1>2. PlacesOf(K, t)
  BY DEF PlacesOf, Facing
<1>3. PricesAt(t, K) # {}
  BY DEF PricesAt
<1>4. Max(PricesAt(t, K)) \in Int /\ Min(PricesAt(s, K)) = Mirror(c, Max(PricesAt(t, K)))
  BY <1>1, <1>2, <1>3, PricesMirrored
<1>5. QED
  BY <1>3, <1>4, MirrorIs

(***************************************************************************)
(* Entries                                                                 *)
(***************************************************************************)
LEMMA PullbackMirrored ==
    ASSUME NEW S, Quoted(S), NEW s \in Seq(S), NEW T, Quoted(T), NEW t \in Seq(T), NEW c \in Int, Facing(t, s, c)
    PROVE  Mirrored(Pullback(Short, c, t), Pullback(Long, c, s), c)
<1> DEFINE K == {k \in DOMAIN s : s[k].price < c}
           P == PricesAt(s, K)
           Q == PricesAt(t, K)
<1>0. Len(s) \in Nat /\ DOMAIN s = 1..Len(s) /\ DOMAIN t = 1..Len(s)
  BY DEF Facing
<1>1. PlacesOf(K, s)
  BY <1>0 DEF PlacesOf
<1>2. K = {k \in DOMAIN t : t[k].price > c}
  <2>1. ASSUME NEW k \in 1..Len(s) PROVE s[k].price < c <=> t[k].price > c
    <3>1. s[k].price \in Int /\ t[k].price = Mirror(c, s[k].price)
      BY DEF Facing, Quoted
    <3>2. QED
      BY <3>1 DEF Mirror
  <2>2. QED
    BY <1>0, <2>1
<1>3. Long # Short
  BY DEF Long, Short
<1>4. Pullback(Long, c, s) = IF P # {} THEN <<Max(P)>> ELSE <<>>
  BY <1>3 DEF Pullback, Prices, PricesAt
<1>5. Pullback(Short, c, t) = IF Q # {} THEN <<Min(Q)>> ELSE <<>>
  BY <1>2, <1>3 DEF Pullback, Prices, PricesAt
<1>6. (P = {}) <=> (Q = {})
  BY DEF PricesAt
<1> HIDE DEF K
<1>7. P # {} => Min(Q) = Mirror(c, Max(P))
  BY <1>1, PricesMirrored
<1> HIDE DEF P, Q
<1>8. CASE P = {}
  <2>1. Pullback(Long, c, s) = <<>> /\ Pullback(Short, c, t) = <<>>
    BY <1>4, <1>5, <1>6, <1>8
  <2>2. QED
    BY <2>1 DEF Mirrored
<1>9. CASE P # {}
  <2>1. Pullback(Long, c, s) = <<Max(P)>> /\ Pullback(Short, c, t) = <<Mirror(c, Max(P))>>
    BY <1>4, <1>5, <1>6, <1>7, <1>9
  <2>2. QED
    BY <2>1 DEF Mirrored
<1>10. QED
  BY <1>8, <1>9

LEMMA ConcatMirrored ==
    ASSUME NEW a \in Seq(Int), NEW b \in Seq(Int), NEW x \in Seq(Int), NEW y \in Seq(Int), NEW c \in Int,
           Mirrored(b, a, c), Mirrored(y, x, c)
    PROVE  Mirrored(b \o y, a \o x, c)
<1>1. /\ Len(a) \in Nat /\ Len(x) \in Nat
      /\ Len(b) = Len(a) /\ \A k \in 1..Len(a) : b[k] = Mirror(c, a[k])
      /\ Len(y) = Len(x) /\ \A k \in 1..Len(x) : y[k] = Mirror(c, x[k])
  BY DEF Mirrored
<1>2. /\ Len(a \o x) = Len(a) + Len(x)
      /\ \A k \in 1..(Len(a) + Len(x)) : (a \o x)[k] = IF k <= Len(a) THEN a[k] ELSE x[k - Len(a)]
  BY ConcatProperties
<1>3. /\ Len(b \o y) = Len(b) + Len(y)
      /\ \A k \in 1..(Len(b) + Len(y)) : (b \o y)[k] = IF k <= Len(b) THEN b[k] ELSE y[k - Len(b)]
  BY ConcatProperties
<1>4. ASSUME NEW k \in 1..(Len(a) + Len(x)) PROVE (b \o y)[k] = Mirror(c, (a \o x)[k])
  <2>1. CASE k <= Len(a)
    <3>1. k \in 1..Len(a)
      BY <1>1, <2>1
    <3>2. QED
      BY <1>1, <1>2, <1>3, <2>1, <3>1
  <2>2. CASE ~(k <= Len(a))
    <3>1. k - Len(a) \in 1..Len(x)
      BY <1>1, <2>2
    <3>2. QED
      BY <1>1, <1>2, <1>3, <2>2, <3>1
  <2>3. QED
    BY <2>1, <2>2
<1>5. QED
  BY <1>1, <1>2, <1>3, <1>4 DEF Mirrored

LEMMA EntriesMirrored ==
    ASSUME NEW S, Quoted(S), NEW s \in Seq(S), NEW u \in Seq(S), NEW T, Quoted(T), NEW t \in Seq(T), NEW v \in Seq(T),
           NEW c \in Int, Facing(t, s, c), Facing(v, u, c)
    PROVE  Mirrored(EntryPoints(Short, c, t, v), EntryPoints(Long, c, s, u), c)
<1> DEFINE a == Pullback(Long, c, s)
           x == Pullback(Long, c, u)
           b == Pullback(Short, c, t)
           y == Pullback(Short, c, v)
<1>1. Mirrored(b, a, c)
  BY PullbackMirrored
<1>2. Mirrored(y, x, c)
  BY PullbackMirrored
<1>3. a \in Seq(Int) /\ x \in Seq(Int)
  <2>1. a \in Seq(Int)
    BY PullbackIs
  <2>2. x \in Seq(Int)
    BY PullbackIs
  <2>3. QED
    BY <2>1, <2>2
<1>4. b \in Seq(Int) /\ y \in Seq(Int)
  <2>1. b \in Seq(Int)
    BY PullbackIs
  <2>2. y \in Seq(Int)
    BY PullbackIs
  <2>3. QED
    BY <2>1, <2>2
<1>5. EntryPoints(Long, c, s, u) = <<c>> \o a \o x /\ EntryPoints(Short, c, t, v) = <<c>> \o b \o y
  BY DEF EntryPoints
<1> HIDE DEF a, b, x, y
<1>6. Mirrored(<<c>>, <<c>>, c) /\ <<c>> \in Seq(Int)
  BY DEF Mirrored, Mirror
<1>7. Mirrored(<<c>> \o b, <<c>> \o a, c) /\ <<c>> \o a \in Seq(Int) /\ <<c>> \o b \in Seq(Int)
  BY <1>1, <1>3, <1>4, <1>6, ConcatMirrored, ConcatProperties
<1>8. Mirrored(<<c>> \o b \o y, <<c>> \o a \o x, c)
  BY <1>2, <1>3, <1>4, <1>7, ConcatMirrored
<1>9. QED
  BY <1>5, <1>8

(***************************************************************************)
(* Stops                                                                   *)
(***************************************************************************)
LEMMA StopMirrored ==
    ASSUME NEW S, Quoted(S), NEW s \in Seq(S), NEW T, Quoted(T), Sided(S), NEW t \in Seq(T), NEW c \in Int, Facing(t, s, c),
           NEW entry \in Int, NEW atr \in Nat
    PROVE  /\ CalculateSl(Long, entry, s, atr) \in Int
           /\ CalculateSl(Short, Mirror(c, entry), t, atr) = Mirror(c, CalculateSl(Long, entry, s, atr))
<1> DEFINE e == Mirror(c, entry)
           K == {k \in DOMAIN s : s[k].bullish /\ s[k].price < entry}
           P == PricesAt(s, K)
           Q == PricesAt(t, K)
           half == atr \div 2
           more == (3 * atr) \div 2
<1>0. Len(s) \in Nat /\ DOMAIN s = 1..Len(s) /\ DOMAIN t = 1..Len(s)
  BY DEF Facing
<1>1. PlacesOf(K, s)
  BY <1>0 DEF PlacesOf
<1>2. K = {k \in DOMAIN t : ~t[k].bullish /\ t[k].price > e}
  <2>1. ASSUME NEW k \in 1..Len(s)
        PROVE  (s[k].price < entry <=> t[k].price > e) /\ (s[k].bullish <=> ~t[k].bullish)
    <3>1. s[k].price \in Int /\ t[k].price = Mirror(c, s[k].price)
      BY DEF Facing, Quoted
    <3>2. s[k].bullish \in BOOLEAN /\ t[k].bullish = ~s[k].bullish
      BY DEF Facing, Sided
    <3>3. s[k].price < entry <=> t[k].price > e
      BY <3>1 DEF Mirror
    <3>4. QED
      BY <3>2, <3>3
  <2>2. QED
    BY <1>0, <2>1
<1>3. Long # Short
  BY DEF Long, Short
<1>4. CalculateSl(Long, entry, s, atr) = IF P # {} THEN Max(P) - half ELSE entry - more
  <2>1. Supports(entry, s) = P
    BY DEF Supports, Prices, PricesAt
  <2> HIDE DEF P
  <2>2. QED
    BY <1>3, <2>1 DEF CalculateSl
<1>5. CalculateSl(Short, e, t, atr) = IF Q # {} THEN Min(Q) + half ELSE e + more
  <2>1. Resistances(e, t) = Q
    BY <1>2 DEF Resistances, Prices, PricesAt
  <2> HIDE DEF Q, e
  <2>2. QED
    BY <1>3, <2>1 DEF CalculateSl
<1>6. (P = {}) <=> (Q = {})
  BY DEF PricesAt
<1>7. half \in Int /\ more \in Int
  <2>1. atr \in Int /\ 3 * atr \in Int /\ 2 \in Nat \ {0}
    OBVIOUS
  <2>2. half \in Int
    BY <2>1, DivIs
  <2>3. more \in Int
    BY <2>1, DivIs
  <2>4. QED
    BY <2>2, <2>3
<1> HIDE DEF K
<1>8. P # {} => Max(P) \in Int /\ Min(Q) = Mirror(c, Max(P))
  BY <1>1, PricesMirrored
<1> HIDE DEF P, Q, half, more
<1>9. CASE P = {}
  BY <1>4, <1>5, <1>6, <1>7, <1>9 DEF Mirror
<1>10. CASE P # {}
  <2>1. CalculateSl(Long, entry, s, atr) = Max(P) - half
    BY <1>4, <1>10
  <2>2. CalculateSl(Short, e, t, atr) = Mirror(c, Max(P)) + half
    BY <1>5, <1>6, <1>8, <1>10
  <2>3. QED
    BY <1>7, <1>8, <1>10, <2>1, <2>2 DEF Mirror
<1>11. QED
  BY <1>9, <1>10

(***************************************************************************)
(* Targets                                                                 *)
(***************************************************************************)
LEMMA PricesOfMirrored ==
    ASSUME NEW S, Quoted(S), NEW s \in Seq(S), NEW T, Quoted(T), NEW t \in Seq(T), NEW c \in Int, Facing(t, s, c)
    PROVE  Mirrored(PricesOf(t), PricesOf(s), c)
<1>1. Len(PricesOf(s)) = Len(s) /\ \A k \in 1..Len(s) : PricesOf(s)[k] = s[k].price
  BY PricesOfAre
<1>2. Len(PricesOf(t)) = Len(t) /\ \A k \in 1..Len(t) : PricesOf(t)[k] = t[k].price
  BY PricesOfAre
<1>3. QED
  BY <1>1, <1>2 DEF Mirrored, Facing

\* The same places hold the targets of both.
LEMMA TargetPlacesMirrored ==
    ASSUME NEW S, Quoted(S), Sided(S), NEW s \in Seq(S), NEW T, NEW t \in Seq(T), NEW c \in Int, Facing(t, s, c),
           NEW entry \in Int
    PROVE  TargetPlaces(Short, Mirror(c, entry), t) = TargetPlaces(Long, entry, s)
<1> DEFINE e == Mirror(c, entry)
<1>1. Len(s) \in Nat /\ DOMAIN s = 1..Len(s) /\ DOMAIN t = 1..Len(s)
  BY DEF Facing
<1>2. ASSUME NEW k \in 1..Len(s)
      PROVE  (s[k].price > entry <=> t[k].price < e) /\ (~s[k].bullish <=> t[k].bullish)
  <2>1. s[k].price \in Int /\ t[k].price = Mirror(c, s[k].price)
    BY DEF Facing, Quoted
  <2>2. s[k].bullish \in BOOLEAN /\ t[k].bullish = ~s[k].bullish
    BY DEF Facing, Sided
  <2>3. s[k].price > entry <=> t[k].price < e
    BY <2>1 DEF Mirror
  <2>4. QED
    BY <2>2, <2>3
<1>3. Long # Short
  BY DEF Long, Short
<1>4. TargetPlaces(Long, entry, s) = {i \in DOMAIN s : ~s[i].bullish /\ s[i].price > entry}
  BY DEF TargetPlaces
<1>5. TargetPlaces(Short, e, t) = {i \in DOMAIN t : t[i].bullish /\ t[i].price < e}
  BY <1>3 DEF TargetPlaces
<1> HIDE DEF e
<1>6. QED
  BY <1>1, <1>2, <1>4, <1>5 DEF e

LEMMA TargetPricesMirrored ==
    ASSUME NEW S, Quoted(S), Sided(S), NEW s \in Seq(S), NEW T, Quoted(T), NEW t \in Seq(T), NEW c \in Int,
           Facing(t, s, c), NEW entry \in Int
    PROVE  Mirrored(TargetPrices(Short, Mirror(c, entry), t), TargetPrices(Long, entry, s), c)
<1> DEFINE K == TargetPlaces(Long, entry, s)
           x == Taken(s, K)
           y == Taken(t, K)
<1>1. TargetPrices(Short, Mirror(c, entry), t) = PricesOf(y) /\ TargetPrices(Long, entry, s) = PricesOf(x)
  BY TargetPlacesMirrored DEF TargetPrices
<1>2. PlacesOf(K, s)
  BY DEF PlacesOf, TargetPlaces
<1>3. PlacesOf(K, t)
  BY <1>2 DEF PlacesOf, Facing
<1> HIDE DEF K
<1>4. Facing(y, x, c)
  BY <1>2, TakenFacing
<1>5. x \in Seq(S)
  BY <1>2, TakenIs
<1>6. y \in Seq(T)
  BY <1>3, TakenIs
<1> HIDE DEF x, y
<1>7. Mirrored(PricesOf(y), PricesOf(x), c)
  BY <1>4, <1>5, <1>6, PricesOfMirrored
<1>8. QED
  BY <1>1, <1>7

\* Rising prices are taken in the order in which their mirrors fall.
LEMMA OrderMirrored ==
    ASSUME NEW a \in Seq(Int), NEW b \in Seq(Int), NEW c \in Int, Mirrored(b, a, c)
    PROVE  TargetOrder(Short, b) = TargetOrder(Long, a)
<1> DEFINE n == Len(a)
           k == SoonerKey(Long, a)
           m == SoonerKey(Short, b)
<1>1. n \in Nat /\ Len(b) = n /\ \A i \in 1..n : a[i] \in Int /\ b[i] = Mirror(c, a[i])
  BY DEF Mirrored
<1>2. Long # Short
  BY DEF Long, Short
<1>3. \A i \in 1..n : k[i] = a[i] /\ m[i] = -b[i]
  BY <1>1, <1>2 DEF SoonerKey
<1> HIDE DEF k, m
<1>4. ASSUME NEW i \in 1..n, NEW j \in 1..n PROVE m[i] < m[j] <=> k[i] < k[j]
  <2>1. a[i] \in Int /\ a[j] \in Int /\ b[i] = Mirror(c, a[i]) /\ b[j] = Mirror(c, a[j])
    BY <1>1
  <2>2. k[i] = a[i] /\ m[i] = -b[i] /\ k[j] = a[j] /\ m[j] = -b[j]
    BY <1>3
  <2>3. m[i] = a[i] - 2 * c
    <3>1. b[i] = 2 * c - a[i]
      BY <2>1 DEF Mirror
    <3>2. QED
      BY <2>1, <2>2, <3>1
  <2>4. m[j] = a[j] - 2 * c
    <3>1. b[j] = 2 * c - a[j]
      BY <2>1 DEF Mirror
    <3>2. QED
      BY <2>1, <2>2, <3>1
  <2>5. a[i] \in Int /\ a[j] \in Int /\ k[i] = a[i] /\ k[j] = a[j]
    BY <2>1, <2>2
  <2> HIDE DEF n
  <2>6. QED
    BY <2>3, <2>4, <2>5
<1> HIDE DEF n
<1>5. KeyOrder(m, n) = KeyOrder(k, n)
  <2>1. ASSUME NEW q \in (1..n) \X (1..n)
        PROVE  /\ m[q[1]] < m[q[2]] <=> k[q[1]] < k[q[2]]
               /\ m[q[2]] < m[q[1]] <=> k[q[2]] < k[q[1]]
    <3>1. q[1] \in 1..n /\ q[2] \in 1..n
      OBVIOUS
    <3>2. QED
      BY <1>4, <3>1
  <2>2. QED
    BY <2>1 DEF KeyOrder
<1>6. TargetOrder(Long, a) = KeyOrder(k, n) /\ TargetOrder(Short, b) = KeyOrder(m, n)
  BY <1>1 DEF TargetOrder, k, m, n
<1>7. QED
  BY <1>5, <1>6

LEMMA ArrangedMirrored ==
    ASSUME NEW a \in Seq(Int), NEW b \in Seq(Int), NEW c \in Int, Mirrored(b, a, c), NEW E, Orders(E, 1..Len(a))
    PROVE  Mirrored(Arranged(b, E), Arranged(a, E), c)
<1> DEFINE n == Len(a)
           at == PlaceOf(Ranks(E, n), n)
           x == Arranged(a, E)
           y == Arranged(b, E)
<1>1. n \in Nat /\ Len(b) = n /\ \A i \in 1..n : b[i] = Mirror(c, a[i])
  BY DEF Mirrored
<1>2. at \in [1..n -> 1..n]
  BY <1>1, PlaceOfIs
<1>3. x = [k \in 1..n |-> a[at[k]]] /\ y = [k \in 1..n |-> b[at[k]]]
  BY <1>1 DEF Arranged
<1>4. Len(x) = n
  BY ArrangedIs
<1>5. Len(y) = n
  BY <1>1, ArrangedIs
<1> HIDE DEF n, at, x, y
<1>6. \A k \in 1..n : at[k] \in 1..n /\ x[k] = a[at[k]] /\ y[k] = b[at[k]]
  BY <1>2, <1>3
<1>7. QED
  BY <1>1, <1>4, <1>5, <1>6 DEF Mirrored, n, x, y

LEMMA TargetsMirrored ==
    ASSUME NEW S, Quoted(S), Sided(S), NEW s \in Seq(S), NEW T, Quoted(T), NEW t \in Seq(T), NEW c \in Int,
           Facing(t, s, c), NEW entry \in Int
    PROVE  Mirrored(Targets(Short, Mirror(c, entry), t), Targets(Long, entry, s), c)
<1> DEFINE e == Mirror(c, entry)
           a == TargetPrices(Long, entry, s)
           b == TargetPrices(Short, e, t)
           E == TargetOrder(Long, a)
           F == TargetOrder(Short, b)
<1>0. e \in Int
  BY MirrorIs
<1>1. Mirrored(b, a, c)
  BY TargetPricesMirrored
<1> HIDE DEF e
<1>2. a \in Seq(Int)
  BY TargetPricesAre
<1>3. b \in Seq(Int)
  BY <1>0, TargetPricesAre
<1>4. Targets(Long, entry, s) = Arranged(a, E) /\ Orders(E, 1..Len(a))
  BY TargetsArranged
<1>5. Targets(Short, e, t) = Arranged(b, F)
  BY <1>0, TargetsArranged
<1> HIDE DEF a, b
<1>6. F = E
  BY <1>1, <1>2, <1>3, OrderMirrored
<1> HIDE DEF E, F
<1>7. Mirrored(Arranged(b, E), Arranged(a, E), c)
  BY <1>1, <1>2, <1>3, <1>4, ArrangedMirrored
<1>8. QED
  BY <1>4, <1>5, <1>6, <1>7 DEF e

LEMMA ReachedMirrored ==
    ASSUME NEW a \in Seq(Int), NEW b \in Seq(Int), NEW c \in Int, Mirrored(b, a, c),
           NEW entry \in Int, NEW risk \in Int
    PROVE  /\ Reached(Short, b, Mirror(c, entry), risk) = Reached(Long, a, entry, risk)
           /\ PlacesOf(Reached(Long, a, entry, risk), a)
<1>1. /\ Len(a) \in Nat /\ DOMAIN a = 1..Len(a) /\ DOMAIN b = 1..Len(a)
      /\ \A i \in 1..Len(a) : a[i] \in Int /\ b[i] = Mirror(c, a[i])
  BY DEF Mirrored
<1>2. Long # Short
  BY DEF Long, Short
<1>3. \A i \in 1..Len(a) : a[i] >= entry + risk <=> b[i] <= Mirror(c, entry) - risk
  BY <1>1 DEF Mirror
<1>4. QED
  BY <1>1, <1>2, <1>3 DEF Reached, PlacesOf

LEMMA PicksMirrored ==
    ASSUME NEW S, Quoted(S), Sided(S), NEW s \in Seq(S), NEW T, Quoted(T), NEW t \in Seq(T), NEW c \in Int,
           Facing(t, s, c), NEW entry \in Int, NEW risk \in Int
    PROVE  /\ Mirrored(NearPick(Short, Mirror(c, entry), t, risk), NearPick(Long, entry, s, risk), c)
           /\ Mirrored(FarPick(Short, Mirror(c, entry), t, risk), FarPick(Long, entry, s, risk), c)
<1> DEFINE e == Mirror(c, entry)
           a == Targets(Long, entry, s)
           b == Targets(Short, e, t)
           K == Reached(Long, a, entry, risk)
           x == After(a, K)
           y == After(b, K)
           L == Reached(Long, x, entry, 2 * risk)
<1>0. e \in Int /\ 2 * risk \in Int
  BY MirrorIs
<1>1. Mirrored(b, a, c)
  BY TargetsMirrored
<1>2. a \in Seq(Int)
  BY TargetsAre
<1>3. b \in Seq(Int)
  <2> HIDE DEF e
  <2>1. QED
    BY <1>0, TargetsAre
<1> HIDE DEF a, b
<1>4. Reached(Short, b, e, risk) = K /\ PlacesOf(K, a)
  BY <1>1, <1>2, <1>3, ReachedMirrored
<1>5. x \in Seq(Int)
  BY <1>2, FirstReached
<1>6. y \in Seq(Int)
  <2>1. After(b, Reached(Short, b, e, risk)) \in Seq(Int)
    BY <1>3, FirstReached
  <2>2. QED
    BY <1>4, <2>1
<1> HIDE DEF K
<1>7. Mirrored(y, x, c) /\ Mirrored(Taken(b, K), Taken(a, K), c)
  <2>1. Mirrored(y, x, c)
    BY <1>1, <1>2, <1>3, <1>4, AfterMirrored
  <2>2. Mirrored(Taken(b, K), Taken(a, K), c)
    BY <1>1, <1>2, <1>3, <1>4, TakenMirrored
  <2>3. QED
    BY <2>1, <2>2
<1>8. NearPick(Long, entry, s, risk) = FirstOf(Taken(a, K)) /\ NearPick(Short, e, t, risk) = FirstOf(Taken(b, K))
  BY <1>4 DEF NearPick, K, a, b
<1>9. FarPick(Long, entry, s, risk) = FirstOf(Taken(x, L))
      /\ FarPick(Short, e, t, risk) = FirstOf(Taken(y, Reached(Short, y, e, 2 * risk)))
  BY <1>4 DEF FarPick, K, a, b
<1> HIDE DEF x, y
<1>10. Reached(Short, y, e, 2 * risk) = L /\ PlacesOf(L, x)
  BY <1>0, <1>5, <1>6, <1>7, ReachedMirrored
<1> HIDE DEF L, e
<1>11. Mirrored(FirstOf(Taken(b, K)), FirstOf(Taken(a, K)), c)
  <2>1. PlacesOf(K, b)
    BY <1>1, <1>4 DEF PlacesOf, Mirrored
  <2>2. Taken(a, K) \in Seq(Int)
    BY <1>2, <1>4, TakenIs
  <2>3. Taken(b, K) \in Seq(Int)
    BY <1>3, <2>1, TakenIs
  <2>4. QED
    BY <1>7, <2>2, <2>3, FirstMirrored
<1>12. Mirrored(FirstOf(Taken(y, L)), FirstOf(Taken(x, L)), c)
  <2>1. PlacesOf(L, y)
    BY <1>7, <1>10 DEF PlacesOf, Mirrored
  <2>2. Taken(x, L) \in Seq(Int)
    BY <1>5, <1>10, TakenIs
  <2>3. Taken(y, L) \in Seq(Int)
    BY <1>6, <2>1, TakenIs
  <2>4. Mirrored(Taken(y, L), Taken(x, L), c)
    BY <1>5, <1>6, <1>7, <1>10, TakenMirrored
  <2>5. QED
    BY <2>2, <2>3, <2>4, FirstMirrored
<1>13. QED
  BY <1>8, <1>9, <1>10, <1>11, <1>12 DEF e

AtMostOne(o) == o = <<>> \/ \E x \in Int : o = <<x>>

LEMMA OneMirrored ==
    ASSUME NEW a, AtMostOne(a), NEW b, AtMostOne(b), NEW c \in Int, Mirrored(b, a, c)
    PROVE  /\ a = <<>> <=> b = <<>>
           /\ a # <<>> => Head(a) \in Int /\ Head(b) = Mirror(c, Head(a))
<1>1. Len(b) = Len(a) /\ \A k \in 1..Len(a) : b[k] = Mirror(c, a[k])
  BY DEF Mirrored
<1>2. CASE a = <<>>
  <2>1. Len(a) = 0
    BY <1>2
  <2>2. \A x \in Int : b # <<x>>
    BY <1>1, <2>1
  <2>3. QED
    BY <1>2, <2>2 DEF AtMostOne
<1>3. CASE a # <<>>
  <2>1. PICK x \in Int : a = <<x>>
    BY <1>3 DEF AtMostOne
  <2>2. Len(a) = 1 /\ Head(a) = x /\ a[1] = x
    BY <2>1
  <2>3. b # <<>>
    BY <1>1, <2>2
  <2>4. PICK y \in Int : b = <<y>>
    BY <2>3 DEF AtMostOne
  <2>5. Head(b) = y /\ b[1] = y
    BY <2>4
  <2>6. y = Mirror(c, x)
    BY <1>1, <2>2, <2>5
  <2>7. QED
    BY <1>3, <2>2, <2>3, <2>5, <2>6
<1>4. QED
  BY <1>2, <1>3

LEMMA PairMirrored ==
    ASSUME NEW a \in Int, NEW b \in Int, NEW c \in Int
    PROVE  Max({a, b}) \in Int /\ Min({Mirror(c, a), Mirror(c, b)}) = Mirror(c, Max({a, b}))
<1> DEFINE x == Mirror(c, a)
           y == Mirror(c, b)
<1>1. x \in Int /\ y \in Int /\ x = 2 * c - a /\ y = 2 * c - b
  BY DEF Mirror
<1> HIDE DEF x, y
<1>2. Max({a, b}) \in {a, b} /\ a <= Max({a, b}) /\ b <= Max({a, b})
  BY PairIs
<1>3. Min({x, y}) \in {x, y} /\ Min({x, y}) <= x /\ Min({x, y}) <= y
  BY <1>1, PairIs
<1>4. QED
  BY <1>1, <1>2, <1>3 DEF Mirror, x, y

\* Two pairs of targets, one the mirror of the other.
TargetsFacing(q, p, c) ==
    /\ p.tp1 \in Int /\ p.tp2 \in Int
    /\ q.tp1 = Mirror(c, p.tp1) /\ q.tp2 = Mirror(c, p.tp2)

LEMMA ProfitsMirrored ==
    ASSUME NEW c \in Int, NEW entry \in Int, NEW risk \in Int, NEW atr \in Int,
           NEW near, NEW far, AtMostOne(near), AtMostOne(far),
           NEW near2, NEW far2, AtMostOne(near2), AtMostOne(far2),
           Mirrored(near2, near, c), Mirrored(far2, far, c)
    PROVE  TargetsFacing(TakeProfits(Short, Mirror(c, entry), NearTarget(Short, Mirror(c, entry), near2, atr), far2, risk, atr),
                         TakeProfits(Long, entry, NearTarget(Long, entry, near, atr), far, risk, atr), c)
<1> DEFINE e == Mirror(c, entry)
           p1 == NearTarget(Long, entry, near, atr)
           q1 == NearTarget(Short, e, near2, atr)
           top == Max({entry + 6 * atr, p1 + risk})
           bottom == Min({e - 6 * atr, q1 - risk})
           p2 == IF far # <<>> THEN Head(far) ELSE top
           q2 == IF far2 # <<>> THEN Head(far2) ELSE bottom
           p == IF p2 <= p1 THEN p1 + risk ELSE p2
           q == IF q2 >= q1 THEN q1 - risk ELSE q2
<1>0. Long # Short
  BY DEF Long, Short
<1>1. /\ near = <<>> <=> near2 = <<>>
      /\ near # <<>> => Head(near) \in Int /\ Head(near2) = Mirror(c, Head(near))
  BY OneMirrored
<1>2. /\ far = <<>> <=> far2 = <<>>
      /\ far # <<>> => Head(far) \in Int /\ Head(far2) = Mirror(c, Head(far))
  BY OneMirrored
<1>3. p1 = IF near # <<>> THEN Head(near) ELSE entry + 3 * atr
  BY <1>0 DEF NearTarget
<1>4. q1 = IF near2 # <<>> THEN Head(near2) ELSE e - 3 * atr
  BY <1>0 DEF NearTarget
<1>5. TakeProfits(Long, entry, p1, far, risk, atr) = [tp1 |-> p1, tp2 |-> p]
  BY <1>0 DEF TakeProfits
<1>6. TakeProfits(Short, e, q1, far2, risk, atr) = [tp1 |-> q1, tp2 |-> q]
  BY <1>0 DEF TakeProfits
<1> HIDE DEF p1, q1
<1>7. p1 \in Int /\ q1 = Mirror(c, p1)
  <2>1. CASE near = <<>>
    BY <1>1, <1>3, <1>4, <2>1 DEF Mirror
  <2>2. CASE near # <<>>
    BY <1>1, <1>3, <1>4, <2>2
  <2>3. QED
    BY <2>1, <2>2
<1>8. top \in Int /\ bottom = Mirror(c, top)
  <2> DEFINE a == entry + 6 * atr
             b == p1 + risk
  <2>1. a \in Int /\ b \in Int /\ e - 6 * atr = Mirror(c, a) /\ q1 - risk = Mirror(c, b)
    BY <1>7 DEF Mirror
  <2>2. top = Max({a, b}) /\ bottom = Min({Mirror(c, a), Mirror(c, b)})
    BY <2>1
  <2> HIDE DEF a, b
  <2>3. Max({a, b}) \in Int /\ Min({Mirror(c, a), Mirror(c, b)}) = Mirror(c, Max({a, b}))
    BY <2>1, PairMirrored
  <2> HIDE DEF top, bottom
  <2>4. QED
    BY <2>2, <2>3
<1> HIDE DEF top, bottom, e
<1>9. p2 \in Int /\ q2 = Mirror(c, p2)
  <2>1. CASE far = <<>>
    BY <1>2, <1>8, <2>1
  <2>2. CASE far # <<>>
    BY <1>2, <2>2
  <2>3. QED
    BY <2>1, <2>2
<1> HIDE DEF p2, q2
<1>10. p \in Int /\ q = Mirror(c, p)
  BY <1>7, <1>9 DEF Mirror
<1> HIDE DEF p, q
<1>11. TargetsFacing([tp1 |-> q1, tp2 |-> q], [tp1 |-> p1, tp2 |-> p], c)
  BY <1>7, <1>10 DEF TargetsFacing
<1>12. QED
  BY <1>5, <1>6, <1>11 DEF e, p1, q1

(***************************************************************************)
(* Scenarios                                                               *)
(***************************************************************************)
LEMMA TpMirrored ==
    ASSUME NEW S, Quoted(S), Sided(S), NEW s \in Seq(S), NEW T, Quoted(T), NEW t \in Seq(T), NEW c \in Int,
           Facing(t, s, c), NEW entry \in Int, NEW risk \in Int, NEW atr \in Int
    PROVE  TargetsFacing(CalculateTp(Short, Mirror(c, entry), t, risk, atr), CalculateTp(Long, entry, s, risk, atr), c)
<1> DEFINE e == Mirror(c, entry)
           near == NearPick(Long, entry, s, risk)
           far == FarPick(Long, entry, s, risk)
           near2 == NearPick(Short, e, t, risk)
           far2 == FarPick(Short, e, t, risk)
<1>1. Mirrored(near2, near, c) /\ Mirrored(far2, far, c)
  BY PicksMirrored
<1>2. e \in Int
  BY MirrorIs
<1>3. AtMostOne(near) /\ AtMostOne(far)
  <2>1. FarEnough(Long, near, entry, risk) /\ FarEnough(Long, far, entry, 2 * risk)
    BY PicksReach
  <2> HIDE DEF near, far
  <2>2. QED
    BY <2>1 DEF FarEnough, AtMostOne
<1>4. AtMostOne(near2) /\ AtMostOne(far2)
  <2> HIDE DEF e
  <2>1. FarEnough(Short, near2, e, risk) /\ FarEnough(Short, far2, e, 2 * risk)
    BY <1>2, PicksReach
  <2> HIDE DEF near2, far2
  <2>2. QED
    BY <2>1 DEF FarEnough, AtMostOne
<1>5. CalculateTp(Long, entry, s, risk, atr)
        = TakeProfits(Long, entry, NearTarget(Long, entry, near, atr), far, risk, atr)
  BY PicksAre
<1>6. CalculateTp(Short, e, t, risk, atr)
        = TakeProfits(Short, e, NearTarget(Short, e, near2, atr), far2, risk, atr)
  BY PicksAre
<1> HIDE DEF near, far, near2, far2
<1>7. TargetsFacing(TakeProfits(Short, e, NearTarget(Short, e, near2, atr), far2, risk, atr),
                    TakeProfits(Long, entry, NearTarget(Long, entry, near, atr), far, risk, atr), c)
  BY <1>1, <1>3, <1>4, ProfitsMirrored
<1>8. QED
  BY <1>5, <1>6, <1>7

\* A scenario, and its mirror: of the same worth.
Plan(confidence) ==
    [entry : Int, stop : Int, tp1 : Int, tp2 : Int, confidence : {confidence}, ratio : Int, ratio2 : Int]
PlanFacing(y, x, c) ==
    /\ y.entry = Mirror(c, x.entry) /\ y.stop = Mirror(c, x.stop)
    /\ y.tp1 = Mirror(c, x.tp1) /\ y.tp2 = Mirror(c, x.tp2)
    /\ y.confidence = x.confidence /\ y.ratio = x.ratio /\ y.ratio2 = x.ratio2

SameRatio(c, entry, stop, target) ==
    /\ RiskReward(entry, stop, target) \in Int
    /\ RiskReward(Mirror(c, entry), Mirror(c, stop), Mirror(c, target)) = RiskReward(entry, stop, target)

LEMMA RiskRewardMirrored ==
    ASSUME NEW c \in Int, NEW entry \in Int, NEW stop \in Int, NEW target \in Int
    PROVE  SameRatio(c, entry, stop, target)
<1> DEFINE a == Abs(entry - stop)
           b == Abs(target - entry)
<1>1. a \in Nat /\ b \in Nat
  BY DEF Abs
<1>2. Abs(Mirror(c, entry) - Mirror(c, stop)) = a /\ Abs(Mirror(c, target) - Mirror(c, entry)) = b
  BY DEF Abs, Mirror
<1>3. Mirror(c, target) = Mirror(c, entry) <=> target = entry
  BY DEF Mirror
<1>4. RiskReward(entry, stop, target) = IF target = entry THEN NoRatio ELSE RoundDiv(100 * a, b)
  BY DEF RiskReward
<1>5. RiskReward(Mirror(c, entry), Mirror(c, stop), Mirror(c, target))
        = IF Mirror(c, target) = Mirror(c, entry) THEN NoRatio ELSE RoundDiv(100 * a, b)
  BY <1>2 DEF RiskReward
<1>6. target # entry => b # 0
  BY DEF Abs
<1> HIDE DEF a, b
<1>7. b # 0 => RoundDiv(100 * a, b) \in Int
  <2>1. 100 * a \in Int
    BY <1>1
  <2>2. QED
    BY <1>1, <2>1, RoundDivIs
<1>8. QED
  BY <1>3, <1>4, <1>5, <1>6, <1>7 DEF NoRatio, SameRatio

LEMMA ScenarioMirrored ==
    ASSUME NEW S, Quoted(S), Sided(S), NEW s \in Seq(S), NEW T, Quoted(T), NEW t \in Seq(T), NEW c \in Int,
           Facing(t, s, c), NEW entry \in Int, NEW atr \in Nat, NEW confidence
    PROVE  /\ PlanFacing(Scenario(Short, Mirror(c, entry), t, atr, confidence),
                         Scenario(Long, entry, s, atr, confidence), c)
           /\ Scenario(Long, entry, s, atr, confidence) \in Plan(confidence)
           /\ Scenario(Short, Mirror(c, entry), t, atr, confidence) \in Plan(confidence)
<1> DEFINE e == Mirror(c, entry)
           stop == CalculateSl(Long, entry, s, atr)
           stop2 == CalculateSl(Short, e, t, atr)
           risk == Abs(entry - stop)
           tp == CalculateTp(Long, entry, s, risk, atr)
           tp2 == CalculateTp(Short, e, t, risk, atr)
           x == Scenario(Long, entry, s, atr, confidence)
           y == Scenario(Short, e, t, atr, confidence)
<1>1. stop \in Int /\ stop2 = Mirror(c, stop)
  BY StopMirrored
<1>2. e \in Int
  BY MirrorIs
<1>3. x = Priced(entry, stop, tp, confidence)
  BY DEF Scenario
<1>4. y = Priced(e, stop2, CalculateTp(Short, e, t, Abs(e - stop2), atr), confidence)
  BY DEF Scenario
<1> HIDE DEF x, y, stop, stop2
<1>5. risk \in Int /\ Abs(e - stop2) = risk
  BY <1>1 DEF Abs, Mirror
<1> HIDE DEF risk
<1>6. TargetsFacing(tp2, tp, c)
  BY <1>5, TpMirrored
<1>7. y = Priced(e, stop2, tp2, confidence)
  BY <1>4, <1>5
<1> HIDE DEF tp, tp2
<1>8. /\ tp.tp1 \in Int /\ tp.tp2 \in Int
      /\ tp2.tp1 = Mirror(c, tp.tp1) /\ tp2.tp2 = Mirror(c, tp.tp2)
  BY <1>6 DEF TargetsFacing
<1> DEFINE r == RiskReward(entry, stop, tp.tp1)
           r2 == RiskReward(entry, stop, tp.tp2)
<1>9. r \in Int /\ RiskReward(e, stop2, tp2.tp1) = r
  <2> DEFINE z == tp.tp1
  <2>1. z \in Int
    BY <1>8
  <2> HIDE DEF z
  <2>2. SameRatio(c, entry, stop, z)
    BY <1>1, <2>1, RiskRewardMirrored
  <2>3. QED
    BY <1>1, <1>8, <2>2 DEF SameRatio, z
<1>10. r2 \in Int /\ RiskReward(e, stop2, tp2.tp2) = r2
  <2> DEFINE z == tp.tp2
  <2>1. z \in Int
    BY <1>8
  <2> HIDE DEF z
  <2>2. SameRatio(c, entry, stop, z)
    BY <1>1, <2>1, RiskRewardMirrored
  <2>3. QED
    BY <1>1, <1>8, <2>2 DEF SameRatio, z
<1>11. x = [entry |-> entry, stop |-> stop, tp1 |-> tp.tp1, tp2 |-> tp.tp2, confidence |-> confidence,
            ratio |-> r, ratio2 |-> r2]
  BY <1>3 DEF Priced
<1>12. y = [entry |-> e, stop |-> stop2, tp1 |-> tp2.tp1, tp2 |-> tp2.tp2, confidence |-> confidence,
            ratio |-> r, ratio2 |-> r2]
  BY <1>7, <1>9, <1>10 DEF Priced
<1> HIDE DEF r, r2
<1>13. stop2 \in Int /\ tp2.tp1 \in Int /\ tp2.tp2 \in Int
  BY <1>1, <1>8 DEF Mirror
<1>14. PlanFacing(y, x, c)
  BY <1>1, <1>8, <1>11, <1>12 DEF PlanFacing, e
<1>15. x \in Plan(confidence)
  BY <1>1, <1>8, <1>9, <1>10, <1>11 DEF Plan
<1>16. y \in Plan(confidence)
  BY <1>2, <1>9, <1>10, <1>12, <1>13 DEF Plan
<1>17. QED
  BY <1>14, <1>15, <1>16 DEF e, x, y

\* The patterns of the mirrored market.
TurnedOne(p, c) == [p EXCEPT !.bullish = ~@, !.price = Mirror(c, @)]
TurnedAll(ps, c) == [k \in DOMAIN ps |-> TurnedOne(ps[k], c)]

\* Patterns that differ in side and price alone.
AlikeBut(p, q) ==
    /\ q.category = p.category /\ q.name = p.name
    /\ q.confidence = p.confidence /\ q.reliability = p.reliability /\ q.relevance = p.relevance

TurnsInto(p, q, S, c) ==
    q \in S /\ AlikeBut(p, q) /\ q.price = Mirror(c, p.price) /\ q.bullish = ~p.bullish

LEMMA TurnedOneIs ==
    ASSUME NEW n \in Nat, NEW p \in Scored(n), NEW c \in Int
    PROVE  TurnsInto(p, TurnedOne(p, c), Scored(n), c)
<1> DEFINE q == TurnedOne(p, c)
           b == ~p.bullish
           x == Mirror(c, p.price)
<1>1. p.price \in Int /\ p.bullish \in BOOLEAN
  BY DEF Scored
<1>2. x \in Int /\ b \in BOOLEAN
  BY <1>1 DEF Mirror
<1>3. q = [p EXCEPT !.bullish = b, !.price = x]
  BY DEF TurnedOne
<1> HIDE DEF q, b, x
<1>4. q = [category |-> p.category, name |-> p.name, bullish |-> b, confidence |-> p.confidence,
           at |-> p.at, price |-> x, reliability |-> p.reliability,
           target |-> p.target, relevance |-> p.relevance]
  BY <1>3 DEF Scored
<1>5. q \in Scored(n)
  BY <1>2, <1>4 DEF Scored
<1>6. AlikeBut(p, q) /\ q.price = x /\ q.bullish = b
  BY <1>4 DEF AlikeBut
<1>7. QED
  BY <1>5, <1>6 DEF q, b, x, TurnsInto

LEMMA TurnedAllIs ==
    ASSUME NEW n \in Nat, NEW ps \in Seq(Scored(n)), NEW c \in Int
    PROVE  /\ TurnedAll(ps, c) \in Seq(Scored(n)) /\ Facing(TurnedAll(ps, c), ps, c)
           /\ \A k \in 1..Len(ps) : AlikeBut(ps[k], TurnedAll(ps, c)[k])
<1> DEFINE t == TurnedAll(ps, c)
           S == Scored(n)
<1>1. Len(ps) \in Nat /\ DOMAIN ps = 1..Len(ps) /\ \A k \in 1..Len(ps) : ps[k] \in S
  OBVIOUS
<1>2. t = [k \in 1..Len(ps) |-> t[k]] /\ \A k \in 1..Len(ps) : t[k] = TurnedOne(ps[k], c)
  BY <1>1 DEF TurnedAll
<1>3. \A k \in 1..Len(ps) : /\ t[k] \in S /\ AlikeBut(ps[k], t[k])
                            /\ t[k].price = Mirror(c, ps[k].price) /\ t[k].bullish = ~ps[k].bullish
  <2> TAKE k \in 1..Len(ps)
  <2> DEFINE p == ps[k]
  <2>1. p \in Scored(n) /\ t[k] = TurnedOne(p, c)
    BY <1>1, <1>2
  <2> HIDE DEF p, t, S
  <2>2. TurnsInto(p, TurnedOne(p, c), Scored(n), c)
    BY <2>1, TurnedOneIs
  <2>3. QED
    BY <2>1, <2>2 DEF p, S, TurnsInto
<1> HIDE DEF t, S
<1>4. t \in [1..Len(ps) -> S]
  BY <1>2, <1>3
<1>5. t \in Seq(S) /\ Len(t) = Len(ps)
  BY <1>1, <1>4, ListIs
<1>6. Facing(t, ps, c)
  BY <1>3, <1>5 DEF Facing
<1>7. QED
  BY <1>3, <1>5, <1>6 DEF t, S

LEMMA SidesAre ==
    ASSUME NEW n \in Nat
    PROVE  Quoted(Scored(n)) /\ Sided(Scored(n))
BY DEF Quoted, Sided, Scored

\* The levels and the retracements of the mirrored market.
LEMMA LevelsFacing ==
    ASSUME NEW n \in Nat, NEW ps \in Seq(Scored(n)), NEW c \in Int
    PROVE  /\ Facing(LevelsOf(TurnedAll(ps, c)), LevelsOf(ps), c)
           /\ Facing(RetracementsOf(TurnedAll(ps, c)), RetracementsOf(ps), c)
<1> DEFINE t == TurnedAll(ps, c)
           K == {i \in DOMAIN ps : ps[i].category = "support_resistance" /\ ps[i].name = "level"}
           L == {i \in DOMAIN ps : ps[i].category = "fibonacci"}
<1>1. t \in Seq(Scored(n)) /\ Facing(t, ps, c)
  BY TurnedAllIs
<1>2. \A k \in 1..Len(ps) : t[k].category = ps[k].category /\ t[k].name = ps[k].name
  <2>1. \A k \in 1..Len(ps) : AlikeBut(ps[k], t[k])
    BY TurnedAllIs
  <2> HIDE DEF t
  <2>2. QED
    BY <2>1 DEF AlikeBut
<1> HIDE DEF t
<1>3. DOMAIN ps = 1..Len(ps) /\ DOMAIN t = 1..Len(ps)
  BY <1>1 DEF Facing
<1>4. /\ K = {i \in DOMAIN t : t[i].category = "support_resistance" /\ t[i].name = "level"}
      /\ L = {i \in DOMAIN t : t[i].category = "fibonacci"}
  BY <1>2, <1>3
<1>5. LevelsOf(ps) = Taken(ps, K) /\ RetracementsOf(ps) = Taken(ps, L)
  BY DEF LevelsOf, RetracementsOf, Filter, Taken
<1>6. LevelsOf(t) = Taken(t, K) /\ RetracementsOf(t) = Taken(t, L)
  BY <1>4 DEF LevelsOf, RetracementsOf, Filter, Taken
<1>7. PlacesOf(K, ps) /\ PlacesOf(L, ps)
  BY <1>3 DEF PlacesOf
<1> HIDE DEF K, L
<1>8. Facing(Taken(t, K), Taken(ps, K), c)
  BY <1>1, <1>7, TakenFacing
<1>9. Facing(Taken(t, L), Taken(ps, L), c)
  BY <1>1, <1>7, TakenFacing
<1>10. QED
  BY <1>5, <1>6, <1>8, <1>9 DEF t

(***************************************************************************)
(* Strategies                                                              *)
(***************************************************************************)
\* The worthwhile scenarios at the entries that two series of levels give.
Proposed(d, current, atr, levels, retracements, confidence) ==
    LET entries == EntryPoints(d, current, levels, retracements) IN
    [k \in DOMAIN entries |-> Scenario(d, entries[k], levels, atr, confidence)]
Kept(all) == {i \in DOMAIN all : all[i].ratio = NoRatio \/ all[i].ratio <= 100}

LEMMA BuildIs ==
    ASSUME NEW d \in {Long, Short}, NEW current, NEW atr, NEW ps, NEW confidence
    PROVE  LET all == Proposed(d, current, atr, LevelsOf(ps), RetracementsOf(ps), confidence) IN
           BuildStrategies(d, current, atr, ps, confidence) = Taken(all, Kept(all))
<1>1. d # NoDirection
  BY DEF Long, Short, NoDirection
<1>2. QED
  BY <1>1 DEF BuildStrategies, Filter, Taken, Proposed, Kept

Plans(x, confidence) == x \in Seq(Plan(confidence))
PlansFacing(y, x, c) == Len(y) = Len(x) /\ \A k \in 1..Len(x) : PlanFacing(y[k], x[k], c)

LEMMA ProposedMirrored ==
    ASSUME NEW S, Quoted(S), Sided(S), NEW s \in Seq(S), NEW u \in Seq(S), NEW T, Quoted(T), NEW t \in Seq(T), NEW v \in Seq(T),
           NEW c \in Int, Facing(t, s, c), Facing(v, u, c), NEW atr \in Nat, NEW confidence
    PROVE  LET x == Proposed(Long, c, atr, s, u, confidence)
               y == Proposed(Short, c, atr, t, v, confidence) IN
           /\ Plans(x, confidence) /\ Plans(y, confidence)
           /\ PlansFacing(y, x, c)
<1> DEFINE x == Proposed(Long, c, atr, s, u, confidence)
           y == Proposed(Short, c, atr, t, v, confidence)
           a == EntryPoints(Long, c, s, u)
           b == EntryPoints(Short, c, t, v)
           P == Plan(confidence)
<1>1. a \in Seq(Int)
  BY EntriesAre
<1>2. b \in Seq(Int)
  BY EntriesAre
<1>3. Mirrored(b, a, c)
  BY EntriesMirrored
<1>4. x = [k \in DOMAIN a |-> Scenario(Long, a[k], s, atr, confidence)]
      /\ y = [k \in DOMAIN b |-> Scenario(Short, b[k], t, atr, confidence)]
  BY DEF Proposed
<1> HIDE DEF a, b, x, y
<1>5. /\ Len(a) \in Nat /\ DOMAIN a = 1..Len(a) /\ DOMAIN b = 1..Len(a)
      /\ \A k \in 1..Len(a) : a[k] \in Int /\ b[k] = Mirror(c, a[k])
  BY <1>1, <1>2, <1>3 DEF Mirrored
<1>6. ASSUME NEW k \in 1..Len(a)
      PROVE  x[k] \in P /\ y[k] \in P /\ PlanFacing(y[k], x[k], c)
  <2>1. a[k] \in Int /\ b[k] = Mirror(c, a[k])
    BY <1>5
  <2>2. x[k] = Scenario(Long, a[k], s, atr, confidence) /\ y[k] = Scenario(Short, Mirror(c, a[k]), t, atr, confidence)
    BY <1>4, <1>5
  <2>3. /\ PlanFacing(Scenario(Short, Mirror(c, a[k]), t, atr, confidence),
                      Scenario(Long, a[k], s, atr, confidence), c)
        /\ Scenario(Long, a[k], s, atr, confidence) \in P
        /\ Scenario(Short, Mirror(c, a[k]), t, atr, confidence) \in P
    BY <2>1, ScenarioMirrored
  <2>4. QED
    BY <2>2, <2>3
<1>7. x = [k \in 1..Len(a) |-> x[k]] /\ y = [k \in 1..Len(a) |-> y[k]]
  BY <1>4, <1>5
<1> HIDE DEF P
<1>8. x \in [1..Len(a) -> P] /\ y \in [1..Len(a) -> P]
  BY <1>6, <1>7
<1>9. x \in Seq(P) /\ Len(x) = Len(a)
  BY <1>5, <1>8, ListIs
<1>10. y \in Seq(P) /\ Len(y) = Len(a)
  BY <1>5, <1>8, ListIs
<1>11. PlansFacing(y, x, c)
  BY <1>6, <1>9, <1>10 DEF PlansFacing
<1>12. QED
  BY <1>9, <1>10, <1>11 DEF P, Plans, x, y

LEMMA KeptMirrored ==
    ASSUME NEW confidence, NEW x, Plans(x, confidence), NEW y, Plans(y, confidence), NEW c \in Int, PlansFacing(y, x, c)
    PROVE  LET p == Taken(x, Kept(x))
               q == Taken(y, Kept(y)) IN
           Plans(p, confidence) /\ Plans(q, confidence) /\ PlansFacing(q, p, c)
<1> DEFINE K == Kept(x)
           p == Taken(x, K)
           q == Taken(y, K)
           P == Plan(confidence)
<1>1. x \in Seq(P) /\ y \in Seq(P) /\ Len(y) = Len(x) /\ \A k \in 1..Len(x) : PlanFacing(y[k], x[k], c)
  BY DEF Plans, PlansFacing
<1> HIDE DEF P
<1>2. DOMAIN x = 1..Len(x) /\ DOMAIN y = 1..Len(x) /\ \A k \in 1..Len(x) : y[k].ratio = x[k].ratio
  BY <1>1 DEF PlanFacing
<1>3. Kept(y) = K /\ PlacesOf(K, x) /\ PlacesOf(K, y)
  BY <1>1, <1>2 DEF Kept, PlacesOf
<1> HIDE DEF K
<1>4. p \in Seq(P) /\ q \in Seq(P)
  <2>1. p \in Seq(P)
    BY <1>1, <1>3, TakenIs
  <2>2. q \in Seq(P)
    BY <1>1, <1>3, TakenIs
  <2>3. QED
    BY <2>1, <2>2
<1>5. TakenFrom(x, K)
  BY <1>1, <1>3, TakenFromIs
<1>6. TakenFrom(y, K)
  BY <1>1, <1>3, TakenFromIs
<1>7. PlansFacing(q, p, c)
  BY <1>1, <1>5, <1>6 DEF TakenFrom, PlansFacing
<1>8. QED
  BY <1>3, <1>4, <1>7 DEF Plans, P, K

LEMMA PlansFacingBack ==
    ASSUME NEW confidence, NEW x, Plans(x, confidence), NEW y, NEW c \in Int, PlansFacing(y, x, c)
    PROVE  PlansFacing(x, y, c)
<1>1. Len(y) = Len(x) /\ \A k \in 1..Len(x) : PlanFacing(y[k], x[k], c)
  BY DEF PlansFacing
<1>2. ASSUME NEW k \in 1..Len(x) PROVE PlanFacing(x[k], y[k], c)
  <2>1. x[k] \in Plan(confidence)
    BY DEF Plans
  <2>2. x[k].entry \in Int /\ x[k].stop \in Int /\ x[k].tp1 \in Int /\ x[k].tp2 \in Int
    BY <2>1 DEF Plan
  <2>3. PlanFacing(y[k], x[k], c)
    BY <1>1
  <2>4. /\ x[k].entry = Mirror(c, y[k].entry) /\ x[k].stop = Mirror(c, y[k].stop)
        /\ x[k].tp1 = Mirror(c, y[k].tp1) /\ x[k].tp2 = Mirror(c, y[k].tp2)
    <3>1. /\ y[k].entry = 2 * c - x[k].entry /\ y[k].stop = 2 * c - x[k].stop
          /\ y[k].tp1 = 2 * c - x[k].tp1 /\ y[k].tp2 = 2 * c - x[k].tp2
      BY <2>3 DEF PlanFacing, Mirror
    <3>2. QED
      BY <2>2, <3>1 DEF Mirror
  <2>5. QED
    BY <2>3, <2>4 DEF PlanFacing
<1>3. QED
  BY <1>1, <1>2 DEF PlansFacing

\* The scenarios of the mirrored market are the mirrored scenarios, long or short.
LEMMA BuildMirrored ==
    ASSUME NEW n \in Nat, NEW ps \in Seq(Scored(n)), NEW c \in Int, NEW atr \in Nat, NEW confidence, NEW d \in {Long, Short}
    PROVE  LET x == BuildStrategies(d, c, atr, ps, confidence)
               y == BuildStrategies(-d, c, atr, TurnedAll(ps, c), confidence) IN
           Plans(x, confidence) /\ Plans(y, confidence) /\ PlansFacing(y, x, c)
<1> DEFINE S == Scored(n)
           t == TurnedAll(ps, c)
           l == LevelsOf(ps)
           r == RetracementsOf(ps)
           m == LevelsOf(t)
           v == RetracementsOf(t)
<1>1. Quoted(S) /\ Sided(S)
  BY SidesAre
<1>2. t \in Seq(S)
  BY TurnedAllIs
<1>3. Facing(m, l, c) /\ Facing(v, r, c)
  BY LevelsFacing
<1> HIDE DEF S, t
<1>4. l \in Seq(S) /\ r \in Seq(S)
  BY LevelsTaken DEF S
<1>5. m \in Seq(S) /\ v \in Seq(S)
  BY <1>2, LevelsTaken
<1> HIDE DEF l, r, m, v
<1>6. CASE d = Long
  <2> DEFINE x == Proposed(Long, c, atr, l, r, confidence)
             y == Proposed(Short, c, atr, m, v, confidence)
  <2>1. -d = Short
    BY <1>6 DEF Long, Short
  <2>2. Plans(x, confidence) /\ Plans(y, confidence) /\ PlansFacing(y, x, c)
    BY <1>1, <1>3, <1>4, <1>5, ProposedMirrored
  <2>3. BuildStrategies(Long, c, atr, ps, confidence) = Taken(x, Kept(x))
    BY BuildIs DEF l, r
  <2>4. BuildStrategies(Short, c, atr, t, confidence) = Taken(y, Kept(y))
    BY BuildIs DEF m, v
  <2> HIDE DEF x, y
  <2>5. LET p == Taken(x, Kept(x))
            q == Taken(y, Kept(y)) IN
        Plans(p, confidence) /\ Plans(q, confidence) /\ PlansFacing(q, p, c)
    BY <2>2, KeptMirrored
  <2>6. QED
    BY <1>6, <2>1, <2>3, <2>4, <2>5 DEF t
<1>7. CASE d = Short
  <2> DEFINE x == Proposed(Long, c, atr, m, v, confidence)
             y == Proposed(Short, c, atr, l, r, confidence)
             p == Taken(x, Kept(x))
             q == Taken(y, Kept(y))
  <2>1. -d = Long
    <3>1. d \in Int /\ d + 1 = 0
      BY <1>7 DEF Short
    <3>2. -d = 1
      BY <3>1
    <3>3. QED
      BY <3>2 DEF Long
  <2>2. Facing(l, m, c)
    BY <1>1, <1>3, <1>4, FacingBack
  <2>3. Facing(r, v, c)
    BY <1>1, <1>3, <1>4, FacingBack
  <2>4. Plans(x, confidence) /\ Plans(y, confidence) /\ PlansFacing(y, x, c)
    BY <1>1, <1>4, <1>5, <2>2, <2>3, ProposedMirrored
  <2>5. BuildStrategies(Short, c, atr, ps, confidence) = Taken(y, Kept(y))
    BY BuildIs DEF l, r
  <2>6. BuildStrategies(Long, c, atr, t, confidence) = Taken(x, Kept(x))
    BY BuildIs DEF m, v
  <2> HIDE DEF x, y
  <2>7. Plans(p, confidence) /\ Plans(q, confidence) /\ PlansFacing(q, p, c)
    BY <2>4, KeptMirrored
  <2> HIDE DEF p, q
  <2>8. PlansFacing(p, q, c)
    BY <2>7, PlansFacingBack
  <2>9. QED
    BY <1>7, <2>1, <2>5, <2>6, <2>7, <2>8 DEF t, p, q
<1>8. QED
  BY <1>6, <1>7

(***************************************************************************)
(* Confidence                                                              *)
(***************************************************************************)
LEMMA AgreementMirrored ==
    ASSUME NEW d \in {Long, Short}, NEW votes \in MarketVotes
    PROVE  TaAgreement(-d, Flip(votes)) = TaAgreement(d, votes)
<1> DEFINE v == Flip(votes)
           one == IF d = Long THEN votes.buy ELSE votes.sell
<1>1. votes.buy \in Nat /\ votes.sell \in Nat /\ votes.neutral \in Nat
  BY DEF MarketVotes
<1>2. v.buy = votes.sell /\ v.sell = votes.buy /\ v.neutral = votes.neutral
  BY DEF Flip
<1> HIDE DEF v
<1>3. Total(v) = Total(votes)
  BY <1>1, <1>2 DEF Total
<1>4. (IF -d = Long THEN v.buy ELSE v.sell) = one
  <2>1. CASE d = Long
    <3>1. -d # Long
      BY <2>1 DEF Long
    <3>2. QED
      BY <1>2, <2>1, <3>1
  <2>2. CASE d = Short
    <3>1. d \in Int /\ d + 1 = 0
      BY <2>2 DEF Short
    <3>2. -d = 1 /\ d # 1
      BY <3>1
    <3>3. -d = Long /\ d # Long
      BY <3>2 DEF Long
    <3>4. QED
      BY <1>2, <3>3
  <2>3. QED
    BY <2>1, <2>2
<1>5. TaAgreement(d, votes) = IF Total(votes) = 0 THEN 0 ELSE RoundDiv(10000 * one, Total(votes))
  BY DEF TaAgreement
<1>6. TaAgreement(-d, v) = IF Total(v) = 0 THEN 0 ELSE RoundDiv(10000 * one, Total(v))
  BY <1>4 DEF TaAgreement
<1>7. QED
  BY <1>3, <1>5, <1>6 DEF v

LEMMA ConfirmationMirrored ==
    ASSUME NEW d \in {Long, Short}, NEW n \in Nat, NEW ps \in Seq(Scored(n)), NEW c \in Int
    PROVE  PatternConfirmation(-d, TurnedAll(ps, c)) = PatternConfirmation(d, ps)
<1> DEFINE t == TurnedAll(ps, c)
           D == 1..Len(ps)
           f == [k \in D |-> Multiplier[ps[k].reliability]]
           way == [k \in D |-> IF ps[k].bullish = (d = Long) THEN 1 ELSE -1]
           g == [k \in D |-> way[k] * Strength(ps[k]) * Multiplier[ps[k].reliability]]
<1>1. DOMAIN ps = D /\ Len(ps) \in Nat /\ \A k \in D : ps[k] \in Scored(n)
  OBVIOUS
<1>2. t \in Seq(Scored(n)) /\ Facing(t, ps, c) /\ \A k \in D : AlikeBut(ps[k], t[k])
  BY TurnedAllIs
<1> HIDE DEF t
<1>3. DOMAIN t = D /\ Len(t) = Len(ps)
  BY <1>2 DEF Facing
<1>4. \A k \in D : Strength(t[k]) = Strength(ps[k]) /\ t[k].reliability = ps[k].reliability
  BY <1>2 DEF AlikeBut, Strength
<1>5. ASSUME NEW k \in D
      PROVE  (IF t[k].bullish = (-d = Long) THEN 1 ELSE -1) = (IF ps[k].bullish = (d = Long) THEN 1 ELSE -1)
  <2>1. ps[k].bullish \in BOOLEAN /\ t[k].bullish = ~ps[k].bullish
    BY <1>1, <1>2 DEF Facing, Scored
  <2>2. (-d = Long) <=> ~(d = Long)
    <3>1. CASE d = Long
      BY <3>1 DEF Long
    <3>2. CASE d = Short
      <4>1. d \in Int /\ d + 1 = 0
        BY <3>2 DEF Short
      <4>2. -d = 1 /\ d # 1
        BY <4>1
      <4>3. QED
        BY <4>2 DEF Long
    <3>3. QED
      BY <3>1, <3>2
  <2>3. (t[k].bullish = (-d = Long)) <=> (ps[k].bullish = (d = Long))
    <3>1. CASE d = Long
      BY <2>1, <2>2, <3>1
    <3>2. CASE d # Long
      BY <2>1, <2>2, <3>2
    <3>3. QED
      BY <3>1, <3>2
  <2>4. QED
    BY <2>3
<1>6. way = [k \in D |-> IF t[k].bullish = (-d = Long) THEN 1 ELSE -1]
  BY <1>5
<1>7. PatternConfirmation(d, ps) = Max({0, Quotient(Weighed(ps, way), MostWeight(ps))})
  BY <1>1 DEF PatternConfirmation
<1>8. PatternConfirmation(-d, t) = Max({0, Quotient(Weighed(t, way), MostWeight(t))})
  BY <1>3, <1>6 DEF PatternConfirmation
<1> HIDE DEF way
<1>9. Weighed(ps, way) = SumFunction(g)
  BY <1>1 DEF Weighed
<1>10. Weighed(t, way) = SumFunction(g)
  <2>1. g = [k \in D |-> way[k] * Strength(t[k]) * Multiplier[t[k].reliability]]
    BY <1>4
  <2>2. QED
    BY <1>3, <2>1 DEF Weighed
<1>11. MostWeight(ps) = IF ps = <<>> THEN 1 ELSE SumFunction(f)
  BY <1>1 DEF MostWeight
<1>12. MostWeight(t) = IF t = <<>> THEN 1 ELSE SumFunction(f)
  <2>1. f = [k \in D |-> Multiplier[t[k].reliability]]
    BY <1>4
  <2>2. QED
    BY <1>3, <2>1 DEF MostWeight
<1>13. ps = <<>> <=> t = <<>>
  BY <1>1, <1>2, <1>3, EmptySeq
<1>14. QED
  BY <1>7, <1>8, <1>9, <1>10, <1>11, <1>12, <1>13 DEF t

\* The macro score of the mirrored market.
Opposed(score) == IF score = NoScore THEN NoScore ELSE -score

LEMMA AlignmentMirrored ==
    ASSUME NEW d \in {Long, Short}, NEW score \in MacroScore
    PROVE  FundamentalAlignment(-d, Opposed(score)) = FundamentalAlignment(d, score)
<1> DEFINE o == Opposed(score)
<1>1. CASE score = NoScore
  <2>1. o = NoScore
    BY <1>1 DEF Opposed
  <2>2. QED
    BY <1>1, <2>1 DEF FundamentalAlignment
<1>2. CASE score # NoScore
  <2>1. score \in Int /\ score <= 1000
    <3> DEFINE most == 1000
    <3>1. score \in (-most)..most /\ most \in Int
      BY <1>2 DEF MacroScore
    <3> HIDE DEF most
    <3>2. score \in Int /\ score <= most
      BY <3>1
    <3>3. QED
      BY <3>2 DEF most
  <2>2. o = -score
    BY <1>2 DEF Opposed
  <2>3. NoScore = -999999
    BY DEF NoScore
  <2> HIDE DEF o
  <2>4. o \in Int /\ o # NoScore
    BY <2>1, <2>2, <2>3
  <2>5. FundamentalAlignment(d, score) = IF d = Long THEN 5 * (score + 1000) ELSE 5 * (1000 - score)
    BY <1>2 DEF FundamentalAlignment
  <2>6. FundamentalAlignment(-d, o) = IF -d = Long THEN 5 * (o + 1000) ELSE 5 * (1000 - o)
    BY <2>4 DEF FundamentalAlignment
  <2>7. 5 * (o + 1000) = 5 * (1000 - score) /\ 5 * (1000 - o) = 5 * (score + 1000)
    BY <2>1, <2>2
  <2>8. CASE d = Long
    <3>1. -d # Long
      BY <2>8 DEF Long
    <3>2. QED
      BY <2>5, <2>6, <2>7, <2>8, <3>1 DEF o
  <2>9. CASE d = Short
    <3>1. d \in Int /\ d + 1 = 0
      BY <2>9 DEF Short
    <3>2. -d = 1 /\ d # 1
      BY <3>1
    <3>3. -d = Long /\ d # Long
      BY <3>2 DEF Long
    <3>4. QED
      BY <2>5, <2>6, <2>7, <3>3 DEF o
  <2>10. QED
    BY <2>8, <2>9
<1>3. QED
  BY <1>1, <1>2

LEMMA ConfidenceMirrored ==
    ASSUME NEW d \in {Long, Short}, NEW n \in Nat, NEW ps \in Seq(Scored(n)), NEW c \in Int,
           NEW votes \in MarketVotes, NEW score \in MacroScore
    PROVE  CalculateConfidence(-d, Flip(votes), TurnedAll(ps, c), Opposed(score), NoValue)
                = CalculateConfidence(d, votes, ps, score, NoValue)
<1>1. TaAgreement(-d, Flip(votes)) = TaAgreement(d, votes)
  BY AgreementMirrored
<1>2. PatternConfirmation(-d, TurnedAll(ps, c)) = PatternConfirmation(d, ps)
  BY ConfirmationMirrored
<1>3. FundamentalAlignment(-d, Opposed(score)) = FundamentalAlignment(d, score)
  BY AlignmentMirrored
<1>4. QED
  BY <1>1, <1>2, <1>3 DEF CalculateConfidence

(***************************************************************************)
(* The mirrored strategies                                                 *)
(***************************************************************************)
TurnedBack(y, c) ==
    [k \in DOMAIN y |-> [y[k] EXCEPT !.entry = 2 * c - @, !.stop = 2 * c - @,
                                     !.tp1 = 2 * c - @, !.tp2 = 2 * c - @]]

At(q, a, b, e, f) == [q EXCEPT !.entry = a, !.stop = b, !.tp1 = e, !.tp2 = f]

LEMMA PricesReplaced ==
    ASSUME NEW confidence, NEW q \in Plan(confidence), NEW a, NEW b, NEW e, NEW f
    PROVE  At(q, a, b, e, f)
            = [entry |-> a, stop |-> b, tp1 |-> e, tp2 |-> f,
               confidence |-> q.confidence, ratio |-> q.ratio, ratio2 |-> q.ratio2]
<1> DEFINE r == At(q, a, b, e, f)
           D == {"entry", "stop", "tp1", "tp2", "confidence", "ratio", "ratio2"}
<1>1. DOMAIN q = D
  BY DEF Plan
<1>2. r = [x \in D |-> r[x]]
  BY <1>1 DEF At
<1>3. r.entry = a /\ r.stop = b /\ r.tp1 = e /\ r.tp2 = f
  BY <1>1 DEF At
<1>4. r.confidence = q.confidence /\ r.ratio = q.ratio /\ r.ratio2 = q.ratio2
  BY <1>1 DEF At
<1> HIDE DEF r
<1>5. r = [entry |-> a, stop |-> b, tp1 |-> e, tp2 |-> f,
           confidence |-> q.confidence, ratio |-> q.ratio, ratio2 |-> q.ratio2]
  BY <1>2, <1>3, <1>4
<1>6. QED
  BY <1>5 DEF r

LEMMA BackAgain ==
    ASSUME NEW confidence, NEW x, Plans(x, confidence), NEW y, Plans(y, confidence), NEW c \in Int, PlansFacing(y, x, c)
    PROVE  TurnedBack(y, c) = x
<1> DEFINE Back(s) == [s EXCEPT !.entry = 2 * c - @, !.stop = 2 * c - @, !.tp1 = 2 * c - @, !.tp2 = 2 * c - @]
           P == Plan(confidence)
<1>1. x \in Seq(P) /\ y \in Seq(P) /\ Len(y) = Len(x) /\ \A k \in 1..Len(x) : PlanFacing(y[k], x[k], c)
  BY DEF Plans, PlansFacing
<1>2. ASSUME NEW k \in 1..Len(x) PROVE x[k] = Back(y[k])
  <2> DEFINE p == x[k]
             q == y[k]
  <2>1. p \in P /\ q \in P /\ PlanFacing(q, p, c)
    BY <1>1
  <2> HIDE DEF p, q
  <2>2. /\ p.entry = 2 * c - q.entry /\ p.stop = 2 * c - q.stop
        /\ p.tp1 = 2 * c - q.tp1 /\ p.tp2 = 2 * c - q.tp2
        /\ p.confidence = q.confidence /\ p.ratio = q.ratio /\ p.ratio2 = q.ratio2
    <3>1. p.entry \in Int /\ p.stop \in Int /\ p.tp1 \in Int /\ p.tp2 \in Int
      BY <2>1 DEF Plan
    <3>2. QED
      BY <2>1, <3>1 DEF PlanFacing, Mirror
  <2>3. p = [entry |-> p.entry, stop |-> p.stop, tp1 |-> p.tp1, tp2 |-> p.tp2,
             confidence |-> p.confidence, ratio |-> p.ratio, ratio2 |-> p.ratio2]
    BY <2>1 DEF Plan
  <2>4. Back(q) = [entry |-> 2 * c - q.entry, stop |-> 2 * c - q.stop, tp1 |-> 2 * c - q.tp1, tp2 |-> 2 * c - q.tp2,
                   confidence |-> q.confidence, ratio |-> q.ratio, ratio2 |-> q.ratio2]
    <3> DEFINE a == 2 * c - q.entry
               b == 2 * c - q.stop
               e == 2 * c - q.tp1
               f == 2 * c - q.tp2
    <3>1. Back(q) = At(q, a, b, e, f)
      BY DEF At
    <3> HIDE DEF a, b, e, f, Back
    <3>2. At(q, a, b, e, f)
            = [entry |-> a, stop |-> b, tp1 |-> e, tp2 |-> f,
               confidence |-> q.confidence, ratio |-> q.ratio, ratio2 |-> q.ratio2]
      BY <2>1, PricesReplaced DEF P
    <3>3. QED
      BY <3>1, <3>2 DEF a, b, e, f
  <2>5. p = Back(q)
    <3> HIDE DEF Back
    <3>1. QED
      BY <2>2, <2>3, <2>4
  <2>6. QED
    BY <2>5 DEF p, q
<1> HIDE DEF P
<1>3. DOMAIN y = 1..Len(x) /\ x = [k \in 1..Len(x) |-> x[k]]
  BY <1>1
<1>4. x = [k \in DOMAIN y |-> Back(y[k])]
  <2> HIDE DEF Back
  <2>1. QED
    BY <1>2, <1>3
<1>5. QED
  BY <1>4 DEF TurnedBack

LEMMA StrategiesMirrored == MarketInv => StrategiesMirror
<1> SUFFICES ASSUME MarketInv, Done("market") PROVE StrategiesMirror
  BY DEF StrategiesMirror
<1> DEFINE d == decision.direction
           n == Len(history)
           S == Scored(n)
           c == Close(history)
           atr == Atr(history)
           t == TurnedAll(patterns, c)
           score == IF decision.fundamental = NoScore THEN NoScore ELSE -decision.fundamental
           confidence == CalculateConfidence(-d, Flip(decision.votes), t, score, NoValue)
           there == BuildStrategies(-d, c, atr, t, confidence)
<1>1. history \in Seq(CandleOk) /\ Len(history) >= 1 /\ patterns \in Seq(ScoredFound(history)) /\ Decided /\ Planned
  BY DEF MarketInv, Done
<1>2. c \in Int /\ atr \in Nat /\ n \in Nat
  <2>1. c \in Nat \ {0}
    BY <1>1, CloseIs
  <2>2. atr \in Nat
    BY <1>1, AtrIs
  <2>3. QED
    BY <1>1, <2>1, <2>2
<1>3. patterns \in Seq(S)
  <2>1. ScoredFound(history) \subseteq S
    BY DEF ScoredFound
  <2>2. QED
    BY <1>1, <2>1
<1>4. strategies = BuildStrategies(d, c, atr, patterns, Confidence)
  BY <1>1 DEF Planned
<1>5. d \in {Long, Short, NoDirection} /\ decision.votes \in MarketVotes /\ decision.fundamental \in MacroScore
  BY <1>1 DEF Decided, DetermineDirection
<1>6. StrategiesMirror <=> TurnedBack(there, c) = strategies
  BY DEF StrategiesMirror, TurnedAll, TurnedOne, TurnedBack, Mirror
<1>7. CASE d = NoDirection
  <2>1. -d = NoDirection
    <3>1. d \in Int /\ d <= 0 /\ 0 <= d
      BY <1>7 DEF NoDirection
    <3> HIDE DEF d
    <3>2. -d = 0
      BY <3>1
    <3>3. QED
      BY <3>2 DEF NoDirection
  <2>2. there = <<>> /\ strategies = <<>>
    BY <1>4, <1>7, <2>1 DEF BuildStrategies
  <2> HIDE DEF there
  <2>3. TurnedBack(there, c) = <<>>
    BY <2>2 DEF TurnedBack
  <2>4. QED
    BY <1>6, <2>2, <2>3
<1>8. CASE d \in {Long, Short}
  <2>1. confidence = Confidence
    <3>1. score = Opposed(decision.fundamental)
      BY DEF Opposed
    <3> HIDE DEF score
    <3>2. CalculateConfidence(-d, Flip(decision.votes), t, Opposed(decision.fundamental), NoValue)
            = CalculateConfidence(d, decision.votes, patterns, decision.fundamental, NoValue)
      <4> HIDE DEF c, n, d
      <4>1. QED
        BY <1>2, <1>3, <1>5, <1>8, ConfidenceMirrored
    <3>3. QED
      BY <3>1, <3>2 DEF Confidence
  <2> HIDE DEF confidence, d, c, n, atr, S, score
  <2>2. LET x == BuildStrategies(d, c, atr, patterns, confidence)
            y == BuildStrategies(-d, c, atr, t, confidence) IN
        Plans(x, confidence) /\ Plans(y, confidence) /\ PlansFacing(y, x, c)
    BY <1>2, <1>3, <1>8, BuildMirrored DEF S
  <2>3. Plans(strategies, confidence) /\ Plans(there, confidence) /\ PlansFacing(there, strategies, c)
    BY <1>4, <2>1, <2>2
  <2> HIDE DEF there
  <2>4. TurnedBack(there, c) = strategies
    BY <1>2, <2>3, BackAgain
  <2>5. QED
    BY <1>6, <2>4
<1>9. QED
  BY <1>5, <1>7, <1>8

\* Whatever the candles, the patterns, the votes and the macro score: long and
\* short, written out apart, give the same scenarios seen in the mirror.
THEOREM StrategiesMirrorHolds == Spec => []StrategiesMirror
<1>1. MarketInv /\ CandlestickInv => StrategiesMirror
  BY StrategiesMirrored
<1>2. QED
  BY <1>1, MarketInvHolds, PTL
=============================================================================
