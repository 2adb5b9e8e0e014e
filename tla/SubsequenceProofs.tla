-------------------------- MODULE SubsequenceProofs --------------------------
(* What Subsequence returns: the chosen places of the list, each once and in   *)
(* their order, and the whole list when no place is dropped.                   *)
EXTENDS Subsequences, FiniteSetTheorems, SequenceTheorems, WellFoundedInduction,
        TLAPS

(* A set of naturals has a smallest one.                                      *)
LEMMA SmallestNat ==
  ASSUME NEW S \in SUBSET Nat, S # {}
  PROVE  \E i \in S : \A j \in S : i <= j
<1> DEFINE below == StrictSubsetOrdering(Nat)
           initials == {1..i : i \in S}
<1>1. \A i \in S : 1..i \in FiniteSubsetsOf(Nat)
  BY FS_Interval DEF FiniteSubsetsOf
<1>2. IsWellFoundedOn(below, FiniteSubsetsOf(Nat))
  BY FS_StrictSubsetOrderingWellFounded
<1>3. \A i, j \in S : j < i => <<1..j, 1..i>> \in below
  <2> SUFFICES ASSUME NEW i \in S, NEW j \in S, j < i
               PROVE  <<1..j, 1..i>> \in below
    OBVIOUS
  <2>1. 1..j \subseteq 1..i /\ i \in 1..i /\ i \notin 1..j
    OBVIOUS
  <2>2. 1..j \in SUBSET Nat /\ 1..i \in SUBSET Nat /\ 1..j # 1..i
    BY <2>1
  <2> QED BY <2>1, <2>2 DEF StrictSubsetOrdering
<1>4. initials \subseteq FiniteSubsetsOf(Nat) /\ initials # {}
  BY <1>1
<1> HIDE DEF below
<1>5. \E x \in initials : \A y \in initials : <<y, x>> \notin below
  <2> HIDE DEF initials
  <2> QED BY <1>2, <1>4, WFMin
<1>6. \E i \in S : \A j \in S : <<1..j, 1..i>> \notin below
  BY <1>5
<1> PICK i \in S : \A j \in S : <<1..j, 1..i>> \notin below
  BY <1>6
<1>7. \A j \in S : ~(j < i)
  BY <1>3
<1> QED BY <1>7

Increasing(f, m) == \A i, j \in 1..m : i < j => f[i] < f[j]

Orders(f, at) == f \in [1..Cardinality(at) -> at] /\ Increasing(f, Cardinality(at))

(* One more place, behind the others.                                         *)
LEMMA OrderExtends ==
  ASSUME NEW n \in Nat, NEW at \in SUBSET (1..n), NEW f, Orders(f, at)
  PROVE  \E g : Orders(g, at \cup {n + 1})
<1> DEFINE m == Cardinality(at)
           more == at \cup {n + 1}
           g == [i \in 1..m + 1 |-> IF i = m + 1 THEN n + 1 ELSE f[i]]
<1>1. IsFiniteSet(at) /\ m \in Nat
  <2>1. IsFiniteSet(1..n)
    BY FS_Interval
  <2>2. IsFiniteSet(at)
    BY <2>1, FS_Subset
  <2> QED BY <2>2, FS_CardinalityType
<1>2. n + 1 \notin at
  OBVIOUS
<1>3. Cardinality(more) = m + 1
  BY <1>1, <1>2, FS_AddElement
<1>4. \A i \in 1..m : f[i] \in at /\ f[i] < n + 1
  <2>1. f \in [1..m -> at]
    BY DEF Orders
  <2>2. \A p \in at : p < n + 1
    OBVIOUS
  <2> QED BY <2>1, <2>2
<1>5. g \in [1..m + 1 -> more]
  BY <1>1, <1>4
<1>6. \A i \in 1..m + 1 : g[i] = IF i = m + 1 THEN n + 1 ELSE f[i]
  OBVIOUS
<1>7. Increasing(f, m)
  BY DEF Orders
<1> HIDE DEF g, m
<1>8. Increasing(g, m + 1)
  <2> SUFFICES ASSUME NEW i \in 1..m + 1, NEW j \in 1..m + 1, i < j PROVE g[i] < g[j]
    BY DEF Increasing
  <2>1. i \in 1..m
    BY <1>1
  <2>2. CASE j = m + 1
    BY <1>1, <1>4, <1>6, <2>1, <2>2
  <2>3. CASE j \in 1..m
    BY <1>1, <1>6, <1>7, <2>1, <2>3 DEF Increasing
  <2> QED BY <1>1, <2>2, <2>3
<1> QED BY <1>3, <1>5, <1>8 DEF Orders

LEMMA OrderExists ==
  ASSUME NEW n \in Nat, NEW at \in SUBSET (1..n)
  PROVE  \E f : Orders(f, at)
<1> DEFINE bad == {k \in Nat : \E a \in SUBSET (1..k) : ~\E f : Orders(f, a)}
<1> SUFFICES ASSUME bad # {} PROVE FALSE
  OBVIOUS
<1>1. PICK k \in bad : \A j \in bad : k <= j
  BY SmallestNat
<1>2. PICK a \in SUBSET (1..k) : ~\E f : Orders(f, a)
  BY <1>1
<1>0. k \in Nat /\ \A j \in Nat : j < k => \A b \in SUBSET (1..j) : \E f : Orders(f, b)
  <2>1. \A j \in Nat : j < k => j \notin bad
    BY <1>1
  <2> QED BY <2>1
<1> HIDE DEF bad
<1>3. CASE k = 0
  <2>0. 1..0 = {}
    OBVIOUS
  <2>1. a = {} /\ Cardinality(a) = 0
    BY <1>3, <2>0, FS_EmptySet
  <2>2. Orders([i \in 1..0 |-> 0], a)
    BY <2>1 DEF Orders, Increasing
  <2> QED BY <1>2, <2>2
<1>4. CASE k # 0
  <2>1. k - 1 \in Nat /\ k - 1 < k
    BY <1>0, <1>4
  <2>2. \A b \in SUBSET (1..k - 1) : \E f : Orders(f, b)
    BY <1>0, <2>1
  <2>3. CASE k \notin a
    <3>1. a \in SUBSET (1..k - 1)
      BY <1>0, <2>1, <2>3
    <3> QED BY <1>2, <2>2, <3>1
  <2>4. CASE k \in a
    <3> DEFINE b == a \ {k}
    <3>1. b \in SUBSET (1..k - 1) /\ a = b \cup {k}
      BY <2>1, <2>4
    <3>2. PICK f : Orders(f, b)
      BY <2>2, <3>1
    <3> HIDE DEF b
    <3>3. \E g : Orders(g, b \cup {(k - 1) + 1})
      BY <2>1, <3>1, <3>2, OrderExtends
    <3>4. (k - 1) + 1 = k
      BY <1>0
    <3> QED BY <1>2, <3>1, <3>3, <3>4
  <2> QED BY <2>3, <2>4
<1> QED BY <1>3, <1>4

(* The places in order: all of them, each once.                               *)
LEMMA InOrderIs ==
  ASSUME NEW n \in Nat, NEW at \in SUBSET (1..n)
  PROVE  /\ Cardinality(at) \in 0..n
         /\ InOrder(at) \in [1..Cardinality(at) -> at]
         /\ \A i, j \in 1..Cardinality(at) : i < j => InOrder(at)[i] < InOrder(at)[j]
         /\ \A p \in at : \E i \in 1..Cardinality(at) : InOrder(at)[i] = p
<1> DEFINE m == Cardinality(at)
           f == InOrder(at)
<1>1. IsFiniteSet(at) /\ m \in 0..n
  <2>1. IsFiniteSet(1..n) /\ Cardinality(1..n) = n
    BY FS_Interval
  <2>2. IsFiniteSet(at) /\ m <= n
    BY <2>1, FS_Subset
  <2> QED BY <2>2, FS_CardinalityType
<1>2. f \in [1..m -> at] /\ \A i, j \in 1..m : i < j => f[i] < f[j]
  <2>1. \E g \in [1..m -> at] : \A i, j \in 1..m : i < j => g[i] < g[j]
    BY OrderExists DEF Orders, Increasing
  <2> QED BY <2>1 DEF InOrder
<1> HIDE DEF f
<1>3. f \in Injection(1..m, at)
  <2>1. \A i, j \in 1..m : f[i] = f[j] => i = j
    <3> SUFFICES ASSUME NEW i \in 1..m, NEW j \in 1..m, f[i] = f[j], i # j PROVE FALSE
      OBVIOUS
    <3>1. f[i] \in Nat /\ f[j] \in Nat
      <4>1. f[i] \in at /\ f[j] \in at
        BY <1>2
      <4>2. at \subseteq Nat
        OBVIOUS
      <4> QED BY <4>1, <4>2
    <3>2. i < j \/ j < i
      BY <1>1
    <3> QED BY <1>2, <3>1, <3>2
  <2> QED BY <1>2, <2>1 DEF Injection, IsInjective
<1>4. f \in Surjection(1..m, at)
  <2>1. Cardinality(1..m) = m
    BY <1>1, FS_Interval
  <2> QED BY <1>1, <1>3, <2>1, FS_Injection
<1>5. \A p \in at : \E i \in 1..m : f[i] = p
  BY <1>4 DEF Surjection
<1> QED BY <1>1, <1>2, <1>5 DEF f

LEMMA SubsequenceIs ==
  ASSUME NEW E, NEW s \in Seq(E), NEW at \in SUBSET DOMAIN s
  PROVE  /\ Cardinality(at) \in 0..Len(s)
         /\ Subsequence(s, at) \in Seq(E)
         /\ Len(Subsequence(s, at)) = Cardinality(at)
         /\ InOrder(at) \in [1..Cardinality(at) -> at]
         /\ \A n \in 1..Cardinality(at) : Subsequence(s, at)[n] = s[InOrder(at)[n]]
         /\ \A i, j \in 1..Cardinality(at) : i < j => InOrder(at)[i] < InOrder(at)[j]
         /\ \A p \in at : \E i \in 1..Cardinality(at) : InOrder(at)[i] = p
<1>1. Len(s) \in Nat /\ DOMAIN s = 1..Len(s) /\ \A i \in 1..Len(s) : s[i] \in E
  OBVIOUS
<1> DEFINE m == Cardinality(at)
           f == InOrder(at)
<1>2. /\ m \in 0..Len(s) /\ f \in [1..m -> at]
      /\ \A i, j \in 1..m : i < j => f[i] < f[j]
      /\ \A p \in at : \E i \in 1..m : f[i] = p
  BY <1>1, InOrderIs
<1>3. Subsequence(s, at) = [n \in 1..m |-> s[f[n]]]
  BY DEF Subsequence
<1> HIDE DEF m, f
<1>4. \A n \in 1..m : s[f[n]] \in E
  BY <1>1, <1>2
<1>5. [n \in 1..m |-> s[f[n]]] \in Seq(E) /\ Len([n \in 1..m |-> s[f[n]]]) = m
  BY <1>2, <1>4
<1> QED BY <1>2, <1>3, <1>5 DEF m, f

(* Nothing dropped, nothing changed.                                          *)
LEMMA WholeIsSame ==
  ASSUME NEW E, NEW s \in Seq(E)
  PROVE  Subsequence(s, DOMAIN s) = s
<1> DEFINE n == Len(s)
           f == InOrder(1..n)
<1>1. n \in Nat /\ DOMAIN s = 1..n
  OBVIOUS
<1>2. Cardinality(1..n) = n
  BY <1>1, FS_Interval
<1>3. f \in [1..n -> 1..n] /\ \A i, j \in 1..n : i < j => f[i] < f[j]
  BY <1>1, <1>2, InOrderIs
<1> HIDE DEF f
<1>4. \A i \in 1..n : f[i] >= i
  <2> DEFINE low == {i \in 1..n : f[i] < i}
  <2> SUFFICES ASSUME low # {} PROVE FALSE
    BY <1>1, <1>3
  <2>1. PICK i \in low : \A j \in low : i <= j
    <3>1. low \in SUBSET Nat
      OBVIOUS
    <3> HIDE DEF low
    <3> QED BY <3>1, SmallestNat
  <2>2. i \in 1..n /\ f[i] < i /\ f[i] \in 1..n
    BY <1>3, <2>1
  <2>3. i - 1 \in 1..n /\ i - 1 \notin low
    BY <1>1, <2>1, <2>2
  <2>4. f[i - 1] \in 1..n /\ f[i - 1] >= i - 1 /\ f[i - 1] < f[i]
    BY <1>1, <1>3, <2>2, <2>3
  <2> QED BY <2>2, <2>4
<1>5. \A i \in 1..n : f[i] <= i
  <2> DEFINE gap == {d \in 0..n : n - d \in 1..n /\ f[n - d] > n - d}
  <2> SUFFICES ASSUME NEW k \in 1..n, f[k] > k PROVE FALSE
    BY <1>1, <1>3
  <2>1. n - k \in gap
    <3>1. n - (n - k) = k /\ n - k \in 0..n
      BY <1>1
    <3> QED BY <3>1
  <2>2. PICK d \in gap : \A e \in gap : d <= e
    <3>1. gap \in SUBSET Nat
      BY <1>1
    <3>2. gap # {}
      BY <2>1
    <3> HIDE DEF gap
    <3> QED BY <3>1, <3>2, SmallestNat
  <2> DEFINE i == n - d
  <2>3. i \in 1..n /\ f[i] > i /\ f[i] \in 1..n /\ d \in 0..n
    BY <1>3, <2>2
  <2>4. i + 1 \in 1..n /\ d - 1 \in 0..n /\ n - (d - 1) = i + 1
    BY <1>1, <2>3
  <2>5. d - 1 \notin gap
    BY <1>1, <2>2, <2>3
  <2> HIDE DEF i
  <2>6. f[i + 1] \in 1..n
    BY <1>3, <2>4
  <2>7. f[i + 1] <= i + 1
    BY <1>1, <2>4, <2>5, <2>6
  <2>8. f[i] < f[i + 1]
    BY <1>1, <1>3, <2>3, <2>4
  <2> QED BY <1>1, <2>3, <2>6, <2>7, <2>8
<1>6. \A i \in 1..n : f[i] = i
  BY <1>1, <1>3, <1>4, <1>5
<1>7. Subsequence(s, DOMAIN s) = [i \in 1..n |-> s[f[i]]]
  BY <1>1, <1>2 DEF Subsequence, f
<1> QED BY <1>1, <1>6, <1>7

=============================================================================
