------------------------ MODULE Subsequences_proofs ------------------------
(***************************************************************************)
(* Lemmas about Selected, for every list and every set of its indices.     *)
(***************************************************************************)
EXTENDS Subsequences, FiniteSetTheorems, FunctionTheorems, SequenceTheorems, TLAPS

\* f lists the m members of K, from the least to the greatest.
Enumerates(f, m, K) ==
  /\ f \in [1 .. m -> K]
  /\ \A i, j \in 1 .. m : i < j => f[i] < f[j]
  /\ \A k \in K : \E i \in 1 .. m : f[i] = k

\* The list read at the indices f.
ReadAt(list, f, m) == [i \in 1 .. m |-> list[f[i]]]

LEMMA IndicesFinite ==
  ASSUME NEW n \in Nat, NEW K \in SUBSET (1 .. n)
  PROVE  IsFiniteSet(K) /\ Cardinality(K) \in Nat /\ Cardinality(K) <= n /\ K \subseteq Int
<1>1. IsFiniteSet(1 .. n) /\ Cardinality(1 .. n) = n
  BY FS_Interval
<1>2. IsFiniteSet(K) /\ Cardinality(K) <= n
  BY <1>1, FS_Subset
<1>3. Cardinality(K) \in Nat
  BY <1>2, FS_CardinalityType
<1> QED
  BY <1>2, <1>3

\* A later index has more indices up to it.
LEMMA RanksGrow ==
  ASSUME NEW K, IsFiniteSet(K), K \subseteq Int, NEW i \in K, NEW j \in K, i < j
  PROVE  Cardinality(UpTo(K, i)) < Cardinality(UpTo(K, j))
<1>1. UpTo(K, j) \in SUBSET K
  BY DEF UpTo
<1>2. IsFiniteSet(UpTo(K, j))
  BY <1>1, FS_Subset
<1>3. UpTo(K, i) \in SUBSET UpTo(K, j)
  <2>1. ASSUME NEW k \in K, k <= i PROVE k <= j
    <3>1. k \in Int /\ i \in Int /\ j \in Int
      OBVIOUS
    <3> QED
      BY <2>1, <3>1
  <2> QED
    BY <2>1 DEF UpTo
<1>4. j \in UpTo(K, j) /\ j \notin UpTo(K, i)
  BY DEF UpTo
<1> QED
  BY <1>2, <1>3, <1>4, FS_Subset, FS_CardinalityType

\* Counting the indices up to each of them numbers them 1, 2, ...
LEMMA Ranks ==
  ASSUME NEW K, IsFiniteSet(K), K \subseteq Int
  PROVE  /\ \A i \in K : Cardinality(UpTo(K, i)) \in 1 .. Cardinality(K)
         /\ \A i, j \in K :
              Cardinality(UpTo(K, i)) = Cardinality(UpTo(K, j)) => i = j
         /\ \A n \in 1 .. Cardinality(K) :
              \E i \in K : Cardinality(UpTo(K, i)) = n
<1> DEFINE N == Cardinality(K)
           rank == [i \in K |-> Cardinality(UpTo(K, i))]
<1>1. N \in Nat
  BY FS_CardinalityType
<1>2. ASSUME NEW i \in K PROVE rank[i] \in 1 .. N
  <2>1. UpTo(K, i) \in SUBSET K /\ i \in UpTo(K, i)
    BY DEF UpTo
  <2>2. /\ IsFiniteSet(UpTo(K, i)) /\ Cardinality(UpTo(K, i)) <= N
        /\ Cardinality(UpTo(K, i)) \in Nat
    BY <2>1, FS_Subset, FS_CardinalityType
  <2>3. Cardinality(UpTo(K, i)) # 0
    BY <2>1, <2>2, FS_EmptySet
  <2> QED
    BY <1>1, <2>2, <2>3
<1>3. ASSUME NEW i \in K, NEW j \in K, rank[i] = rank[j] PROVE i = j
  <2>1. i < j \/ j < i \/ i = j
    OBVIOUS
  <2>2. i < j => rank[i] < rank[j]
    BY RanksGrow
  <2>3. j < i => rank[j] < rank[i]
    BY RanksGrow
  <2>4. rank[i] \in Int /\ rank[j] \in Int
    BY <1>1, <1>2
  <2> HIDE DEF rank
  <2> QED
    BY <1>3, <2>1, <2>2, <2>3, <2>4
<1>4. rank \in Injection(K, 1 .. N)
  <2>1. rank \in [K -> 1 .. N]
    <3>1. \A i \in K : Cardinality(UpTo(K, i)) \in 1 .. N
      BY <1>2
    <3> HIDE DEF N
    <3> QED
      BY <3>1
  <2>2. \A i, j \in K : rank[i] = rank[j] => i = j
    BY <1>3
  <2> HIDE DEF rank, N
  <2> QED
    BY <2>1, <2>2, Fun_IsInj
<1>5. \A n \in 1 .. N : \E i \in K : rank[i] = n
  <2>1. IsFiniteSet(1 .. N) /\ Cardinality(1 .. N) = N
    BY <1>1, FS_Interval
  <2> HIDE DEF rank
  <2>2. rank \in Surjection(K, 1 .. N)
    BY <1>4, <2>1, FS_Injection
  <2> QED
    BY <2>2 DEF Surjection
<1> QED
  BY <1>2, <1>3, <1>5

(***************************************************************************)
(* The selection reads the entries at the indices in their order, each of  *)
(* them once.                                                              *)
(***************************************************************************)
LEMMA SelectedIndices ==
  ASSUME NEW list, NEW n \in Nat, NEW K \in SUBSET (1 .. n)
  PROVE  LET m == Cardinality(K) IN
         /\ m \in Nat /\ m <= n
         /\ \E f : Enumerates(f, m, K) /\ Selected(list, K) = ReadAt(list, f, m)
<1> DEFINE m == Cardinality(K)
           rank == [i \in K |-> Cardinality(UpTo(K, i))]
           f == [i \in 1 .. m |-> CHOOSE k \in K : Cardinality(UpTo(K, k)) = i]
<1>1. IsFiniteSet(K) /\ m \in Nat /\ m <= n /\ K \subseteq Int
  BY IndicesFinite
<1>2. /\ \A i \in K : rank[i] \in 1 .. m
      /\ \A i, j \in K : rank[i] = rank[j] => i = j
      /\ \A i \in 1 .. m : \E k \in K : Cardinality(UpTo(K, k)) = i
  BY <1>1, Ranks
<1>3. \A i \in 1 .. m : f[i] \in K /\ rank[f[i]] = i
  <2> HIDE DEF m
  <2> QED
    BY <1>2
<1>4. Selected(list, K) = ReadAt(list, f, m)
  BY DEF Selected, ReadAt
<1>5. f \in [1 .. m -> K]
  <2> HIDE DEF m, rank
  <2> QED
    BY <1>3
<1>6. \A i, j \in K : i < j => rank[i] < rank[j]
  BY <1>1, RanksGrow
<1> HIDE DEF m, rank, f
<1>7. ASSUME NEW i \in 1 .. m, NEW j \in 1 .. m, i < j PROVE f[i] < f[j]
  <2>1. f[i] \in K /\ f[j] \in K /\ f[i] \in Int /\ f[j] \in Int
    BY <1>1, <1>5
  <2>2. rank[f[i]] = i /\ rank[f[j]] = j
    BY <1>3
  <2>3. f[i] # f[j]
    BY <1>7, <2>2
  <2>4. ~(f[j] < f[i])
    <3>1. SUFFICES ASSUME f[j] < f[i] PROVE FALSE
      OBVIOUS
    <3>2. j < i
      BY <1>6, <2>1, <2>2, <3>1
    <3> QED
      BY <1>1, <1>7, <3>2
  <2> QED
    BY <2>1, <2>3, <2>4
<1>8. ASSUME NEW k \in K PROVE \E i \in 1 .. m : f[i] = k
  <2>1. rank[k] \in 1 .. m
    BY <1>2
  <2>2. f[rank[k]] \in K /\ rank[f[rank[k]]] = rank[k]
    BY <1>3, <2>1
  <2> QED
    BY <1>2, <2>1, <2>2
<1>9. Enumerates(f, m, K)
  BY <1>5, <1>7, <1>8 DEF Enumerates
<1> QED
  BY <1>1, <1>4, <1>9 DEF m

\* Whatever lists the indices in their order gives the selection.
LEMMA SelectedIs ==
  ASSUME NEW list, NEW n \in Nat, NEW K \in SUBSET (1 .. n),
         NEW m \in Nat, NEW f, Enumerates(f, m, K)
  PROVE  m = Cardinality(K) /\ Selected(list, K) = ReadAt(list, f, m)
<1>1. IsFiniteSet(K) /\ K \subseteq Int
  BY IndicesFinite
<1>2. ASSUME NEW i \in 1 .. m, NEW j \in 1 .. m, f[i] = f[j] PROVE i = j
  <2>1. f[i] \in Int /\ f[j] \in Int
    BY <1>1 DEF Enumerates
  <2>2. ~(i < j) /\ ~(j < i)
    BY <1>2, <2>1 DEF Enumerates
  <2> QED
    BY <2>2
<1>3. ASSUME NEW i \in 0 .. m,
             NEW T, T = {k \in K : \E j \in 1 .. i : f[j] = k}
      PROVE  Cardinality(T) = i
  <2> DEFINE g == [j \in 1 .. i |-> f[j]]
  <2>1. g \in [1 .. i -> T]
    BY <1>3 DEF Enumerates
  <2>2. \A a, b \in 1 .. i : g[a] = g[b] => a = b
    BY <1>2
  <2>3. \A t \in T : \E a \in 1 .. i : g[a] = t
    BY <1>3
  <2> HIDE DEF g
  <2>4. g \in Bijection(1 .. i, T)
    BY <2>1, <2>2, <2>3, Fun_IsBij
  <2>5. ExistsBijection(1 .. i, T)
    BY <2>4 DEF ExistsBijection
  <2> QED
    BY <2>5, FS_CountingElements
<1>4. Cardinality(K) = m
  <2>1. K = {k \in K : \E j \in 1 .. m : f[j] = k}
    BY DEF Enumerates
  <2> QED
    BY <1>3, <2>1
<1>5. ASSUME NEW i \in 1 .. m PROVE Cardinality(UpTo(K, f[i])) = i
  <2>1. f[i] \in K
    BY DEF Enumerates
  <2>2. ASSUME NEW k \in K PROVE k <= f[i] <=> \E j \in 1 .. i : f[j] = k
    <3>1. PICK j \in 1 .. m : f[j] = k
      BY DEF Enumerates
    <3>2. f[j] \in Int /\ f[i] \in Int
      BY <1>1, <2>1, <3>1
    <3>3. CASE j <= i
      <4>1. j = i \/ f[j] < f[i]
        BY <3>3 DEF Enumerates
      <4> QED
        BY <3>1, <3>2, <3>3, <4>1
    <3>4. CASE i < j
      <4>1. f[i] < f[j]
        BY <3>4 DEF Enumerates
      <4>2. \A a \in 1 .. i : f[a] # k
        BY <1>2, <3>1, <3>4
      <4> QED
        BY <3>1, <3>2, <4>1, <4>2
    <3> QED
      BY <3>3, <3>4
  <2>3. UpTo(K, f[i]) = {k \in K : \E j \in 1 .. i : f[j] = k}
    BY <2>2 DEF UpTo
  <2> QED
    BY <1>3, <2>3
<1>6. ASSUME NEW i \in 1 .. m
      PROVE  (CHOOSE k \in K : Cardinality(UpTo(K, k)) = i) = f[i]
  <2>1. f[i] \in K /\ Cardinality(UpTo(K, f[i])) = i
    BY <1>5 DEF Enumerates
  <2>2. ASSUME NEW k \in K, Cardinality(UpTo(K, k)) = i PROVE k = f[i]
    <3>1. PICK j \in 1 .. m : f[j] = k
      BY DEF Enumerates
    <3> QED
      BY <1>5, <2>2, <3>1
  <2> QED
    BY <2>1, <2>2
<1>7. [i \in 1 .. m |-> list[CHOOSE k \in K : Cardinality(UpTo(K, k)) = i]]
        = [i \in 1 .. m |-> list[f[i]]]
  <2> DEFINE pick(i) == CHOOSE k \in K : Cardinality(UpTo(K, k)) = i
  <2>1. \A i \in 1 .. m : pick(i) = f[i]
    BY <1>6
  <2> HIDE DEF pick
  <2>2. [i \in 1 .. m |-> list[pick(i)]] = [i \in 1 .. m |-> list[f[i]]]
    BY <2>1
  <2> QED
    BY <2>2 DEF pick
<1> QED
  BY <1>4, <1>7 DEF Selected, ReadAt

LEMMA NothingSelected ==
  ASSUME NEW list
  PROVE  Selected(list, {}) = <<>>
<1>1. Cardinality({}) = 0
  BY FS_EmptySet
<1> QED
  BY <1>1 DEF Selected

\* Lists that agree at the indices agree on the selection.
LEMMA SelectedAgree ==
  ASSUME NEW p, NEW q, NEW n \in Nat, NEW K \in SUBSET (1 .. n),
         \A k \in K : p[k] = q[k]
  PROVE  Selected(p, K) = Selected(q, K)
<1> DEFINE m == Cardinality(K)
<1>1. m \in Nat
  BY IndicesFinite
<1>2. PICK f : Enumerates(f, m, K) /\ Selected(p, K) = ReadAt(p, f, m)
  BY SelectedIndices
<1> HIDE DEF m
<1>3. Selected(q, K) = ReadAt(q, f, m)
  BY <1>1, <1>2, SelectedIs
<1>4. \A i \in 1 .. m : f[i] \in K
  BY <1>2 DEF Enumerates
<1> QED
  BY <1>2, <1>3, <1>4 DEF ReadAt

(***************************************************************************)
(* The entry behind the list is selected last.                             *)
(***************************************************************************)
LEMMA SelectedNext ==
  ASSUME NEW list, NEW n \in Nat, NEW K \in SUBSET (1 .. n)
  PROVE  /\ Cardinality(K \cup {n + 1}) = Cardinality(K) + 1
         /\ Selected(list, K \cup {n + 1}) =
              [i \in 1 .. Cardinality(K) + 1 |->
                 IF i <= Cardinality(K) THEN Selected(list, K)[i] ELSE list[n + 1]]
<1> DEFINE m == Cardinality(K)
           L == K \cup {n + 1}
<1>1. m \in Nat
  BY IndicesFinite
<1>2. PICK f : Enumerates(f, m, K) /\ Selected(list, K) = ReadAt(list, f, m)
  BY SelectedIndices
<1> DEFINE g == [i \in 1 .. m + 1 |-> IF i <= m THEN f[i] ELSE n + 1]
<1> HIDE DEF m
<1>3. \A i \in 1 .. m : f[i] \in K /\ f[i] \in 1 .. n /\ g[i] = f[i]
  <2>1. \A i \in 1 .. m : f[i] \in K
    BY <1>2 DEF Enumerates
  <2>2. \A i \in 1 .. m : i \in 1 .. m + 1 /\ i <= m
    BY <1>1
  <2>3. \A i \in 1 .. m : g[i] = f[i]
    BY <2>2
  <2> HIDE DEF g
  <2> QED
    BY <2>1, <2>3
<1>4. g[m + 1] = n + 1 /\ \A i \in 1 .. m + 1 : i \in 1 .. m \/ i = m + 1
  BY <1>1
<1>5. g \in [1 .. m + 1 -> L]
  BY <1>3, <1>4
<1> HIDE DEF g
<1>6. ASSUME NEW i \in 1 .. m + 1, NEW j \in 1 .. m + 1, i < j PROVE g[i] < g[j]
  <2>1. i \in 1 .. m
    BY <1>1, <1>6
  <2>2. CASE j \in 1 .. m
    BY <1>2, <1>3, <1>6, <2>1, <2>2 DEF Enumerates
  <2>3. CASE j = m + 1
    <3>1. g[i] \in 1 .. n /\ g[j] = n + 1
      BY <1>3, <1>4, <2>1, <2>3
    <3> QED
      BY <3>1
  <2> QED
    BY <1>4, <2>2, <2>3
<1>7. ASSUME NEW k \in L PROVE \E i \in 1 .. m + 1 : g[i] = k
  <2>1. CASE k \in K
    <3>1. PICK i \in 1 .. m : f[i] = k
      BY <1>2, <2>1 DEF Enumerates
    <3>2. i \in 1 .. m + 1 /\ g[i] = k
      BY <1>1, <1>3, <3>1
    <3> QED
      BY <3>2
  <2>2. CASE k = n + 1
    <3>1. m + 1 \in 1 .. m + 1
      BY <1>1
    <3> QED
      BY <1>4, <2>2, <3>1
  <2> QED
    BY <2>1, <2>2
<1>8. Enumerates(g, m + 1, L)
  BY <1>5, <1>6, <1>7 DEF Enumerates
<1>9. L \in SUBSET (1 .. n + 1) /\ n + 1 \in Nat /\ m + 1 \in Nat
  BY <1>1
<1>10. m + 1 = Cardinality(L) /\ Selected(list, L) = ReadAt(list, g, m + 1)
  <2> HIDE DEF L
  <2> QED
    BY <1>8, <1>9, SelectedIs
<1>11. ASSUME NEW i \in 1 .. m + 1
       PROVE  list[g[i]] = IF i <= m THEN Selected(list, K)[i] ELSE list[n + 1]
  <2>1. CASE i \in 1 .. m
    BY <1>1, <1>2, <1>3, <2>1 DEF ReadAt
  <2>2. CASE i = m + 1
    BY <1>1, <1>4, <2>2
  <2> QED
    BY <1>4, <2>1, <2>2
<1> QED
  BY <1>10, <1>11 DEF m, ReadAt

\* The places of the members of T in a selection that reads f.
Places(f, m, T) == {j \in 1 .. m : f[j] \in T}

(***************************************************************************)
(* Selecting from a selection is selecting once.                           *)
(***************************************************************************)
LEMMA SelectedTwice ==
  ASSUME NEW list, NEW n \in Nat, NEW K \in SUBSET (1 .. n), NEW T \in SUBSET K,
         NEW f, Enumerates(f, Cardinality(K), K)
  PROVE  Selected(Selected(list, K), Places(f, Cardinality(K), T)) = Selected(list, T)
<1> DEFINE m == Cardinality(K)
           L == Places(f, m, T)
           s == Selected(list, K)
<1>1. m \in Nat
  BY IndicesFinite
<1>2. s = ReadAt(list, f, m)
  <2> HIDE DEF L
  <2> QED
    BY <1>1, SelectedIs
<1> HIDE DEF m, s
<1>3. L \in SUBSET (1 .. m)
  BY DEF Places
<1> DEFINE r == Cardinality(L)
<1> HIDE DEF L
<1>4. r \in Nat
  BY <1>1, <1>3, IndicesFinite
<1>5. PICK g : Enumerates(g, r, L) /\ Selected(s, L) = ReadAt(s, g, r)
  BY <1>1, <1>3, SelectedIndices
<1> HIDE DEF r
<1> DEFINE h == [i \in 1 .. r |-> f[g[i]]]
<1>6. \A i \in 1 .. r : g[i] \in L /\ g[i] \in 1 .. m /\ f[g[i]] \in T
  BY <1>5 DEF Enumerates, L, Places
<1>7. h \in [1 .. r -> T]
  BY <1>6
<1>8. ASSUME NEW i \in 1 .. r, NEW j \in 1 .. r, i < j PROVE h[i] < h[j]
  <2>1. g[i] < g[j]
    BY <1>5, <1>8 DEF Enumerates
  <2>2. f[g[i]] < f[g[j]]
    BY <1>6, <2>1 DEF Enumerates, m
  <2> QED
    BY <2>2
<1>9. ASSUME NEW t \in T PROVE \E i \in 1 .. r : h[i] = t
  <2>1. PICK j \in 1 .. m : f[j] = t
    BY DEF Enumerates, m
  <2>2. j \in L
    BY <2>1 DEF L, Places
  <2>3. PICK i \in 1 .. r : g[i] = j
    BY <1>5, <2>2 DEF Enumerates
  <2> QED
    BY <2>1, <2>3
<1>10. Enumerates(h, r, T)
  <2> HIDE DEF h
  <2> QED
    BY <1>7, <1>8, <1>9 DEF Enumerates
<1>11. Selected(list, T) = ReadAt(list, h, r)
  <2>1. T \in SUBSET (1 .. n)
    OBVIOUS
  <2> HIDE DEF h
  <2> QED
    BY <1>4, <1>10, <2>1, SelectedIs
<1>12. \A i \in 1 .. r : s[g[i]] = list[h[i]]
  BY <1>2, <1>6 DEF ReadAt
<1>13. Selected(s, L) = Selected(list, T)
  <2> HIDE DEF h
  <2> QED
    BY <1>5, <1>11, <1>12 DEF ReadAt
<1> QED
  BY <1>13 DEF s, L, m
=============================================================================
