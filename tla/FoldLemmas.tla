------------------------------ MODULE FoldLemmas ------------------------------
(***************************************************************************)
(* What FoldLeft computes, for an operator Op that the instantiating       *)
(* module gives: the last of a series of results that starts with the base *)
(* and takes one element of the sequence at a time.  The community         *)
(* module's definition is a recursive function on the subsets of the       *)
(* sequence's domain; the lemmas speak of that function, because no prover *)
(* sees through FoldLeft(Op, ...) for an Op that is a parameter.           *)
(***************************************************************************)
EXTENDS WellFoundedInduction, Integers, TLAPS

CONSTANT Op(_, _)

LEMMA LeastExists ==
  ASSUME NEW S, S \subseteq Nat, S # {}
  PROVE  \E x \in S : \A y \in S : x <= y
<1>1. PICK R : R = OpToRel(<, Nat)
  OBVIOUS
<1>2. IsWellFoundedOn(R, Nat)
  BY <1>1, NatLessThanWellFounded
<1>3. PICK x \in S : \A y \in S : <<y, x>> \notin R
  BY <1>2, WFMin
<1>4. ASSUME NEW y \in S PROVE x <= y
  <2>1. x \in Nat /\ y \in Nat
    OBVIOUS
  <2>2. ~(y < x)
    BY <1>1, <1>3, <2>1 DEF OpToRel
  <2> QED
    BY <2>1, <2>2
<1> QED
  BY <1>4

LEMMA IndexInduction ==
  ASSUME NEW n \in Nat, NEW S, 0 \in S, \A k \in 1 .. n : k - 1 \in S => k \in S
  PROVE  \A k \in 0 .. n : k \in S
<1> SUFFICES ASSUME NEW m \in 0 .. n, m \notin S PROVE FALSE
  OBVIOUS
<1> DEFINE T == {k \in 0 .. n : k \notin S}
<1>1. T \subseteq Nat /\ T # {}
  OBVIOUS
<1>2. PICK k \in T : \A j \in T : k <= j
  <2> HIDE DEF T
  <2> QED
    BY <1>1, LeastExists
<1>3. k \in 1 .. n /\ k - 1 \in 0 .. n
  BY <1>2
<1>4. k - 1 \in S
  BY <1>2, <1>3
<1> QED
  BY <1>2, <1>3, <1>4

\* The index the community module takes next.
Top(S) == CHOOSE x \in S : \A y \in S : x >= y

\* The recursive function, over the sets of the first n indices, exists.
IsFold(g, n, base, q) ==
  g = [s \in SUBSET (1 .. n) |->
         IF s = {} THEN base ELSE Op(g[s \ {Top(s)}], q[Top(s)])]

LEMMA MaxIsGreatest ==
  ASSUME NEW S, S \subseteq Nat, NEW x \in S, \A y \in S : y <= x
  PROVE  Top(S) = x
<1>1. Top(S) \in S /\ \A y \in S : Top(S) >= y
  BY DEF Top
<1>2. Top(S) >= x /\ x >= Top(S) /\ x \in Nat /\ Top(S) \in Nat
  BY <1>1
<1> QED
  BY <1>2

LEMMA FoldExists ==
  ASSUME NEW n \in Nat, NEW base, NEW q
  PROVE  \E g : IsFold(g, n, base, q)
<1> DEFINE S == {k \in 0 .. n : \E g : IsFold(g, k, base, q)}
<1>1. 0 \in S
  <2>1. IsFold([s \in SUBSET (1 .. 0) |-> base], 0, base, q)
    <3>1. \A s \in SUBSET (1 .. 0) : s = {}
      OBVIOUS
    <3> QED
      BY <3>1 DEF IsFold
  <2> QED
    BY <2>1
<1>2. ASSUME NEW k \in 1 .. n, k - 1 \in S
      PROVE  k \in S
  <2>1. PICK f : IsFold(f, k - 1, base, q)
    BY <1>2
  <2> DEFINE g == [s \in SUBSET (1 .. k) |->
                     IF k \in s THEN Op(f[s \ {k}], q[k]) ELSE f[s]]
  <2>2. ASSUME NEW s \in SUBSET (1 .. k)
        PROVE  g[s] = IF s = {} THEN base ELSE Op(g[s \ {Top(s)}], q[Top(s)])
    <3>1. CASE k \in s
      <4>1. Top(s) = k
        <5>1. s \subseteq Nat /\ \A y \in s : y <= k
          OBVIOUS
        <5> QED
          BY <3>1, <5>1, MaxIsGreatest
      <4>2. s \ {k} \in SUBSET (1 .. k) /\ k \notin s \ {k}
        OBVIOUS
      <4>3. g[s \ {k}] = f[s \ {k}]
        BY <4>2
      <4>4. g[s] = Op(f[s \ {k}], q[k])
        BY <3>1
      <4> HIDE DEF g
      <4> QED
        BY <3>1, <4>1, <4>3, <4>4
    <3>2. CASE k \notin s
      <4>1. s \in SUBSET (1 .. k - 1)
        BY <3>2
      <4>2. g[s] = f[s]
        BY <3>2
      <4>3. f[s] = IF s = {} THEN base ELSE Op(f[s \ {Top(s)}], q[Top(s)])
        BY <2>1, <4>1 DEF IsFold
      <4>4. g[s \ {Top(s)}] = f[s \ {Top(s)}]
        BY <3>2
      <4> HIDE DEF g
      <4> QED
        BY <4>2, <4>3, <4>4
    <3> QED
      BY <3>1, <3>2
  <2>3. g = [s \in SUBSET (1 .. k) |-> g[s]]
    OBVIOUS
  <2> HIDE DEF g
  <2>4. IsFold(g, k, base, q)
    BY <2>2, <2>3 DEF IsFold
  <2> QED
    BY <2>4
<1>3. n \in S
  <2> HIDE DEF S
  <2> QED
    BY <1>1, <1>2, IndexInduction
<1> QED
  BY <1>3

(***************************************************************************)
(* FoldLeft(Op, base, q) is the last of these results.                     *)
(***************************************************************************)
\* The series of results.
IsSeries(h, n, base, q) ==
  /\ DOMAIN h = 0 .. n
  /\ h[0] = base
  /\ \A k \in 1 .. n : h[k] = Op(h[k - 1], q[k])

LEMMA FoldSteps ==
  ASSUME NEW n \in Nat, NEW base, NEW q, NEW f, IsFold(f, n, base, q)
  PROVE  \E h : IsSeries(h, n, base, q) /\ h[n] = f[1 .. n]
<1> DEFINE h == [k \in 0 .. n |-> f[1 .. k]]
<1>1. h[0] = base
  <2>1. 1 .. 0 = {} /\ {} \in SUBSET (1 .. n)
    OBVIOUS
  <2>2. f[{}] = base
    BY <2>1 DEF IsFold
  <2> QED
    BY <2>1, <2>2
<1>2. ASSUME NEW k \in 1 .. n
      PROVE  h[k] = Op(h[k - 1], q[k])
  <2>1. k \in 1 .. k /\ 1 .. k \in SUBSET (1 .. n) /\ 1 .. k # {}
    OBVIOUS
  <2>2. Top(1 .. k) = k
    <3>1. 1 .. k \subseteq Nat /\ \A y \in 1 .. k : y <= k
      OBVIOUS
    <3> QED
      BY <2>1, <3>1, MaxIsGreatest
  <2>3. (1 .. k) \ {k} = 1 .. k - 1
    OBVIOUS
  <2>4. f[1 .. k] = Op(f[(1 .. k) \ {Top(1 .. k)}], q[Top(1 .. k)])
    BY <2>1 DEF IsFold
  <2>5. h[k] = f[1 .. k] /\ h[k - 1] = f[1 .. k - 1]
    OBVIOUS
  <2> HIDE DEF h
  <2> QED
    BY <2>2, <2>3, <2>4, <2>5
<1>3. DOMAIN h = 0 .. n /\ h[n] = f[1 .. n]
  OBVIOUS
<1>4. \A k \in 1 .. n : h[k] = Op(h[k - 1], q[k])
  BY <1>2
<1> HIDE DEF h
<1> QED
  BY <1>1, <1>3, <1>4 DEF IsSeries
(***************************************************************************)
(* A series is determined by its base and its sequence.                    *)
(***************************************************************************)
LEMMA SeriesAgree ==
  ASSUME NEW n \in Nat, NEW base, NEW q, NEW g, NEW h,
         IsSeries(g, n, base, q), IsSeries(h, n, base, q)
  PROVE  g[n] = h[n]
<1> DEFINE S == {k \in 0 .. n : g[k] = h[k]}
<1>1. 0 \in S
  BY DEF IsSeries
<1>2. \A k \in 1 .. n : k - 1 \in S => k \in S
  BY DEF IsSeries
<1>3. n \in S
  <2> HIDE DEF S
  <2> QED
    BY <1>1, <1>2, IndexInduction
<1> QED
  BY <1>3

(***************************************************************************)
(* A series over one sequence, and one over another that starts where the  *)
(* first ends, make a series over both.                                    *)
(***************************************************************************)
IsConcat(r, p, n, q, m) ==
  /\ \A k \in 1 .. n : r[k] = p[k]
  /\ \A k \in 1 .. m : r[n + k] = q[k]

LEMMA SeriesJoin ==
  ASSUME NEW n \in Nat, NEW m \in Nat, NEW base, NEW p, NEW q, NEW r, NEW g, NEW h,
         IsSeries(g, n, base, p), IsSeries(h, m, g[n], q),
         IsConcat(r, p, n, q, m)
  PROVE  \E f : IsSeries(f, n + m, base, r) /\ f[n + m] = h[m]
<1> DEFINE f == [k \in 0 .. n + m |-> IF k <= n THEN g[k] ELSE h[k - n]]
<1>1. DOMAIN f = 0 .. n + m /\ f[0] = base
  BY DEF IsSeries
<1>2. \A k \in 0 .. n : f[k] = g[k]
  OBVIOUS
<1>3. \A k \in 0 .. m : f[n + k] = h[k]
  <2> SUFFICES ASSUME NEW k \in 0 .. m PROVE f[n + k] = h[k]
    OBVIOUS
  <2>1. CASE k = 0
    BY <1>2, <2>1 DEF IsSeries
  <2>2. CASE k # 0
    <3>1. n + k \in 0 .. n + m /\ ~(n + k <= n) /\ n + k - n = k
      BY <2>2
    <3> QED
      BY <3>1
  <2> QED
    BY <2>1, <2>2
<1> HIDE DEF f
<1>4. ASSUME NEW k \in 1 .. n + m
      PROVE  f[k] = Op(f[k - 1], r[k])
  <2>1. CASE k <= n
    <3>1. k \in 1 .. n /\ k - 1 \in 0 .. n /\ k \in 0 .. n
      BY <2>1
    <3>2. g[k] = Op(g[k - 1], p[k]) /\ r[k] = p[k]
      BY <3>1 DEF IsSeries, IsConcat
    <3> QED
      BY <1>2, <3>1, <3>2
  <2>2. CASE ~(k <= n)
    <3>1. PICK j \in 1 .. m : k = n + j
      <4>1. k - n \in 1 .. m /\ k = n + (k - n)
        BY <2>2
      <4> QED
        BY <4>1
    <3>2. j \in 0 .. m /\ j - 1 \in 0 .. m /\ k - 1 = n + (j - 1)
      BY <3>1
    <3>3. h[j] = Op(h[j - 1], q[j]) /\ r[k] = q[j]
      BY <3>1 DEF IsSeries, IsConcat
    <3>4. f[k] = h[j] /\ f[k - 1] = h[j - 1]
      BY <1>3, <3>1, <3>2
    <3> QED
      BY <3>3, <3>4
  <2> QED
    BY <2>1, <2>2
<1>5. IsSeries(f, n + m, base, r)
  BY <1>1, <1>4 DEF IsSeries
<1>6. f[n + m] = h[m]
  BY <1>3
<1> QED
  BY <1>5, <1>6
============================================================================
