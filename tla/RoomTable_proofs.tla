-------------------------- MODULE RoomTable_proofs --------------------------
(***************************************************************************)
(* Lemmas about the operators of RoomTable, for every table and list.      *)
(***************************************************************************)
EXTENDS RoomTable, Subsequences_proofs, FiniteSetTheorems, FunctionTheorems,
        SequenceTheorems, TLAPS

\* The indices kept by retain are finitely many and no more than the list has.
LEMMA KeptFinite ==
  ASSUME NEW S, NEW list \in Seq(S), NEW p
  PROVE  /\ Kept(list, p) \subseteq 1 .. Len(list)
         /\ IsFiniteSet(Kept(list, p))
         /\ Cardinality(Kept(list, p)) \in Nat
         /\ Cardinality(Kept(list, p)) <= Len(list)
<1>1. Len(list) \in Nat /\ DOMAIN list = 1 .. Len(list)
  BY LenProperties
<1>2. Kept(list, p) \subseteq 1 .. Len(list)
  BY <1>1 DEF Kept
<1>3. IsFiniteSet(1 .. Len(list)) /\ Cardinality(1 .. Len(list)) = Len(list)
  BY <1>1, FS_Interval
<1>. QED  BY <1>1, <1>2, <1>3, FS_Subset, FS_CardinalityType

(***************************************************************************)
(* The list retain leaves reads the kept entries of the old one in their   *)
(* order, each of them once.                                               *)
(***************************************************************************)
LEMMA RetainIndices ==
  ASSUME NEW S, NEW list \in Seq(S), NEW p
  PROVE  \E f \in [1 .. Len(Retain(list, p)) -> Kept(list, p)] :
           /\ \A n \in 1 .. Len(Retain(list, p)) : Retain(list, p)[n] = list[f[n]]
           /\ \A m, n \in 1 .. Len(Retain(list, p)) : m < n => f[m] < f[n]
           /\ \A i \in Kept(list, p) :
                \E n \in 1 .. Len(Retain(list, p)) : f[n] = i
<1>. DEFINE K == Kept(list, p)
            N == Cardinality(K)
<1>1. Len(list) \in Nat /\ K \in SUBSET (1 .. Len(list))
  BY KeptFinite, LenProperties
<1>2. N \in Nat
  BY KeptFinite
<1>. HIDE DEF K
<1>3. PICK f : Enumerates(f, N, K) /\ Selected(list, K) = ReadAt(list, f, N)
  BY <1>1, SelectedIndices
<1>4. Retain(list, p) = [n \in 1 .. N |-> list[f[n]]]
  BY <1>3 DEF Retain, K, ReadAt
<1>. HIDE DEF N
<1>5. Len(Retain(list, p)) = N
  BY <1>2, <1>4
<1>6. \E g \in [1 .. N -> K] :
         /\ \A n \in 1 .. N : Retain(list, p)[n] = list[g[n]]
         /\ \A m, n \in 1 .. N : m < n => g[m] < g[n]
         /\ \A i \in K : \E n \in 1 .. N : g[n] = i
  <2>1. f \in [1 .. N -> K]
    BY <1>3 DEF Enumerates
  <2>. WITNESS f \in [1 .. N -> K]
  <2>. QED  BY <1>3, <1>4 DEF Enumerates
<1>. QED  BY <1>5, <1>6 DEF K

(***************************************************************************)
(* What leave_room's retain makes of a list (room.rs line 73).             *)
(***************************************************************************)
LEMMA RetainProperties ==
  ASSUME NEW S, NEW list \in Seq(S), NEW p
  PROVE  /\ Retain(list, p) \in Seq(S)
         /\ Len(Retain(list, p)) <= Len(list)
         /\ Range(Retain(list, p)) = Range(list) \ {p}
         /\ NoDuplicates(list) => NoDuplicates(Retain(list, p))
<1>. DEFINE K == Kept(list, p)
            res == Retain(list, p)
            N == Len(res)
<1>1. /\ Cardinality(K) \in Nat /\ Cardinality(K) <= Len(list)
      /\ K \subseteq DOMAIN list /\ K \subseteq Int
  BY KeptFinite, LenProperties
<1>2. res = [n \in 1 .. Cardinality(K) |-> res[n]]
  BY DEF Retain, Selected
<1>. HIDE DEF res
<1>3. N = Cardinality(K) /\ DOMAIN res = 1 .. N /\ N \in Nat
  <2>. HIDE DEF K
  <2>. QED  BY <1>1, <1>2
<1>4. PICK f \in [1 .. N -> K] :
        /\ \A n \in 1 .. N : res[n] = list[f[n]]
        /\ \A m, n \in 1 .. N : m < n => f[m] < f[n]
        /\ \A i \in K : \E n \in 1 .. N : f[n] = i
  BY RetainIndices DEF res
<1>5. \A i \in K : list[i] \in S /\ list[i] # p
  BY <1>1, LenProperties, ElementOfSeq DEF Kept
<1>6. res \in Seq(S)
  <2>. HIDE DEF N, K
  <2>1. \A n \in 1 .. N : res[n] \in S
    BY <1>4, <1>5
  <2>2. res \in [1 .. N -> S]
    BY <1>2, <1>3, <2>1
  <2>. QED  BY <1>3, <2>2
<1>7. ASSUME NEW x \in Range(res)
      PROVE  x \in Range(list) \ {p}
  <2>1. PICK n \in 1 .. N : x = list[f[n]]
    BY <1>3, <1>4, <1>7 DEF Range
  <2>. QED  BY <1>1, <1>4, <1>5, <2>1 DEF Range
<1>8. ASSUME NEW x \in Range(list) \ {p}
      PROVE  x \in Range(res)
  <2>1. PICK i \in K : x = list[i]
    BY DEF Range, Kept
  <2>. QED  BY <1>3, <1>4, <2>1 DEF Range
<1>9. ASSUME NoDuplicates(list)
      PROVE  NoDuplicates(res)
  <2>. SUFFICES ASSUME NEW m \in 1 .. N, NEW n \in 1 .. N, res[m] = res[n]
                PROVE  m = n
    BY <1>3 DEF NoDuplicates
  <2>1. f[m] \in K /\ f[n] \in K /\ list[f[m]] = list[f[n]]
    BY <1>4
  <2>2. f[m] = f[n] /\ f[m] \in Int
    BY <1>1, <1>9, <2>1 DEF NoDuplicates
  <2>3. ~(m < n) /\ ~(n < m)
    BY <1>4, <2>2
  <2>. QED  BY <2>3
<1>. QED  BY <1>1, <1>3, <1>6, <1>7, <1>8, <1>9 DEF res

\* A list has no more members than entries.
LEMMA MembersCounted ==
  ASSUME NEW S, NEW list \in Seq(S)
  PROVE  IsFiniteSet(Range(list)) /\ Cardinality(Range(list)) <= Len(list)
<1>1. /\ IsFiniteSet(1 .. Len(list))
      /\ Cardinality(1 .. Len(list)) = Len(list)
  <2>1. Len(list) \in Nat
    BY LenProperties
  <2>. QED  BY <2>1, FS_Interval
<1>2. list \in Surjection(1 .. Len(list), Range(list))
  BY LenProperties DEF Surjection, Range
<1>. QED  BY <1>1, <1>2, FS_Surjection
-----------------------------------------------------------------------------
\* create_room: the new room holds its owner, the others are as they were.
LEMMA CreatedProperties ==
  ASSUME NEW t, t \in [DOMAIN t -> Seq(Participant)],
         NEW r, NEW p \in Participant
  PROVE  /\ DOMAIN Created(t, r, p) = DOMAIN t \cup {r}
         /\ Created(t, r, p) \in [DOMAIN t \cup {r} -> Seq(Participant)]
         /\ WellFormed(t) => WellFormed(Created(t, r, p))
<1>1. <<p>> \in Seq(Participant) /\ Len(<<p>>) = 1 /\ DOMAIN <<p>> = {1}
  OBVIOUS
<1>2. Range(<<p>>) = {p} /\ NoDuplicates(<<p>>)
  BY <1>1 DEF Range, NoDuplicates
<1>3. DOMAIN Created(t, r, p) = DOMAIN t \cup {r}
  BY DEF Created
<1>4. \A x \in DOMAIN t \cup {r} :
        Created(t, r, p)[x] = IF x = r THEN <<p>> ELSE t[x]
  BY DEF Created
<1>5. Created(t, r, p) \in [DOMAIN t \cup {r} -> Seq(Participant)]
  BY <1>1 DEF Created
<1>6. WellFormed(t) => WellFormed(Created(t, r, p))
  <2>. DEFINE alone == <<p>>
  <2>1. Len(alone) \in 1 .. MaxParticipants /\ NoDuplicates(alone)
    BY <1>1, <1>2, MaxParticipantsAssumption
  <2>2. \A x \in DOMAIN t \cup {r} :
          Created(t, r, p)[x] = IF x = r THEN alone ELSE t[x]
    BY <1>4
  <2>. HIDE DEF alone
  <2>. QED  BY <1>3, <2>1, <2>2 DEF WellFormed
<1>. QED  BY <1>3, <1>5, <1>6

LEMMA CreatedMembers ==
  ASSUME NEW t, t \in [DOMAIN t -> Seq(Participant)],
         NEW r, NEW p \in Participant, NEW x
  PROVE  MembersOf(Created(t, r, p), x) = IF x = r THEN {p} ELSE MembersOf(t, x)
<1>1. Range(<<p>>) = {p}
  BY DEF Range
<1>2. DOMAIN Created(t, r, p) = DOMAIN t \cup {r}
  BY DEF Created
<1>3. \A y \in DOMAIN t \cup {r} :
        Created(t, r, p)[y] = IF y = r THEN <<p>> ELSE t[y]
  BY DEF Created
<1>. QED  BY <1>1, <1>2, <1>3 DEF MembersOf, ListOf

\* Appending a newcomer adds it to the members and repeats nobody.
LEMMA AppendMember ==
  ASSUME NEW list \in Seq(Participant), NEW p \in Participant
  PROVE  /\ Append(list, p) \in Seq(Participant)
         /\ Len(Append(list, p)) = Len(list) + 1
         /\ Range(Append(list, p)) = Range(list) \cup {p}
         /\ NoDuplicates(list) /\ p \notin Range(list)
              => NoDuplicates(Append(list, p))
<1>1. /\ Append(list, p) \in Seq(Participant)
      /\ Len(Append(list, p)) = Len(list) + 1
      /\ \A i \in 1 .. Len(list) : Append(list, p)[i] = list[i]
      /\ Append(list, p)[Len(list) + 1] = p
  BY AppendProperties
<1>2. /\ DOMAIN list = 1 .. Len(list) /\ Len(list) \in Nat
      /\ DOMAIN Append(list, p) = 1 .. Len(list) + 1
  BY <1>1, LenProperties
<1>3. Range(Append(list, p)) = Range(list) \cup {p}
  BY <1>1, <1>2 DEF Range
<1>4. NoDuplicates(list) /\ p \notin Range(list) => NoDuplicates(Append(list, p))
  BY <1>1, <1>2 DEF Range, NoDuplicates
<1>. QED  BY <1>1, <1>3, <1>4

\* join_room, past the test for RoomFull.
LEMMA JoinedProperties ==
  ASSUME NEW t, t \in [DOMAIN t -> Seq(Participant)],
         NEW r \in DOMAIN t, NEW p \in Participant
  PROVE  /\ DOMAIN Joined(t, r, p) = DOMAIN t
         /\ Joined(t, r, p) \in [DOMAIN t -> Seq(Participant)]
         /\ WellFormed(t) /\ ~IsFull(t, r, p) => WellFormed(Joined(t, r, p))
         /\ \A x : MembersOf(Joined(t, r, p), x) =
                    IF x = r THEN MembersOf(t, r) \cup {p} ELSE MembersOf(t, x)
<1>1. CASE p \in Range(t[r])
  BY <1>1 DEF Joined, MembersOf, ListOf
<1>2. CASE p \notin Range(t[r])
  <2>1. Joined(t, r, p) = [t EXCEPT ![r] = Append(t[r], p)]
    BY <1>2 DEF Joined
  <2>2. t[r] \in Seq(Participant) /\ Len(t[r]) \in Nat
    BY LenProperties
  <2>3. Joined(t, r, p) \in [DOMAIN t -> Seq(Participant)]
    BY <2>1, <2>2, AppendMember
  <2>4. \A x \in DOMAIN t :
          Joined(t, r, p)[x] = IF x = r THEN Append(t[r], p) ELSE t[x]
    BY <2>1
  <2>5. ASSUME WellFormed(t), ~IsFull(t, r, p)
        PROVE  WellFormed(Joined(t, r, p))
    <3>1. Len(t[r]) \in 1 .. MaxParticipants /\ NoDuplicates(t[r])
      BY <2>5 DEF WellFormed
    <3>2. Len(t[r]) + 1 \in 1 .. MaxParticipants
      BY <1>2, <2>2, <2>5, <3>1, MaxParticipantsAssumption DEF IsFull
    <3>3. Len(Append(t[r], p)) \in 1 .. MaxParticipants /\ NoDuplicates(Append(t[r], p))
      BY <1>2, <2>2, <3>1, <3>2, AppendMember
    <3>. QED  BY <2>3, <2>4, <2>5, <3>3 DEF WellFormed
  <2>6. Range(Append(t[r], p)) = Range(t[r]) \cup {p}
    BY <2>2, AppendMember
  <2>7. \A x : MembersOf(Joined(t, r, p), x) =
               IF x = r THEN MembersOf(t, r) \cup {p} ELSE MembersOf(t, x)
    BY <2>3, <2>4, <2>6 DEF MembersOf, ListOf
  <2>. QED  BY <2>3, <2>5, <2>7
<1>. QED  BY <1>1, <1>2

\* leave_room: only p goes, and the room with it if p was alone.
LEMMA LeftProperties ==
  ASSUME NEW t, t \in [DOMAIN t -> Seq(Participant)],
         NEW r \in DOMAIN t, NEW p
  PROVE  /\ DOMAIN Left(t, r, p) \subseteq DOMAIN t
         /\ DOMAIN t \ {r} \subseteq DOMAIN Left(t, r, p)
         /\ Left(t, r, p) \in [DOMAIN Left(t, r, p) -> Seq(Participant)]
         /\ WellFormed(t) => WellFormed(Left(t, r, p))
         /\ \A x : MembersOf(Left(t, r, p), x) =
                    IF x = r THEN MembersOf(t, r) \ {p} ELSE MembersOf(t, x)
<1>. DEFINE rest == Retain(t[r], p)
<1>1. /\ t[r] \in Seq(Participant)
      /\ rest \in Seq(Participant)
      /\ Len(rest) \in Nat
      /\ Len(rest) <= Len(t[r])
      /\ Range(rest) = Range(t[r]) \ {p}
      /\ NoDuplicates(t[r]) => NoDuplicates(rest)
  BY RetainProperties, LenProperties
<1>2. CASE rest = <<>>
  <2>1. Left(t, r, p) = [x \in DOMAIN t \ {r} |-> t[x]]
    BY <1>2 DEF Left, Restrict
  <2>2. Range(t[r]) \ {p} = {}
    <3>1. DOMAIN rest = {}
      BY <1>2
    <3>. HIDE DEF rest
    <3>. QED  BY <1>1, <3>1 DEF Range
  <2>4. Range(<<>>) = {}
    BY DEF Range
  <2>3. \A x : MembersOf(Left(t, r, p), x) =
               IF x = r THEN MembersOf(t, r) \ {p} ELSE MembersOf(t, x)
    BY <2>1, <2>2, <2>4 DEF MembersOf, ListOf
  <2>. QED  BY <2>1, <2>3 DEF WellFormed
<1>3. CASE rest # <<>>
  <2>1. Left(t, r, p) = [t EXCEPT ![r] = rest]
    BY <1>3 DEF Left
  <2>2. Len(rest) # 0
    BY <1>1, <1>3, EmptySeq
  <2>3. WellFormed(t) => WellFormed(Left(t, r, p))
    <3>. HIDE DEF rest
    <3>1. WellFormed(t) => Len(rest) \in 1 .. MaxParticipants /\ NoDuplicates(rest)
      BY <1>1, <2>2, MaxParticipantsAssumption DEF WellFormed
    <3>. QED  BY <2>1, <3>1 DEF WellFormed
  <2>4. \A x : MembersOf(Left(t, r, p), x) =
               IF x = r THEN MembersOf(t, r) \ {p} ELSE MembersOf(t, x)
    <3>. HIDE DEF rest
    <3>. QED  BY <1>1, <2>1 DEF MembersOf, ListOf
  <2>. QED  BY <1>1, <2>1, <2>3, <2>4
<1>. QED  BY <1>2, <1>3
=============================================================================
