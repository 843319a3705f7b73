------------------------- MODULE InPlaceHashMap_proofs -------------------------
(***************************************************************************)
(* Proofs about InPlaceHashMap, for any keys, hash function, number of     *)
(* buckets and loaded array, and for both copies of the code.              *)
(***************************************************************************)
EXTENDS InPlaceHashMap, FiniteSetTheorems, WellFoundedInduction, TLAPS

-------------------------------------------------------------------------------
(* Counting the entries of the loaded array.                                *)

LEMMA BucketType ==
  ASSUME NEW e \in Entries
  PROVE  BucketOf(e) \in Buckets
BY HashAssumption DEF BucketOf, Entries

LEMMA Counts ==
  ASSUME size \in Nat, loaded \in [Pos -> Entries]
  PROVE  /\ IsFiniteSet(Pos) /\ Cardinality(Pos) = size
         /\ \A S \in SUBSET Pos : /\ IsFiniteSet(S) /\ Cardinality(S) \in Nat
                                  /\ Cardinality(S) <= size
<1>1. IsFiniteSet(Pos) /\ Cardinality(Pos) = size
  BY FS_Interval, 0 \in Int, size - 1 \in Int DEF Pos
<1>2. ASSUME NEW S \in SUBSET Pos
      PROVE  /\ IsFiniteSet(S) /\ Cardinality(S) \in Nat
             /\ Cardinality(S) <= size
  BY <1>1, FS_Subset, FS_CardinalityType
<1>. QED
  BY <1>1, <1>2

\* The first position of a bucket is the one of the bucket before plus its
\* number of entries.
LEMMA BelowNext ==
  ASSUME size \in Nat, loaded \in [Pos -> Entries], NEW h \in Int
  PROVE  Cardinality(Below(h + 1)) = Cardinality(Below(h)) + Cardinality(Members(h))
<1>1. \A j \in Pos : BucketOf(loaded[j]) \in Int
  BY BucketType, HashSizeAssumption DEF Buckets
<1>2. Below(h + 1) = Below(h) \union Members(h)
  BY <1>1 DEF Below, Members
<1>3. Below(h) \intersect Members(h) = {}
  BY <1>1 DEF Below, Members
<1>4. Below(h) \in SUBSET Pos /\ Members(h) \in SUBSET Pos
  BY DEF Below, Members
<1>5. Cardinality(Below(h + 1)) =
        Cardinality(Below(h)) + Cardinality(Members(h)) - Cardinality({})
  <2>1. IsFiniteSet(Below(h)) /\ IsFiniteSet(Members(h))
    BY <1>4, Counts
  <2>2. Cardinality(Below(h) \union Members(h)) =
          Cardinality(Below(h)) + Cardinality(Members(h))
            - Cardinality(Below(h) \intersect Members(h))
    BY <2>1, FS_Union
  <2>. QED
    BY <2>2, <1>2, <1>3, Zenon
<1>6. Cardinality({}) = 0
  BY FS_EmptySet
<1>7. Cardinality(Below(h)) \in Nat /\ Cardinality(Members(h)) \in Nat
  BY <1>4, Counts
<1>. QED
  BY <1>5, <1>6, <1>7

LEMMA BelowMonotonic ==
  ASSUME size \in Nat, loaded \in [Pos -> Entries],
         NEW g \in Int, NEW h \in Int, g <= h
  PROVE  Cardinality(Below(g)) <= Cardinality(Below(h))
<1>1. \A j \in Pos : BucketOf(loaded[j]) \in Int
  BY BucketType, HashSizeAssumption DEF Buckets
<1>2. Below(g) \in SUBSET Below(h) /\ Below(h) \in SUBSET Pos
  BY <1>1 DEF Below
<1>. QED
  BY <1>2, Counts, FS_Subset

LEMMA BelowEnds ==
  ASSUME size \in Nat, loaded \in [Pos -> Entries]
  PROVE  /\ Cardinality(Below(0)) = 0
         /\ Cardinality(Below(HashSize)) = size
<1>1. \A j \in Pos : BucketOf(loaded[j]) \in 0 .. HashSize - 1
  BY BucketType DEF Buckets
<1>2. Below(0) = {} /\ Below(HashSize) = Pos
  BY <1>1, HashSizeAssumption DEF Below
<1>. QED
  BY <1>2, Counts, FS_EmptySet

LEMMA NoneBeyond ==
  ASSUME size \in Nat, loaded \in [Pos -> Entries]
  PROVE  Cardinality(Members(HashSize)) = 0
<1>1. \A j \in Pos : BucketOf(loaded[j]) \in 0 .. HashSize - 1
  BY BucketType DEF Buckets
<1>2. Members(HashSize) = {}
  BY <1>1, HashSizeAssumption DEF Members
<1>. QED
  BY <1>2, FS_EmptySet

\* Swaps do not add entries to a bucket.
LEMMA TableMembers ==
  ASSUME TypeOK, Permutation, NEW h \in Buckets
  PROVE  LET S == {j \in Pos : BucketOf(table[j]) = h}
         IN  IsFiniteSet(S) /\ Cardinality(S) <= Cardinality(Members(h))
<1> DEFINE S == {j \in Pos : BucketOf(table[j]) = h}
<1>1. size \in Nat /\ loaded \in [Pos -> Entries]
  BY SizesAssumption DEF TypeOK
<1>2. PICK p \in [Pos -> Pos] : /\ \A j, k \in Pos : p[j] = p[k] => j = k
                                /\ \A j \in Pos : table[j] = loaded[p[j]]
  BY DEF Permutation
<1> DEFINE f == [j \in S |-> p[j]]
<1>3. f \in Injection(S, Members(h))
  BY <1>2 DEF Injection, IsInjective, Members
<1>4. IsFiniteSet(Members(h))
  BY <1>1, Counts DEF Members
<1> HIDE DEF f, S
<1>5. IsFiniteSet(S) /\ Cardinality(S) <= Cardinality(Members(h))
  BY <1>3, <1>4, FS_Injection
<1>. QED
  BY <1>5 DEF S

-------------------------------------------------------------------------------
(* The bounds of the buckets, once the counts are summed.                   *)

Summed == \A h \in Slots : indexes[h] = Cardinality(Below(h))

LEMMA Bounds ==
  ASSUME TypeOK, Summed, NEW h \in Buckets
  PROVE  /\ h \in Slots
         /\ indexes[h] = Cardinality(Below(h))
         /\ EndOf(h) = Cardinality(Below(h + 1))
         /\ EndOf(h) = indexes[h] + Cardinality(Members(h))
         /\ indexes[h] \in Nat /\ EndOf(h) \in Nat
         /\ Cardinality(Members(h)) \in Nat
         /\ EndOf(h) <= size
<1>1. size \in Nat /\ loaded \in [Pos -> Entries] /\ indexes \in [Slots -> Nat]
  BY SizesAssumption DEF TypeOK
<1>2. \A g \in Slots : indexes[g] = Cardinality(Below(g))
  BY DEF Summed
<1>3. h \in Slots /\ h \in Int /\ h + 1 <= HashSize
  BY HashSizeAssumption DEF Slots, Buckets
<1>4. EndOf(h) = Cardinality(Below(h + 1))
  <2>1. CASE copy = "std" /\ h = HashSize - 1
    BY <2>1, <1>1, BelowEnds, HashSizeAssumption DEF EndOf
  <2>2. CASE ~ (copy = "std" /\ h = HashSize - 1)
    <3>1. h + 1 \in Slots
      BY <2>2, HashSizeAssumption DEF Slots, Buckets
    <3>. QED
      BY <3>1, <2>2, <1>2 DEF EndOf
  <2>. QED
    BY <2>1, <2>2
<1>5. Cardinality(Below(h + 1)) = Cardinality(Below(h)) + Cardinality(Members(h))
  BY <1>1, <1>3, BelowNext
<1>6. /\ Cardinality(Below(h)) \in Nat /\ Cardinality(Members(h)) \in Nat
      /\ Cardinality(Below(h + 1)) \in Nat /\ Cardinality(Below(h + 1)) <= size
  BY <1>1, Counts DEF Below, Members
<1>. QED
  BY <1>1, <1>2, <1>3, <1>4, <1>5, <1>6

\* Buckets do not overlap.
LEMMA Apart ==
  ASSUME TypeOK, Summed, NEW g \in Buckets, NEW h \in Buckets, g < h
  PROVE  EndOf(g) <= indexes[h]
<1>1. size \in Nat /\ loaded \in [Pos -> Entries]
  BY SizesAssumption DEF TypeOK
<1>2. g + 1 \in Int /\ h \in Int /\ g + 1 <= h
  BY HashSizeAssumption DEF Buckets
<1>3. Cardinality(Below(g + 1)) <= Cardinality(Below(h))
  BY <1>1, <1>2, BelowMonotonic
<1>. QED
  BY <1>3, Bounds

\* A bucket that has an entry which is not among the claimed ones is not full.
LEMMA RoomLeft ==
  ASSUME TypeOK, Permutation, PlaceInv, pc \in {"place", "done"},
         NEW k \in Pos, NEW h \in Buckets, h = BucketOf(table[k]),
         ~ (indexes[h] <= k /\ k < ends[h])
  PROVE  ends[h] < EndOf(h)
<1> DEFINE S == {j \in Pos : BucketOf(table[j]) = h}
           C == indexes[h] .. ends[h] - 1
<1>1. /\ h \in Slots /\ EndOf(h) = indexes[h] + Cardinality(Members(h))
      /\ indexes[h] \in Nat /\ Cardinality(Members(h)) \in Nat /\ EndOf(h) <= size
  BY Bounds DEF PlaceInv, Summed
<1>2. ends[h] \in Nat /\ size \in Nat
  BY <1>1, SizesAssumption DEF TypeOK
<1>3. /\ indexes[h] <= ends[h] /\ ends[h] <= EndOf(h)
      /\ \A j \in C : BucketOf(table[j]) = h
  BY DEF PlaceInv
<1>4. C \union {k} \in SUBSET S
  BY <1>1, <1>2, <1>3 DEF Pos
<1>5. k \notin C
  BY <1>1, <1>2 DEF Pos
<1>6. IsFiniteSet(S) /\ Cardinality(S) <= Cardinality(Members(h))
  BY TableMembers
<1>7. IsFiniteSet(C) /\ Cardinality(C) = ends[h] - indexes[h]
  <2>1. indexes[h] \in Int /\ ends[h] - 1 \in Int
    BY <1>1, <1>2
  <2>2. /\ IsFiniteSet(C)
        /\ Cardinality(C) = IF indexes[h] > ends[h] - 1 THEN 0
                            ELSE (ends[h] - 1) - indexes[h] + 1
    BY <2>1, FS_Interval
  <2>. QED
    BY <2>2, <1>1, <1>2, <1>3, SMTT(30)
<1>8. Cardinality(C \union {k}) = ends[h] - indexes[h] + 1
  <2> HIDE DEF C
  <2>1. Cardinality(C \union {k}) = Cardinality(C) + 1
    BY <1>5, <1>7, FS_AddElement
  <2>. QED
    BY <2>1, <1>7
<1>9. Cardinality(C \union {k}) <= Cardinality(S)
  BY <1>4, <1>6, FS_Subset
<1>10. Cardinality(S) \in Nat
  BY <1>6, FS_CardinalityType
<1> HIDE DEF S, C
<1>. QED
  BY <1>1, <1>2, <1>6, <1>8, <1>9, <1>10

\* What a swap does, before we know that it keeps the invariant.
LEMMA PlaceTarget ==
  ASSUME MapInv, Place
  PROVE  LET h == BucketOf(table[i])
         IN  /\ i \in Pos /\ h \in Buckets /\ h \in Slots /\ Summed
             /\ indexes[h] <= ends[h] /\ ends[h] < EndOf(h)
             /\ ends[h] \in Pos
             /\ ~ (indexes[h] <= i /\ i < ends[h])
<1> DEFINE h == BucketOf(table[i])
<1>1. size \in Nat /\ i \in Pos
  BY SizesAssumption DEF MapInv, TypeOK, Place, Pos
<1>2. h \in Buckets
  BY <1>1, BucketType DEF MapInv, TypeOK
<1>3. Summed /\ indexes[h] <= ends[h] /\ pc \in {"place", "done"}
  BY <1>2 DEF MapInv, PlaceInv, Place, Summed
<1>4. h \in Slots /\ EndOf(h) <= size /\ EndOf(h) \in Nat /\ ends[h] \in Nat
  BY <1>2, <1>3, Bounds DEF MapInv, TypeOK
<1>5. ~ (indexes[h] <= i /\ i < ends[h])
  BY <1>1, <1>4 DEF Place, IsHome, Pos
<1>6. ends[h] < EndOf(h)
  BY <1>1, <1>2, <1>3, <1>5, RoomLeft DEF MapInv
<1>7. ends[h] \in Pos
  BY <1>1, <1>4, <1>6 DEF Pos
<1>. QED
  BY <1>1, <1>2, <1>3, <1>4, <1>5, <1>6, <1>7

-------------------------------------------------------------------------------
(* The inductive invariant.                                                 *)

LEMMA InitMap ==
  ASSUME Init
  PROVE  MapInv
<1>1. size \in Nat
  BY SizesAssumption DEF Init
<1>2. TypeOK
  BY DEF Init, TypeOK
<1>3. Permutation
  <2> DEFINE p == [j \in Pos |-> j]
  <2>1. /\ p \in [Pos -> Pos]
        /\ \A j, k \in Pos : p[j] = p[k] => j = k
        /\ \A j \in Pos : table[j] = loaded[p[j]]
    BY DEF Init
  <2>. QED
    BY <2>1 DEF Permutation
<1>4. CountInv
  <2>1. \A h \in Slots : {j \in 0 .. i - 1 : BucketOf(loaded[j]) = h} = {}
    BY DEF Init
  <2>. QED
    BY <1>1, <2>1, FS_EmptySet DEF Init, CountInv
<1>5. SumInv /\ PlaceInv
  BY DEF Init, SumInv, PlaceInv
<1>. QED
  BY <1>2, <1>3, <1>4, <1>5 DEF MapInv

LEMMA NextType ==
  ASSUME MapInv, Next
  PROVE  TypeOK'
<1>0. /\ size \in Nat /\ \A j \in Pos : BucketOf(table[j]) \in Buckets
      /\ \A h \in Buckets : h \in Slots
      /\ TypeOK
  BY BucketType, SizesAssumption, HashSizeAssumption DEF MapInv, TypeOK, Slots, Buckets
<1>1. CASE Count
  <2>1. i \in Pos
    BY <1>1, <1>0 DEF Count, Pos, TypeOK
  <2>2. BucketOf(table[i]) \in Slots
    BY <2>1, <1>0
  <2>3. indexes' \in [Slots -> Nat]
    BY <1>1, <1>0, <2>2 DEF Count, TypeOK
  <2>. QED
    BY <1>1, <1>0, <2>3 DEF Count, TypeOK, Slots, Pos
<1>2. CASE CountEnd
  BY <1>2, <1>0 DEF CountEnd, TypeOK, Slots, Pos
<1>3. CASE Sum
  <2>1. indexes' \in [Slots -> Nat] /\ index' \in Nat
    BY <1>3, <1>0 DEF Sum, TypeOK
  <2>. QED
    BY <1>3, <1>0, <2>1 DEF Sum, TypeOK, Slots, Pos
<1>4. CASE SumEnd
  BY <1>4, <1>0 DEF SumEnd, TypeOK, Slots, Pos
<1>5. CASE Skip
  BY <1>5, <1>0 DEF Skip, TypeOK, Slots, Pos
<1>6. CASE Place
  <2> DEFINE h == BucketOf(table[i])
  <2>1. i \in Pos /\ h \in Buckets /\ h \in Slots
    BY <1>6, <1>0 DEF Place, Pos, TypeOK
  <2>2. ends[h] \in Pos
    BY <1>6, PlaceTarget
  <2>3. table' \in [Pos -> Entries]
    BY <1>6, <1>0, <2>1, <2>2 DEF Place, Swapped, TypeOK
  <2>4. ends' \in [Slots -> Nat]
    BY <1>6, <1>0, <2>1 DEF Place, TypeOK
  <2>. QED
    BY <1>6, <1>0, <2>3, <2>4 DEF Place, TypeOK, Slots, Pos
<1>7. CASE PlaceEnd
  BY <1>7, <1>0 DEF PlaceEnd, TypeOK, Slots, Pos
<1>. QED
  BY <1>1, <1>2, <1>3, <1>4, <1>5, <1>6, <1>7 DEF Next

\* What was loaded, and so the buckets and their bounds, never changes.
LEMMA Frame ==
  ASSUME MapInv, Next
  PROVE  /\ size' = size /\ loaded' = loaded /\ copy' = copy
         /\ Pos' = Pos /\ Slots' = Slots
         /\ size \in Nat /\ loaded \in [Pos -> Entries]
<1>1. size' = size /\ loaded' = loaded /\ copy' = copy
  BY DEF Next, Count, CountEnd, Sum, SumEnd, Skip, Place, PlaceEnd
<1>. QED
  BY <1>1, SizesAssumption DEF Pos, Slots, MapInv, TypeOK

LEMMA NextPermutation ==
  ASSUME MapInv, Next
  PROVE  Permutation'
<1>1. PICK p \in [Pos -> Pos] : /\ \A j, k \in Pos : p[j] = p[k] => j = k
                                /\ \A j \in Pos : table[j] = loaded[p[j]]
  BY DEF MapInv, Permutation
<1>2. CASE Place
  <2> DEFINE y == ends[BucketOf(table[i])]
             q == [p EXCEPT ![i] = p[y], ![y] = p[i]]
  <2>1. i \in Pos /\ y \in Pos
    BY <1>2, PlaceTarget
  <2>2. /\ q \in [Pos -> Pos]
        /\ \A j, k \in Pos : q[j] = q[k] => j = k
    BY <1>1, <2>1
  <2>3. \A j \in Pos : table'[j] = loaded[q[j]]
    BY <1>1, <1>2, <2>1 DEF Place, Swapped, MapInv, TypeOK
  <2> HIDE DEF q
  <2>. QED
    BY <2>2, <2>3, Frame DEF Permutation
<1>3. CASE ~Place
  <2>1. table' = table
    BY <1>3 DEF Next, Count, CountEnd, Sum, SumEnd, Skip, PlaceEnd
  <2>. QED
    BY <1>1, <2>1, Frame DEF Permutation
<1>. QED
  BY <1>2, <1>3

LEMMA NextCount ==
  ASSUME MapInv, Next
  PROVE  CountInv'
<1>1. CASE Count
  <2> DEFINE b == BucketOf(table[i])
             Seen(h) == {j \in 0 .. i - 1 : BucketOf(loaded[j]) = h}
             SeenNext(h) == {j \in 0 .. i' - 1 : BucketOf(loaded'[j]) = h}
  <2>0. /\ i' = i + 1 /\ table' = table /\ loaded' = loaded /\ index' = index
        /\ size' = size /\ Slots' = Slots
    BY <1>1, Frame DEF Count
  <2>1. /\ i \in Pos /\ i + 1 <= size /\ table = loaded /\ index = 0
        /\ \A h \in Slots : indexes[h] = Cardinality(Seen(h))
    BY <1>1, Frame DEF Count, MapInv, CountInv, TypeOK, Pos
  <2>2. b = BucketOf(loaded[i]) /\ indexes \in [Slots -> Nat]
    BY <2>1 DEF MapInv, TypeOK
  <2>3. ASSUME NEW h \in Slots
        PROVE  indexes'[h] = Cardinality(SeenNext(h))
    <3>1. IsFiniteSet(Seen(h)) /\ i \notin Seen(h)
      <4>1. Seen(h) \in SUBSET Pos
        BY <2>1, Frame DEF Pos
      <4>. QED
        BY <2>1, <4>1, Frame, Counts DEF Pos
    <3>2. CASE h = b
      <4>1. SeenNext(h) = Seen(h) \union {i}
        BY <2>0, <2>1, <2>2, <3>2 DEF Pos
      <4>2. Cardinality(Seen(h) \union {i}) = Cardinality(Seen(h)) + 1
        <5> HIDE DEF Seen
        <5>. QED
          BY <3>1, FS_AddElement
      <4>3. indexes'[h] = indexes[h] + 1
        BY <1>1, <2>2, <3>2 DEF Count
      <4>4. Cardinality(SeenNext(h)) = Cardinality(Seen(h)) + 1
        <5> HIDE DEF Seen, SeenNext
        <5>. QED
          BY <4>1, <4>2, Zenon
      <4>. QED
        BY <2>1, <4>3, <4>4
    <3>3. CASE h # b
      <4>1. SeenNext(h) = Seen(h)
        BY <2>0, <2>1, <2>2, <3>3 DEF Pos
      <4>2. indexes'[h] = indexes[h]
        BY <1>1, <2>2, <3>3 DEF Count
      <4>. QED
        BY <2>1, <4>1, <4>2
    <3>. QED
      BY <3>2, <3>3
  <2>4. table' = loaded' /\ i' <= size' /\ index' = 0
    BY <2>0, <2>1
  <2> HIDE DEF b, Seen
  <2>. QED
    BY <2>0, <2>3, <2>4 DEF CountInv
<1>2. CASE ~Count
  BY <1>2 DEF Next, CountEnd, Sum, SumEnd, Skip, Place, PlaceEnd, CountInv, MapInv
<1>. QED
  BY <1>1, <1>2

\* The number of slots: the cannon copy has one after the last bucket.
LEMMA SlotRange ==
  ASSUME TypeOK
  PROVE  \E n \in {HashSize, HashSize + 1} :
           Slots = 0 .. n - 1 /\ Cardinality(Slots) = n /\ n \in Nat
<1>1. Cardinality(0 .. HashSize - 1) = HashSize
  BY FS_Interval, HashSizeAssumption, 0 \in Int, HashSize - 1 \in Int
<1>2. Cardinality(0 .. HashSize) = HashSize + 1
  BY FS_Interval, HashSizeAssumption, 0 \in Int, HashSize \in Int
<1>3. CASE copy = "std"
  BY <1>1, <1>3, HashSizeAssumption DEF Slots, Buckets
<1>4. CASE copy # "std"
  BY <1>2, <1>4, HashSizeAssumption DEF Slots
<1>. QED
  BY <1>3, <1>4

LEMMA NextSum ==
  ASSUME MapInv, Next
  PROVE  SumInv'
<1>0. /\ size \in Nat /\ loaded \in [Pos -> Entries] /\ TypeOK
      /\ Slots' = Slots /\ loaded' = loaded /\ size' = size /\ Pos' = Pos
  BY Frame DEF MapInv
<1>1. PICK n \in {HashSize, HashSize + 1} :
        Slots = 0 .. n - 1 /\ Cardinality(Slots) = n /\ n \in Nat
  BY <1>0, SlotRange
<1>2. \A h : Below(h)' = Below(h) /\ Members(h)' = Members(h)
  BY <1>0 DEF Below, Members, BucketOf
<1>3. CASE CountEnd
  <2>1. /\ table = loaded /\ i = size /\ index = 0
        /\ \A h \in Slots :
             indexes[h] = Cardinality({j \in 0 .. i - 1 : BucketOf(loaded[j]) = h})
    BY <1>3 DEF CountEnd, MapInv, CountInv
  <2>2. \A h \in Slots : indexes[h] = Cardinality(Members(h))
    BY <2>1 DEF Members, Pos
  <2>3. index = Cardinality(Below(0))
    BY <1>0, <2>1, BelowEnds
  <2>4. /\ table' = loaded' /\ i' = 0 /\ index' = index /\ indexes' = indexes
    BY <1>0, <1>3, <2>1 DEF CountEnd
  <2>5. \A h \in Slots : indexes'[h] = IF h < i' THEN Cardinality(Below(h))
                                              ELSE Cardinality(Members(h))
    BY <1>1, <2>2, <2>4
  <2>. QED
    BY <1>0, <1>1, <1>2, <2>3, <2>4, <2>5 DEF SumInv
<1>4. CASE Sum
  <2>1. /\ table = loaded /\ i \in Slots /\ index = Cardinality(Below(i))
        /\ \A h \in Slots : indexes[h] = IF h < i THEN Cardinality(Below(h))
                                                ELSE Cardinality(Members(h))
    BY <1>4 DEF Sum, MapInv, SumInv
  <2>2. Cardinality(Below(i + 1)) = index + indexes[i]
    <3>1. i \in Int
      BY <1>1, <2>1
    <3>2. indexes[i] = Cardinality(Members(i))
      BY <2>1, <3>1
    <3>. QED
      BY <1>0, <2>1, <3>1, <3>2, BelowNext
  <2>3. /\ table' = loaded' /\ i' = i + 1 /\ index' = index + indexes[i]
        /\ indexes' = [indexes EXCEPT ![i] = index]
    BY <1>0, <1>4, <2>1 DEF Sum
  <2>4. indexes \in [Slots -> Nat]
    BY <1>0 DEF TypeOK
  <2>5. ASSUME NEW h \in Slots
        PROVE  indexes'[h] = IF h < i' THEN Cardinality(Below(h))
                                       ELSE Cardinality(Members(h))
    BY <1>1, <2>1, <2>3, <2>4
  <2>6. i' <= Cardinality(Slots)
    BY <1>1, <2>1, <2>3
  <2>. QED
    BY <1>0, <1>2, <2>2, <2>3, <2>5, <2>6 DEF SumInv
<1>5. CASE ~CountEnd /\ ~Sum
  BY <1>5 DEF Next, Count, SumEnd, Skip, Place, PlaceEnd, SumInv
<1>. QED
  BY <1>3, <1>4, <1>5

\* A step that moves no entry and no bound keeps what is in place.
LEMMA NextPlace ==
  ASSUME MapInv, Next
  PROVE  PlaceInv'
<1>0. /\ size \in Nat /\ loaded \in [Pos -> Entries] /\ TypeOK
      /\ Slots' = Slots /\ loaded' = loaded /\ size' = size /\ Pos' = Pos
      /\ copy' = copy
  BY Frame DEF MapInv
<1>1. \A h : Below(h)' = Below(h)
  BY <1>0 DEF Below, BucketOf
<1>2. ASSUME indexes' = indexes
      PROVE  \A h : EndOf(h)' = EndOf(h)
  BY <1>0, <1>2 DEF EndOf
<1>3. \A j \in Pos : BucketOf(table[j]) \in Buckets
  BY <1>0, BucketType DEF TypeOK
<1>4. CASE SumEnd
  <2>1. PICK n \in {HashSize, HashSize + 1} :
          Slots = 0 .. n - 1 /\ Cardinality(Slots) = n /\ n \in Nat
    BY <1>0, SlotRange
  <2>2. \A h \in Slots : indexes[h] = Cardinality(Below(h))
    BY <1>0, <1>4, <2>1 DEF SumEnd, MapInv, SumInv, TypeOK
  <2>3. \A h \in Buckets : indexes[h] \in Nat /\ indexes[h] <= EndOf(h) /\ h \in Slots
    BY <1>0, <2>2, Bounds DEF Summed
  <2>4. ends' = indexes /\ indexes' = indexes /\ i' = 0 /\ pc' = "place"
    BY <1>4 DEF SumEnd
  <2>. QED
    BY <1>0, <1>1, <1>2, <2>2, <2>3, <2>4 DEF PlaceInv
<1>5. CASE Skip
  <2> DEFINE h == BucketOf(table[i])
  <2>1. i \in Pos /\ h \in Buckets /\ PlaceInv /\ pc = "place" /\ Summed /\ IsHome
    BY <1>0, <1>3, <1>5 DEF Skip, Pos, TypeOK, MapInv, PlaceInv, Summed
  <2>2. /\ indexes[h] <= ends[h] /\ ends[h] <= EndOf(h)
        /\ h \in Slots /\ EndOf(h) \in Nat /\ ends[h] \in Nat /\ indexes[h] \in Nat
    BY <1>0, <2>1, Bounds DEF PlaceInv, TypeOK
  <2>3. indexes[h] <= i /\ i < EndOf(h)
    <3>1. indexes[h] <= i /\ i <= ends[h]
      BY <2>1, <2>2 DEF IsHome, Pos
    <3>2. CASE i < ends[h]
      BY <2>1, <2>2, <3>1, <3>2 DEF Pos
    <3>3. CASE ~ (i < ends[h])
      BY <1>0, <2>1, <2>2, <3>1, <3>3, RoomLeft DEF Pos, MapInv
    <3>. QED
      BY <3>2, <3>3
  <2>4. /\ table' = table /\ indexes' = indexes /\ ends' = ends
        /\ i' = i + 1 /\ pc' = "place"
    BY <1>5, <2>1 DEF Skip
  <2>5. ASSUME NEW j \in 0 .. i' - 1
        PROVE  LET g == BucketOf(table[j]) IN indexes[g] <= j /\ j < EndOf(g)
    <3>1. CASE j = i
      BY <2>3, <3>1
    <3>2. CASE j # i
      BY <2>1, <2>4, <2>5, <3>2 DEF PlaceInv, Pos
    <3>. QED
      BY <3>1, <3>2
  <2>6. i + 1 <= size
    BY <1>0, <2>1, <2>4 DEF Pos
  <2>. QED
    BY <1>0, <1>1, <1>2, <2>1, <2>4, <2>5, <2>6 DEF PlaceInv, BucketOf
<1>6. CASE Place
  <2> DEFINE h == BucketOf(table[i])
             y == ends[h]
  <2>1. /\ i \in Pos /\ h \in Buckets /\ h \in Slots /\ Summed
        /\ indexes[h] <= y /\ y < EndOf(h) /\ y \in Pos
        /\ ~ (indexes[h] <= i /\ i < y)
    BY <1>6, PlaceTarget
  <2>2. /\ table' = [table EXCEPT ![i] = table[y], ![y] = table[i]]
        /\ ends' = [ends EXCEPT ![h] = y + 1]
        /\ indexes' = indexes /\ i' = i /\ pc' = "place"
        /\ pc = "place" /\ PlaceInv
    BY <1>6 DEF Place, Swapped, MapInv
  <2>3. /\ table \in [Pos -> Entries] /\ ends \in [Slots -> Nat]
        /\ indexes \in [Slots -> Nat]
        /\ \A g \in Buckets : /\ g \in Slots /\ indexes[g] \in Nat
                               /\ EndOf(g) \in Nat /\ ends[g] \in Nat
    BY <1>0, <2>1, Bounds DEF TypeOK
  <2>4. /\ table'[y] = table[i]
        /\ \A j \in Pos : j # i /\ j # y => table'[j] = table[j]
    BY <2>1, <2>2, <2>3
  \* The claimed positions of every bucket, after the swap.
  <2>5. ASSUME NEW g \in Buckets, NEW j \in indexes[g] .. ends'[g] - 1
        PROVE  BucketOf(table'[j]) = g
    <3>1. CASE g = h /\ j = y
      BY <2>4, <3>1
    <3>2. CASE ~ (g = h /\ j = y)
      <4>1. j \in indexes[g] .. ends[g] - 1
        BY <2>1, <2>2, <2>3, <2>5, <3>2
      <4>2. BucketOf(table[j]) = g /\ ends[g] <= EndOf(g)
        BY <2>2, <4>1 DEF PlaceInv
      <4>3. j \in Pos
        BY <1>0, <2>1, <2>3, <4>1, <4>2, Bounds DEF Pos
      <4>4. j # i
        BY <2>1, <2>3, <4>1, <4>2 DEF Pos
      <4>5. j # y
        <5>1. CASE g = h
          BY <3>2, <5>1
        <5>2. CASE g < h
          BY <1>0, <2>1, <2>3, <4>1, <4>2, <5>2, Apart DEF Pos
        <5>3. CASE h < g
          BY <1>0, <2>1, <2>3, <4>1, <4>2, <5>3, Apart DEF Pos
        <5>. QED
          BY <2>1, <5>1, <5>2, <5>3, HashSizeAssumption DEF Buckets
      <4>. QED
        BY <2>4, <4>2, <4>3, <4>4, <4>5
    <3>. QED
      BY <3>1, <3>2
  <2>6. ASSUME NEW g \in Buckets
        PROVE  indexes[g] <= ends'[g] /\ ends'[g] <= EndOf(g)
    <3>1. CASE g = h
      BY <2>1, <2>2, <2>3, <3>1
    <3>2. CASE g # h
      BY <2>2, <2>3, <3>2 DEF PlaceInv
    <3>. QED
      BY <3>1, <3>2
  <2>7. ASSUME NEW j \in 0 .. i' - 1
        PROVE  LET g == BucketOf(table'[j]) IN indexes[g] <= j /\ j < EndOf(g)
    <3>1. CASE j = y
      BY <2>1, <2>4, <3>1
    <3>2. CASE j # y
      <4>1. j \in Pos /\ j # i
        BY <1>0, <2>1, <2>2, <2>7 DEF Pos
      <4>2. table'[j] = table[j]
        BY <2>4, <3>2, <4>1
      <4>. QED
        BY <2>2, <4>2 DEF PlaceInv
    <3>. QED
      BY <3>1, <3>2
  <2>8. i' <= size /\ pc' = "place" /\ indexes' = indexes
    BY <1>0, <2>1, <2>2 DEF Pos
  <2>9. \A g \in Slots : indexes[g] = Cardinality(Below(g))
    BY <2>1 DEF Summed
  <2> HIDE DEF h, y
  <2>. QED
    BY <1>0, <1>1, <1>2, <2>5, <2>6, <2>7, <2>8, <2>9 DEF PlaceInv, BucketOf
<1>7. CASE PlaceEnd
  <2>1. /\ table' = table /\ indexes' = indexes /\ ends' = ends /\ i' = i
        /\ i = size /\ PlaceInv /\ pc = "place"
    BY <1>7 DEF PlaceEnd, MapInv
  <2>. QED
    BY <1>0, <1>1, <1>2, <2>1 DEF PlaceInv, BucketOf
<1>8. CASE Count \/ CountEnd \/ Sum
  BY <1>8 DEF Count, CountEnd, Sum, PlaceInv
<1>. QED
  BY <1>4, <1>5, <1>6, <1>7, <1>8 DEF Next

LEMMA Stuttering ==
  ASSUME MapInv, UNCHANGED vars
  PROVE  MapInv'
<1>1. /\ TypeOK' = TypeOK /\ Permutation' = Permutation
      /\ CountInv' = CountInv /\ SumInv' = SumInv
  BY DEF vars, TypeOK, Permutation, CountInv, SumInv, Slots, Pos, Below, Members,
         BucketOf
<1>2. PlaceInv' = PlaceInv
  BY DEF vars, PlaceInv, Slots, Pos, Below, EndOf, BucketOf
<1>. QED
  BY <1>1, <1>2 DEF MapInv

-------------------------------------------------------------------------------
(* Theorems                                                                 *)

\* The three loops of the constructor keep their invariants, for any array.
THEOREM MapInvariant == Spec => []MapInv
<1>1. Init => MapInv
  BY InitMap
<1>2. MapInv /\ [Next]_vars => MapInv'
  <2> SUFFICES ASSUME MapInv, [Next]_vars
               PROVE  MapInv'
    OBVIOUS
  <2>1. CASE Next
    BY <2>1, NextType, NextPermutation, NextCount, NextSum, NextPlace DEF MapInv
  <2>2. CASE UNCHANGED vars
    BY <2>2, Stuttering
  <2>. QED
    BY <2>1, <2>2
<1>. QED
  BY <1>1, <1>2, PTL DEF Spec

\* The entries are permuted: none is lost and none is there twice, in every loop.
THEOREM EntriesArePermuted == Spec => []Permutation
<1>1. MapInv => Permutation
  BY DEF MapInv
<1>. QED
  BY <1>1, MapInvariant, PTL

\* Neither copy swaps outside a bucket, and so outside the array.
THEOREM SwapsStayInBuckets == Spec => []SwapInBucket
<1>1. ASSUME MapInv
      PROVE  SwapInBucket
  <2> SUFFICES ASSUME pc = "place", i < size, ~IsHome
               PROVE  LET h == BucketOf(table[i])
                      IN  ends[h] \in indexes[h] .. EndOf(h) - 1
    BY DEF SwapInBucket
  <2> DEFINE h == BucketOf(table[i])
  <2>1. /\ size \in Nat /\ i \in Pos /\ h \in Buckets /\ PlaceInv /\ TypeOK
    BY <1>1, SizesAssumption, BucketType DEF MapInv, TypeOK, Pos
  <2>2. Summed /\ indexes[h] <= ends[h]
    BY <2>1 DEF PlaceInv, Summed
  <2>3. /\ h \in Slots /\ ends[h] \in Nat /\ indexes[h] \in Nat /\ EndOf(h) \in Nat
    BY <2>1, <2>2, Bounds DEF TypeOK
  <2>4. ends[h] < EndOf(h)
    BY <1>1, <2>1, <2>3, RoomLeft DEF IsHome, MapInv, Pos
  <2>. QED
    BY <2>2, <2>3, <2>4
<1>. QED
  BY <1>1, MapInvariant, PTL

\* The table holds every entry that was loaded.
LEMMA NothingLost ==
  ASSUME TypeOK, Permutation, NEW k \in Pos
  PROVE  \E j \in Pos : table[j] = loaded[k]
<1>1. PICK p \in [Pos -> Pos] : /\ \A j, l \in Pos : p[j] = p[l] => j = l
                                /\ \A j \in Pos : table[j] = loaded[p[j]]
  BY DEF Permutation
<1>2. p \in Injection(Pos, Pos)
  BY <1>1 DEF Injection, IsInjective
<1>3. IsFiniteSet(Pos)
  BY Counts, SizesAssumption DEF TypeOK
<1>4. p \in Surjection(Pos, Pos)
  BY <1>2, <1>3, FS_Injection
<1>5. PICK j \in Pos : p[j] = k
  BY <1>4 DEF Surjection
<1>. QED
  BY <1>1, <1>5

LEMMA Least ==
  ASSUME NEW S \in SUBSET Nat, S # {}
  PROVE  \E m \in S : \A n \in S : m <= n
<1>1. PICK m \in S : \A n \in S : ~ (<<n, m>> \in OpToRel(<, Nat))
  BY NatLessThanWellFounded, WFMin, Zenon
<1>2. \A n \in S : ~ (n < m)
  <2> SUFFICES ASSUME NEW n \in S, n < m
               PROVE  FALSE
    OBVIOUS
  <2>1. <<n, m>> \in Nat \X Nat
    OBVIOUS
  <2>2. <<n, m>> \in {ss \in Nat \X Nat : ss[1] < ss[2]}
    BY <2>1
  <2>. QED
    BY <1>1, <2>2 DEF OpToRel
<1>3. \A n \in S : n \in Nat
  OBVIOUS
<1>. QED
  BY <1>2, <1>3

\* After construction find is right for every key, loaded or not.
THEOREM FindIsFaithful == Spec => []FindsWhatWasLoaded
<1>1. ASSUME MapInv
      PROVE  FindsWhatWasLoaded
  <2> SUFFICES ASSUME pc = "done", NEW key \in Keys
               PROVE  LET candidates == {loaded[j] : j \in {k \in Pos : loaded[k].first = key}}
                      IN  IF candidates = {} THEN Find(key) = NullPtr
                                             ELSE Find(key) \in candidates
    BY DEF FindsWhatWasLoaded
  <2> DEFINE h == Hash[key]
             hits == {s \in indexes[h] .. EndOf(h) - 1 : table[s].first = key}
             found == CHOOSE s \in hits : \A t \in hits : s <= t
  <2>1. /\ h \in Buckets /\ size \in Nat /\ TypeOK /\ PlaceInv /\ Permutation
        /\ i = size
    BY <1>1, HashAssumption, SizesAssumption DEF MapInv, PlaceInv, TypeOK
  <2>2. indexes[h] \in Nat /\ EndOf(h) \in Nat /\ EndOf(h) <= size
    BY <2>1, Bounds DEF PlaceInv, Summed
  <2>3. hits \in SUBSET Pos /\ hits \in SUBSET Nat
    BY <2>1, <2>2 DEF Pos
  <2>4. \A s \in hits : \E k \in Pos : loaded[k] = table[s] /\ loaded[k].first = key
    BY <2>1, <2>3 DEF Permutation
  <2>5. ASSUME NEW k \in Pos, loaded[k].first = key
        PROVE  hits # {}
    <3>1. PICK j \in Pos : table[j] = loaded[k]
      BY <2>1, NothingLost
    <3>2. BucketOf(table[j]) = h
      BY <2>5, <3>1 DEF BucketOf
    <3>3. indexes[h] <= j /\ j < EndOf(h)
      BY <2>1, <3>2 DEF PlaceInv, Pos
    <3>4. j \in hits
      BY <2>2, <2>5, <3>1, <3>3 DEF Pos
    <3>. QED
      BY <3>4
  <2>6. Find(key) = IF hits = {} THEN NullPtr ELSE table[found]
    BY DEF Find
  <2>7. hits # {} => found \in hits
    <3> HIDE DEF hits
    <3>. QED
      BY <2>3, Least
  <2> HIDE DEF hits, found
  <2>. QED
    BY <2>4, <2>5, <2>6, <2>7
<1>. QED
  BY <1>1, MapInvariant, PTL
===============================================================================
