---------------------------- MODULE InPlaceHashMap ----------------------------
(***************************************************************************)
(* The immutable hash map that sorts the loaded entries by hash inside     *)
(* their own array.  The repository has it twice:                          *)
(*   "std"     hash_table/internal_storage/immutable_hash_table.h          *)
(*   "cannon"  cannon/src/cannon/immutable_hash_map.cpp                    *)
(* The copies differ in how they end the last bucket and in one            *)
(* comparison of the sorting loop.                                         *)
(*                                                                         *)
(* The three loops of the constructor are one step per iteration: count    *)
(* the entries of every bucket, turn the counts into first positions, swap *)
(* every entry into its bucket.  Keys are hashed by any function, and the  *)
(* number of buckets is any: next_power only makes it at least 16 and at   *)
(* least the number of entries.                                            *)
(***************************************************************************)
EXTENDS Integers, FiniteSets

CONSTANTS
  Keys, Values,
  HashSize,    \* buckets, next_power(size)
  Hash,        \* the masked hash of a key
  Sizes,       \* numbers of entries that may be loaded
  NullPtr      \* find returns no entry

Copies  == {"std", "cannon"}
Entries == [first : Keys, second : Values]
Buckets == 0 .. HashSize - 1

ASSUME HashSizeAssumption == HashSize \in Nat \ {0}
ASSUME HashAssumption     == Hash \in [Keys -> Buckets]
ASSUME SizesAssumption    == Sizes \subseteq Nat
ASSUME NullAssumption     == NullPtr \notin Entries

VARIABLES
  copy,      \* which copy of the code runs
  size,      \* _table.size(), or _kv_count
  loaded,    \* the entries as they were loaded
  table,     \* _table
  indexes,   \* _indexes
  ends,      \* cur_indexes, or end_indexes
  i, index,  \* locals of the loops
  pc         \* the loop that runs

vars == <<copy, size, loaded, table, indexes, ends, i, index, pc>>

Pos   == 0 .. size - 1

\* The cannon copy keeps one more index, the end of the last bucket.
Slots == IF copy = "std" THEN Buckets ELSE 0 .. HashSize

BucketOf(entry) == Hash[entry.first]

Init ==
  /\ copy \in Copies
  /\ size \in Sizes
  /\ loaded \in [Pos -> Entries]
  /\ table = loaded
  /\ indexes = [h \in Slots |-> 0]
  /\ ends = [h \in Slots |-> 0]
  /\ i = 0 /\ index = 0 /\ pc = "count"

\* Mutant: a bucket that has an entry counts one.
Count_Marks ==
  /\ pc = "count" /\ i < size
  /\ indexes' = [indexes EXCEPT ![BucketOf(table[i])] = 1]
  /\ i' = i + 1
  /\ UNCHANGED <<copy, size, loaded, table, ends, index, pc>>

Count ==
  /\ pc = "count" /\ i < size
  /\ indexes' = [indexes EXCEPT ![BucketOf(table[i])] = @ + 1]
  /\ i' = i + 1
  /\ UNCHANGED <<copy, size, loaded, table, ends, index, pc>>

CountEnd ==
  /\ pc = "count" /\ i = size
  /\ pc' = "sum" /\ i' = 0
  /\ UNCHANGED <<copy, size, loaded, table, indexes, ends, index>>

\* Mutant: a bucket gets its end for its first position.
Sum_Inclusive ==
  /\ pc = "sum" /\ i \in Slots
  /\ index' = index + indexes[i]
  /\ indexes' = [indexes EXCEPT ![i] = index + @]
  /\ i' = i + 1
  /\ UNCHANGED <<copy, size, loaded, table, ends, pc>>

\* A count becomes the first position of its bucket.
Sum ==
  /\ pc = "sum" /\ i \in Slots
  /\ index' = index + indexes[i]
  /\ indexes' = [indexes EXCEPT ![i] = index]
  /\ i' = i + 1
  /\ UNCHANGED <<copy, size, loaded, table, ends, pc>>

SumEnd ==
  /\ pc = "sum" /\ i \notin Slots
  /\ ends' = indexes
  /\ pc' = "place" /\ i' = 0
  /\ UNCHANGED <<copy, size, loaded, table, indexes, index>>

\* Entry i is among those of its bucket that are in place.  The std copy also
\* takes the next free position, without claiming it.
IsHome ==
  LET h == BucketOf(table[i])
  IN  indexes[h] <= i /\ IF copy = "std" THEN i <= ends[h] ELSE i < ends[h]

Skip ==
  /\ pc = "place" /\ i < size /\ IsHome
  /\ i' = i + 1
  /\ UNCHANGED <<copy, size, loaded, table, indexes, ends, index, pc>>

\* Mutant: entry y is overwritten.
Swapped_Copies(x, y) == [table EXCEPT ![y] = table[x]]

Swapped(x, y) == [table EXCEPT ![x] = table[y], ![y] = table[x]]

\* Mutant: the position that was filled is not claimed.
Place_NoClaim ==
  /\ pc = "place" /\ i < size /\ ~IsHome
  /\ table' = Swapped(i, ends[BucketOf(table[i])])
  /\ UNCHANGED <<copy, size, loaded, indexes, ends, i, index, pc>>

\* Entry i goes to the next free position of its bucket; what was there is
\* looked at next.
Place ==
  /\ pc = "place" /\ i < size /\ ~IsHome
  /\ table' = Swapped(i, ends[BucketOf(table[i])])
  /\ ends' = [ends EXCEPT ![BucketOf(table[i])] = @ + 1]
  /\ UNCHANGED <<copy, size, loaded, indexes, i, index, pc>>

PlaceEnd ==
  /\ pc = "place" /\ i = size
  /\ pc' = "done"
  /\ UNCHANGED <<copy, size, loaded, table, indexes, ends, i, index>>

Next == Count \/ CountEnd \/ Sum \/ SumEnd \/ Skip \/ Place \/ PlaceEnd

Spec == Init /\ [][Next]_vars

\* The constructor runs in one thread and nothing in it waits.
FairSpec == Spec /\ WF_vars(Next)

-------------------------------------------------------------------------------
\* Mutant: the last bucket ends one position early.
EndOf_Short(h) == IF copy = "std" /\ h = HashSize - 1 THEN size - 1 ELSE indexes[h + 1]

\* One past the last position of bucket h.
EndOf(h) == IF copy = "std" /\ h = HashSize - 1 THEN size ELSE indexes[h + 1]

\* find, or seek: the first entry of the bucket with that key.
Find(key) ==
  LET hits == {s \in indexes[Hash[key]] .. EndOf(Hash[key]) - 1 : table[s].first = key}
  IN  IF hits = {} THEN NullPtr
      ELSE table[CHOOSE s \in hits : \A t \in hits : s <= t]

-------------------------------------------------------------------------------
(* Properties                                                               *)

\* The entries of the loaded array that belong into bucket h, and into the
\* buckets before it.
Members(h) == {j \in Pos : BucketOf(loaded[j]) = h}
Below(h)   == {j \in Pos : BucketOf(loaded[j]) < h}

\* Type invariant of the table and of the constructor's locals.
TypeOK ==
  /\ copy \in Copies /\ size \in Sizes
  /\ loaded \in [Pos -> Entries] /\ table \in [Pos -> Entries]
  /\ indexes \in [Slots -> Nat] /\ ends \in [Slots -> Nat]
  /\ i \in Nat /\ index \in Nat
  /\ pc \in {"count", "sum", "place", "done"}

\* The table holds what was loaded, each entry as often, whatever was swapped.
Permutation ==
  \E p \in [Pos -> Pos] : /\ \A j, k \in Pos : p[j] = p[k] => j = k
                          /\ \A j \in Pos : table[j] = loaded[p[j]]

\* While counting, a bucket has as many entries as were looked at.
CountInv ==
  pc = "count" =>
    /\ table = loaded /\ i <= size /\ index = 0
    /\ \A h \in Slots :
         indexes[h] = Cardinality({j \in 0 .. i - 1 : BucketOf(loaded[j]) = h})

\* While summing, the buckets before i have their first positions and the
\* others their counts.
SumInv ==
  pc = "sum" =>
    /\ table = loaded /\ i <= Cardinality(Slots)
    /\ index = Cardinality(Below(i))
    /\ \A h \in Slots : indexes[h] = IF h < i THEN Cardinality(Below(h))
                                              ELSE Cardinality(Members(h))

\* While placing, the claimed positions of a bucket are its own entries, and
\* every entry before i is inside its bucket.
PlaceInv ==
  pc \in {"place", "done"} =>
    /\ i <= size /\ (pc = "done" => i = size)
    /\ \A h \in Slots : indexes[h] = Cardinality(Below(h))
    /\ \A h \in Buckets :
         /\ indexes[h] <= ends[h] /\ ends[h] <= EndOf(h)
         /\ \A j \in indexes[h] .. ends[h] - 1 : BucketOf(table[j]) = h
    /\ \A j \in 0 .. i - 1 : LET h == BucketOf(table[j])
                             IN  indexes[h] <= j /\ j < EndOf(h)

MapInv == TypeOK /\ Permutation /\ CountInv /\ SumInv /\ PlaceInv

\* A swap never leaves the bucket of the entry it moves, and so never the
\* array: when a bucket is full each of its entries is home.
SwapInBucket ==
  pc = "place" /\ i < size /\ ~IsHome =>
    LET h == BucketOf(table[i]) IN ends[h] \in indexes[h] .. EndOf(h) - 1

\* Once constructed, find answers for every key: one of the entries loaded
\* with it, or null when there was none.
FindsWhatWasLoaded ==
  pc = "done" =>
    \A key \in Keys :
      LET candidates == {loaded[j] : j \in {k \in Pos : loaded[k].first = key}}
      IN  IF candidates = {} THEN Find(key) = NullPtr
                             ELSE Find(key) \in candidates

\* The sorting loop, which goes forward on some iterations only, ends.
Constructed == <>(pc = "done")
===============================================================================
