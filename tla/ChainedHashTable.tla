--------------------------- MODULE ChainedHashTable ---------------------------
(***************************************************************************)
(* hash_table/immutable_hash_table.h (and its copy under cannon_proxy): a  *)
(* chained hash table that doubles while it is loaded and shrinks when the *)
(* loading ends.  One action per public method; the table is used by one   *)
(* thread.  A chain is a sequence from head to tail; sizes are             *)
(* InitialSize (16 in the code) times a power of two, so that masking a    *)
(* hash with size - 1 is its remainder.                                    *)
(***************************************************************************)
EXTENDS Integers, Sequences, FiniteSets, Functions

CONSTANTS
  Keys, Values,
  Hash,          \* hash<keyT>, before the mask
  InitialSize,   \* HASH_TABLE_INITIAL_SIZE
  NullPtr

ASSUME HashAssumption == Hash \in [Keys -> Nat]
ASSUME SizeAssumption == InitialSize \in Nat \ {0}
ASSUME NullAssumption == NullPtr \notin Values

VARIABLES
  buckets,   \* _buckets
  size,      \* _size; _size_mask is size - 1
  used,      \* _used
  loading,   \* _loading
  result     \* the entry's value the last insert or find returned, or NullPtr

vars == <<buckets, size, used, loading, result>>

Entries == [key : Keys, val : Values]

Empty(n) == [b \in 0 .. n - 1 |-> << >>]

\* _nextPower's i after d turns of its loop, ...
Doubled(n) ==
  LET i[d \in 0 .. n] == IF d = 0 THEN InitialSize ELSE 2 * i[d - 1]
  IN  i

\* ... which ends when i is not below n; it never takes more than n turns.
NextPower(n) ==
  LET turns == {d \in 0 .. n : Doubled(n)[d] >= n}
  IN  Doubled(n)[CHOOSE d \in turns : \A e \in turns : d <= e]

Push(table, b, entry) == [table EXCEPT ![b] = <<entry>> \o @]

\* The entries of the first b buckets in the order in which _rehash visits them.
InOrder(table, n) ==
  LET visited[b \in 0 .. n] == IF b = 0 THEN << >> ELSE visited[b - 1] \o table[b - 1]
  IN  visited

\* Mutant: entries are masked with the old size.
Moved_OldMask(order, n) ==
  LET table[i \in 0 .. Len(order)] ==
        IF i = 0 THEN Empty(n)
        ELSE Push(table[i - 1], (Hash[order[i].key] % size) % n, order[i])
  IN  table

\* The new buckets of _rehash when i entries have been pushed in front of their new chains.
Moved(order, n) ==
  LET table[i \in 0 .. Len(order)] ==
        IF i = 0 THEN Empty(n)
        ELSE Push(table[i - 1], Hash[order[i].key] % n, order[i])
  IN  table

Rehashed(n) == LET order == InOrder(buckets, size)[size]
               IN  Moved(order, n)[Len(order)]

\* _rehash(n): the buckets and size after it.
Rehash(n) == IF NextPower(n) = size THEN [buckets |-> buckets, size |-> size]
             ELSE [buckets |-> Rehashed(NextPower(n)), size |-> NextPower(n)]

\* _expandIfNeeded and _shrinkIfNeeded.
ExpandIfNeeded == IF used >= size THEN Rehash(used * 2) ELSE [buckets |-> buckets, size |-> size]
ShrinkIfNeeded == IF used * 2 < size THEN Rehash(used * 2) ELSE [buckets |-> buckets, size |-> size]

\* The value of the first entry of a chain that has the key.
Lookup(chain, k) ==
  LET hits == {p \in DOMAIN chain : chain[p].key = k}
  IN  IF hits = {} THEN NullPtr
      ELSE chain[CHOOSE p \in hits : \A q \in hits : p <= q].val

-------------------------------------------------------------------------------
Init ==
  /\ size = NextPower(InitialSize) /\ used = 0
  /\ buckets = Empty(size)
  /\ loading = FALSE /\ result = NullPtr

\* _reset frees the chains if there is an entry, and keeps the size.
BeginLoading ==
  /\ buckets' = IF used > 0 THEN Empty(size) ELSE buckets
  /\ used' = 0 /\ loading' = TRUE
  /\ UNCHANGED <<size, result>>

\* Mutant: the table keeps its size.
EndLoading_NoShrink ==
  /\ loading' = FALSE
  /\ UNCHANGED <<buckets, size, used, result>>

\* _shrinkIfNeeded, also when nothing was being loaded.
EndLoading ==
  /\ buckets' = ShrinkIfNeeded.buckets /\ size' = ShrinkIfNeeded.size
  /\ loading' = FALSE
  /\ UNCHANGED <<used, result>>

\* Mutant: the chain is not searched.
Insert_Blindly(k, v) ==
  LET after == ExpandIfNeeded
  IN  /\ loading /\ used < 2 * Cardinality(Keys)
      /\ size' = after.size
      /\ buckets' = Push(after.buckets, Hash[k] % after.size, [key |-> k, val |-> v])
      /\ used' = used + 1 /\ result' = v
      /\ UNCHANGED loading

\* _expandIfNeeded comes first, even when the key turns out to be there.
Insert(k, v) ==
  LET after == ExpandIfNeeded
      b     == Hash[k] % after.size
  IN  /\ loading
      /\ size' = after.size
      /\ IF Lookup(after.buckets[b], k) # NullPtr
         THEN /\ buckets' = after.buckets
              /\ result' = NullPtr
              /\ UNCHANGED used
         ELSE /\ buckets' = Push(after.buckets, b, [key |-> k, val |-> v])
              /\ used' = used + 1
              /\ result' = v
      /\ UNCHANGED loading

InsertRefused ==
  /\ ~loading /\ result' = NullPtr
  /\ UNCHANGED <<buckets, size, used, loading>>

Find(k) ==
  /\ result' = IF loading \/ used = 0 THEN NullPtr
               ELSE Lookup(buckets[Hash[k] % size], k)
  /\ UNCHANGED <<buckets, size, used, loading>>

Next == \/ BeginLoading \/ EndLoading
        \/ \E k \in Keys : InsertRefused \/ Find(k) \/ \E v \in Values : Insert(k, v)

Spec == Init /\ [][Next]_vars

-------------------------------------------------------------------------------
(* Properties                                                               *)

\* Every entry is in the chain that its hash and the size select, and no key is there
\* twice.
WellPlaced(table, n) ==
  /\ table \in [0 .. n - 1 -> Seq(Entries)]
  /\ \A b \in 0 .. n - 1 : \A p \in DOMAIN table[b] :
       /\ Hash[table[b][p].key] % n = b
       /\ \A q \in DOMAIN table[b] : table[b][p].key = table[b][q].key => p = q

\* The entries of a table.
Stored(table) == UNION {Range(table[b]) : b \in DOMAIN table}

\* Types, and what ties the fields together: the table is well placed and _used counts
\* the entries, through every rehash.
TableInv ==
  /\ size \in Nat \ {0} /\ used \in Nat /\ loading \in BOOLEAN
  /\ result \in Values \union {NullPtr}
  /\ WellPlaced(buckets, size)
  /\ used = Cardinality(Stored(buckets))

\* A table never holds more entries than chains, and once loaded it is not
\* less than a quarter full unless it has its initial size.
LoadBounded ==
  /\ used <= size
  /\ ~loading => size = InitialSize \/ size < 4 * used

Map == INSTANCE LoadableMap
         WITH content <- [k \in Keys |-> Lookup(buckets[Hash[k] % size], k)]

\* The table, through all its resizing, is a LoadableMap: what insert and find
\* return depends on the keys inserted since beginLoading only.
ImplementsMap == Map!Spec
===============================================================================
