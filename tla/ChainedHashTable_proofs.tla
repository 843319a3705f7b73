----------------------- MODULE ChainedHashTable_proofs -----------------------
(***************************************************************************)
(* The chained hash table is a map, for any keys, hashes and initial size: *)
(* what _rehash computes is found by induction over its loops, and the     *)
(* table, seen through Lookup, implements LoadableMap.                     *)
(***************************************************************************)
EXTENDS ChainedHashTable, FiniteSetTheorems, SetInduction, TLAPS

-------------------------------------------------------------------------------
(* Chains and tables.                                                       *)

\* An entry in front of a chain.
LEMMA PushFront ==
  ASSUME NEW s \in Seq(Entries), NEW e \in Entries
  PROVE  /\ <<e>> \o s \in Seq(Entries)
         /\ DOMAIN (<<e>> \o s) = 1 .. Len(s) + 1
         /\ (<<e>> \o s)[1] = e
         /\ \A p \in 1 .. Len(s) : (<<e>> \o s)[p + 1] = s[p]
         /\ \A p \in 2 .. Len(s) + 1 : (<<e>> \o s)[p] = s[p - 1] /\ p - 1 \in 1 .. Len(s)
OBVIOUS

\* An entry is stored where its chain has it.
LEMMA StoredIff ==
  ASSUME NEW n \in Nat \ {0}, NEW table, WellPlaced(table, n)
  PROVE  \A e : e \in Stored(table) <=>
                \E b \in 0 .. n - 1 : \E p \in DOMAIN table[b] : e = table[b][p]
<1>1. DOMAIN table = 0 .. n - 1
    BY DEF WellPlaced
<1>2. \A e : e \in Stored(table) <=> \E b \in 0 .. n - 1 : e \in Range(table[b])
    BY <1>1 DEF Stored
<1>3. ASSUME NEW e, NEW b \in 0 .. n - 1
      PROVE  e \in Range(table[b]) <=> \E p \in DOMAIN table[b] : e = table[b][p]
    BY DEF Range
<1>4. TAKE e
<1>5. e \in Stored(table) <=> \E b \in 0 .. n - 1 : e \in Range(table[b])
    BY <1>2
<1> QED
    BY <1>3, <1>5

\* Nothing is stored in a new table.
LEMMA EmptyTable ==
  ASSUME NEW n \in Nat \ {0}
  PROVE  WellPlaced(Empty(n), n) /\ Stored(Empty(n)) = {}
<1>1. WellPlaced(Empty(n), n)
    BY DEF WellPlaced, Empty
<1>2. \A b \in 0 .. n - 1 : DOMAIN Empty(n)[b] = {}
    BY DEF Empty
<1> QED
    BY <1>1, <1>2, StoredIff

\* The hash of a key selects a chain.
LEMMA HashInTable ==
  ASSUME NEW n \in Nat \ {0}, NEW k \in Keys
  PROVE  Hash[k] % n \in 0 .. n - 1
<1>1. Hash[k] \in Nat
    BY HashAssumption
<1> QED
    BY <1>1

\* What is stored in a well-placed table is an entry, in the chain its hash selects.
LEMMA StoredWhere ==
  ASSUME NEW n \in Nat \ {0}, NEW table, WellPlaced(table, n), NEW e \in Stored(table)
  PROVE  /\ e \in Entries /\ e.key \in Keys /\ e.val \in Values
         /\ \E p \in DOMAIN table[Hash[e.key] % n] : table[Hash[e.key] % n][p] = e
<1>1. PICK b \in 0 .. n - 1 : \E p \in DOMAIN table[b] : e = table[b][p]
    BY StoredIff
<1>2. table[b] \in Seq(Entries)
    BY DEF WellPlaced
<1>3. e \in Entries
    BY <1>1, <1>2
<1>4. Hash[e.key] % n = b
    BY <1>1 DEF WellPlaced
<1> QED
    BY <1>1, <1>3, <1>4 DEF Entries

\* A key is stored once.
LEMMA StoredOnce ==
  ASSUME NEW n \in Nat \ {0}, NEW table, WellPlaced(table, n),
         NEW e \in Stored(table), NEW f \in Stored(table), e.key = f.key
  PROVE  e = f
<1> DEFINE b == Hash[e.key] % n
<1>1. PICK p \in DOMAIN table[b] : table[b][p] = e
    BY StoredWhere
<1>2. PICK q \in DOMAIN table[b] : table[b][q] = f
    BY StoredWhere
<1>3. b \in 0 .. n - 1
    BY StoredWhere, HashInTable
<1> HIDE DEF b
<1> QED
    BY <1>1, <1>2, <1>3 DEF WellPlaced

\* Pushing an entry with a new key stores it and keeps the table well placed.
LEMMA PushEntry ==
  ASSUME NEW n \in Nat \ {0}, NEW table, WellPlaced(table, n), NEW e \in Entries,
         \A x \in Stored(table) : x.key # e.key
  PROVE  /\ WellPlaced(Push(table, Hash[e.key] % n, e), n)
         /\ Stored(Push(table, Hash[e.key] % n, e)) = Stored(table) \union {e}
<1> DEFINE b == Hash[e.key] % n
           new == Push(table, b, e)
<1>1. e.key \in Keys
    BY DEF Entries
<1>2. b \in 0 .. n - 1
    BY <1>1, HashInTable
<1>3. table \in [0 .. n - 1 -> Seq(Entries)]
    BY DEF WellPlaced
<1>4. table[b] \in Seq(Entries)
    BY <1>2, <1>3
<1>b. Hash[e.key] % n = b
    OBVIOUS
<1> HIDE DEF b
<1>5. /\ new \in [0 .. n - 1 -> Seq(Entries)]
      /\ new[b] = <<e>> \o table[b]
      /\ \A c \in 0 .. n - 1 : c # b => new[c] = table[c]
    BY <1>2, <1>3, <1>4, PushFront DEF Push
<1>6. /\ DOMAIN new[b] = 1 .. Len(table[b]) + 1 /\ DOMAIN table[b] = 1 .. Len(table[b])
      /\ Len(table[b]) \in Nat
      /\ new[b][1] = e
      /\ \A p \in 1 .. Len(table[b]) : new[b][p + 1] = table[b][p]
      /\ \A p \in 2 .. Len(table[b]) + 1 : new[b][p] = table[b][p - 1] /\ p - 1 \in 1 .. Len(table[b])
    BY <1>4, <1>5, PushFront
<1> HIDE DEF new
<1>7. \A p \in DOMAIN table[b] : table[b][p].key # e.key
    BY <1>2, StoredIff
<1>8. ASSUME NEW c \in 0 .. n - 1, NEW p \in DOMAIN new[c]
      PROVE  /\ Hash[new[c][p].key] % n = c
             /\ \A q \in DOMAIN new[c] : new[c][p].key = new[c][q].key => p = q
  <2>1. CASE c # b
      BY <1>5, <1>8, <2>1 DEF WellPlaced
  <2>2. CASE c = b
    <3>0. p \in 1 .. Len(table[b]) + 1
        BY <1>6, <1>8, <2>2
    <3>1. Hash[new[b][p].key] % n = b
      <4>1. CASE p = 1
          BY <1>b, <1>6, <4>1
      <4>2. CASE p # 1
        <5>1. p \in 2 .. Len(table[b]) + 1
            BY <1>6, <3>0, <4>2
        <5>2. new[b][p] = table[b][p - 1] /\ p - 1 \in DOMAIN table[b]
            BY <1>6, <5>1
        <5> QED
            BY <1>2, <5>2 DEF WellPlaced
      <4> QED
          BY <4>1, <4>2
    <3>2. ASSUME NEW q \in DOMAIN new[b], new[b][p].key = new[b][q].key
          PROVE  p = q
      <4>0. q \in 1 .. Len(table[b]) + 1
          BY <1>6, <3>2
      <4>1. CASE p = 1 /\ q = 1
          BY <4>1
      <4>p. ASSUME NEW r \in 1 .. Len(table[b]) + 1, r # 1
            PROVE  new[b][r] = table[b][r - 1] /\ r - 1 \in DOMAIN table[b]
        <5>1. r \in 2 .. Len(table[b]) + 1
            BY <1>6, <4>p
        <5> QED
            BY <1>6, <5>1
      <4>2. CASE p = 1 /\ q # 1
          BY <1>6, <1>7, <4>0, <4>p, <3>2, <4>2
      <4>3. CASE p # 1 /\ q = 1
          BY <1>6, <1>7, <3>0, <4>p, <3>2, <4>3
      <4>4. CASE p # 1 /\ q # 1
        <5>1. /\ p - 1 \in DOMAIN table[b] /\ q - 1 \in DOMAIN table[b]
              /\ table[b][p - 1].key = table[b][q - 1].key
            BY <4>p, <4>0, <3>0, <3>2, <4>4
        <5>2. p - 1 = q - 1
            BY <1>2, <5>1 DEF WellPlaced
        <5> QED
            BY <5>2, <3>0, <4>0, <1>6
      <4> QED
          BY <4>1, <4>2, <4>3, <4>4
    <3> QED
        BY <2>2, <3>1, <3>2
  <2> QED
      BY <2>1, <2>2
<1>9. WellPlaced(new, n)
    BY <1>5, <1>8 DEF WellPlaced
<1>10. ASSUME NEW x \in Stored(new) PROVE x \in Stored(table) \union {e}
  <2>1. PICK c \in 0 .. n - 1 : \E p \in DOMAIN new[c] : x = new[c][p]
      BY <1>9, StoredIff
  <2>2. CASE c # b
      BY <1>5, <2>1, <2>2, StoredIff
  <2>3. CASE c = b
    <3>0. PICK p \in 1 .. Len(table[b]) + 1 : x = new[b][p]
        BY <1>6, <2>1, <2>3
    <3>1. x = e \/ \E q \in DOMAIN table[b] : x = table[b][q]
      <4>1. CASE p = 1
          BY <1>6, <3>0, <4>1
      <4>2. CASE p # 1
        <5>1. p \in 2 .. Len(table[b]) + 1
            BY <1>6, <3>0, <4>2
        <5> QED
            BY <1>6, <3>0, <5>1
      <4> QED
          BY <4>1, <4>2
    <3> QED
        BY <1>2, <3>1, StoredIff
  <2> QED
      BY <2>2, <2>3
<1>11. ASSUME NEW x \in Stored(table) \union {e} PROVE x \in Stored(new)
  <2>1. CASE x = e
    <3>1. 1 \in DOMAIN new[b]
        BY <1>6
    <3> QED
        BY <1>2, <1>6, <1>9, <2>1, <3>1, StoredIff
  <2>2. CASE x \in Stored(table)
    <3>0. PICK c \in 0 .. n - 1 : \E p \in DOMAIN table[c] : x = table[c][p]
        BY <2>2, StoredIff
    <3>1. PICK p \in DOMAIN table[c] : x = table[c][p]
        BY <3>0
    <3>2. CASE c # b
        BY <1>5, <1>9, <3>1, <3>2, StoredIff
    <3>3. CASE c = b
      <4>1. p + 1 \in DOMAIN new[b] /\ new[b][p + 1] = x
          BY <1>6, <3>1, <3>3, SMTT(30)
      <4> QED
          BY <1>2, <1>9, <4>1, StoredIff
    <3> QED
        BY <3>2, <3>3
  <2> QED
      BY <2>1, <2>2
<1>12. Stored(new) = Stored(table) \union {e}
    BY <1>10, <1>11
<1> QED
    BY <1>9, <1>12 DEF new, b

\* What find returns is the value stored with the key, if there is one.
LEMMA LookupStored ==
  ASSUME NEW n \in Nat \ {0}, NEW table, WellPlaced(table, n), NEW k \in Keys
  PROVE  LET v == Lookup(table[Hash[k] % n], k)
         IN  \/ v = NullPtr /\ \A e \in Stored(table) : e.key # k
             \/ v \in Values /\ [key |-> k, val |-> v] \in Stored(table)
<1> DEFINE b == Hash[k] % n
           hits == {p \in DOMAIN table[b] : table[b][p].key = k}
<1>1. b \in 0 .. n - 1 /\ table[b] \in Seq(Entries)
    BY HashInTable, SMTT(30) DEF WellPlaced
<1>2. CASE hits = {}
  <2>1. \A e \in Stored(table) : e.key # k
      BY <1>2, StoredWhere
  <2> QED
      BY <1>2, <2>1 DEF Lookup
<1>3. CASE hits # {}
  <2>1. PICK p \in hits : TRUE
      BY <1>3
  <2>2. \A q \in hits : p = q
      BY <1>1, <2>1 DEF WellPlaced
  <2>3. hits = {p} /\ p \in Nat
      BY <1>1, <2>1, <2>2
  <2> DEFINE first == CHOOSE r \in hits : \A q \in hits : r <= q
  <2>4. first = p
    <3>1. \A q \in hits : p <= q
        BY <2>3
    <3> HIDE DEF hits
    <3>2. \E r \in hits : \A q \in hits : r <= q
        BY <2>1, <3>1
    <3>3. first \in hits
        BY <3>2, SMTT(30)
    <3> QED
        BY <2>3, <3>3
  <2>5. Lookup(table[b], k) = table[b][p].val
      BY <1>3, <2>4 DEF Lookup
  <2>6. table[b][p] \in Entries /\ table[b][p].key = k
      BY <1>1, <2>1
  <2>7. table[b][p].val \in Values /\ table[b][p] = [key |-> k, val |-> table[b][p].val]
      BY <2>6 DEF Entries
  <2>8. table[b][p] \in Stored(table)
      BY <1>1, <2>1, StoredIff
  <2> QED
      BY <2>5, <2>7, <2>8
<1> QED
    BY <1>2, <1>3

\* Two well-placed tables of any sizes that store the same are the same map.
LEMMA SameMap ==
  ASSUME NEW n \in Nat \ {0}, NEW table, WellPlaced(table, n),
         NEW m \in Nat \ {0}, NEW other, WellPlaced(other, m),
         Stored(table) = Stored(other), NEW k \in Keys
  PROVE  Lookup(table[Hash[k] % n], k) = Lookup(other[Hash[k] % m], k)
<1> DEFINE v == Lookup(table[Hash[k] % n], k)
           w == Lookup(other[Hash[k] % m], k)
<1>1. \/ v = NullPtr /\ \A e \in Stored(table) : e.key # k
      \/ v \in Values /\ [key |-> k, val |-> v] \in Stored(table)
    BY LookupStored
<1>2. \/ w = NullPtr /\ \A e \in Stored(other) : e.key # k
      \/ w \in Values /\ [key |-> k, val |-> w] \in Stored(other)
    BY LookupStored
<1> HIDE DEF v, w
<1>3. CASE v \in Values /\ [key |-> k, val |-> v] \in Stored(table)
  <2>1. [key |-> k, val |-> w] \in Stored(table)
      BY <1>2, <1>3
  <2>2. [key |-> k, val |-> v] = [key |-> k, val |-> w]
      BY <1>3, <2>1, StoredOnce
  <2> QED
      BY <2>2 DEF v, w
<1>4. CASE v = NullPtr /\ \A e \in Stored(table) : e.key # k
    BY <1>2, <1>4 DEF v, w
<1> QED
    BY <1>1, <1>3, <1>4

-------------------------------------------------------------------------------
(* The loops.                                                               *)

\* _nextPower's i doubles with every turn.
LEMMA DoubledValue ==
  ASSUME NEW n \in Nat
  PROVE  /\ Doubled(n) \in [0 .. n -> Nat]
         /\ Doubled(n)[0] = InitialSize
         /\ \A d \in 1 .. n : Doubled(n)[d] = 2 * Doubled(n)[d - 1]
<1> DEFINE F(f) == [d \in 0 .. n |-> IF d = 0 THEN InitialSize ELSE 2 * f[d - 1]]
           Step == [d \in 1 .. n |-> [x \in Nat |-> 2 * x]]
           f == Doubled(n)
<1>1. \E g \in [0 .. n -> Nat] : g = F(g)
  <2>1. Step \in [1 .. n -> [Nat -> Nat]] /\ InitialSize \in Nat
      BY SizeAssumption
  <2>2. PICK g \in [0 .. n -> Nat] :
          g[0] = InitialSize /\ \A d \in 1 .. n : g[d] = Step[d][g[d - 1]]
    <3> DEFINE X == Nat
    <3>1. InitialSize \in X /\ Step \in [1 .. n -> [X -> X]]
        BY <2>1
    <3> HIDE DEF Step, X
    <3>2. \E g \in [0 .. n -> X] :
            g[0] = InitialSize /\ \A d \in 1 .. n : g[d] = Step[d][g[d - 1]]
        BY <3>1, RecursionUpTo
    <3> QED
        BY <3>2 DEF X
  <2>3. \A d \in 1 .. n : g[d - 1] \in Nat
      OBVIOUS
  <2>4. \A d \in 1 .. n : g[d] = 2 * g[d - 1]
      BY <2>2, <2>3
  <2> HIDE DEF Step
  <2>5. \A d \in 0 .. n : g[d] = F(g)[d]
      BY <2>2, <2>4
  <2>6. g = F(g)
      BY <2>5
  <2> QED
      BY <2>6
<1>2. f = CHOOSE g : g = F(g)
    BY DEF Doubled
<1>3. f = F(f)
  <2> HIDE DEF F, f
  <2> QED
      BY <1>1, <1>2
<1> HIDE DEF f
<1>4. DOMAIN f = 0 .. n /\ f[0] = InitialSize /\ \A d \in 1 .. n : f[d] = 2 * f[d - 1]
    BY <1>3
<1> DEFINE S == {d \in 0 .. n : f[d] \in Nat}
<1>5. \A d \in 0 .. n : d \in S
  <2>1. 0 \in S
      BY <1>4, SizeAssumption
  <2>2. ASSUME NEW d \in 0 .. n - 1, d \in S PROVE d + 1 \in S
      BY <1>4, <2>2
  <2> HIDE DEF S
  <2> QED
      BY <2>1, <2>2, InductionUpTo
<1>6. f \in [0 .. n -> Nat]
    BY <1>3, <1>5
<1> QED
    BY <1>4, <1>6 DEF f

\* The loop ends with the least admissible size that is not below n: the initial size, or
\* less than twice n.
LEMMA NextPowerBounds ==
  ASSUME NEW n \in Nat
  PROVE  /\ NextPower(n) \in Nat \ {0} /\ NextPower(n) >= n
         /\ NextPower(n) = InitialSize \/ NextPower(n) < 2 * n
         /\ n <= InitialSize => NextPower(n) = InitialSize
<1> DEFINE i == Doubled(n)
           turns == {d \in 0 .. n : i[d] >= n}
<1>1. /\ i \in [0 .. n -> Nat] /\ i[0] = InitialSize
      /\ \A d \in 1 .. n : i[d] = 2 * i[d - 1]
    BY DoubledValue
<1> HIDE DEF i
<1>2. \A d \in 0 .. n : i[d] >= d + 1
  <2> DEFINE S == {d \in 0 .. n : i[d] >= d + 1}
  <2>1. 0 \in S
      BY <1>1, SizeAssumption
  <2>2. ASSUME NEW d \in 0 .. n - 1, d \in S PROVE d + 1 \in S
    <3>1. i[d + 1] = 2 * i[d] /\ i[d] \in Nat /\ i[d] >= d + 1
        BY <1>1, <2>2
    <3> QED
        BY <3>1
  <2>3. \A d \in 0 .. n : d \in S
    <3> HIDE DEF S
    <3> QED
        BY <2>1, <2>2, InductionUpTo
  <2> QED
      BY <2>3
<1>3. turns \in SUBSET Nat /\ n \in turns
    BY <1>1, <1>2
<1> DEFINE last == CHOOSE d \in turns : \A e \in turns : d <= e
<1>4. last \in turns /\ \A e \in turns : last <= e
  <2> HIDE DEF turns
  <2>1. \E d \in turns : \A e \in turns : d <= e
      BY <1>3, LeastNat
  <2> QED
      BY <2>1
<1>5. NextPower(n) = i[last]
    BY DEF NextPower, i
<1> HIDE DEF last
<1>6. last \in 0 .. n /\ i[last] >= n /\ i[last] >= last + 1 /\ i[last] \in Nat
    BY <1>1, <1>2, <1>4
<1>7. last # 0 => i[last] < 2 * n
  <2> SUFFICES ASSUME last # 0 PROVE i[last] < 2 * n
      OBVIOUS
  <2>1. last \in 1 .. n /\ last - 1 \in 0 .. n /\ i[last - 1] \in Nat
      BY <1>1, <1>6
  <2>2. last - 1 \notin turns
      BY <1>4, <1>6
  <2>3. i[last - 1] < n
      BY <2>1, <2>2
  <2> QED
      BY <1>1, <2>1, <2>3
<1>8. n <= InitialSize => last = 0
  <2> SUFFICES ASSUME n <= InitialSize PROVE last = 0
      OBVIOUS
  <2>1. 0 \in turns
      BY <1>1, SizeAssumption
  <2> QED
      BY <1>4, <1>6, <2>1
<1> QED
    BY <1>1, <1>5, <1>6, <1>7, <1>8

\* The loops of _rehash over the old buckets: what they have visited, if there is a
\* function that follows them.
LEMMA InOrderUnfolds ==
  ASSUME NEW n \in Nat, NEW table, NEW X, NEW g \in [0 .. n -> X], g[0] = << >>,
         \A b \in 1 .. n : g[b] = g[b - 1] \o table[b - 1]
  PROVE  /\ InOrder(table, n) = [b \in 0 .. n |-> InOrder(table, n)[b]]
         /\ InOrder(table, n)[0] = << >>
         /\ \A b \in 1 .. n : InOrder(table, n)[b] = InOrder(table, n)[b - 1] \o table[b - 1]
<1> DEFINE F(f) == [b \in 0 .. n |-> IF b = 0 THEN << >> ELSE f[b - 1] \o table[b - 1]]
           order == InOrder(table, n)
<1>1. g = F(g)
  <2>1. \A b \in 0 .. n : g[b] = F(g)[b]
      OBVIOUS
  <2> QED
      BY <2>1
<1>2. order = CHOOSE f : f = F(f)
    BY DEF InOrder
<1>3. order = F(order)
  <2> HIDE DEF F, order
  <2> QED
      BY <1>1, <1>2
<1> HIDE DEF order
<1>4. order = [b \in 0 .. n |-> order[b]] /\ order[0] = << >>
    BY <1>3
<1>5. \A b \in 1 .. n : order[b] = order[b - 1] \o table[b - 1]
    BY <1>3
<1> QED
    BY <1>4, <1>5 DEF order

\* What _rehash has visited after b buckets.
LEMMA InOrderValue ==
  ASSUME NEW n \in Nat, NEW table \in [0 .. n - 1 -> Seq(Entries)]
  PROVE  /\ InOrder(table, n) \in [0 .. n -> Seq(Entries)]
         /\ InOrder(table, n)[0] = << >>
         /\ \A b \in 1 .. n : InOrder(table, n)[b] = InOrder(table, n)[b - 1] \o table[b - 1]
<1> DEFINE X == Seq(Entries)
           Visit == [b \in 1 .. n |-> [x \in X |-> x \o table[b - 1]]]
           order == InOrder(table, n)
<1>1. ASSUME NEW b \in 1 .. n, NEW x \in X PROVE x \o table[b - 1] \in X
  <2>1. table[b - 1] \in Seq(Entries)
      OBVIOUS
  <2> QED
      BY <2>1
<1>2. PICK g : Solves(g, X, << >>, n, Visit)
  <2>1. Recursion(X, << >>, n, Visit)
      BY <1>1 DEF Recursion
  <2> HIDE DEF X, Visit
  <2> QED
      BY <2>1, RecursionSolved
<1>3. g \in [0 .. n -> X] /\ g[0] = << >> /\ \A b \in 1 .. n : g[b] = Visit[b][g[b - 1]]
    BY <1>2 DEF Solves
<1>4. \A b \in 1 .. n, x \in X : Visit[b][x] = x \o table[b - 1]
    OBVIOUS
<1>5. \A b \in 1 .. n : g[b - 1] \in X
    BY <1>3
<1>6. \A b \in 1 .. n : g[b] = g[b - 1] \o table[b - 1]
  <2> HIDE DEF Visit, X
  <2> QED
      BY <1>3, <1>4, <1>5
<1>7. /\ order = [b \in 0 .. n |-> order[b]]
      /\ order[0] = << >>
      /\ \A b \in 1 .. n : order[b] = order[b - 1] \o table[b - 1]
  <2> HIDE DEF X, Visit
  <2> QED
      BY <1>3, <1>6, InOrderUnfolds
<1> HIDE DEF order
<1>8. \A b \in 0 .. n : order[b] \in X
  <2>1. order[0] \in X
      BY <1>7
  <2>2. ASSUME NEW b \in 1 .. n, order[b - 1] \in X PROVE order[b] \in X
    <3>1. order[b - 1] \o table[b - 1] \in X
        BY <2>2, <1>1
    <3> QED
        BY <3>1, <1>7
  <2> HIDE DEF X
  <2> QED
      BY <2>1, <2>2, ValuesUpTo
<1>9. order \in [0 .. n -> X]
  <2> HIDE DEF X
  <2> QED
      BY <1>7, <1>8
<1> QED
    BY <1>7, <1>9 DEF order

\* A chain behind what was visited before.
LEMMA Behind ==
  ASSUME NEW s \in Seq(Entries), NEW t \in Seq(Entries)
  PROVE  /\ Len(s) \in Nat /\ Len(t) \in Nat /\ Len(s \o t) = Len(s) + Len(t)
         /\ \A i \in 1 .. Len(s) : i \in 1 .. Len(s \o t) /\ (s \o t)[i] = s[i]
         /\ \A j \in 1 .. Len(t) :
              Len(s) + j \in 1 .. Len(s \o t) /\ (s \o t)[Len(s) + j] = t[j]
         /\ \A i \in 1 .. Len(s \o t) :
              i \in 1 .. Len(s) \/ \E j \in 1 .. Len(t) : i = Len(s) + j
<1>1. Len(s) \in Nat /\ Len(t) \in Nat /\ Len(s \o t) = Len(s) + Len(t)
    OBVIOUS
<1>2. \A i \in 1 .. Len(s) : i \in 1 .. Len(s \o t) /\ (s \o t)[i] = s[i]
    OBVIOUS
<1>3. \A j \in 1 .. Len(t) :
        Len(s) + j \in 1 .. Len(s \o t) /\ (s \o t)[Len(s) + j] = t[j]
    OBVIOUS
<1>4. ASSUME NEW i \in 1 .. Len(s \o t), i \notin 1 .. Len(s)
      PROVE  \E j \in 1 .. Len(t) : i = Len(s) + j
  <2>1. i - Len(s) \in 1 .. Len(t) /\ i = Len(s) + (i - Len(s))
      BY <1>1, <1>4
  <2> QED
      BY <2>1
<1> QED
    BY <1>1, <1>2, <1>3, <1>4

\* The old loops of _rehash visit every entry of a well-placed table, and once.
LEMMA OrderVisitsAll ==
  ASSUME NEW n \in Nat \ {0}, NEW table, WellPlaced(table, n)
  PROVE  LET order == InOrder(table, n)[n]
         IN  /\ order \in Seq(Entries)
             /\ \A i \in 1 .. Len(order) : order[i] \in Stored(table)
             /\ \A e \in Stored(table) : \E i \in 1 .. Len(order) : order[i] = e
             /\ \A i, j \in 1 .. Len(order) : order[i].key = order[j].key => i = j
<1> DEFINE o == InOrder(table, n)
           Sound(b) == \A i \in 1 .. Len(o[b]) :
                         \E c \in 0 .. b - 1 : \E p \in DOMAIN table[c] : o[b][i] = table[c][p]
           Full(b)  == \A c \in 0 .. b - 1 : \A p \in DOMAIN table[c] :
                         \E i \in 1 .. Len(o[b]) : o[b][i] = table[c][p]
           Once(b)  == \A i, j \in 1 .. Len(o[b]) : o[b][i].key = o[b][j].key => i = j
           S == {b \in 0 .. n : Sound(b) /\ Full(b) /\ Once(b)}
<1>1. table \in [0 .. n - 1 -> Seq(Entries)]
    BY DEF WellPlaced
<1>2. /\ o \in [0 .. n -> Seq(Entries)] /\ o[0] = << >>
      /\ \A b \in 1 .. n : o[b] = o[b - 1] \o table[b - 1]
    BY <1>1, InOrderValue
<1> HIDE DEF o
<1>3. 0 \in S
  <2>1. Len(o[0]) = 0
      BY <1>2
  <2> QED
      BY <2>1
<1>4. ASSUME NEW b \in 0 .. n - 1, b \in S PROVE b + 1 \in S
  <2> DEFINE s == o[b]
             t == table[b]
  <2>1. s \in Seq(Entries) /\ t \in Seq(Entries) /\ o[b + 1] = s \o t
    <3>1. b + 1 \in 1 .. n /\ (b + 1) - 1 = b /\ b \in 0 .. n
        OBVIOUS
    <3> QED
        BY <1>1, <1>2, <3>1
  <2>2. /\ Len(s) \in Nat /\ Len(t) \in Nat /\ Len(s \o t) = Len(s) + Len(t)
        /\ \A i \in 1 .. Len(s) : i \in 1 .. Len(s \o t) /\ (s \o t)[i] = s[i]
        /\ \A j \in 1 .. Len(t) :
             Len(s) + j \in 1 .. Len(s \o t) /\ (s \o t)[Len(s) + j] = t[j]
        /\ \A i \in 1 .. Len(s \o t) :
             i \in 1 .. Len(s) \/ \E j \in 1 .. Len(t) : i = Len(s) + j
      BY <2>1, Behind, ZenonT(30)
  <2>3. DOMAIN t = 1 .. Len(t)
      BY <2>1
  <2>4. Sound(b) /\ Full(b) /\ Once(b)
      BY <1>4
  <2>h. \A c \in 0 .. n - 1 : \A p \in DOMAIN table[c] : Hash[table[c][p].key] % n = c
      BY DEF WellPlaced
  <2>d. \A p, q \in DOMAIN t : t[p].key = t[q].key => p = q
      BY DEF WellPlaced
  <2>b. (b + 1) - 1 = b
      OBVIOUS
  <2>5. Sound(b + 1)
    <3> SUFFICES ASSUME NEW i \in 1 .. Len(s \o t)
                 PROVE  \E c \in 0 .. b : \E p \in DOMAIN table[c] : (s \o t)[i] = table[c][p]
        BY <2>1, <2>b, ZenonT(30)
    <3>1. CASE i \in 1 .. Len(s)
      <4>1. PICK c \in 0 .. b - 1 : \E p \in DOMAIN table[c] : s[i] = table[c][p]
          BY <2>4, <3>1
      <4>2. c \in 0 .. b /\ (s \o t)[i] = s[i]
          BY <2>2, <3>1
      <4> QED
          BY <4>1, <4>2
    <3>2. CASE \E j \in 1 .. Len(t) : i = Len(s) + j
      <4>1. PICK j \in 1 .. Len(t) : i = Len(s) + j
          BY <3>2
      <4>2. (s \o t)[i] = t[j] /\ b \in 0 .. b /\ j \in DOMAIN t
          BY <2>2, <2>3, <4>1
      <4> QED
          BY <4>2
    <3> QED
        BY <2>2, <3>1, <3>2
  <2>6. Full(b + 1)
    <3> SUFFICES ASSUME NEW c \in 0 .. (b + 1) - 1, NEW p \in DOMAIN table[c]
                 PROVE  \E i \in 1 .. Len(o[b + 1]) : o[b + 1][i] = table[c][p]
        OBVIOUS
    <3>1. CASE c = b
      <4>1. p \in 1 .. Len(t) /\ table[c][p] = t[p]
          BY <2>3, <3>1
      <4>2. Len(s) + p \in 1 .. Len(s \o t) /\ (s \o t)[Len(s) + p] = t[p]
          BY <2>2, <4>1
      <4> QED
          BY <2>1, <4>1, <4>2
    <3>2. CASE c # b
      <4>1. c \in 0 .. b - 1
          BY <2>b, <3>2
      <4>2. PICK i \in 1 .. Len(s) : s[i] = table[c][p]
          BY <2>4, <4>1
      <4>3. i \in 1 .. Len(s \o t) /\ (s \o t)[i] = s[i]
          BY <2>2, <4>2
      <4> QED
          BY <2>1, <4>2, <4>3
    <3> QED
        BY <3>1, <3>2
  <2>7. Once(b + 1)
    <3>x. ASSUME NEW i \in 1 .. Len(s), NEW j \in 1 .. Len(t) PROVE s[i].key # t[j].key
      <4>1. PICK c \in 0 .. b - 1 : \E p \in DOMAIN table[c] : s[i] = table[c][p]
          BY <2>4
      <4>2. Hash[s[i].key] % n = c /\ c # b
          BY <2>h, <4>1
      <4>3. Hash[t[j].key] % n = b
          BY <2>h, <2>3
      <4> QED
          BY <4>2, <4>3
    <3> SUFFICES ASSUME NEW i \in 1 .. Len(s \o t), NEW j \in 1 .. Len(s \o t),
                        (s \o t)[i].key = (s \o t)[j].key
                 PROVE  i = j
        BY <2>1
    <3>1. CASE i \in 1 .. Len(s) /\ j \in 1 .. Len(s)
        BY <2>2, <2>4, <3>1
    <3>2. CASE i \in 1 .. Len(s) /\ \E k \in 1 .. Len(t) : j = Len(s) + k
        BY <2>2, <3>x, <3>2
    <3>3. CASE j \in 1 .. Len(s) /\ \E k \in 1 .. Len(t) : i = Len(s) + k
        BY <2>2, <3>x, <3>3
    <3>4. CASE /\ \E k \in 1 .. Len(t) : i = Len(s) + k
               /\ \E k \in 1 .. Len(t) : j = Len(s) + k
      <4>1. PICK k \in 1 .. Len(t) : i = Len(s) + k
          BY <3>4
      <4>2. PICK l \in 1 .. Len(t) : j = Len(s) + l
          BY <3>4
      <4>3. t[k].key = t[l].key
          BY <2>2, <4>1, <4>2
      <4> QED
          BY <2>d, <2>3, <4>1, <4>2, <4>3
    <3> QED
        BY <2>2, <3>1, <3>2, <3>3, <3>4
  <2> HIDE DEF Sound, Full, Once
  <2> QED
      BY <2>5, <2>6, <2>7
<1>5. n \in S
  <2> HIDE DEF S
  <2>1. \A b \in 0 .. n : b \in S
      BY <1>3, <1>4, InductionUpTo
  <2> QED
      BY <2>1
<1>6. o[n] \in Seq(Entries)
    BY <1>2
<1>7. Sound(n) /\ Full(n) /\ Once(n)
    BY <1>5
<1>8. \A i \in 1 .. Len(o[n]) : o[n][i] \in Stored(table)
    BY <1>7, StoredIff
<1>9. \A e \in Stored(table) : \E i \in 1 .. Len(o[n]) : o[n][i] = e
    BY <1>7, StoredIff, SMTT(30)
<1> QED
    BY <1>6, <1>7, <1>8, <1>9 DEF o

\* The new loop of _rehash, if there is a function that follows it.
LEMMA MovedUnfolds ==
  ASSUME NEW n, NEW order, NEW m \in Nat, m = Len(order), NEW X, NEW g \in [0 .. m -> X],
         g[0] = Empty(n),
         \A i \in 1 .. m : g[i] = Push(g[i - 1], Hash[order[i].key] % n, order[i])
  PROVE  /\ Moved(order, n)[0] = Empty(n)
         /\ \A i \in 1 .. m : Moved(order, n)[i] =
                                Push(Moved(order, n)[i - 1], Hash[order[i].key] % n, order[i])
<1> DEFINE F(f) == [i \in 0 .. Len(order) |->
                      IF i = 0 THEN Empty(n)
                      ELSE Push(f[i - 1], Hash[order[i].key] % n, order[i])]
           moved == Moved(order, n)
<1>1. g = F(g)
  <2>1. \A i \in 0 .. m : g[i] = F(g)[i]
      OBVIOUS
  <2> QED
      BY <2>1
<1>2. moved = CHOOSE f : f = F(f)
    BY DEF Moved
<1>3. moved = F(moved)
  <2> HIDE DEF F, moved
  <2> QED
      BY <1>1, <1>2
<1> HIDE DEF moved
<1>4. moved[0] = Empty(n)
    BY <1>3
<1>5. \A i \in 1 .. m : moved[i] = Push(moved[i - 1], Hash[order[i].key] % n, order[i])
    BY <1>3
<1> QED
    BY <1>4, <1>5 DEF moved

\* The table after every turn of that loop.
LEMMA MovedValue ==
  ASSUME NEW n \in Nat \ {0}, NEW order \in Seq(Entries)
  PROVE  /\ Moved(order, n)[0] = Empty(n)
         /\ \A i \in 1 .. Len(order) :
              Moved(order, n)[i] = Push(Moved(order, n)[i - 1], Hash[order[i].key] % n, order[i])
<1> DEFINE X == [0 .. n - 1 -> Seq(Entries)]
           m == Len(order)
           Visit == [i \in 1 .. m |-> [t \in X |-> Push(t, Hash[order[i].key] % n, order[i])]]
<1>1. ASSUME NEW i \in 1 .. m, NEW t \in X
      PROVE  Push(t, Hash[order[i].key] % n, order[i]) \in X
  <2>0. order[i] \in Entries
      OBVIOUS
  <2>1. order[i] \in Entries /\ order[i].key \in Keys
      BY <2>0 DEF Entries
  <2>2. PICK b \in 0 .. n - 1 : b = Hash[order[i].key] % n
      BY <2>1, HashInTable
  <2>3. t[b] \in Seq(Entries)
      OBVIOUS
  <2>4. <<order[i]>> \o t[b] \in Seq(Entries)
      BY <2>1, <2>3, PushFront
  <2> QED
      BY <2>2, <2>4 DEF Push
<1>2. Empty(n) \in X /\ m \in Nat
    BY DEF Empty
<1>3. PICK g : Solves(g, X, Empty(n), m, Visit)
  <2>1. Recursion(X, Empty(n), m, Visit)
      BY <1>1, <1>2 DEF Recursion
  <2> HIDE DEF X, Visit, m
  <2> QED
      BY <2>1, RecursionSolved
<1>4. g \in [0 .. m -> X] /\ g[0] = Empty(n) /\ \A i \in 1 .. m : g[i] = Visit[i][g[i - 1]]
    BY <1>3 DEF Solves
<1> HIDE DEF X
<1>5. \A i \in 1 .. m, t \in X : Visit[i][t] = Push(t, Hash[order[i].key] % n, order[i])
    OBVIOUS
<1> HIDE DEF Visit
<1>h. m = Len(order)
    OBVIOUS
<1> HIDE DEF m
<1>6. \A i \in 1 .. m : g[i - 1] \in X
    BY <1>2, <1>4
<1>7. \A i \in 1 .. m : g[i] = Push(g[i - 1], Hash[order[i].key] % n, order[i])
    BY <1>4, <1>5, <1>6
<1> QED
    BY <1>h, <1>2, <1>4, <1>7, MovedUnfolds, ZenonT(30)

\* Moving entries with different keys makes a well-placed table of all of them.
LEMMA MovedAll ==
  ASSUME NEW n \in Nat \ {0}, NEW order \in Seq(Entries),
         \A i, j \in 1 .. Len(order) : order[i].key = order[j].key => i = j
  PROVE  LET table == Moved(order, n)[Len(order)]
         IN  WellPlaced(table, n) /\ Stored(table) = {order[i] : i \in 1 .. Len(order)}
<1> DEFINE T == Moved(order, n)
           Good(i) == WellPlaced(T[i], n) /\ Stored(T[i]) = {order[j] : j \in 1 .. i}
           S == {i \in 0 .. Len(order) : Good(i)}
<1>1. T[0] = Empty(n) /\ \A i \in 1 .. Len(order) :
        T[i] = Push(T[i - 1], Hash[order[i].key] % n, order[i])
    BY MovedValue
<1> HIDE DEF T
<1>l. Len(order) \in Nat
    OBVIOUS
<1>2. 0 \in S
    BY <1>1, <1>l, EmptyTable
<1>3. ASSUME NEW i \in 0 .. Len(order) - 1, i \in S PROVE i + 1 \in S
  <2>1. i + 1 \in 1 .. Len(order) /\ (i + 1) - 1 = i
      BY <1>l
  <2>2. T[i + 1] = Push(T[i], Hash[order[i + 1].key] % n, order[i + 1])
      BY <1>1, <2>1
  <2>3. WellPlaced(T[i], n) /\ Stored(T[i]) = {order[j] : j \in 1 .. i}
      BY <1>3
  <2>4. order[i + 1] \in Entries
      BY <2>1
  <2>5. \A j \in 1 .. i : order[j].key # order[i + 1].key
    <3> TAKE j \in 1 .. i
    <3>1. j \in 1 .. Len(order) /\ j # i + 1
        BY <1>l
    <3> QED
        BY <2>1, <3>1
  <2>6. \A x \in Stored(T[i]) : x.key # order[i + 1].key
      BY <2>3, <2>5
  <2>7. WellPlaced(T[i + 1], n) /\ Stored(T[i + 1]) = Stored(T[i]) \union {order[i + 1]}
    <3> DEFINE e == order[i + 1]
               table == T[i]
    <3>1. WellPlaced(table, n) /\ e \in Entries /\ \A x \in Stored(table) : x.key # e.key
        BY <2>3, <2>4, <2>6
    <3>2. T[i + 1] = Push(table, Hash[e.key] % n, e)
        BY <2>2
    <3> HIDE DEF e, table
    <3>3. /\ WellPlaced(Push(table, Hash[e.key] % n, e), n)
          /\ Stored(Push(table, Hash[e.key] % n, e)) = Stored(table) \union {e}
        BY <3>1, PushEntry
    <3> QED
        BY <3>2, <3>3 DEF e, table
  <2>8. 1 .. i + 1 = 1 .. i \union {i + 1}
      OBVIOUS
  <2>9. {order[j] : j \in 1 .. i + 1} = {order[j] : j \in 1 .. i} \union {order[i + 1]}
      BY <2>8
  <2> QED
      BY <2>1, <2>3, <2>7, <2>9
<1>4. Len(order) \in S
  <2> HIDE DEF S
  <2>1. \A i \in 0 .. Len(order) : i \in S
      BY <1>l, <1>2, <1>3, InductionUpTo
  <2> QED
      BY <1>l, <2>1
<1> QED
    BY <1>4 DEF T

\* _rehash(n): the size is the next power, and the table stores what it stored.
THEOREM RehashKeeps ==
  ASSUME TableInv, NEW n \in Nat
  PROVE  /\ Rehash(n).size = NextPower(n)
         /\ WellPlaced(Rehash(n).buckets, NextPower(n))
         /\ Stored(Rehash(n).buckets) = Stored(buckets)
<1>1. CASE NextPower(n) = size
    BY <1>1 DEF Rehash, TableInv
<1>2. CASE NextPower(n) # size
  <2> DEFINE p == NextPower(n)
             order == InOrder(buckets, size)[size]
             table == Moved(order, p)[Len(order)]
  <2>1. p \in Nat \ {0}
      BY NextPowerBounds
  <2>2. /\ order \in Seq(Entries)
        /\ \A i \in 1 .. Len(order) : order[i] \in Stored(buckets)
        /\ \A e \in Stored(buckets) : \E i \in 1 .. Len(order) : order[i] = e
        /\ \A i, j \in 1 .. Len(order) : order[i].key = order[j].key => i = j
      BY OrderVisitsAll DEF TableInv
  <2>3. Rehash(n) = [buckets |-> table, size |-> p]
      BY <1>2 DEF Rehash, Rehashed
  <2>4. WellPlaced(table, p) /\ Stored(table) = {order[i] : i \in 1 .. Len(order)}
    <3>1. order \in Seq(Entries)
        BY <2>2
    <3>2. \A i, j \in 1 .. Len(order) : order[i].key = order[j].key => i = j
        BY <2>2
    <3> HIDE DEF order, p
    <3>3. /\ WellPlaced(Moved(order, p)[Len(order)], p)
          /\ Stored(Moved(order, p)[Len(order)]) = {order[i] : i \in 1 .. Len(order)}
        BY ONLY <2>1, <3>1, <3>2, MovedAll, ZenonT(60)
    <3> QED
        BY <3>3
  <2> HIDE DEF order, p
  <2> HIDE DEF table
  <2>5. {order[i] : i \in 1 .. Len(order)} = Stored(buckets)
      BY <2>2
  <2>6. Rehash(n).size = p /\ Rehash(n).buckets = table
      BY <2>3
  <2> QED
      BY <2>4, <2>5, <2>6 DEF p
<1> QED
    BY <1>1, <1>2

-------------------------------------------------------------------------------
(* The invariants.                                                          *)

\* Both invariants together, and that a table holds finitely many entries, without which
\* counting them means nothing: none is inductive alone.
HashInv == TableInv /\ LoadBounded /\ IsFiniteSet(Stored(buckets))

\* After _expandIfNeeded there is a chain more than there are entries.
LEMMA ExpandKeeps ==
  ASSUME HashInv
  PROVE  /\ ExpandIfNeeded.size \in Nat \ {0} /\ used < ExpandIfNeeded.size
         /\ WellPlaced(ExpandIfNeeded.buckets, ExpandIfNeeded.size)
         /\ Stored(ExpandIfNeeded.buckets) = Stored(buckets)
<1>1. /\ TableInv /\ used \in Nat /\ size \in Nat \ {0} /\ used * 2 \in Nat
      /\ WellPlaced(buckets, size)
    BY DEF HashInv, TableInv
<1>2. CASE used >= size
  <2>1. /\ NextPower(used * 2) \in Nat \ {0} /\ NextPower(used * 2) >= used * 2
      BY <1>1, NextPowerBounds
  <2>2. ExpandIfNeeded = Rehash(used * 2)
      BY <1>2 DEF ExpandIfNeeded
  <2>3. /\ Rehash(used * 2).size = NextPower(used * 2)
        /\ WellPlaced(Rehash(used * 2).buckets, NextPower(used * 2))
        /\ Stored(Rehash(used * 2).buckets) = Stored(buckets)
      BY <1>1, RehashKeeps
  <2>4. used < NextPower(used * 2)
      BY <1>1, <1>2, <2>1
  <2> QED
      BY <2>1, <2>2, <2>3, <2>4
<1>3. CASE used < size
    BY <1>1, <1>3 DEF ExpandIfNeeded
<1> QED
    BY <1>1, <1>2, <1>3

\* After _shrinkIfNeeded there are as many chains as entries, and less than four times as
\* many or the initial number.
LEMMA ShrinkKeeps ==
  ASSUME HashInv
  PROVE  /\ ShrinkIfNeeded.size \in Nat \ {0} /\ used <= ShrinkIfNeeded.size
         /\ ShrinkIfNeeded.size = InitialSize \/ ShrinkIfNeeded.size < 4 * used
         /\ WellPlaced(ShrinkIfNeeded.buckets, ShrinkIfNeeded.size)
         /\ Stored(ShrinkIfNeeded.buckets) = Stored(buckets)
<1>1. /\ TableInv /\ used \in Nat /\ size \in Nat \ {0} /\ used * 2 \in Nat
      /\ WellPlaced(buckets, size) /\ used <= size
    BY DEF HashInv, TableInv, LoadBounded
<1>2. CASE used * 2 < size
  <2> DEFINE p == NextPower(used * 2)
  <2>1. /\ p \in Nat \ {0} /\ p >= used * 2 /\ (p = InitialSize \/ p < 2 * (used * 2))
      BY <1>1, NextPowerBounds
  <2>2. ShrinkIfNeeded = Rehash(used * 2)
      BY <1>2 DEF ShrinkIfNeeded
  <2>3. /\ Rehash(used * 2).size = p
        /\ WellPlaced(Rehash(used * 2).buckets, p)
        /\ Stored(Rehash(used * 2).buckets) = Stored(buckets)
      BY <1>1, RehashKeeps
  <2> HIDE DEF p
  <2>4. used <= p /\ (p = InitialSize \/ p < 4 * used)
      BY <1>1, <2>1
  <2> QED
      BY <2>1, <2>2, <2>3, <2>4
<1>3. CASE ~ (used * 2 < size)
  <2>1. size < 4 * used
      BY <1>1, <1>3
  <2>2. ShrinkIfNeeded = [buckets |-> buckets, size |-> size]
      BY <1>3 DEF ShrinkIfNeeded
  <2> QED
      BY <1>1, <2>1, <2>2
<1> QED
    BY <1>2, <1>3

\* What insert does: with a key that is there it changes no entry, with another one it
\* adds one.
LEMMA InsertEffect ==
  ASSUME HashInv, NEW k \in Keys, NEW v \in Values, Insert(k, v)
  PROVE  /\ loading /\ UNCHANGED loading
         /\ size' \in Nat \ {0} /\ used < size' /\ WellPlaced(buckets', size')
         /\ \/ /\ \E e \in Stored(buckets) : e.key = k
               /\ Stored(buckets') = Stored(buckets) /\ used' = used /\ result' = NullPtr
            \/ /\ \A e \in Stored(buckets) : e.key # k
               /\ Stored(buckets') = Stored(buckets) \union {[key |-> k, val |-> v]}
               /\ used' = used + 1 /\ result' = v
<1> DEFINE table == ExpandIfNeeded.buckets
           n     == ExpandIfNeeded.size
           b     == Hash[k] % n
           e     == [key |-> k, val |-> v]
<1>1. /\ n \in Nat \ {0} /\ used < n /\ WellPlaced(table, n)
      /\ Stored(table) = Stored(buckets)
    BY ExpandKeeps
<1>2. /\ loading /\ UNCHANGED loading /\ size' = n
      /\ \/ /\ Lookup(table[b], k) # NullPtr
            /\ buckets' = table /\ result' = NullPtr /\ used' = used
         \/ /\ Lookup(table[b], k) = NullPtr
            /\ buckets' = Push(table, b, e) /\ used' = used + 1 /\ result' = v
    BY DEF Insert
<1> HIDE DEF table, n
<1>3. \/ Lookup(table[b], k) = NullPtr /\ \A x \in Stored(table) : x.key # k
      \/ /\ Lookup(table[b], k) \in Values
         /\ [key |-> k, val |-> Lookup(table[b], k)] \in Stored(table)
    BY <1>1, LookupStored
<1>4. CASE /\ Lookup(table[b], k) # NullPtr
           /\ buckets' = table /\ result' = NullPtr /\ used' = used
  <2>1. \E x \in Stored(table) : x.key = k
      BY <1>3, <1>4
  <2> QED
      BY <1>1, <1>2, <1>4, <2>1
<1>5. CASE /\ Lookup(table[b], k) = NullPtr
           /\ buckets' = Push(table, b, e) /\ used' = used + 1 /\ result' = v
  <2>1. \A x \in Stored(table) : x.key # e.key
      BY <1>3, <1>5, NullAssumption
  <2>2. e \in Entries /\ e.key = k
      BY DEF Entries
  <2>3. /\ WellPlaced(Push(table, Hash[e.key] % n, e), n)
        /\ Stored(Push(table, Hash[e.key] % n, e)) = Stored(table) \union {e}
    <3> HIDE DEF e
    <3> QED
        BY <1>1, <2>1, <2>2, PushEntry
  <2> QED
      BY <1>1, <1>2, <1>5, <2>1, <2>2, <2>3
<1> QED
    BY <1>2, <1>4, <1>5

\* A new table has the initial size and no entry.
LEMMA HashInit == Init => HashInv
<1> SUFFICES ASSUME Init PROVE HashInv
    OBVIOUS
<1>1. size = InitialSize /\ size \in Nat \ {0}
    BY SizeAssumption, NextPowerBounds DEF Init
<1>2. WellPlaced(buckets, size) /\ Stored(buckets) = {}
    BY <1>1, EmptyTable DEF Init
<1>3. IsFiniteSet({}) /\ Cardinality({}) = 0
    BY FS_EmptySet
<1>4. used = 0 /\ loading = FALSE /\ result = NullPtr
    BY DEF Init
<1>5. TableInv
    BY <1>1, <1>2, <1>3, <1>4 DEF TableInv
<1>6. LoadBounded /\ IsFiniteSet(Stored(buckets))
    BY <1>1, <1>2, <1>3, <1>4 DEF LoadBounded
<1> QED
    BY <1>5, <1>6 DEF HashInv

\* Every operation preserves the invariants.
LEMMA HashStep == HashInv /\ [Next]_vars => HashInv'
<1> SUFFICES ASSUME HashInv, [Next]_vars PROVE HashInv'
    OBVIOUS
<1>t. /\ TableInv /\ LoadBounded /\ IsFiniteSet(Stored(buckets))
      /\ size \in Nat \ {0} /\ used \in Nat /\ WellPlaced(buckets, size)
      /\ used = Cardinality(Stored(buckets))
    BY DEF HashInv, TableInv
<1>1. CASE BeginLoading
  <2>1. WellPlaced(buckets', size) /\ Stored(buckets') = {}
    <3>1. CASE used > 0
        BY <1>1, <1>t, <3>1, EmptyTable DEF BeginLoading
    <3>2. CASE used = 0
      <4>1. Stored(buckets) = {}
          BY <1>t, <3>2, FS_EmptySet
      <4> QED
          BY <1>1, <1>t, <3>2, <4>1 DEF BeginLoading
    <3> QED
        BY <1>t, <3>1, <3>2
  <2>2. IsFiniteSet({}) /\ Cardinality({}) = 0
      BY FS_EmptySet
  <2>3. size' = size /\ used' = 0 /\ loading' = TRUE /\ result' = result
      BY <1>1 DEF BeginLoading
  <2> QED
      BY <1>t, <2>1, <2>2, <2>3 DEF HashInv, TableInv, LoadBounded
<1>2. CASE EndLoading
  <2>1. /\ buckets' = ShrinkIfNeeded.buckets /\ size' = ShrinkIfNeeded.size
        /\ loading' = FALSE /\ used' = used /\ result' = result
      BY <1>2 DEF EndLoading
  <2>2. /\ size' \in Nat \ {0} /\ used <= size' /\ (size' = InitialSize \/ size' < 4 * used)
        /\ WellPlaced(buckets', size') /\ Stored(buckets') = Stored(buckets)
      BY <2>1, ShrinkKeeps
  <2> QED
      BY <1>t, <2>1, <2>2 DEF HashInv, TableInv, LoadBounded
<1>3. CASE InsertRefused \/ \E k \in Keys : Find(k)
  <2>1. result' \in Values \union {NullPtr}
    <3>1. ASSUME NEW k \in Keys PROVE Lookup(buckets[Hash[k] % size], k) \in Values \union {NullPtr}
        BY <1>t, LookupStored
    <3> QED
        BY <1>3, <3>1 DEF InsertRefused, Find
  <2>2. UNCHANGED <<buckets, size, used, loading>>
      BY <1>3 DEF InsertRefused, Find
  <2> QED
      BY <1>t, <2>1, <2>2 DEF HashInv, TableInv, LoadBounded
<1>4. ASSUME NEW k \in Keys, NEW v \in Values, Insert(k, v) PROVE HashInv'
  <2>1. /\ loading /\ loading' = loading
        /\ size' \in Nat \ {0} /\ used < size' /\ WellPlaced(buckets', size')
      BY <1>4, InsertEffect
  <2>2. CASE Stored(buckets') = Stored(buckets) /\ used' = used /\ result' = NullPtr
      BY <1>t, <2>1, <2>2 DEF HashInv, TableInv, LoadBounded
  <2>3. CASE /\ \A e \in Stored(buckets) : e.key # k
             /\ Stored(buckets') = Stored(buckets) \union {[key |-> k, val |-> v]}
             /\ used' = used + 1 /\ result' = v
    <3>1. [key |-> k, val |-> v] \notin Stored(buckets)
        BY <2>3
    <3>2. IsFiniteSet(Stored(buckets')) /\ Cardinality(Stored(buckets')) = used + 1
      <4> DEFINE old == Stored(buckets)
                 x == [key |-> k, val |-> v]
      <4>1. IsFiniteSet(old) /\ x \notin old
          BY <1>t, <3>1
      <4> HIDE DEF old, x
      <4>2. IsFiniteSet(old \union {x}) /\ Cardinality(old \union {x}) = Cardinality(old) + 1
          BY <4>1, FS_AddElement
      <4> QED
          BY <1>t, <2>3, <4>2 DEF old, x
    <3>3. used' <= size' /\ used' \in Nat
        BY <1>t, <2>1, <2>3
    <3> QED
        BY <1>t, <2>1, <2>3, <3>2, <3>3 DEF HashInv, TableInv, LoadBounded
  <2> QED
      BY <1>4, <2>2, <2>3, InsertEffect
<1>5. CASE UNCHANGED vars
    BY <1>5, <1>t DEF vars, HashInv, TableInv, LoadBounded
<1> QED
    BY <1>1, <1>2, <1>3, <1>4, <1>5 DEF Next

\* Every entry is where its hash and the size send it, no key is there twice and _used
\* counts the entries, for any number of keys and through every rehash.
THEOREM HashInvariant == Spec => []HashInv
BY HashInit, HashStep, PTL DEF Spec

\* The fields of the table agree at all times.
THEOREM TableIsConsistent == Spec => []TableInv
<1>1. HashInv => TableInv
    BY DEF HashInv
<1> QED
    BY <1>1, HashInvariant, PTL

\* A table never holds more entries than chains, and when it has been loaded it is not
\* less than a quarter full unless it has the initial size.
THEOREM LoadIsBounded == Spec => []LoadBounded
<1>1. HashInv => LoadBounded
    BY DEF HashInv
<1> QED
    BY <1>1, HashInvariant, PTL

-------------------------------------------------------------------------------
(* The refinement.                                                          *)

\* The map that the table is.
Content == [k \in Keys |-> Lookup(buckets[Hash[k] % size], k)]

\* A key is in the map with the value it is stored with.
LEMMA ContentStored ==
  ASSUME NEW n \in Nat \ {0}, NEW table, WellPlaced(table, n), NEW k \in Keys, NEW v \in Values
  PROVE  /\ [key |-> k, val |-> v] \in Stored(table) => Lookup(table[Hash[k] % n], k) = v
         /\ (\A e \in Stored(table) : e.key # k) <=> Lookup(table[Hash[k] % n], k) = NullPtr
<1> DEFINE w == Lookup(table[Hash[k] % n], k)
<1>1. \/ w = NullPtr /\ \A e \in Stored(table) : e.key # k
      \/ w \in Values /\ [key |-> k, val |-> w] \in Stored(table)
    BY LookupStored
<1> HIDE DEF w
<1>2. ASSUME [key |-> k, val |-> v] \in Stored(table) PROVE w = v
  <2>1. w \in Values /\ [key |-> k, val |-> w] \in Stored(table)
      BY <1>1, <1>2
  <2>2. [key |-> k, val |-> v] = [key |-> k, val |-> w]
      BY <1>2, <2>1, StoredOnce
  <2> QED
      BY <2>2
<1>3. (\A e \in Stored(table) : e.key # k) <=> w = NullPtr
    BY <1>1, NullAssumption
<1> QED
    BY <1>2, <1>3 DEF w

\* Moving entries does not change the map.
LEMMA ContentKept ==
  ASSUME HashInv, HashInv', Stored(buckets') = Stored(buckets)
  PROVE  Content' = Content
<1>1. ASSUME NEW k \in Keys
      PROVE  Lookup(buckets'[Hash[k] % size'], k) = Lookup(buckets[Hash[k] % size], k)
    BY SameMap DEF HashInv, TableInv
<1> QED
    BY <1>1 DEF Content

\* Each operation of the table is the operation of the map.
LEMMA HashStepImplements == HashInv /\ [Next]_vars => [Map!Next]_(Map!vars)
<1> SUFFICES ASSUME HashInv, [Next]_vars PROVE [Map!Next]_(Map!vars)
    OBVIOUS
<1>i. HashInv'
    BY HashStep
<1>t. /\ size \in Nat \ {0} /\ used \in Nat /\ WellPlaced(buckets, size)
      /\ size' \in Nat \ {0} /\ WellPlaced(buckets', size')
      /\ used = Cardinality(Stored(buckets)) /\ IsFiniteSet(Stored(buckets))
      /\ used' = Cardinality(Stored(buckets')) /\ IsFiniteSet(Stored(buckets'))
    BY <1>i DEF HashInv, TableInv
<1>e. ASSUME NEW k \in Keys, Stored(buckets) = {} PROVE Content[k] = NullPtr
  <2>1. Lookup(buckets[Hash[k] % size], k) = NullPtr
      BY <1>t, <1>e, LookupStored
  <2> QED
      BY <2>1 DEF Content
<1>f. ASSUME NEW k \in Keys, Stored(buckets') = {} PROVE Content'[k] = NullPtr
  <2>1. Lookup(buckets'[Hash[k] % size'], k) = NullPtr
      BY <1>t, <1>f, LookupStored
  <2> QED
      BY <2>1 DEF Content
<1>1. CASE BeginLoading
  <2>1. used' = 0
      BY <1>1 DEF BeginLoading
  <2>2. Stored(buckets') = {}
      BY <1>t, <2>1, FS_EmptySet
  <2>3. Content' = [k \in Keys |-> NullPtr]
      BY <1>f, <2>2 DEF Content
  <2>4. Map!BeginLoading
      BY <1>1, <2>3 DEF BeginLoading, Map!BeginLoading, Content
  <2> QED
      BY <2>4 DEF Map!Next
<1>2. CASE EndLoading
  <2>1. Stored(buckets') = Stored(buckets)
      BY <1>2, ShrinkKeeps DEF EndLoading
  <2>2. Content' = Content
      BY <1>i, <2>1, ContentKept
  <2>3. Map!EndLoading
      BY <1>2, <2>2 DEF EndLoading, Map!EndLoading, Content
  <2> QED
      BY <2>3 DEF Map!Next
<1>3. ASSUME NEW k \in Keys, InsertRefused PROVE Map!Next
  <2>1. Content' = Content
      BY <1>3 DEF InsertRefused, Content
  <2>2. Map!Refuse(k)
      BY <1>3, <2>1 DEF InsertRefused, Map!Refuse, Content
  <2> QED
      BY <2>2 DEF Map!Next
<1>4. ASSUME NEW k \in Keys, Find(k) PROVE Map!Next
  <2>1. Content' = Content /\ loading' = loading
      BY <1>4 DEF Find, Content
  <2>2. result' = IF loading THEN NullPtr ELSE Content[k]
    <3>1. CASE used = 0
      <4>1. Stored(buckets) = {}
          BY <1>t, <3>1, FS_EmptySet
      <4> QED
          BY <1>4, <1>e, <3>1, <4>1 DEF Find
    <3>2. CASE used # 0
        BY <1>4, <3>2 DEF Find, Content
    <3> QED
        BY <3>1, <3>2
  <2>3. Map!Find(k)
      BY <2>1, <2>2 DEF Map!Find, Content
  <2> QED
      BY <2>3 DEF Map!Next
<1>5. ASSUME NEW k \in Keys, NEW v \in Values, Insert(k, v) PROVE Map!Next
  <2>1. /\ loading /\ loading' = loading
        /\ \/ /\ \E e \in Stored(buckets) : e.key = k
              /\ Stored(buckets') = Stored(buckets) /\ used' = used /\ result' = NullPtr
           \/ /\ \A e \in Stored(buckets) : e.key # k
              /\ Stored(buckets') = Stored(buckets) \union {[key |-> k, val |-> v]}
              /\ used' = used + 1 /\ result' = v
      BY <1>5, InsertEffect
  <2>2. CASE /\ \E e \in Stored(buckets) : e.key = k
             /\ Stored(buckets') = Stored(buckets) /\ used' = used /\ result' = NullPtr
    <3>1. Content' = Content
        BY <1>i, <2>2, ContentKept
    <3>2. Content[k] # NullPtr
      <4>1. ~ \A e \in Stored(buckets) : e.key # k
          BY <2>2
      <4>2. Lookup(buckets[Hash[k] % size], k) # NullPtr
          BY <1>t, <4>1, ContentStored
      <4> QED
          BY <4>2 DEF Content
    <3>3. Map!Refuse(k)
        BY <2>1, <2>2, <3>1, <3>2 DEF Map!Refuse, Content
    <3> QED
        BY <3>3 DEF Map!Next
  <2>3. CASE /\ \A e \in Stored(buckets) : e.key # k
             /\ Stored(buckets') = Stored(buckets) \union {[key |-> k, val |-> v]}
             /\ used' = used + 1 /\ result' = v
    <3>1. Content[k] = NullPtr
        BY <1>t, <2>3, ContentStored DEF Content
    <3>2. ASSUME NEW j \in Keys
          PROVE  Content'[j] = IF j = k THEN v ELSE Content[j]
      <4>1. CASE j = k
        <5>1. [key |-> k, val |-> v] \in Stored(buckets')
            BY <2>3
        <5> QED
            BY <1>t, <4>1, <5>1, ContentStored DEF Content
      <4>2. CASE j # k
        <5> DEFINE w == Lookup(buckets[Hash[j] % size], j)
        <5>1. \/ w = NullPtr /\ \A e \in Stored(buckets) : e.key # j
              \/ w \in Values /\ [key |-> j, val |-> w] \in Stored(buckets)
            BY <1>t, LookupStored
        <5> HIDE DEF w
        <5>2. CASE w = NullPtr /\ \A e \in Stored(buckets) : e.key # j
          <6>1. \A e \in Stored(buckets') : e.key # j
              BY <2>3, <4>2, <5>2
          <6>2. Lookup(buckets'[Hash[j] % size'], j) = NullPtr
              BY <1>t, <6>1, ContentStored
          <6> QED
              BY <4>2, <5>2, <6>2 DEF w, Content
        <5>3. CASE w \in Values /\ [key |-> j, val |-> w] \in Stored(buckets)
          <6>1. [key |-> j, val |-> w] \in Stored(buckets')
              BY <2>3, <5>3
          <6>2. Lookup(buckets'[Hash[j] % size'], j) = w
              BY <1>t, <5>3, <6>1, ContentStored
          <6> QED
              BY <4>2, <6>2 DEF w, Content
        <5> QED
            BY <5>1, <5>2, <5>3
      <4> QED
          BY <4>1, <4>2
    <3>3. Content' = [Content EXCEPT ![k] = v]
        BY <3>2 DEF Content
    <3>4. Map!Add(k, v)
        BY <2>1, <2>3, <3>1, <3>3 DEF Map!Add, Content
    <3> QED
        BY <3>4 DEF Map!Next
  <2> QED
      BY <2>1, <2>2, <2>3
<1>6. CASE UNCHANGED vars
    BY <1>6 DEF vars, Map!vars
<1> QED
    BY <1>1, <1>2, <1>3, <1>4, <1>5, <1>6 DEF Next

\* A new table is the empty map.
LEMMA HashInitImplements == Init => Map!Init
<1> SUFFICES ASSUME Init PROVE Map!Init
    OBVIOUS
<1>1. HashInv /\ size \in Nat \ {0} /\ buckets = Empty(size)
    BY HashInit DEF Init, HashInv, TableInv
<1>2. WellPlaced(buckets, size) /\ Stored(buckets) = {}
    BY <1>1, EmptyTable
<1>3. \A k \in Keys : Lookup(buckets[Hash[k] % size], k) = NullPtr
    BY <1>1, <1>2, LookupStored
<1> QED
    BY <1>3 DEF Init, Map!Init

\* insert, find and the loading calls, through all the resizing, behave like those of a
\* map from which nothing is lost and in which nothing is overwritten.
THEOREM TableImplementsMap == Spec => ImplementsMap
<1>1. Init => Map!Init
    BY HashInitImplements
<1>2. HashInv /\ [Next]_vars => [Map!Next]_(Map!vars)
    BY HashStepImplements
<1> QED
    BY <1>1, <1>2, HashInvariant, PTL DEF Spec, ImplementsMap, Map!Spec

===============================================================================
