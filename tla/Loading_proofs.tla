---------------------------- MODULE Loading_proofs ----------------------------
(***************************************************************************)
(* Proofs about the loading of models: the lines the proxy and the node    *)
(* read from text (ModelLoading), and the node that loads and answers      *)
(* (KvNode), for any files and requests.  A behaviour of Programs runs one *)
(* program; the steps of the others leave its run alone.                   *)
(***************************************************************************)
EXTENDS Programs, FiniteSetTheorems, SequenceTheorems, SetInduction, TLAPS

\* A step belongs to the program that runs, and keeps its input.
LEMMA OwnSteps ==
  /\ LoadNext => job.prog = "load" /\ job' = job
  /\ NodeNext => job.prog = "node" /\ job' = job
  /\ KMPNext => job.prog = "kmp" /\ job' = job
  /\ QsortNext => job.prog = "qsort" /\ job' = job
  /\ MultiplyNext => job.prog = "multiply" /\ job' = job
  /\ MergeNext => job.prog = "merge" /\ job' = job
  /\ PolishNext => job.prog = "polish" /\ job' = job
  /\ RexNext => job.prog = "rex" /\ job' = job
<1>1. LoadNext => job.prog = "load" /\ job' = job
  BY DEF LoadNext, OpenNext, Getline, LeaveFile, InsertBlock, InsertOutOfBounds, EndOfModel,
         EndOfBlock, At, Becomes
<1>2. NodeNext => job.prog = "node" /\ job' = job
  BY DEF NodeNext, LoadKvFile, LoadFails, LoadKvs, NextPower, CountEntries, NextEntry, SwapKv,
         SwapBeyond, Constructed, KeyFound, KeyNotFound, Answered, AtFile, AtEntry, AtKey, Respond,
         At, Becomes
<1>3. KMPNext => job.prog = "kmp" /\ job' = job
  BY DEF KMPNext, EmptyPattern, ShortText, GetNext, Filling, Fill, FillBehind, FallBack, Filled,
         Scan, Scanned, Found, At, Becomes
<1>4. QsortNext => job.prog = "qsort" /\ job' = job
  BY DEF QsortNext, SortFew, ChoosePivot, PartitionLess, PartitionGreater, PartitionEqual,
         SortParts, QsortReturns, At, Becomes
<1>5. MultiplyNext => job.prog = "multiply" /\ job' = job
  BY DEF MultiplyNext, ReturnZero, StartRows, MultiplyDigit, EndRow, ReturnProduct, At, Becomes
<1>6. MergeNext => job.prog = "merge" /\ job' = job
  BY DEF MergeNext, OneIsEmpty, BothHaveNodes, TakeFirst, TakeSecond, LinkRest, WalkOn, WalkEnds,
         At, Becomes
<1>7. PolishNext => job.prog = "polish" /\ job' = job
  BY SMTT(30) DEF PolishNext, Operand, PushOp, PopOp, CloseParen, SetDone, PushNumber, Apply, Calculated,
         AtElem, AtPostfix, At, Becomes
<1>8. RexNext => job.prog = "rex" /\ job' = job
  BY DEF RexNext, CompileStar, CompileChar, CompileEnd, AddSplit, AddState, Added, NextChar,
         StateReads, Unmark, EndOfList, Matched, Include, AtState, At, Becomes
<1>. QED
  BY <1>1, <1>2, <1>3, <1>4, <1>5, <1>6, <1>7, <1>8

\* An input belongs to the program that runs.
LEMMA OwnInputs ==
  ASSUME Init
  PROVE
  /\ job.prog = "load" => \E files \in TextFileLists, load \in Loads : LoadModel(files, load)
  /\ job.prog = "node" => \E node \in Directories, keys \in KeyStrings : LoadAndGet(node, keys)
  /\ job.prog = "kmp" => \E src \in Texts, ptn \in Patterns : Search(src, ptn)
  /\ job.prog = "qsort" => \E list \in Arrays : SortArray(list)
  /\ job.prog = "multiply" => \E s1, s2 \in Decimals : Multiply(s1, s2)
  /\ job.prog = "merge" => \E l1, l2 \in SortedLists : MergeLists(l1, l2)
  /\ job.prog = "polish" => \E t \in Terms, all \in BOOLEAN : Calculate(t, all)
  /\ job.prog = "rex" => \E ptn \in Rexes, src \in Words : IsMatched(ptn, src)
<1>1. (\E files \in TextFileLists, load \in Loads : LoadModel(files, load)) => job.prog = "load"
  BY DEF LoadModel
<1>2. (\E node \in Directories, keys \in KeyStrings : LoadAndGet(node, keys)) => job.prog = "node"
  BY DEF LoadAndGet
<1>3. (\E src \in Texts, ptn \in Patterns : Search(src, ptn)) => job.prog = "kmp"
  BY DEF Search
<1>4. (\E list \in Arrays : SortArray(list)) => job.prog = "qsort"
  BY DEF SortArray
<1>5. (\E s1, s2 \in Decimals : Multiply(s1, s2)) => job.prog = "multiply"
  BY DEF Multiply
<1>6. (\E l1, l2 \in SortedLists : MergeLists(l1, l2)) => job.prog = "merge"
  BY DEF MergeLists
<1>7. (\E t \in Terms, all \in BOOLEAN : Calculate(t, all)) => job.prog = "polish"
  BY DEF Calculate
<1>8. (\E ptn \in Rexes, src \in Words : IsMatched(ptn, src)) => job.prog = "rex"
  BY DEF IsMatched
<1>. QED
  BY <1>1, <1>2, <1>3, <1>4, <1>5, <1>6, <1>7, <1>8 DEF Init

-------------------------------------------------------------------------------
(* Sequences of sequences.                                                  *)

\* What follows the recursion of FlattenSeq ends in its value.
LEMMA FlattenIs ==
  ASSUME NEW seqs, Len(seqs) \in Nat \ {0}, NEW f,
         f[1] = seqs[1], \A i \in 2 .. Len(seqs) : f[i] = f[i - 1] \o seqs[i]
  PROVE  FlattenSeq(seqs) = f[Len(seqs)]
<1> DEFINE n == Len(seqs)
           F(g) == [i \in 1 .. n |-> IF i = 1 THEN seqs[i] ELSE g[i - 1] \o seqs[i]]
           flatten == CHOOSE g : g = F(g)
           h == [i \in 1 .. n |-> f[i]]
<1>1. h = F(h)
  <2>1. ASSUME NEW i \in 1 .. n PROVE h[i] = F(h)[i]
    <3>1. CASE i = 1
      BY <3>1
    <3>2. CASE i # 1
      <4>1. i - 1 \in 1 .. n /\ i \in 2 .. n
        BY <3>2
      <4>. QED
        BY <3>2, <4>1
    <3>. QED
      BY <3>1, <3>2
  <2>. QED
    BY <2>1
<1>2. flatten = F(flatten)
  <2> HIDE DEF F, h
  <2>. QED
    BY <1>1
<1>3. FlattenSeq(seqs) = flatten[n]
  BY DEF FlattenSeq
<1> HIDE DEF flatten
<1>4. flatten[1] = seqs[1] /\ \A i \in 2 .. n : flatten[i] = flatten[i - 1] \o seqs[i]
  <2>1. ASSUME NEW i \in 1 .. n
        PROVE  flatten[i] = IF i = 1 THEN seqs[i] ELSE flatten[i - 1] \o seqs[i]
    <3>1. F(flatten)[i] = IF i = 1 THEN seqs[i] ELSE flatten[i - 1] \o seqs[i]
      OBVIOUS
    <3> HIDE DEF F
    <3>. QED
      BY <1>2, <3>1
  <2>2. 1 \in 1 .. n /\ \A i \in 2 .. n : i \in 1 .. n /\ i # 1
    OBVIOUS
  <2>. QED
    BY <2>1, <2>2
<1> DEFINE S == {k \in 0 .. n - 1 : flatten[k + 1] = f[k + 1]}
<1>5. 0 \in S
  BY <1>4
<1>6. ASSUME NEW k \in 0 .. (n - 1) - 1, k \in S PROVE k + 1 \in S
  <2>1. k + 2 \in 2 .. n /\ (k + 2) - 1 = k + 1 /\ (k + 1) + 1 = k + 2 /\ k + 1 \in 0 .. n - 1
    BY <1>6
  <2>2. flatten[k + 2] = flatten[k + 1] \o seqs[k + 2] /\ f[k + 2] = f[k + 1] \o seqs[k + 2]
    BY <1>4, <2>1
  <2>. QED
    BY <1>6, <2>1, <2>2
<1>7. n - 1 \in Nat /\ n - 1 \in 0 .. n - 1 /\ (n - 1) + 1 = n
  OBVIOUS
<1>8. \A k \in 0 .. n - 1 : k \in S
  <2> HIDE DEF S
  <2>. QED
    BY <1>5, <1>6, <1>7, InductionUpTo
<1>9. flatten[(n - 1) + 1] = f[(n - 1) + 1]
  BY <1>7, <1>8
<1>. QED
  BY <1>3, <1>7, <1>9

LEMMA FlattenExists ==
  ASSUME NEW X, NEW seqs \in Seq(Seq(X)), seqs # <<>>
  PROVE  \E f \in [1 .. Len(seqs) -> Seq(X)] :
           /\ f[1] = seqs[1] /\ \A i \in 2 .. Len(seqs) : f[i] = f[i - 1] \o seqs[i]
           /\ FlattenSeq(seqs) = f[Len(seqs)]
<1> DEFINE n == Len(seqs)
           Y == Seq(X)
           Step == [k \in 1 .. n - 1 |-> [x \in Y |-> x \o seqs[k + 1]]]
<1>1. n \in Nat \ {0}
  OBVIOUS
<1>2. \A i \in 1 .. n : seqs[i] \in Y
  OBVIOUS
<1>3. ASSUME NEW k \in 1 .. n - 1, NEW x \in Y PROVE x \o seqs[k + 1] \in Y
  <2>1. seqs[k + 1] \in Y
    BY <1>1, <1>2
  <2>. QED
    BY <2>1, ConcatProperties
<1>4. Step \in [1 .. n - 1 -> [Y -> Y]]
  <2> HIDE DEF Y, n
  <2>. QED
    BY <1>3
<1>5. PICK g : Solves(g, Y, seqs[1], n - 1, Step)
  <2>1. n - 1 \in Nat /\ seqs[1] \in Y
    BY <1>1, <1>2
  <2>2. Recursion(Y, seqs[1], n - 1, Step)
    <3> HIDE DEF Y, n, Step
    <3>. QED
      BY <1>4, <2>1 DEF Recursion
  <2> HIDE DEF Y, n, Step
  <2>. QED
    BY <2>2, RecursionSolved
<1>6. /\ g \in [0 .. n - 1 -> Y] /\ g[0] = seqs[1]
      /\ \A k \in 1 .. n - 1 : g[k] = Step[k][g[k - 1]]
  <2> HIDE DEF Y, n, Step
  <2>. QED
    BY <1>5 DEF Solves
<1>7. \A k \in 1 .. n - 1 : g[k] = g[k - 1] \o seqs[k + 1]
  <2>1. ASSUME NEW k \in 1 .. n - 1 PROVE g[k] = g[k - 1] \o seqs[k + 1]
    <3>1. g[k - 1] \in Y
      <4>1. k - 1 \in 0 .. n - 1
        BY <1>1
      <4> HIDE DEF Y, n
      <4>. QED
        BY <1>6, <4>1
    <3>2. Step[k] = [x \in Y |-> x \o seqs[k + 1]]
      <4> HIDE DEF Y, n
      <4>. QED
        OBVIOUS
    <3> HIDE DEF Y, n, Step
    <3>. QED
      BY <1>6, <3>1, <3>2
  <2>. QED
    BY <2>1
<1> DEFINE f == [i \in 1 .. n |-> g[i - 1]]
<1>8. f \in [1 .. n -> Y] /\ f[1] = seqs[1]
  <2>1. \A i \in 1 .. n : i - 1 \in 0 .. n - 1
    BY <1>1
  <2>2. 1 \in 1 .. n /\ 1 - 1 = 0
    BY <1>1
  <2> HIDE DEF Y, n
  <2>. QED
    BY <1>6, <2>1, <2>2
<1>9. ASSUME NEW i \in 2 .. n PROVE f[i] = f[i - 1] \o seqs[i]
  <2>1. i - 1 \in 1 .. n - 1 /\ (i - 1) + 1 = i /\ i - 1 \in 1 .. n /\ i \in 1 .. n
    BY <1>1
  <2>2. g[i - 1] = g[(i - 1) - 1] \o seqs[(i - 1) + 1]
    BY <1>7, <2>1
  <2> HIDE DEF n
  <2>. QED
    BY <2>1, <2>2
<1>10. FlattenSeq(seqs) = f[n]
  <2> HIDE DEF f
  <2>. QED
    BY <1>1, <1>8, <1>9, FlattenIs
<1>. QED
  <2> HIDE DEF f
  <2>. QED
    BY <1>8, <1>9, <1>10

\* One more sequence is put behind the others.
LEMMA FlattenAppend ==
  ASSUME NEW X, NEW seqs \in Seq(Seq(X)), NEW e \in Seq(X)
  PROVE  /\ FlattenSeq(seqs) \in Seq(X)
         /\ FlattenSeq(Append(seqs, e)) = FlattenSeq(seqs) \o e
<1> DEFINE n == Len(seqs)
           longer == Append(seqs, e)
<1>1. /\ n \in Nat /\ Len(longer) = n + 1 /\ longer[n + 1] = e
      /\ \A i \in 1 .. n : longer[i] = seqs[i]
  BY AppendProperties
<1>2. CASE seqs = <<>>
  <2>1. n = 0 /\ FlattenSeq(seqs) = <<>>
    BY <1>2 DEF FlattenSeq
  <2>2. FlattenSeq(longer) = longer[1]
    <3> DEFINE f == [i \in 1 .. 1 |-> longer[1]]
    <3>1. f[1] = longer[1] /\ Len(longer) = 1 /\ Len(longer) \in Nat \ {0} /\ \A i \in 2 .. 1 : f[i] = f[i - 1] \o longer[i]
      BY <1>1, <2>1
    <3> HIDE DEF f, longer
    <3>2. \A i \in 2 .. Len(longer) : f[i] = f[i - 1] \o longer[i]
      BY <3>1
    <3>3. FlattenSeq(longer) = f[Len(longer)]
      BY <3>1, <3>2, FlattenIs
    <3>. QED
      BY <3>1, <3>3
  <2>3. <<>> \o e = e /\ <<>> \in Seq(X)
    BY ConcatEmptySeq, EmptySeq
  <2>. QED
    BY <1>1, <2>1, <2>2, <2>3
<1>3. CASE seqs # <<>>
  <2>1. PICK f \in [1 .. n -> Seq(X)] :
           /\ f[1] = seqs[1] /\ \A i \in 2 .. n : f[i] = f[i - 1] \o seqs[i]
           /\ FlattenSeq(seqs) = f[n]
    BY <1>3, FlattenExists
  <2>2. n \in Nat \ {0}
    BY <1>3
  <2> DEFINE g == [i \in 1 .. n + 1 |-> IF i = n + 1 THEN f[n] \o e ELSE f[i]]
  <2>3. g[1] = longer[1]
    BY <1>1, <2>1, <2>2
  <2>4. ASSUME NEW i \in 2 .. n + 1 PROVE g[i] = g[i - 1] \o longer[i]
    <3>1. i - 1 \in 1 .. n /\ i - 1 # n + 1 /\ i \in 1 .. n + 1 /\ i - 1 \in 1 .. n + 1
      BY <2>2
    <3>2. g[i - 1] = f[i - 1]
      BY <3>1, SMTT(30)
    <3>3. CASE i = n + 1
      <4>1. i - 1 = n
        BY <2>2, <3>3
      <4>. QED
        BY <1>1, <3>1, <3>2, <3>3, <4>1, ZenonT(30)
    <3>4. CASE i # n + 1
      <4>1. i \in 2 .. n /\ i \in 1 .. n
        BY <2>2, <3>4
      <4>2. g[i] = f[i]
        BY <3>1, <3>4
      <4>. QED
        BY <1>1, <2>1, <3>2, <4>1, <4>2
    <3>. QED
      BY <3>3, <3>4, ZenonT(30)
  <2>5. FlattenSeq(longer) = g[n + 1]
    <3>1. Len(longer) \in Nat \ {0} /\ Len(longer) = n + 1
      BY <1>1
    <3> HIDE DEF g, longer, n
    <3>2. \A i \in 2 .. Len(longer) : g[i] = g[i - 1] \o longer[i]
      BY <2>4, <3>1
    <3>3. FlattenSeq(longer) = g[Len(longer)]
      BY <2>3, <3>1, <3>2, FlattenIs
    <3>. QED
      BY <3>1, <3>3
  <2>6. g[n + 1] = f[n] \o e
    BY <2>2
  <2>7. f[n] \in Seq(X)
    <3>1. n \in 1 .. n /\ f \in [1 .. n -> Seq(X)]
      BY <2>1, <2>2
    <3> HIDE DEF n
    <3>. QED
      BY <3>1
  <2>. QED
    <3>1. FlattenSeq(seqs) = f[n]
      BY <2>1
    <3>2. FlattenSeq(longer) = f[n] \o e
      <4> HIDE DEF g, longer, n
      <4>. QED
        BY <2>5, <2>6
    <3>. QED
      BY <2>7, <3>1, <3>2
<1>. QED
  BY <1>2, <1>3

\* The first n sequences, flattened.
LEMMA FlattenUpTo ==
  ASSUME NEW Y, NEW parts \in Seq(Seq(Y))
  PROVE  /\ FlattenSeq(SubSeq(parts, 1, 0)) = <<>>
         /\ \A n \in 1 .. Len(parts) :
              FlattenSeq(SubSeq(parts, 1, n)) = FlattenSeq(SubSeq(parts, 1, n - 1)) \o parts[n]
         /\ \A n \in 0 .. Len(parts) : FlattenSeq(SubSeq(parts, 1, n)) \in Seq(Y)
         /\ SubSeq(parts, 1, Len(parts)) = parts
<1> DEFINE X == Seq(Y)
<1>1. Len(parts) \in Nat /\ parts \in Seq(X) /\ \A n \in 1 .. Len(parts) : parts[n] \in X
  OBVIOUS
<1> HIDE DEF X
<1>4. FlattenSeq(SubSeq(parts, 1, 0)) = <<>>
  <2>1. SubSeq(parts, 1, 0) = <<>>
    BY SubSeqEmpty
  <2>. QED
    BY <2>1 DEF FlattenSeq
<1>5. ASSUME NEW n \in 0 .. Len(parts)
      PROVE  /\ SubSeq(parts, 1, n) \in Seq(X) /\ Len(SubSeq(parts, 1, n)) = n
             /\ \A i \in 1 .. n : SubSeq(parts, 1, n)[i] = parts[i]
  <2>1. 1 \in Int /\ n \in Int /\ \A i \in 1 .. n : parts[i] \in X
    BY <1>1
  <2>2. \A i \in 1 .. n : 1 + i - 1 = i
    BY <2>1
  <2>. QED
    BY <1>1, <2>1, <2>2, SubSeqProperties
<1>6. ASSUME NEW n \in 0 .. Len(parts) PROVE FlattenSeq(SubSeq(parts, 1, n)) \in X
  <2>1. SubSeq(parts, 1, n) \in Seq(X) /\ <<>> \in X
    BY <1>5, EmptySeq DEF X
  <2>. QED
    BY <2>1, FlattenAppend DEF X
<1>7. ASSUME NEW n \in 1 .. Len(parts)
      PROVE  FlattenSeq(SubSeq(parts, 1, n)) = FlattenSeq(SubSeq(parts, 1, n - 1)) \o parts[n]
  <2>1. n - 1 \in 0 .. Len(parts) /\ n \in 0 .. Len(parts) /\ parts[n] \in X
    BY <1>1
  <2> DEFINE s == SubSeq(parts, 1, n - 1)
             t == SubSeq(parts, 1, n)
  <2>2. /\ s \in Seq(X) /\ Len(s) = n - 1 /\ \A i \in 1 .. n - 1 : s[i] = parts[i]
        /\ t \in Seq(X) /\ Len(t) = n /\ \A i \in 1 .. n : t[i] = parts[i]
    BY <1>5, <2>1
  <2>3. t = Append(s, parts[n])
    <3> HIDE DEF s, t
    <3>1. /\ Append(s, parts[n]) \in Seq(X) /\ Len(Append(s, parts[n])) = (n - 1) + 1
          /\ \A i \in 1 .. n - 1 : Append(s, parts[n])[i] = s[i]
          /\ Append(s, parts[n])[(n - 1) + 1] = parts[n]
      BY <2>1, <2>2, AppendProperties
    <3>2. (n - 1) + 1 = n
      OBVIOUS
    <3>3. ASSUME NEW i \in 1 .. n PROVE t[i] = Append(s, parts[n])[i]
      <4>1. i = n \/ i \in 1 .. n - 1
        OBVIOUS
      <4>. QED
        BY <2>2, <3>1, <3>2, <4>1
    <3>. QED
      BY <2>2, <3>1, <3>2, <3>3, SeqEqual
  <2>4. FlattenSeq(t) = FlattenSeq(s) \o parts[n]
    <3> HIDE DEF s, t
    <3>. QED
      BY <2>1, <2>2, <2>3, FlattenAppend DEF X
  <2>. QED
    BY <2>4
<1>8. SubSeq(parts, 1, Len(parts)) = parts
  BY <1>1, SubSeqFull
<1>. QED
  BY <1>4, <1>6, <1>7, <1>8 DEF X

\* t is s and more.
Extends(s, t, X) == \E r \in Seq(X) : t = s \o r

LEMMA ExtendsProperties ==
  ASSUME NEW X, NEW s \in Seq(X), NEW t \in Seq(X), NEW u \in Seq(X)
  PROVE  /\ Extends(s, s, X)
         /\ Extends(s, t, X) /\ Extends(t, u, X) => Extends(s, u, X)
         /\ Extends(s, t, X) => s = SubSeq(t, 1, Len(s))
         /\ Extends(s, t, X) => \A i \in 1 .. Len(s) : i \in 1 .. Len(t) /\ t[i] = s[i]
<1>1. Extends(s, s, X)
  <2>1. <<>> \in Seq(X) /\ s = s \o <<>>
    BY ConcatEmptySeq, EmptySeq
  <2>. QED
    BY <2>1 DEF Extends
<1>2. ASSUME Extends(s, t, X), Extends(t, u, X) PROVE Extends(s, u, X)
  <2>1. PICK r \in Seq(X) : t = s \o r
    BY <1>2 DEF Extends
  <2>2. PICK q \in Seq(X) : u = t \o q
    BY <1>2 DEF Extends
  <2>3. u = s \o (r \o q) /\ r \o q \in Seq(X)
    BY <2>1, <2>2, ConcatAssociative, ConcatProperties, SMTT(30)
  <2>. QED
    BY <2>3 DEF Extends
<1>3. ASSUME Extends(s, t, X)
      PROVE  s = SubSeq(t, 1, Len(s)) /\ \A i \in 1 .. Len(s) : i \in 1 .. Len(t) /\ t[i] = s[i]
  <2>1. PICK r \in Seq(X) : t = s \o r
    BY <1>3 DEF Extends
  <2>2. /\ Len(s) \in Nat /\ Len(t) = Len(s) + Len(r) /\ Len(r) \in Nat
        /\ \A i \in 1 .. Len(s) : t[i] = s[i]
    BY <2>1, ConcatProperties
  <2>3. \A i \in 1 .. Len(s) : i \in 1 .. Len(t) /\ t[i] = s[i] /\ t[i] \in X
    BY <2>2
  <2>4. /\ SubSeq(t, 1, Len(s)) \in Seq(X) /\ Len(SubSeq(t, 1, Len(s))) = Len(s)
        /\ \A i \in 1 .. Len(s) : SubSeq(t, 1, Len(s))[i] = t[i]
    BY <2>2, <2>3, SubSeqProperties
  <2>. QED
    BY <2>3, <2>4, SeqEqual
<1>. QED
  BY <1>1, <1>2, <1>3

\* What only grows from step to step is a beginning of what it is in the end.
LEMMA GrowingExtends ==
  ASSUME NEW X, NEW m \in Nat, NEW f, \A n \in 0 .. m : f[n] \in Seq(X),
         \A n \in 1 .. m : Extends(f[n - 1], f[n], X)
  PROVE  \A n \in 0 .. m : Extends(f[n], f[m], X)
<1> DEFINE S == {k \in 0 .. m : Extends(f[m - k], f[m], X)}
<1>1. 0 \in S
  <2>1. m - 0 = m /\ m \in 0 .. m /\ 0 \in 0 .. m
    OBVIOUS
  <2>. QED
    BY <2>1, ExtendsProperties
<1>2. ASSUME NEW k \in 0 .. m - 1, k \in S PROVE k + 1 \in S
  <2>1. /\ m - k \in 1 .. m /\ (m - k) - 1 = m - (k + 1) /\ k + 1 \in 0 .. m
        /\ m - k \in 0 .. m /\ m - (k + 1) \in 0 .. m /\ m \in 0 .. m
    OBVIOUS
  <2>2. Extends(f[m - (k + 1)], f[m - k], X) /\ Extends(f[m - k], f[m], X)
    BY <1>2, <2>1
  <2>3. f[m - (k + 1)] \in Seq(X) /\ f[m - k] \in Seq(X) /\ f[m] \in Seq(X)
    BY <2>1
  <2>4. Extends(f[m - (k + 1)], f[m], X)
    BY <2>2, <2>3, ExtendsProperties
  <2>. QED
    BY <2>1, <2>4
<1>3. \A k \in 0 .. m : k \in S
  <2> HIDE DEF S
  <2>. QED
    BY <1>1, <1>2, InductionUpTo
<1>4. ASSUME NEW n \in 0 .. m PROVE Extends(f[n], f[m], X)
  <2>1. m - n \in 0 .. m /\ m - (m - n) = n
    OBVIOUS
  <2>2. Extends(f[m - (m - n)], f[m], X)
    BY <1>3, <2>1
  <2>. QED
    BY <2>1, <2>2
<1>. QED
  BY <1>4

-------------------------------------------------------------------------------
(* The lines of a model.                                                    *)

Kept == Lines \ {EmptyLine}

\* The first n lines of a file without the empty ones.
LEMMA NonEmptyValue ==
  ASSUME NEW lines \in Seq(Lines)
  PROVE  /\ NonEmpty(lines)[0] = <<>>
         /\ \A n \in 1 .. Len(lines) :
              NonEmpty(lines)[n] = IF lines[n] = EmptyLine THEN NonEmpty(lines)[n - 1]
                                   ELSE Append(NonEmpty(lines)[n - 1], lines[n])
         /\ \A n \in 0 .. Len(lines) : NonEmpty(lines)[n] \in Seq(Kept)
<1> DEFINE X == Seq(Kept)
           m == Len(lines)
           Step == [n \in 1 .. m |-> [x \in X |-> IF lines[n] = EmptyLine THEN x ELSE Append(x, lines[n])]]
           F(g) == [n \in 0 .. m |->
                      IF n = 0 THEN <<>>
                      ELSE IF lines[n] = EmptyLine THEN g[n - 1] ELSE Append(g[n - 1], lines[n])]
           upTo == CHOOSE g : g = F(g)
<1>1. m \in Nat /\ \A n \in 1 .. m : lines[n] \in Lines
  OBVIOUS
<1>2. ASSUME NEW n \in 1 .. m, NEW x \in X
      PROVE  (IF lines[n] = EmptyLine THEN x ELSE Append(x, lines[n])) \in X
  <2>1. CASE lines[n] = EmptyLine
    BY <2>1
  <2>2. CASE lines[n] # EmptyLine
    <3>1. lines[n] \in Kept
      BY <1>1, <2>2 DEF Kept
    <3>2. Append(x, lines[n]) \in X
      BY <3>1, AppendProperties
    <3>. QED
      BY <2>2, <3>2
  <2>. QED
    BY <2>1, <2>2
<1>3. PICK g : Solves(g, X, <<>>, m, Step)
  <2>1. <<>> \in X
    BY EmptySeq
  <2>2. Step \in [1 .. m -> [X -> X]]
    <3> HIDE DEF X, m
    <3>. QED
      BY <1>2
  <2>3. Recursion(X, <<>>, m, Step)
    <3> HIDE DEF X, m, Step
    <3>. QED
      BY <1>1, <2>1, <2>2 DEF Recursion
  <2> HIDE DEF X, m, Step
  <2>. QED
    BY <2>3, RecursionSolved
<1>4. /\ g \in [0 .. m -> X] /\ g[0] = <<>>
      /\ \A n \in 1 .. m : g[n] = Step[n][g[n - 1]]
  <2> HIDE DEF X, m, Step
  <2>. QED
    BY <1>3 DEF Solves
<1>5. ASSUME NEW n \in 1 .. m
      PROVE  g[n] = IF lines[n] = EmptyLine THEN g[n - 1] ELSE Append(g[n - 1], lines[n])
  <2>1. n - 1 \in 0 .. m
    BY <1>1
  <2> HIDE DEF X, m
  <2>2. g[n - 1] \in X
    BY <1>4, <2>1
  <2>3. Step[n][g[n - 1]] = IF lines[n] = EmptyLine THEN g[n - 1] ELSE Append(g[n - 1], lines[n])
    BY <2>2
  <2>. QED
    BY <1>4, <2>3
<1>6. g = F(g)
  <2>1. ASSUME NEW n \in 0 .. m PROVE g[n] = F(g)[n]
    <3>1. CASE n = 0
      BY <1>4, <3>1
    <3>2. CASE n # 0
      <4>1. n \in 1 .. m
        BY <1>1, <3>2
      <4> HIDE DEF m
      <4>. QED
        BY <1>5, <3>2, <4>1
    <3>. QED
      BY <3>1, <3>2
  <2>2. F(g) = [n \in 0 .. m |-> F(g)[n]]
    OBVIOUS
  <2> HIDE DEF m, X, F
  <2>. QED
    BY <1>4, <2>1, <2>2
<1>7. upTo = F(upTo)
  <2> HIDE DEF F
  <2>. QED
    BY <1>6
<1>8. NonEmpty(lines) = upTo
  BY DEF NonEmpty
<1> HIDE DEF upTo
<1>9. upTo[0] = <<>>
  <2>1. F(upTo)[0] = <<>>
    BY <1>1
  <2> HIDE DEF F
  <2>. QED
    BY <1>7, <2>1
<1>10. ASSUME NEW n \in 1 .. m
       PROVE upTo[n] = IF lines[n] = EmptyLine THEN upTo[n - 1] ELSE Append(upTo[n - 1], lines[n])
  <2>1. F(upTo)[n] = IF lines[n] = EmptyLine THEN upTo[n - 1] ELSE Append(upTo[n - 1], lines[n])
    BY <1>1
  <2> HIDE DEF F
  <2>. QED
    BY <1>7, <2>1
<1>11. \A n \in 0 .. m : upTo[n] \in X
  <2>1. upTo[0] \in X
    BY <1>9, EmptySeq
  <2>2. ASSUME NEW n \in 1 .. m, upTo[n - 1] \in X PROVE upTo[n] \in X
    <3> HIDE DEF X
    <3>. QED
      BY <1>2, <1>10, <2>2
  <2> HIDE DEF X
  <2>. QED
    BY <1>1, <2>1, <2>2, ValuesUpTo
<1>. QED
  BY <1>8, <1>9, <1>10, <1>11

LEMMA LinesOfType ==
  ASSUME NEW file \in TextFiles
  PROVE  /\ file.lines \in Seq(Lines) /\ Len(file.lines) \in Nat /\ LinesOf(file) \in Seq(Kept)
         /\ file.opens => LinesOf(file) = NonEmpty(file.lines)[Len(file.lines)]
         /\ ~file.opens => LinesOf(file) = <<>>
<1>1. file.lines \in Seq(Lines) /\ file.opens \in BOOLEAN
  BY DEF TextFiles
<1>2. Len(file.lines) \in Nat /\ Len(file.lines) \in 0 .. Len(file.lines)
  BY <1>1
<1>3. NonEmpty(file.lines)[Len(file.lines)] \in Seq(Kept)
  BY <1>1, <1>2, NonEmptyValue
<1>. QED
  BY <1>1, <1>2, <1>3, EmptySeq DEF LinesOf

\* The lines of the first n files.
PartsOf(files)      == [f \in DOMAIN files |-> LinesOf(files[f])]
LinesUpTo(files, n) == FlattenSeq(SubSeq(PartsOf(files), 1, n))

LEMMA LinesUpToSteps ==
  ASSUME NEW files \in Seq(TextFiles)
  PROVE  /\ LinesUpTo(files, 0) = <<>>
         /\ \A n \in 1 .. Len(files) : LinesUpTo(files, n) = LinesUpTo(files, n - 1) \o LinesOf(files[n])
         /\ \A n \in 0 .. Len(files) : LinesUpTo(files, n) \in Seq(Kept)
         /\ LinesUpTo(files, Len(files)) = AllLines(files)
<1> DEFINE parts == PartsOf(files)
           X == Seq(Kept)
<1>1. Len(files) \in Nat /\ DOMAIN files = 1 .. Len(files) /\ \A n \in 1 .. Len(files) : files[n] \in TextFiles
  OBVIOUS
<1>2. \A n \in 1 .. Len(files) : LinesOf(files[n]) \in X
  BY <1>1, LinesOfType
<1>3. /\ parts \in Seq(X) /\ Len(parts) = Len(files)
      /\ \A n \in 1 .. Len(files) : parts[n] = LinesOf(files[n])
  <2> HIDE DEF X
  <2>. QED
    BY <1>1, <1>2 DEF PartsOf
<1> HIDE DEF parts, X
<1>4. /\ LinesUpTo(files, 0) = <<>>
      /\ \A n \in 1 .. Len(files) : LinesUpTo(files, n) = LinesUpTo(files, n - 1) \o parts[n]
      /\ \A n \in 0 .. Len(files) : LinesUpTo(files, n) \in X
      /\ SubSeq(parts, 1, Len(files)) = parts
  BY <1>3, FlattenUpTo DEF LinesUpTo, X, parts
<1>5. LinesUpTo(files, Len(files)) = AllLines(files)
  BY <1>4 DEF LinesUpTo, AllLines, PartsOf, parts
<1>. QED
  BY <1>3, <1>4, <1>5 DEF X

\* A file that does not open has no lines.
LEMMA SkippedFiles ==
  ASSUME NEW files \in Seq(TextFiles), NEW a \in 0 .. Len(files), NEW b \in a .. Len(files),
         \A f \in a + 1 .. b : ~files[f].opens
  PROVE  LinesUpTo(files, b) = LinesUpTo(files, a)
<1> DEFINE S == {k \in 0 .. b - a : LinesUpTo(files, a + k) = LinesUpTo(files, a)}
<1>0. Len(files) \in Nat /\ a \in Nat /\ b \in Nat /\ b - a \in Nat
  OBVIOUS
<1>1. 0 \in S
  BY <1>0
<1>2. ASSUME NEW k \in 0 .. (b - a) - 1, k \in S PROVE k + 1 \in S
  <2>1. /\ a + (k + 1) \in 1 .. Len(files) /\ (a + (k + 1)) - 1 = a + k
        /\ a + k \in 0 .. Len(files) /\ a + (k + 1) \in a + 1 .. b /\ k + 1 \in 0 .. b - a
    BY <1>0
  <2>2. files[a + (k + 1)] \in TextFiles /\ ~files[a + (k + 1)].opens
    BY <2>1
  <2>3. LinesOf(files[a + (k + 1)]) = <<>>
    BY <2>2, LinesOfType
  <2>4. LinesUpTo(files, a + (k + 1)) = LinesUpTo(files, a + k) \o <<>> /\ LinesUpTo(files, a + k) \in Seq(Kept)
    BY <2>1, <2>3, LinesUpToSteps
  <2>5. LinesUpTo(files, a + (k + 1)) = LinesUpTo(files, a + k)
    BY <2>4, ConcatEmptySeq
  <2>. QED
    BY <1>2, <2>1, <2>5
<1>3. \A k \in 0 .. b - a : k \in S
  <2> HIDE DEF S
  <2>. QED
    BY <1>0, <1>1, <1>2, InductionUpTo
<1>4. b - a \in 0 .. b - a /\ a + (b - a) = b
  BY <1>0
<1>5. LinesUpTo(files, a + (b - a)) = LinesUpTo(files, a)
  BY <1>3, <1>4
<1>. QED
  BY <1>4, <1>5

\* What get_lines has read of the files so far; it is always a beginning of them.
ReaderOK(files, rd) ==
  /\ rd = [cur |-> rd.cur, open |-> rd.open, at |-> rd.at]
  /\ rd.cur \in 0 .. Len(files) /\ rd.open \in BOOLEAN /\ rd.at \in Nat
  /\ rd.open => rd.cur < Len(files) /\ files[rd.cur + 1].opens /\ rd.at <= Len(files[rd.cur + 1].lines)
ReadBy(files, rd) ==
  IF rd.open THEN LinesUpTo(files, rd.cur) \o NonEmpty(files[rd.cur + 1].lines)[rd.at]
  ELSE LinesUpTo(files, rd.cur)

LEMMA ReadExtends ==
  ASSUME NEW files \in Seq(TextFiles), NEW rd, ReaderOK(files, rd)
  PROVE  /\ ReadBy(files, rd) \in Seq(Kept) /\ AllLines(files) \in Seq(Kept)
         /\ Extends(ReadBy(files, rd), AllLines(files), Kept)
<1>1. Len(files) \in Nat /\ \A n \in 1 .. Len(files) : files[n] \in TextFiles
  OBVIOUS
<1>2. /\ \A n \in 1 .. Len(files) : LinesUpTo(files, n) = LinesUpTo(files, n - 1) \o LinesOf(files[n])
      /\ \A n \in 0 .. Len(files) : LinesUpTo(files, n) \in Seq(Kept)
      /\ LinesUpTo(files, Len(files)) = AllLines(files)
  BY LinesUpToSteps
<1>3. \A n \in 0 .. Len(files) : Extends(LinesUpTo(files, n), AllLines(files), Kept)
  <2> DEFINE f == [n \in 0 .. Len(files) |-> LinesUpTo(files, n)]
  <2>1. \A n \in 0 .. Len(files) : f[n] \in Seq(Kept)
    BY <1>2
  <2>2. ASSUME NEW n \in 1 .. Len(files) PROVE Extends(f[n - 1], f[n], Kept)
    <3>1. n - 1 \in 0 .. Len(files) /\ n \in 0 .. Len(files)
      BY <1>1
    <3>2. f[n] = f[n - 1] \o LinesOf(files[n]) /\ LinesOf(files[n]) \in Seq(Kept)
      BY <1>1, <1>2, <3>1, LinesOfType
    <3>. QED
      BY <3>2 DEF Extends
  <2>3. \A n \in 0 .. Len(files) : f[n] = LinesUpTo(files, n)
    OBVIOUS
  <2>4. Len(files) \in 0 .. Len(files)
    BY <1>1
  <2> HIDE DEF f
  <2>5. \A n \in 0 .. Len(files) : Extends(f[n], f[Len(files)], Kept)
    BY <1>1, <2>1, <2>2, GrowingExtends
  <2>. QED
    BY <1>2, <2>3, <2>4, <2>5
<1>4. Len(files) \in 0 .. Len(files) /\ AllLines(files) \in Seq(Kept)
  BY <1>1, <1>2
<1>5. CASE ~rd.open
  BY <1>2, <1>3, <1>4, <1>5 DEF ReaderOK, ReadBy
<1>6. CASE rd.open
  <2> DEFINE file == files[rd.cur + 1]
             m == Len(file.lines)
             f == NonEmpty(file.lines)
  <2>1. /\ rd.cur + 1 \in 1 .. Len(files) /\ (rd.cur + 1) - 1 = rd.cur /\ file \in TextFiles /\ file.opens
        /\ rd.cur \in 0 .. Len(files) /\ rd.cur + 1 \in 0 .. Len(files)
    BY <1>1, <1>6 DEF ReaderOK
  <2>2. m \in Nat /\ file.lines \in Seq(Lines) /\ LinesOf(file) = f[m] /\ rd.at \in 0 .. m
    BY <1>6, <2>1, LinesOfType DEF ReaderOK
  <2> HIDE DEF file
  <2>3. /\ \A n \in 1 .. m : f[n] = IF file.lines[n] = EmptyLine THEN f[n - 1] ELSE Append(f[n - 1], file.lines[n])
        /\ \A n \in 0 .. m : f[n] \in Seq(Kept)
    BY <2>2, NonEmptyValue
  <2> HIDE DEF f
  <2>4. ASSUME NEW n \in 1 .. m PROVE Extends(f[n - 1], f[n], Kept)
    <3>1. f[n - 1] \in Seq(Kept) /\ f[n] \in Seq(Kept)
      BY <2>2, <2>3
    <3>2. CASE file.lines[n] = EmptyLine
      BY <2>3, <3>1, <3>2, ExtendsProperties
    <3>3. CASE file.lines[n] # EmptyLine
      <4>1. file.lines[n] \in Kept
        BY <2>2, <3>3 DEF Kept
      <4>2. <<file.lines[n]>> \in Seq(Kept)
        <5> DEFINE line == file.lines[n]
        <5> HIDE DEF line
        <5>1. line \in Kept
          BY <4>1 DEF line
        <5>2. <<line>> \in Seq(Kept)
          BY <5>1
        <5>. QED
          BY <5>2 DEF line
      <4>3. f[n] = Append(f[n - 1], file.lines[n])
        BY <2>3, <3>3
      <4>4. f[n] = f[n - 1] \o <<file.lines[n]>>
        BY <3>1, <4>1, <4>3, AppendIsConcat
      <4>. QED
        BY <4>2, <4>4 DEF Extends
    <3>. QED
      BY <3>2, <3>3
  <2>5. Extends(f[rd.at], f[m], Kept)
    <3> HIDE DEF m
    <3>. QED
      BY <2>2, <2>3, <2>4, GrowingExtends
  <2>6. PICK r \in Seq(Kept) : f[m] = f[rd.at] \o r
    BY <2>5 DEF Extends
  <2>7. /\ LinesUpTo(files, rd.cur + 1) = LinesUpTo(files, rd.cur) \o f[m]
        /\ LinesUpTo(files, rd.cur) \in Seq(Kept) /\ f[rd.at] \in Seq(Kept)
    BY <1>2, <2>1, <2>2, <2>3 DEF file
  <2>8. ReadBy(files, rd) = LinesUpTo(files, rd.cur) \o f[rd.at]
    BY <1>6 DEF ReadBy, file, f
  <2>9. LinesUpTo(files, rd.cur + 1) = ReadBy(files, rd) \o r /\ ReadBy(files, rd) \in Seq(Kept)
    <3> DEFINE u == LinesUpTo(files, rd.cur)
               v == f[rd.at]
    <3>1. u \in Seq(Kept) /\ v \in Seq(Kept) /\ f[m] = v \o r
          /\ LinesUpTo(files, rd.cur + 1) = u \o f[m]
      BY <2>6, <2>7
    <3> HIDE DEF u, v
    <3>2. u \in Seq(Kept) /\ v \in Seq(Kept) /\ r \in Seq(Kept)
      BY <3>1
    <3>3. (u \o v) \o r = u \o (v \o r)
      BY <3>2, ConcatAssociative, SMTT(30)
    <3>4. u \o v \in Seq(Kept)
      BY <3>2, ConcatProperties
    <3>. QED
      BY <2>8, <3>1, <3>3, <3>4 DEF u, v
  <2>10. Extends(ReadBy(files, rd), LinesUpTo(files, rd.cur + 1), Kept)
    BY <2>9 DEF Extends
  <2>. QED
    BY <1>2, <1>3, <1>4, <2>1, <2>9, <2>10, ExtendsProperties
<1>. QED
  BY <1>5, <1>6 DEF ReaderOK

\* One sequence behind another, place by place.
LEMMA PutBehind ==
  ASSUME NEW X, NEW s \in Seq(X), NEW t \in Seq(X)
  PROVE  /\ s \o t \in Seq(X)
         /\ Len(s) \in Nat /\ Len(t) \in Nat /\ Len(s \o t) = Len(s) + Len(t)
         /\ \A i \in 1 .. Len(s) : i \in 1 .. Len(s \o t) /\ (s \o t)[i] = s[i]
         /\ \A j \in 1 .. Len(t) : Len(s) + j \in 1 .. Len(s \o t) /\ (s \o t)[Len(s) + j] = t[j]
         /\ \A i \in 1 .. Len(s \o t) :
              \/ i \in 1 .. Len(s)
              \/ \E j \in 1 .. Len(t) : i = Len(s) + j
<1>1. /\ s \o t \in Seq(X) /\ Len(s) \in Nat /\ Len(t) \in Nat /\ Len(s \o t) = Len(s) + Len(t)
      /\ \A i \in 1 .. Len(s) + Len(t) : (s \o t)[i] = IF i <= Len(s) THEN s[i] ELSE t[i - Len(s)]
  BY ConcatProperties
<1>2. ASSUME NEW i \in 1 .. Len(s) PROVE i \in 1 .. Len(s \o t) /\ (s \o t)[i] = s[i]
  BY <1>1
<1>3. ASSUME NEW j \in 1 .. Len(t)
      PROVE  Len(s) + j \in 1 .. Len(s \o t) /\ (s \o t)[Len(s) + j] = t[j]
  <2>1. Len(s) + j \in 1 .. Len(s) + Len(t) /\ ~(Len(s) + j <= Len(s)) /\ (Len(s) + j) - Len(s) = j
    BY <1>1
  <2>. QED
    BY <1>1, <2>1
<1>4. ASSUME NEW i \in 1 .. Len(s \o t), i \notin 1 .. Len(s)
      PROVE  \E j \in 1 .. Len(t) : i = Len(s) + j
  <2>1. i - Len(s) \in 1 .. Len(t) /\ i = Len(s) + (i - Len(s))
    BY <1>1, <1>4
  <2>. QED
    BY <2>1
<1>. QED
  BY <1>1, <1>2, <1>3, <1>4

LEMMA AppendBehind ==
  ASSUME NEW X, NEW s \in Seq(X), NEW t \in Seq(X), NEW e \in X
  PROVE  s \o Append(t, e) = Append(s \o t, e)
<1>1. Append(t, e) = t \o <<e>> /\ <<e>> \in Seq(X)
  BY AppendIsConcat
<1>2. s \o t \in Seq(X)
  BY ConcatProperties
<1>3. Append(s \o t, e) = (s \o t) \o <<e>>
  BY <1>2, AppendIsConcat
<1>4. (s \o t) \o <<e>> = s \o (t \o <<e>>)
  BY <1>1, ConcatAssociative
<1>. QED
  BY <1>1, <1>3, <1>4

\* The backend of a key, for a number of servers.
Idx(servers, key) == Remainder(AsInt(key), servers)

LEMMA ParsedType ==
  ASSUME NEW line \in Kept
  PROVE  ParsedKey(line) \in Int /\ ParsedKV(line).key = ParsedKey(line)
<1>1. line \in Seq([number : BOOLEAN, n : Int]) /\ line # <<>>
  BY DEF Kept, Lines, EmptyLine
<1>2. line[1] \in [number : BOOLEAN, n : Int]
  <2> DEFINE X == [number : BOOLEAN, n : Int]
  <2>1. line \in Seq(X) /\ line # <<>>
    BY <1>1
  <2> HIDE DEF X
  <2>2. 1 \in 1 .. Len(line)
    BY <2>1, EmptySeq
  <2>3. line[1] \in X
    BY <2>1, <2>2
  <2>. QED
    BY <2>3 DEF X
<1>3. MaxKey \in Int /\ MinKey \in Int
  BY SpanAssumption DEF MaxKey, MinKey
<1>. QED
  BY <1>2, <1>3 DEF ParsedKey, ParsedKV

\* A key has an index below the number of servers, and one from 0 if the low half of its
\* bits is no negative number or divides evenly.
LEMMA IdxBounds ==
  ASSUME NEW servers \in Nat \ {0}, NEW key \in Int
  PROVE  /\ Idx(servers, key) \in Int /\ Idx(servers, key) < servers
         /\ Idx(servers, key) >= 0
              <=> key % IntSpan < IntSpan \div 2 \/ (IntSpan - (key % IntSpan)) % servers = 0
<1> DEFINE low == key % IntSpan
<1>1. low \in 0 .. IntSpan - 1 /\ IntSpan \in Nat \ {0}
  BY SpanAssumption
<1>2. IntSpan \div 2 \in Int
  BY <1>1
<1> HIDE DEF low
<1>3. CASE low < IntSpan \div 2
  <2>1. AsInt(key) = low /\ Idx(servers, key) = low % servers
    BY <1>1, <1>3 DEF AsInt, Idx, Remainder, low
  <2>2. low % servers \in 0 .. servers - 1
    BY <1>1
  <2>. QED
    BY <1>3, <2>1, <2>2 DEF low
<1>4. CASE ~(low < IntSpan \div 2)
  <2>1. AsInt(key) = low - IntSpan
    BY <1>4 DEF AsInt, low
  <2>2. ~(low - IntSpan >= 0) /\ -(low - IntSpan) = IntSpan - low /\ IntSpan - low \in Int
    BY <1>1
  <2>3. Idx(servers, key) = -((IntSpan - low) % servers)
    BY <2>1, <2>2 DEF Idx, Remainder
  <2>4. (IntSpan - low) % servers \in 0 .. servers - 1
    BY <2>2
  <2>. QED
    BY <1>4, <2>3, <2>4 DEF low
<1>. QED
  BY <1>3, <1>4

\* The backends hold lines: each pair is that of the first line with its key, each such line
\* and so each line's key is there, and the answer says whether a key came twice.
IsFirst(lines, i) == \A j \in 1 .. i - 1 : ParsedKey(lines[j]) # ParsedKey(lines[i])
Distinct(lines) ==
  \A i, j \in 1 .. Len(lines) : ParsedKey(lines[i]) = ParsedKey(lines[j]) => i = j
Stored(lines, stores, ret, servers) ==
  /\ DOMAIN stores = 0 .. servers - 1
  /\ \A i \in 1 .. Len(lines) : Idx(servers, ParsedKey(lines[i])) \in 0 .. servers - 1
  /\ \A s \in 0 .. servers - 1 : \A kv \in stores[s] : \E i \in 1 .. Len(lines) :
       kv = ParsedKV(lines[i]) /\ Idx(servers, ParsedKey(lines[i])) = s /\ IsFirst(lines, i)
  /\ \A i \in 1 .. Len(lines) : \E kv \in stores[Idx(servers, ParsedKey(lines[i]))] :
       kv.key = ParsedKey(lines[i])
  /\ \A i \in 1 .. Len(lines) : IsFirst(lines, i) =>
       ParsedKV(lines[i]) \in stores[Idx(servers, ParsedKey(lines[i]))]
  /\ ret <=> Distinct(lines)

\* _insert of a block.
LEMMA StoredMore ==
  ASSUME NEW lines \in Seq(Kept), st.lines \in Seq(Kept), job.servers \in Nat \ {0}, st.ret \in BOOLEAN,
         Stored(lines, st.stores, st.ret, job.servers),
         \A i \in DOMAIN Parsed : InBounds(Parsed[i].key)
  PROVE  Stored(lines \o st.lines,
                [s \in DOMAIN st.stores |-> st.stores[s] \union {Parsed[i] : i \in Taken(Parsed, s)}],
                st.ret /\ \A s \in DOMAIN st.stores : Taken(Parsed, s) = Part(Parsed, s),
                job.servers)
<1> DEFINE B == st.lines
           more == lines \o B
           stores == [s \in DOMAIN st.stores |->
                        st.stores[s] \union {Parsed[i] : i \in Taken(Parsed, s)}]
           ret == st.ret /\ \A s \in DOMAIN st.stores : Taken(Parsed, s) = Part(Parsed, s)
           idx(key) == Idx(job.servers, key)
           D == 0 .. job.servers - 1
           key(i) == ParsedKey(B[i])
<1>1. /\ DOMAIN st.stores = D
      /\ \A i \in 1 .. Len(lines) : idx(ParsedKey(lines[i])) \in D
      /\ \A s \in D : \A kv \in st.stores[s] : \E i \in 1 .. Len(lines) :
           kv = ParsedKV(lines[i]) /\ idx(ParsedKey(lines[i])) = s /\ IsFirst(lines, i)
      /\ \A i \in 1 .. Len(lines) : \E kv \in st.stores[idx(ParsedKey(lines[i]))] :
           kv.key = ParsedKey(lines[i])
      /\ \A i \in 1 .. Len(lines) : IsFirst(lines, i) =>
           ParsedKV(lines[i]) \in st.stores[idx(ParsedKey(lines[i]))]
      /\ st.ret <=> Distinct(lines)
  BY DEF Stored
<1>2. /\ DOMAIN Parsed = 1 .. Len(B)
      /\ \A i \in 1 .. Len(B) : /\ B[i] \in Kept /\ Parsed[i] = ParsedKV(B[i])
                                /\ Parsed[i].key = key(i) /\ key(i) \in Int
  <2>1. DOMAIN B = 1 .. Len(B) /\ \A i \in 1 .. Len(B) : B[i] \in Kept
    OBVIOUS
  <2>. QED
    BY <2>1, ParsedType DEF Parsed
<1>3. \A i \in 1 .. Len(lines) : ParsedKV(lines[i]).key = ParsedKey(lines[i])
  BY ParsedType
<1>4. /\ Len(lines) \in Nat /\ Len(B) \in Nat
      /\ \A i \in 1 .. Len(lines) : i \in 1 .. Len(more) /\ more[i] = lines[i]
      /\ \A j \in 1 .. Len(B) : Len(lines) + j \in 1 .. Len(more) /\ more[Len(lines) + j] = B[j]
      /\ \A i \in 1 .. Len(more) : i \in 1 .. Len(lines) \/ \E j \in 1 .. Len(B) : i = Len(lines) + j
  BY PutBehind
<1>5. ASSUME NEW j \in 1 .. Len(B) PROVE idx(key(j)) \in D /\ j \in Part(Parsed, idx(key(j)))
  <2>1. InBounds(key(j)) /\ ClientIdx(key(j)) = idx(key(j))
    BY <1>2 DEF ClientIdx, Idx
  <2>2. idx(key(j)) >= 0
    BY <2>1 DEF InBounds
  <2>3. idx(key(j)) \in Int /\ idx(key(j)) < job.servers
    BY <1>2, IdxBounds
  <2>. QED
    BY <1>2, <2>1, <2>2, <2>3 DEF Part
<1>6. \A s : \A j \in Part(Parsed, s) : j \in 1 .. Len(B) /\ idx(key(j)) = s
  BY <1>2 DEF Part, ClientIdx, Idx
<1>7. \A s : Taken(Parsed, s) = {i \in Part(Parsed, s) :
                                   /\ \A kv \in st.stores[s] : kv.key # key(i)
                                   /\ \A j \in Part(Parsed, s) : j < i => key(j) # key(i)}
  BY <1>2, <1>6, SMTT(30) DEF Taken
<1>8. /\ DOMAIN stores = D
      /\ \A s \in D : st.stores[s] \subseteq stores[s]
      /\ \A s \in D : \A kv \in stores[s] : kv \in st.stores[s] \/ \E j \in Taken(Parsed, s) : kv = Parsed[j]
      /\ \A s \in D : \A j \in Taken(Parsed, s) : Parsed[j] \in stores[s]
  <2> HIDE DEF D
  <2>. QED
    BY <1>1
<1> HIDE DEF stores, more, D, B, idx, key
<1>9. \A i \in 1 .. Len(more) : idx(ParsedKey(more[i])) \in D
  <2>1. \A j \in 1 .. Len(B) : idx(ParsedKey(B[j])) \in D
    BY <1>5 DEF key
  <2>2. \A i \in 1 .. Len(lines) : idx(ParsedKey(lines[i])) \in D
    BY <1>1
  <2>3. ASSUME NEW i \in 1 .. Len(more) PROVE idx(ParsedKey(more[i])) \in D
    <3>1. CASE i \in 1 .. Len(lines)
      <4>1. more[i] = lines[i]
        BY <1>4, <3>1
      <4>. QED
        BY <2>2, <3>1, <4>1
    <3>2. CASE \E j \in 1 .. Len(B) : i = Len(lines) + j
      <4>1. PICK j \in 1 .. Len(B) : i = Len(lines) + j
        BY <3>2
      <4>2. more[i] = B[j]
        BY <1>4, <4>1
      <4>. QED
        BY <2>1, <4>2
    <3>. QED
      BY <1>4, <3>1, <3>2
  <2>. QED
    BY <2>3
<1>10. ASSUME NEW s \in D, NEW kv \in stores[s]
       PROVE  \E i \in 1 .. Len(more) :
                kv = ParsedKV(more[i]) /\ idx(ParsedKey(more[i])) = s /\ IsFirst(more, i)
  <2>1. CASE kv \in st.stores[s]
    <3>1. PICK i \in 1 .. Len(lines) :
            kv = ParsedKV(lines[i]) /\ idx(ParsedKey(lines[i])) = s /\ IsFirst(lines, i)
      BY <1>1, <2>1
    <3>2. \A n \in 1 .. i - 1 : n \in 1 .. Len(lines)
      BY <1>4
    <3>3. IsFirst(more, i)
      BY <1>4, <3>1, <3>2 DEF IsFirst
    <3>. QED
      BY <1>4, <3>1, <3>3
  <2>2. CASE \E j \in Taken(Parsed, s) : kv = Parsed[j]
    <3>1. PICK j \in Taken(Parsed, s) : kv = Parsed[j]
      BY <2>2
    <3>2. /\ j \in Part(Parsed, s) /\ \A old \in st.stores[s] : old.key # key(j)
          /\ \A m \in Part(Parsed, s) : m < j => key(m) # key(j)
      BY <1>7, <3>1
    <3>3. j \in 1 .. Len(B) /\ idx(key(j)) = s
      BY <1>6, <3>2
    <3>4. kv = ParsedKV(B[j])
      BY <1>2, <3>1, <3>3
    <3>5. \A n \in 1 .. Len(lines) : ParsedKey(lines[n]) # key(j)
      BY <1>1, <3>2, <3>3
    <3>6. \A m \in 1 .. Len(B) : m < j => key(m) # key(j)
      BY <1>5, <3>2, <3>3
    <3>7. ASSUME NEW n \in 1 .. Len(lines) + j - 1 PROVE ParsedKey(more[n]) # key(j)
      <4>1. n \in 1 .. Len(more) /\ n < Len(lines) + j
        BY <1>4, <3>3
      <4>2. CASE n \in 1 .. Len(lines)
        BY <1>4, <3>5, <4>2
      <4>3. ASSUME NEW m \in 1 .. Len(B), n = Len(lines) + m PROVE ParsedKey(more[n]) # key(j)
        <5>1. m < j /\ more[n] = B[m]
          BY <1>4, <3>3, <4>1, <4>3
        <5>. QED
          BY <3>6, <5>1 DEF key
      <4>. QED
        BY <1>4, <4>1, <4>2, <4>3
    <3>8. IsFirst(more, Len(lines) + j)
      BY <1>4, <3>3, <3>7 DEF IsFirst, key
    <3>. QED
      BY <1>4, <3>3, <3>4, <3>8 DEF key
  <2>. QED
    BY <1>8, <2>1, <2>2
<1>11. ASSUME NEW j \in 1 .. Len(B) PROVE \E kv \in stores[idx(key(j))] : kv.key = key(j)
  <2>1. CASE \E kv \in st.stores[idx(key(j))] : kv.key = key(j)
    BY <1>5, <1>8, <2>1
  <2>2. CASE \A kv \in st.stores[idx(key(j))] : kv.key # key(j)
    <3> DEFINE T == {m \in 1 .. Len(B) : key(m) = key(j)}
    <3>1. T \in SUBSET Nat /\ T # {}
      OBVIOUS
    <3>2. PICK m \in T : \A n \in T : m <= n
      <4> HIDE DEF T
      <4>. QED
        BY <3>1, LeastNat
    <3>3. m \in 1 .. Len(B) /\ key(m) = key(j) /\ m \in Part(Parsed, idx(key(j))) /\ idx(key(j)) \in D
      BY <1>5
    <3>4. ASSUME NEW n \in Part(Parsed, idx(key(j))), n < m PROVE key(n) # key(m)
      <4>1. n \in 1 .. Len(B)
        BY <1>6
      <4>2. n \notin T
        BY <1>4, <3>2, <3>3, <3>4, <4>1
      <4>. QED
        BY <3>3, <4>1, <4>2
    <3>5. m \in Taken(Parsed, idx(key(j)))
      <4>1. \A kv \in st.stores[idx(key(j))] : kv.key # key(m)
        BY <2>2, <3>3
      <4>2. \A n \in Part(Parsed, idx(key(j))) : n < m => key(n) # key(m)
        BY <3>4
      <4> HIDE DEF T
      <4>. QED
        BY <1>7, <3>3, <4>1, <4>2
    <3>6. Parsed[m] \in stores[idx(key(j))] /\ Parsed[m].key = key(j)
      BY <1>2, <1>8, <3>3, <3>5
    <3>. QED
      BY <3>6
  <2>. QED
    BY <2>1, <2>2
<1>12. \A i \in 1 .. Len(more) : \E kv \in stores[idx(ParsedKey(more[i]))] : kv.key = ParsedKey(more[i])
  <2>1. ASSUME NEW i \in 1 .. Len(lines)
        PROVE  \E kv \in stores[idx(ParsedKey(lines[i]))] : kv.key = ParsedKey(lines[i])
    <3>1. idx(ParsedKey(lines[i])) \in D
      BY <1>1
    <3>2. st.stores[idx(ParsedKey(lines[i]))] \subseteq stores[idx(ParsedKey(lines[i]))]
      BY <1>8, <3>1
    <3>. QED
      BY <1>1, <3>2
  <2>2. \A j \in 1 .. Len(B) : \E kv \in stores[idx(ParsedKey(B[j]))] : kv.key = ParsedKey(B[j])
    BY <1>11 DEF key
  <2>3. ASSUME NEW i \in 1 .. Len(more)
        PROVE  \E kv \in stores[idx(ParsedKey(more[i]))] : kv.key = ParsedKey(more[i])
    <3>1. CASE i \in 1 .. Len(lines)
      <4>1. more[i] = lines[i]
        BY <1>4, <3>1
      <4>. QED
        BY <2>1, <3>1, <4>1
    <3>2. CASE \E j \in 1 .. Len(B) : i = Len(lines) + j
      <4>1. PICK j \in 1 .. Len(B) : i = Len(lines) + j
        BY <3>2
      <4>2. more[i] = B[j]
        BY <1>4, <4>1
      <4>. QED
        BY <2>2, <4>2
    <3>. QED
      BY <1>4, <3>1, <3>2
  <2>. QED
    BY <2>3
<1>13. ASSUME ret PROVE Distinct(more)
  <2>1. ASSUME NEW i \in 1 .. Len(lines), NEW j \in 1 .. Len(B), ParsedKey(lines[i]) = key(j)
        PROVE FALSE
    <3>1. PICK kv \in st.stores[idx(ParsedKey(lines[i]))] : kv.key = ParsedKey(lines[i])
      BY <1>1
    <3>2. j \in Part(Parsed, idx(key(j))) /\ idx(key(j)) \in D
      BY <1>5
    <3>3. j \in Taken(Parsed, idx(key(j)))
      BY <1>1, <1>13, <3>2
    <3>. QED
      BY <1>7, <2>1, <3>1, <3>3
  <2>2. ASSUME NEW i \in 1 .. Len(B), NEW j \in 1 .. Len(B), key(i) = key(j), i < j
        PROVE FALSE
    <3>1. /\ i \in Part(Parsed, idx(key(j))) /\ j \in Part(Parsed, idx(key(j))) /\ idx(key(j)) \in D
      BY <1>5, <2>2
    <3>2. j \in Taken(Parsed, idx(key(j)))
      BY <1>1, <1>13, <3>1
    <3>. QED
      BY <1>7, <2>2, <3>1, <3>2
  <2>3. ASSUME NEW i \in 1 .. Len(more), NEW j \in 1 .. Len(more), ParsedKey(more[i]) = ParsedKey(more[j])
        PROVE  i = j
    <3>1. CASE i \in 1 .. Len(lines) /\ j \in 1 .. Len(lines)
      BY <1>1, <1>4, <1>13, <2>3, <3>1 DEF Distinct
    <3>2. CASE i \in 1 .. Len(lines) /\ \E n \in 1 .. Len(B) : j = Len(lines) + n
      BY <1>4, <2>1, <2>3, <3>2 DEF key
    <3>3. CASE j \in 1 .. Len(lines) /\ \E n \in 1 .. Len(B) : i = Len(lines) + n
      BY <1>4, <2>1, <2>3, <3>3 DEF key
    <3>4. ASSUME NEW m \in 1 .. Len(B), NEW n \in 1 .. Len(B), i = Len(lines) + m, j = Len(lines) + n
          PROVE  i = j
      <4>1. key(m) = key(n)
        BY <1>4, <2>3, <3>4 DEF key
      <4>2. ~(m < n) /\ ~(n < m)
        BY <2>2, <4>1
      <4>. QED
        BY <3>4, <4>2
    <3>. QED
      BY <1>4, <3>1, <3>2, <3>3, <3>4
  <2>. QED
    BY <2>3 DEF Distinct
<1>14. ASSUME Distinct(more) PROVE ret
  <2>1. ASSUME NEW i \in 1 .. Len(more), NEW j \in 1 .. Len(more), ParsedKey(more[i]) = ParsedKey(more[j])
        PROVE  i = j
    BY <1>14, <2>1 DEF Distinct
  <2>2. Distinct(lines)
    BY <1>4, <2>1 DEF Distinct
  <2>3. ASSUME NEW s \in D, NEW j \in Part(Parsed, s) PROVE j \in Taken(Parsed, s)
    <3>1. j \in 1 .. Len(B) /\ Len(lines) + j \in 1 .. Len(more) /\ ParsedKey(more[Len(lines) + j]) = key(j)
      BY <1>4, <1>6 DEF key
    <3>2. ASSUME NEW kv \in st.stores[s], kv.key = key(j) PROVE FALSE
      <4>1. PICK i \in 1 .. Len(lines) : kv = ParsedKV(lines[i])
        BY <1>1
      <4>2. /\ i \in 1 .. Len(more) /\ ParsedKey(more[i]) = ParsedKey(more[Len(lines) + j])
        BY <1>3, <1>4, <3>1, <3>2, <4>1
      <4>3. i = Len(lines) + j
        BY <2>1, <3>1, <4>2
      <4>. QED
        BY <1>4, <3>1, <4>3
    <3>3. ASSUME NEW i \in Part(Parsed, s), i < j, key(i) = key(j) PROVE FALSE
      <4>1. i \in 1 .. Len(B) /\ Len(lines) + i \in 1 .. Len(more) /\ ParsedKey(more[Len(lines) + i]) = key(i)
        BY <1>4, <1>6 DEF key
      <4>2. Len(lines) + i = Len(lines) + j
        BY <2>1, <3>1, <3>3, <4>1
      <4>. QED
        BY <1>4, <3>1, <3>3, <4>1, <4>2
    <3>. QED
      BY <1>7, <3>2, <3>3
  <2>4. \A s \in D : Taken(Parsed, s) = Part(Parsed, s)
    BY <1>7, <2>3
  <2>. QED
    BY <1>1, <2>2, <2>4
<1>15. ASSUME NEW i \in 1 .. Len(more), IsFirst(more, i)
       PROVE  ParsedKV(more[i]) \in stores[idx(ParsedKey(more[i]))]
  <2>1. CASE i \in 1 .. Len(lines)
    <3>1. \A n \in 1 .. i - 1 : n \in 1 .. Len(lines)
      BY <1>4, <2>1
    <3>2. IsFirst(lines, i)
      BY <1>4, <1>15, <2>1, <3>1 DEF IsFirst
    <3>3. /\ ParsedKV(lines[i]) \in st.stores[idx(ParsedKey(lines[i]))]
          /\ idx(ParsedKey(lines[i])) \in D
      BY <1>1, <2>1, <3>2
    <3>. QED
      BY <1>4, <1>8, <2>1, <3>3
  <2>2. ASSUME NEW j \in 1 .. Len(B), i = Len(lines) + j
        PROVE  ParsedKV(more[i]) \in stores[idx(ParsedKey(more[i]))]
    <3>1. j \in Part(Parsed, idx(key(j))) /\ idx(key(j)) \in D /\ more[i] = B[j]
      BY <1>4, <1>5, <2>2
    <3>2. \A n \in 1 .. Len(lines) : n \in 1 .. i - 1 /\ more[n] = lines[n]
      BY <1>4, <2>2
    <3>3. \A n \in 1 .. Len(lines) : ParsedKey(lines[n]) # key(j)
      BY <1>15, <3>1, <3>2 DEF IsFirst, key
    <3>4. ASSUME NEW kv \in st.stores[idx(key(j))], kv.key = key(j) PROVE FALSE
      <4>1. PICK n \in 1 .. Len(lines) : kv = ParsedKV(lines[n])
        BY <1>1, <3>1
      <4>. QED
        BY <1>3, <3>3, <3>4, <4>1
    <3>5. ASSUME NEW m \in Part(Parsed, idx(key(j))), m < j PROVE key(m) # key(j)
      <4>1. m \in 1 .. Len(B)
        BY <1>6
      <4>2. Len(lines) + m \in 1 .. i - 1 /\ more[Len(lines) + m] = B[m]
        BY <1>4, <2>2, <3>5, <4>1
      <4>. QED
        BY <1>15, <3>1, <4>2 DEF IsFirst, key
    <3>6. j \in Taken(Parsed, idx(key(j)))
      BY <1>7, <3>1, <3>4, <3>5
    <3>7. Parsed[j] \in stores[idx(key(j))]
      BY <1>8, <3>1, <3>6
    <3>. QED
      BY <1>2, <3>1, <3>7 DEF key
  <2>. QED
    BY <1>4, <2>1, <2>2
<1>16. ret <=> Distinct(more)
  BY <1>13, <1>14
<1> HIDE DEF ret
<1>17. Stored(more, stores, ret, job.servers)
  BY <1>8, <1>9, <1>10, <1>12, <1>15, <1>16 DEF Stored, idx, D
<1>. QED
  BY <1>17 DEF more, stores, ret, B

\* A reload: what is in the blocks and in lines is what was read, the blocks are full
\* until the files are exhausted, and the backends hold the lines of the blocks.
Exhausted == ~st.rd.open /\ st.rd.cur = Len(job.files)

LoadTypeOK ==
  /\ job.files \in Seq(TextFiles) /\ job.servers \in Nat \ {0} /\ job.count \in Nat \ {0}
  /\ st = [pc |-> st.pc, rd |-> st.rd, lines |-> st.lines, blocks |-> st.blocks,
           stores |-> st.stores, ret |-> st.ret, defined |-> st.defined]
  /\ st.ret \in BOOLEAN /\ st.defined \in BOOLEAN
  /\ st.lines \in Seq(Kept) /\ st.blocks \in Seq(Seq(Kept))
  /\ ReaderOK(job.files, st.rd)

ReadInv ==
  /\ FlattenSeq(st.blocks) \o st.lines = ReadBy(job.files, st.rd)
  /\ st.pc = "line" => st.rd.open
  /\ st.pc = "block" => Len(st.lines) = job.count \/ Exhausted
  /\ Len(st.lines) <= job.count
  /\ \A i \in 1 .. Len(st.blocks) : Len(st.blocks[i]) = job.count \/ (Exhausted /\ st.lines = <<>>)

DoneInv ==
  /\ Extends(FlattenSeq(st.blocks), AllLines(job.files), Kept)
  /\ st.defined => FlattenSeq(st.blocks) = AllLines(job.files)
  /\ ~st.defined => \E i \in 1 .. Len(FlattenSeq(st.blocks)) :
                      Idx(job.servers, ParsedKey(FlattenSeq(st.blocks)[i])) < 0

LoadInv == job.prog = "load" =>
  /\ LoadTypeOK
  /\ \A i \in 1 .. Len(st.blocks) :
       st.blocks[i] # <<>> /\ (i < Len(st.blocks) => Len(st.blocks[i]) = job.count)
  /\ st.pc # "done" => st.defined /\ ReadInv
  /\ st.pc = "done" => DoneInv
  /\ st.defined => Stored(FlattenSeq(st.blocks), st.stores, st.ret, job.servers)

LEMMA LoadInit == Init => LoadInv
<1>1. ASSUME NEW files \in TextFileLists, NEW load \in Loads, LoadModel(files, load)
      PROVE  LoadInv
  <2>1. /\ job.files = files /\ job.servers = load.servers /\ job.count = load.count
        /\ files \in Seq(TextFiles) /\ load.servers \in Nat \ {0} /\ load.count \in Nat \ {0}
    BY <1>1, LoadAssumption DEF LoadModel
  <2>2. /\ st.pc = "file" /\ st.rd = NewReader /\ st.lines = <<>> /\ st.blocks = <<>>
        /\ st.stores = [s \in 0 .. load.servers - 1 |-> {}] /\ st.ret = TRUE /\ st.defined = TRUE
        /\ st = [pc |-> st.pc, rd |-> st.rd, lines |-> st.lines, blocks |-> st.blocks,
                 stores |-> st.stores, ret |-> st.ret, defined |-> st.defined]
    BY <1>1 DEF LoadModel
  <2>3. <<>> \in Seq(Kept) /\ <<>> \in Seq(Seq(Kept)) /\ Len(<<>>) = 0 /\ Len(files) \in Nat
    BY <2>1, EmptySeq
  <2>4. ReaderOK(files, NewReader)
    BY <2>3 DEF ReaderOK, NewReader
  <2>5. LoadTypeOK
    BY <2>1, <2>2, <2>3, <2>4 DEF LoadTypeOK
  <2>6. FlattenSeq(<<>>) = <<>>
    BY DEF FlattenSeq
  <2>7. ReadInv
    <3>1. ReadBy(files, NewReader) = <<>>
      BY <2>1, LinesUpToSteps DEF ReadBy, NewReader
    <3>2. <<>> \o <<>> = <<>>
      BY <2>3, ConcatEmptySeq
    <3>. QED
      BY <2>1, <2>2, <2>3, <2>6, <3>1, <3>2 DEF ReadInv
  <2>8. Stored(<<>>, st.stores, TRUE, load.servers)
    BY <2>1, <2>2, <2>3 DEF Stored, Distinct
  <2>. QED
    <3>1. Stored(FlattenSeq(st.blocks), st.stores, st.ret, job.servers)
      BY <2>1, <2>2, <2>6, <2>8
    <3>2. \A i \in 1 .. Len(st.blocks) :
            st.blocks[i] # <<>> /\ (i < Len(st.blocks) => Len(st.blocks[i]) = job.count)
      BY <2>2, <2>3
    <3>3. st.pc = "file" /\ st.defined
      BY <2>2
    <3>. QED
      BY <2>5, <2>7, <3>1, <3>2, <3>3 DEF LoadInv
<1>. QED
  BY <1>1, OwnInputs DEF LoadInv

\* The next file that opens is found, and nothing is read.
LEMMA OpenNextReads ==
  ASSUME NEW files \in Seq(TextFiles), NEW rd, ReaderOK(files, rd)
  PROVE  LET next == OpenFileIfNeeded(files, rd) IN
         /\ ReaderOK(files, next) /\ ReadBy(files, next) = ReadBy(files, rd)
         /\ next.open \/ next.cur = Len(files)
         /\ ~rd.open /\ rd.cur = Len(files) => ~next.open
<1> DEFINE next == OpenFileIfNeeded(files, rd)
           rest == {i \in rd.cur .. Len(files) - 1 : files[i + 1].opens}
<1>1. Len(files) \in Nat /\ \A n \in 1 .. Len(files) : files[n] \in TextFiles
  OBVIOUS
<1>2. rd = [cur |-> rd.cur, open |-> rd.open, at |-> rd.at] /\ rd.cur \in 0 .. Len(files)
  BY DEF ReaderOK
<1>3. CASE rd.open
  BY <1>3 DEF OpenFileIfNeeded
<1>4. CASE ~rd.open /\ rest = {}
  <2>1. next = [rd EXCEPT !.cur = Len(files)]
    BY <1>4 DEF OpenFileIfNeeded
  <2>2. next = [cur |-> Len(files), open |-> rd.open, at |-> rd.at]
    BY <1>2, <2>1
  <2> HIDE DEF next
  <2>3. ReaderOK(files, next) /\ next.cur = Len(files) /\ ~next.open
    BY <1>1, <1>4, <2>2 DEF ReaderOK
  <2>4. \A f \in rd.cur + 1 .. Len(files) : ~files[f].opens
    <3>1. ASSUME NEW f \in rd.cur + 1 .. Len(files) PROVE ~files[f].opens
      <4>1. f - 1 \in rd.cur .. Len(files) - 1 /\ (f - 1) + 1 = f
        BY <1>1, <1>2
      <4>. QED
        BY <1>4, <4>1
    <3>. QED
      BY <3>1
  <2>5. Len(files) \in rd.cur .. Len(files)
    BY <1>1, <1>2
  <2>6. LinesUpTo(files, Len(files)) = LinesUpTo(files, rd.cur)
    BY <1>2, <2>4, <2>5, SkippedFiles
  <2>. QED
    BY <1>4, <2>3, <2>6 DEF ReadBy, next
<1>5. CASE ~rd.open /\ rest # {}
  <2> DEFINE first == CHOOSE i \in rest : \A j \in rest : i <= j
  <2>1. first \in rest /\ \A j \in rest : first <= j
    <3>1. rest \in SUBSET Nat
      BY <1>1, <1>2
    <3> HIDE DEF rest
    <3>2. \E i \in rest : \A j \in rest : i <= j
      BY <1>5, <3>1, LeastNat
    <3>. QED
      BY <3>2
  <2>2. next = [cur |-> first, open |-> TRUE, at |-> 0]
    BY <1>5 DEF OpenFileIfNeeded
  <2> HIDE DEF first, next
  <2>3. first \in rd.cur .. Len(files) - 1 /\ files[first + 1].opens /\ first + 1 \in 1 .. Len(files)
    BY <1>1, <1>2, <2>1
  <2>4. files[first + 1] \in TextFiles
    BY <1>1, <2>3
  <2>5. Len(files[first + 1].lines) \in Nat /\ files[first + 1].lines \in Seq(Lines)
    BY <2>4, LinesOfType
  <2>6. ReaderOK(files, next) /\ next.open
    BY <1>1, <1>2, <2>2, <2>3, <2>5 DEF ReaderOK
  <2>7. \A f \in rd.cur + 1 .. first : ~files[f].opens
    <3>1. ASSUME NEW f \in rd.cur + 1 .. first, files[f].opens PROVE FALSE
      <4>1. f - 1 \in rd.cur .. Len(files) - 1 /\ (f - 1) + 1 = f /\ f - 1 < first
        BY <1>1, <1>2, <2>3
      <4>2. f - 1 \in rest
        BY <3>1, <4>1
      <4>. QED
        BY <1>1, <2>1, <2>3, <4>1, <4>2
    <3>. QED
      BY <3>1
  <2>8. first \in rd.cur .. Len(files)
    BY <1>1, <1>2, <2>3
  <2>9. LinesUpTo(files, first) = LinesUpTo(files, rd.cur) /\ LinesUpTo(files, first) \in Seq(Kept)
    <3>1. first \in 0 .. Len(files)
      BY <1>2, <2>8
    <3>. QED
      BY <1>2, <2>7, <2>8, <3>1, SkippedFiles, LinesUpToSteps
  <2>10. NonEmpty(files[first + 1].lines)[0] = <<>>
    BY <2>5, NonEmptyValue
  <2>11. ReadBy(files, next) = LinesUpTo(files, first) \o <<>>
    BY <2>2, <2>10 DEF ReadBy
  <2>12. ReadBy(files, next) = ReadBy(files, rd)
    BY <1>5, <2>9, <2>11, ConcatEmptySeq DEF ReadBy
  <2>13. ~(rd.cur = Len(files))
    BY <1>1, <2>3
  <2>. QED
    BY <2>6, <2>12, <2>13 DEF next
<1>. QED
  BY <1>3, <1>4, <1>5 DEF ReaderOK

LEMMA LoadNextKeeps == LoadInv /\ [Next]_programVars => LoadInv'
<1>. SUFFICES ASSUME LoadInv, [Next]_programVars, job'.prog = "load"
              PROVE  LoadInv'
  BY DEF LoadInv
<1>1. CASE UNCHANGED programVars
  BY <1>1 DEF programVars, LoadInv, LoadTypeOK, ReadInv, DoneInv, Exhausted
<1>2. ASSUME LoadNext PROVE LoadInv'
  <2> DEFINE files == job.files
             count == job.count
             F == FlattenSeq(st.blocks)
             blocks == st.blocks
  <2>1. job' = job /\ job.prog = "load"
    BY <1>2, OwnSteps
  <2>2. /\ job.files \in Seq(TextFiles) /\ job.servers \in Nat \ {0} /\ job.count \in Nat \ {0}
        /\ st = [pc |-> st.pc, rd |-> st.rd, lines |-> st.lines, blocks |-> st.blocks,
                 stores |-> st.stores, ret |-> st.ret, defined |-> st.defined]
        /\ st.ret \in BOOLEAN /\ st.defined \in BOOLEAN
        /\ st.lines \in Seq(Kept) /\ st.blocks \in Seq(Seq(Kept))
        /\ ReaderOK(job.files, st.rd)
    BY <2>1 DEF LoadInv, LoadTypeOK
  <2>3. /\ \A i \in 1 .. Len(st.blocks) :
             st.blocks[i] # <<>> /\ (i < Len(st.blocks) => Len(st.blocks[i]) = job.count)
        /\ st.defined => Stored(F, st.stores, st.ret, job.servers)
    BY <2>1 DEF LoadInv
  <2>4. st.pc # "done" /\ st.defined /\ ReadInv
    <3>1. st.pc # "done"
      BY <1>2 DEF LoadNext, OpenNext, Getline, LeaveFile, InsertBlock, InsertOutOfBounds, EndOfModel,
                  EndOfBlock, At
    <3>. QED
      BY <2>1, <3>1 DEF LoadInv
  <2>5. /\ F \o st.lines = ReadBy(job.files, st.rd)
        /\ st.pc = "line" => st.rd.open
        /\ st.pc = "block" => Len(st.lines) = job.count \/ Exhausted
        /\ Len(st.lines) <= job.count
        /\ \A i \in 1 .. Len(st.blocks) : Len(st.blocks[i]) = job.count \/ (Exhausted /\ st.lines = <<>>)
    BY <2>4 DEF ReadInv
  <2>6. F \in Seq(Kept) /\ Len(st.lines) \in Nat /\ Len(st.blocks) \in Nat /\ Len(job.files) \in Nat
    <3>1. <<>> \in Seq(Kept)
      BY EmptySeq
    <3>2. F \in Seq(Kept)
      BY <2>2, <3>1, FlattenAppend
    <3>. QED
      BY <2>2, <3>2
  <2>7. CASE OpenNext
    <3> DEFINE rd == OpenFileIfNeeded(job.files, st.rd)
    <3>1. /\ ReaderOK(job.files, rd) /\ ReadBy(job.files, rd) = ReadBy(job.files, st.rd)
          /\ rd.open \/ rd.cur = Len(job.files)
          /\ Exhausted => ~rd.open
      BY <2>2, OpenNextReads DEF Exhausted
    <3>2. st' = [st EXCEPT !.rd = rd, !.pc = IF rd.open /\ Len(st.lines) < job.count THEN "line" ELSE "block"]
      BY <2>7 DEF OpenNext, Becomes
    <3> HIDE DEF rd
    <3>3. st' = [pc |-> IF rd.open /\ Len(st.lines) < job.count THEN "line" ELSE "block", rd |-> rd,
                 lines |-> st.lines, blocks |-> st.blocks,
                 stores |-> st.stores, ret |-> st.ret, defined |-> st.defined]
      BY <2>2, <3>2
    <3>4. LoadTypeOK'
      BY <2>1, <2>2, <3>1, <3>3 DEF LoadTypeOK
    <3>5. Exhausted => Exhausted'
      BY <2>1, <3>1, <3>3 DEF Exhausted
    <3>6. (rd.open /\ Len(st.lines) < job.count) \/ Len(st.lines) = job.count \/ Exhausted'
      BY <2>1, <2>2, <2>5, <2>6, <3>1, <3>3 DEF Exhausted, ReaderOK
    <3>7. ReadInv'
      BY <2>1, <2>5, <3>1, <3>3, <3>5, <3>6 DEF ReadInv
    <3>8. st'.pc # "done" /\ st'.defined
      BY <2>4, <3>3
    <3>. QED
      BY <2>1, <2>3, <2>4, <3>3, <3>4, <3>7, <3>8 DEF LoadInv
  <2>8. CASE Getline
    <3> DEFINE file == job.files[st.rd.cur + 1]
               line == file.lines[st.rd.at + 1]
               lines == IF line = EmptyLine THEN st.lines ELSE Append(st.lines, line)
               text == NonEmpty(file.lines)
               done == LinesUpTo(job.files, st.rd.cur)
               n == st.rd.at
    <3>1. /\ st.pc = "line" /\ st.rd.open /\ Len(st.lines) < job.count /\ n < Len(file.lines)
          /\ st' = [st EXCEPT !.rd.at = @ + 1, !.lines = lines]
      BY <2>5, <2>8, SMTT(30) DEF Getline, At, Becomes, CurFile
    <3>2. /\ file \in TextFiles /\ file.opens /\ n \in Nat /\ st.rd.cur + 1 \in 1 .. Len(job.files)
          /\ st.rd.cur \in 0 .. Len(job.files)
          /\ st.rd = [cur |-> st.rd.cur, open |-> TRUE, at |-> n]
      BY <2>2, <2>6, <3>1, SMTT(30) DEF ReaderOK
    <3>3. file.lines \in Seq(Lines) /\ Len(file.lines) \in Nat
      BY <3>2, LinesOfType
    <3>4. line \in Lines /\ (line # EmptyLine => line \in Kept)
      <4>1. n + 1 \in 1 .. Len(file.lines)
        BY <3>1, <3>2, <3>3, SMTT(30)
      <4> HIDE DEF file
      <4>. QED
        BY <3>3, <4>1 DEF Kept
    <3>5. /\ text[n + 1] = IF line = EmptyLine THEN text[n] ELSE Append(text[n], line)
          /\ text[n] \in Seq(Kept) /\ done \in Seq(Kept)
      <4>1. n + 1 \in 1 .. Len(file.lines) /\ (n + 1) - 1 = n /\ n \in 0 .. Len(file.lines)
        BY <3>1, <3>2, <3>3, SMTT(30)
      <4>2. done \in Seq(Kept)
        BY <2>2, <3>2, LinesUpToSteps
      <4> HIDE DEF file, done
      <4>. QED
        BY <3>3, <4>1, <4>2, NonEmptyValue
    <3> DEFINE rd == [cur |-> st.rd.cur, open |-> TRUE, at |-> n + 1]
    <3>6. st' = [pc |-> "line", rd |-> rd, lines |-> lines, blocks |-> st.blocks,
                 stores |-> st.stores, ret |-> st.ret, defined |-> st.defined]
      <4>1. [st.rd EXCEPT !.at = @ + 1] = rd
        <5>1. st.rd = [cur |-> st.rd.cur, open |-> st.rd.open, at |-> st.rd.at]
          BY <2>2 DEF ReaderOK
        <5>2. [st.rd EXCEPT !.at = @ + 1] = [cur |-> st.rd.cur, open |-> st.rd.open, at |-> st.rd.at + 1]
          BY <5>1
        <5>3. st.rd.open = TRUE
          BY <2>2, <3>1, SMTT(30) DEF ReaderOK
        <5>. QED
          BY <5>2, <5>3
      <4> HIDE DEF rd, lines
      <4>. QED
        BY <2>2, <3>1, <4>1
    <3>7. ReaderOK(job.files, rd)
      BY <3>1, <3>2, <3>3, SMTT(30) DEF ReaderOK
    <3>8. ReadBy(job.files, rd) = done \o text[n + 1] /\ F \o st.lines = done \o text[n]
      BY <2>5, <3>1, ZenonT(30) DEF ReadBy
    <3>9. lines \in Seq(Kept) /\ Len(lines) <= job.count
      <4>1. CASE line = EmptyLine
        BY <2>2, <2>5, <4>1
      <4>2. CASE line # EmptyLine
        <5> HIDE DEF line
        <5>1. Append(st.lines, line) \in Seq(Kept) /\ Len(Append(st.lines, line)) = Len(st.lines) + 1
          BY <2>2, <3>4, <4>2, AppendProperties
        <5>. QED
          BY <2>2, <2>6, <3>1, <4>2, <5>1
      <4>. QED
        BY <4>1, <4>2
    <3>10. F \o lines = done \o text[n + 1]
      <4> HIDE DEF F, done, text, line
      <4>1. CASE line = EmptyLine
        BY <3>5, <3>8, <4>1, SMTT(30)
      <4>2. CASE line # EmptyLine
        <5>1. line \in Kept
          BY <3>4, <4>2
        <5>2. F \o Append(st.lines, line) = Append(F \o st.lines, line)
          BY <2>2, <2>6, <5>1, AppendBehind, SMTT(30)
        <5>3. done \o Append(text[n], line) = Append(done \o text[n], line)
          <6>1. \A u, v \in Seq(Kept) : u \o Append(v, line) = Append(u \o v, line)
            BY <5>1, AppendBehind
          <6>2. done \in Seq(Kept) /\ text[n] \in Seq(Kept)
            BY <3>5
          <6>. QED
            BY <6>1, <6>2
        <5>. QED
          BY <3>5, <3>8, <4>2, <5>2, <5>3
      <4>. QED
        BY <4>1, <4>2
    <3>11. ~Exhausted
      BY <3>1 DEF Exhausted
    <3> HIDE DEF lines
    <3>12. LoadTypeOK'
      <4> HIDE DEF rd
      <4>. QED
        BY <2>1, <2>2, <3>6, <3>7, <3>9, SMTT(30) DEF LoadTypeOK
    <3>13. ReadInv'
      <4>1. st'.rd.open /\ st'.lines = lines /\ st'.blocks = st.blocks /\ st'.rd = rd /\ st'.pc = "line"
        BY <3>6
      <4>2. \A i \in 1 .. Len(st.blocks) : Len(st.blocks[i]) = job.count
        BY <2>5, <3>11
      <4> HIDE DEF rd
      <4>. QED
        BY <2>1, <3>8, <3>9, <3>10, <4>1, <4>2, ZenonT(30) DEF ReadInv
    <3>14. st'.pc # "done" /\ st'.defined
      BY <2>4, <3>6
    <3>. QED
      BY <2>1, <2>3, <2>4, <3>6, <3>12, <3>13, <3>14, SMTT(30) DEF LoadInv
  <2>9. CASE LeaveFile
    <3> DEFINE file == job.files[st.rd.cur + 1]
               rd == IF Good THEN st.rd ELSE [cur |-> st.rd.cur + 1, open |-> FALSE, at |-> 0]
    <3>1. /\ st.pc = "line" /\ st.rd.open /\ (Len(st.lines) = job.count \/ st.rd.at = Len(file.lines))
          /\ st' = [st EXCEPT !.pc = "file", !.rd = rd]
      BY <2>5, <2>9 DEF LeaveFile, At, Becomes, CurFile
    <3>2. /\ file \in TextFiles /\ file.opens /\ st.rd.cur + 1 \in 1 .. Len(job.files)
          /\ (st.rd.cur + 1) - 1 = st.rd.cur /\ st.rd.cur + 1 \in 0 .. Len(job.files)
      BY <2>2, <2>6, <3>1, SMTT(30) DEF ReaderOK
    <3>3. ReaderOK(job.files, rd) /\ ReadBy(job.files, rd) = ReadBy(job.files, st.rd)
      <4>1. CASE Good
        BY <2>2, <4>1
      <4>2. CASE ~Good
        <5>1. st.rd.at = Len(file.lines)
          BY <3>1, <4>2 DEF Good, CurFile
        <5>2. LinesUpTo(job.files, st.rd.cur + 1) = LinesUpTo(job.files, st.rd.cur) \o LinesOf(file)
          BY <2>2, <3>2, LinesUpToSteps
        <5>3. LinesOf(file) = NonEmpty(file.lines)[st.rd.at]
          BY <3>2, <5>1, LinesOfType, SMTT(30)
        <5>4. ReadBy(job.files, st.rd) = LinesUpTo(job.files, st.rd.cur + 1)
          BY <3>1, <5>2, <5>3, ZenonT(30) DEF ReadBy
        <5>5. rd = [cur |-> st.rd.cur + 1, open |-> FALSE, at |-> 0]
          BY <4>2
        <5>6. ReaderOK(job.files, rd)
          <6> HIDE DEF rd
          <6>1. rd.cur = st.rd.cur + 1 /\ rd.open = FALSE /\ rd.at = 0
            BY <5>5
          <6>. QED
            BY <3>2, <5>5, <6>1 DEF ReaderOK
        <5>. QED
          BY <5>4, <5>5, <5>6 DEF ReadBy
      <4>. QED
        BY <4>1, <4>2
    <3> HIDE DEF rd
    <3>4. st' = [pc |-> "file", rd |-> rd, lines |-> st.lines, blocks |-> st.blocks,
                 stores |-> st.stores, ret |-> st.ret, defined |-> st.defined]
      BY <2>2, <3>1
    <3>5. LoadTypeOK'
      BY <2>1, <2>2, <3>3, <3>4 DEF LoadTypeOK
    <3>6. \A i \in 1 .. Len(st.blocks) : Len(st.blocks[i]) = job.count
      BY <2>5, <3>1 DEF Exhausted
    <3>7. ReadInv'
      BY <2>1, <2>5, <3>3, <3>4, <3>6 DEF ReadInv
    <3>8. st'.pc # "done" /\ st'.defined
      BY <2>4, <3>4
    <3>. QED
      BY <2>1, <2>3, <2>4, <3>4, <3>5, <3>7, <3>8 DEF LoadInv
  <2>10. ASSUME EndOfBlock
         PROVE  /\ \A i \in 1 .. Len(Append(st.blocks, st.lines)) :
                     /\ Append(st.blocks, st.lines)[i] # <<>>
                     /\ i < Len(Append(st.blocks, st.lines)) => Len(Append(st.blocks, st.lines)[i]) = job.count
                     /\ Len(Append(st.blocks, st.lines)[i]) = job.count \/ Exhausted
                /\ Append(st.blocks, st.lines) \in Seq(Seq(Kept))
                /\ FlattenSeq(Append(st.blocks, st.lines)) = F \o st.lines
                /\ F \o st.lines \in Seq(Kept)
    <3>1. st.pc = "block" /\ st.lines # <<>>
      BY <2>10 DEF EndOfBlock, At
    <3>2. /\ Len(Append(st.blocks, st.lines)) = Len(st.blocks) + 1
          /\ \A i \in 1 .. Len(st.blocks) : Append(st.blocks, st.lines)[i] = st.blocks[i]
          /\ Append(st.blocks, st.lines)[Len(st.blocks) + 1] = st.lines
          /\ Append(st.blocks, st.lines) \in Seq(Seq(Kept))
      BY <2>2, AppendProperties
    <3>3. \A i \in 1 .. Len(st.blocks) : Len(st.blocks[i]) = job.count
      BY <2>5, <3>1
    <3>4. FlattenSeq(Append(st.blocks, st.lines)) = F \o st.lines /\ F \o st.lines \in Seq(Kept)
      BY <2>2, <2>6, FlattenAppend, ConcatProperties
    <3>5. ASSUME NEW i \in 1 .. Len(Append(st.blocks, st.lines))
          PROVE  /\ Append(st.blocks, st.lines)[i] # <<>>
                 /\ i < Len(Append(st.blocks, st.lines)) => Len(Append(st.blocks, st.lines)[i]) = job.count
                 /\ Len(Append(st.blocks, st.lines)[i]) = job.count \/ Exhausted
      <4>1. i \in 1 .. Len(st.blocks) \/ i = Len(st.blocks) + 1
        BY <2>6, <3>2
      <4>2. CASE i \in 1 .. Len(st.blocks)
        BY <2>3, <3>2, <3>3, <4>2
      <4>3. CASE i = Len(st.blocks) + 1
        BY <2>5, <2>6, <3>1, <3>2, <4>3
      <4>. QED
        BY <4>1, <4>2, <4>3
    <3>. QED
      BY <3>2, <3>4, <3>5
  <2>11. CASE InsertBlock
    <3> DEFINE stores == [s \in DOMAIN st.stores |-> st.stores[s] \union {Parsed[i] : i \in Taken(Parsed, s)}]
               ret == st.ret /\ \A s \in DOMAIN st.stores : Taken(Parsed, s) = Part(Parsed, s)
               more == Append(st.blocks, st.lines)
    <3>1. /\ EndOfBlock /\ \A i \in DOMAIN Parsed : InBounds(Parsed[i].key)
          /\ st' = [st EXCEPT !.stores = stores, !.ret = ret, !.blocks = more, !.lines = <<>>, !.pc = "file"]
      BY <2>11 DEF InsertBlock, Becomes
    <3>2. Stored(F \o st.lines, stores, ret, job.servers)
      BY <2>2, <2>3, <2>4, <2>6, <3>1, StoredMore
    <3>3. ret \in BOOLEAN
      BY <2>2
    <3> HIDE DEF stores, ret
    <3>4. /\ \A i \in 1 .. Len(more) : /\ more[i] # <<>> /\ (i < Len(more) => Len(more[i]) = job.count)
                                       /\ Len(more[i]) = job.count \/ Exhausted
          /\ more \in Seq(Seq(Kept)) /\ FlattenSeq(more) = F \o st.lines /\ F \o st.lines \in Seq(Kept)
      BY <2>10, <3>1
    <3> HIDE DEF more
    <3>5. st' = [pc |-> "file", rd |-> st.rd, lines |-> <<>>, blocks |-> more,
                 stores |-> stores, ret |-> ret, defined |-> st.defined]
      BY <2>2, <3>1
    <3>6. <<>> \in Seq(Kept) /\ Len(<<>>) = 0 /\ (F \o st.lines) \o <<>> = F \o st.lines
      BY <3>4, EmptySeq, ConcatEmptySeq
    <3>7. LoadTypeOK'
      BY <2>1, <2>2, <3>3, <3>4, <3>5, <3>6 DEF LoadTypeOK
    <3>8. Exhausted' <=> Exhausted
      BY <2>1, <3>5 DEF Exhausted
    <3>9. ReadInv'
      <4>1. FlattenSeq(more) \o <<>> = ReadBy(job.files, st.rd)
        BY <2>5, <3>4, <3>6
      <4>. QED
        <5>1. /\ st'.pc = "file" /\ st'.lines = <<>> /\ st'.blocks = more /\ st'.rd = st.rd
          BY <3>5
        <5>2. 0 <= job.count
          BY <2>2
        <5>. QED
          BY <2>1, <3>4, <3>6, <3>8, <4>1, <5>1, <5>2 DEF ReadInv
    <3>10. st'.pc # "done" /\ st'.defined
      BY <2>4, <3>5
    <3>11. Stored(FlattenSeq(more), stores, ret, job.servers)
      BY <3>2, <3>4
    <3>. QED
      BY <2>1, <3>4, <3>5, <3>7, <3>9, <3>10, <3>11 DEF LoadInv
  <2>12. CASE InsertOutOfBounds
    <3> DEFINE more == Append(st.blocks, st.lines)
               L == F \o st.lines
    <3>1. /\ EndOfBlock /\ \E i \in DOMAIN Parsed : ~InBounds(Parsed[i].key)
          /\ st' = [st EXCEPT !.defined = FALSE, !.blocks = more, !.pc = "done"]
      BY <2>12 DEF InsertOutOfBounds, Becomes
    <3>2. /\ \A i \in 1 .. Len(more) : more[i] # <<>> /\ (i < Len(more) => Len(more[i]) = job.count)
          /\ more \in Seq(Seq(Kept)) /\ FlattenSeq(more) = L /\ L \in Seq(Kept)
      BY <2>10, <3>1
    <3> HIDE DEF more
    <3>3. st' = [pc |-> "done", rd |-> st.rd, lines |-> st.lines, blocks |-> more,
                 stores |-> st.stores, ret |-> st.ret, defined |-> FALSE]
      BY <2>2, <3>1
    <3>4. LoadTypeOK'
      BY <2>1, <2>2, <3>2, <3>3 DEF LoadTypeOK
    <3>5. PICK i \in 1 .. Len(st.lines) : ~InBounds(Parsed[i].key)
      <4>1. DOMAIN Parsed = 1 .. Len(st.lines)
        BY <2>2 DEF Parsed
      <4>. QED
        BY <3>1, <4>1
    <3>6. Idx(job.servers, ParsedKey(st.lines[i])) < 0
      <4>1. st.lines[i] \in Kept /\ Parsed[i] = ParsedKV(st.lines[i])
        BY <2>2 DEF Parsed
      <4>2. Parsed[i].key = ParsedKey(st.lines[i]) /\ ParsedKey(st.lines[i]) \in Int
        BY <4>1, ParsedType
      <4>3. ~(Idx(job.servers, ParsedKey(st.lines[i])) >= 0)
        BY <3>5, <4>2 DEF InBounds, ClientIdx, Idx
      <4>4. Idx(job.servers, ParsedKey(st.lines[i])) \in Int
        BY <2>2, <4>2, IdxBounds
      <4>. QED
        BY <4>3, <4>4
    <3>7. Len(F) + i \in 1 .. Len(L) /\ L[Len(F) + i] = st.lines[i]
      <4> HIDE DEF F
      <4>. QED
        BY <2>2, <2>6, PutBehind, SMTT(30)
    <3>8. Extends(L, AllLines(job.files), Kept)
      BY <2>2, <2>5, ReadExtends
    <3> HIDE DEF L
    <3>9. DoneInv'
      BY <2>1, <3>2, <3>3, <3>6, <3>7, <3>8 DEF DoneInv
    <3>. QED
      BY <2>1, <3>2, <3>3, <3>4, <3>9 DEF LoadInv
  <2>13. CASE EndOfModel
    <3>1. st.pc = "block" /\ st.lines = <<>> /\ st' = [st EXCEPT !.pc = "done"]
      BY <2>13 DEF EndOfModel, At, Becomes
    <3>2. st' = [pc |-> "done", rd |-> st.rd, lines |-> st.lines, blocks |-> st.blocks,
                 stores |-> st.stores, ret |-> st.ret, defined |-> st.defined]
      BY <2>2, <3>1
    <3>3. LoadTypeOK'
      BY <2>1, <2>2, <3>2 DEF LoadTypeOK
    <3>4. Exhausted
      BY <2>2, <2>5, <3>1
    <3>5. F = AllLines(job.files)
      <4>1. F \o <<>> = F
        BY <2>6, ConcatEmptySeq
      <4>2. F = ReadBy(job.files, st.rd)
        BY <2>5, <3>1, <4>1
      <4>. QED
        BY <2>2, <3>4, <4>2, LinesUpToSteps DEF Exhausted, ReadBy
    <3>6. Extends(F, AllLines(job.files), Kept)
      BY <2>6, <3>5, ExtendsProperties
    <3>7. DoneInv'
      BY <2>1, <2>4, <3>2, <3>5, <3>6 DEF DoneInv
    <3>. QED
      BY <2>1, <2>3, <2>4, <3>2, <3>3, <3>7 DEF LoadInv
  <2>. QED
    BY <1>2, <2>7, <2>8, <2>9, <2>11, <2>12, <2>13 DEF LoadNext
<1>. QED
  BY <1>1, <1>2, OwnSteps DEF Next

\* The blocks of a model, of any files: no line is lost, and only the last one is short.
THEOREM BlocksAreWhole == Spec => []BlocksLoseNoLine
<1>1. LoadInv => BlocksLoseNoLine
  <2>. SUFFICES ASSUME LoadInv, job.prog = "load", st.pc = "done"
                PROVE  BlocksLoseNoLine
    BY DEF BlocksLoseNoLine, At
  <2>1. /\ LoadTypeOK /\ DoneInv
        /\ \A i \in 1 .. Len(st.blocks) :
             st.blocks[i] # <<>> /\ (i < Len(st.blocks) => Len(st.blocks[i]) = job.count)
    BY DEF LoadInv
  <2>2. FlattenSeq(st.blocks) \in Seq(Kept) /\ AllLines(job.files) \in Seq(Kept)
    <3>1. <<>> \in Seq(Kept) /\ st.blocks \in Seq(Seq(Kept)) /\ job.files \in Seq(TextFiles)
      BY <2>1, EmptySeq DEF LoadTypeOK
    <3>2. FlattenSeq(st.blocks) \in Seq(Kept)
      BY <3>1, FlattenAppend
    <3>3. AllLines(job.files) \in Seq(Kept)
      BY <2>1, <3>1, ReadExtends DEF LoadTypeOK
    <3>. QED
      BY <3>2, <3>3
  <2>3. FlattenSeq(st.blocks) = SubSeq(AllLines(job.files), 1, Len(FlattenSeq(st.blocks)))
    BY <2>1, <2>2, ExtendsProperties DEF DoneInv
  <2>. QED
    BY <2>1, <2>3 DEF BlocksLoseNoLine, DoneInv
<1>. QED
  BY <1>1, LoadInit, LoadNextKeeps, PTL DEF Spec

\* A reload of any files into empty backends answers whether the keys of their lines
\* differ, and leaves in each backend the first value of every key that is hashed to it; it
\* is defined just for keys that have an index.
THEOREM LoadIsRight == Spec => []LoadsWhatLinesSay
<1>1. LoadInv => LoadsWhatLinesSay
  <2>. SUFFICES ASSUME LoadInv, job.prog = "load", st.pc = "done"
                PROVE  LoadsWhatLinesSay
    BY DEF LoadsWhatLinesSay, At
  <2> DEFINE lines == AllLines(job.files)
             key(i) == ParsedKey(lines[i])
             low(i) == key(i) % IntSpan
             got == FlattenSeq(st.blocks)
             idx(i) == Idx(job.servers, key(i))
  <2>1. /\ job.files \in Seq(TextFiles) /\ job.servers \in Nat \ {0} /\ st.ret \in BOOLEAN
        /\ st.defined \in BOOLEAN /\ st.blocks \in Seq(Seq(Kept)) /\ ReaderOK(job.files, st.rd)
    BY DEF LoadInv, LoadTypeOK
  <2>2. /\ Extends(got, lines, Kept)
        /\ st.defined => got = lines
        /\ ~st.defined => \E i \in 1 .. Len(got) : Idx(job.servers, ParsedKey(got[i])) < 0
        /\ st.defined => Stored(got, st.stores, st.ret, job.servers)
    BY DEF LoadInv, DoneInv
  <2>3. lines \in Seq(Kept) /\ got \in Seq(Kept)
    <3>1. <<>> \in Seq(Kept)
      BY EmptySeq
    <3>. QED
      BY <2>1, <3>1, FlattenAppend, ReadExtends
  <2>4. DOMAIN lines = 1 .. Len(lines)
    BY <2>3
  <2>5. ASSUME NEW i \in 1 .. Len(lines)
        PROVE  /\ lines[i] \in Kept /\ key(i) \in Int /\ idx(i) \in Int /\ idx(i) = ClientIdx(key(i))
               /\ idx(i) >= 0 <=> low(i) < IntSpan \div 2 \/ (IntSpan - low(i)) % job.servers = 0
    <3>1. lines[i] \in Kept
      <4> HIDE DEF lines
      <4>. QED
        BY <2>3
    <3>2. key(i) \in Int
      BY <3>1, ParsedType
    <3>. QED
      BY <2>1, <3>1, <3>2, IdxBounds DEF ClientIdx, Idx
  <2>6. ASSUME st.defined, NEW i \in 1 .. Len(lines) PROVE idx(i) \in 0 .. job.servers - 1
    BY <2>2, <2>6 DEF Stored
  <2>7. ASSUME ~st.defined
        PROVE  \E i \in 1 .. Len(lines) : ~(idx(i) >= 0)
    <3>1. PICK i \in 1 .. Len(got) : Idx(job.servers, ParsedKey(got[i])) < 0
      BY <2>2, <2>7
    <3>2. i \in 1 .. Len(lines) /\ lines[i] = got[i]
      <4> HIDE DEF lines, got
      <4>. QED
        BY <2>2, <2>3, ExtendsProperties
    <3>3. idx(i) < 0 /\ idx(i) \in Int
      BY <2>5, <3>1, <3>2
    <3>. QED
      BY <3>2, <3>3
  <2>8. st.defined <=> \A i \in DOMAIN lines :
                         low(i) < IntSpan \div 2 \/ (IntSpan - low(i)) % job.servers = 0
    <3> HIDE DEF lines, low, idx, key, got
    <3>1. ASSUME st.defined, NEW i \in DOMAIN lines
          PROVE  low(i) < IntSpan \div 2 \/ (IntSpan - low(i)) % job.servers = 0
      <4>1. idx(i) >= 0
        BY <2>1, <2>4, <2>6, <3>1
      <4>. QED
        BY <2>4, <2>5, <4>1
    <3>2. ASSUME ~st.defined
          PROVE  \E i \in DOMAIN lines :
                   ~(low(i) < IntSpan \div 2 \/ (IntSpan - low(i)) % job.servers = 0)
      BY <2>4, <2>5, <2>7, <3>2
    <3>. QED
      BY <3>1, <3>2
  <2>9. st.defined => (st.ret <=> \A i, j \in DOMAIN lines : key(i) = key(j) => i = j)
    BY <2>2, <2>4 DEF Stored, Distinct
  <2>10. ASSUME st.defined, NEW s \in 0 .. job.servers - 1
         PROVE  st.stores[s] = {ParsedKV(lines[i]) : i \in
                  {i \in DOMAIN lines : (\A j \in 1 .. i - 1 : key(j) # key(i)) /\ ClientIdx(key(i)) = s}}
    <3> DEFINE Firsts == {i \in DOMAIN lines :
                            (\A j \in 1 .. i - 1 : key(j) # key(i)) /\ ClientIdx(key(i)) = s}
    <3>1. /\ \A kv \in st.stores[s] : \E i \in 1 .. Len(lines) :
               kv = ParsedKV(lines[i]) /\ idx(i) = s /\ IsFirst(lines, i)
          /\ \A i \in 1 .. Len(lines) : IsFirst(lines, i) => ParsedKV(lines[i]) \in st.stores[idx(i)]
      BY <2>2, <2>10 DEF Stored
    <3>2. \A i : i \in Firsts <=> i \in 1 .. Len(lines) /\ IsFirst(lines, i) /\ idx(i) = s
      BY <2>4, <2>5 DEF IsFirst
    <3> HIDE DEF Firsts
    <3>3. \A kv : kv \in st.stores[s] <=> \E i \in Firsts : kv = ParsedKV(lines[i])
      BY <3>1, <3>2
    <3>4. st.stores[s] = {ParsedKV(lines[i]) : i \in Firsts}
      BY <3>3
    <3>. QED
      BY <3>4 DEF Firsts
  <2>. QED
    <3>1. /\ st.defined <=> \A i \in DOMAIN lines :
               low(i) < IntSpan \div 2 \/ (IntSpan - low(i)) % job.servers = 0
          /\ st.defined =>
               /\ st.ret = \A i, j \in DOMAIN lines : key(i) = key(j) => i = j
               /\ \A s \in 0 .. job.servers - 1 :
                    st.stores[s] = {ParsedKV(lines[i]) : i \in
                      {i \in DOMAIN lines :
                         (\A j \in 1 .. i - 1 : key(j) # key(i)) /\ ClientIdx(key(i)) = s}}
      <4> HIDE DEF lines, low, key
      <4>1. st.defined => st.ret = \A i, j \in DOMAIN lines : key(i) = key(j) => i = j
        BY <2>1, <2>9
      <4>. QED
        BY <2>8, <2>10, <4>1
    <3>. QED
      BY <3>1 DEF LoadsWhatLinesSay
<1>. QED
  BY <1>1, LoadInit, LoadNextKeeps, PTL DEF Spec

-------------------------------------------------------------------------------
(* Sorting entries into buckets: cur[j] is the bucket of the entry at       *)
(* place j of n, of which the first m are whole.                            *)

Lower(n, cur, h) == {j \in 0 .. n - 1 : cur[j] < h}
Same(n, cur, h)  == {j \in 0 .. n - 1 : cur[j] = h}

\* first[h] is where bucket h begins, and its entries up to ends[h] are in place.
Bounded(n, size, cur, first) ==
  /\ n \in Nat /\ size \in Nat \ {0} /\ cur \in [0 .. n - 1 -> 0 .. size - 1]
  /\ first \in [0 .. size -> Nat]
  /\ \A h \in 0 .. size : first[h] = Cardinality(Lower(n, cur, h))

Claimed(m, size, cur, first, ends) ==
  /\ ends \in [0 .. size -> Nat]
  /\ \A h \in 0 .. size - 1 :
       /\ first[h] <= ends[h] /\ ends[h] <= first[h + 1]
       /\ \A j \in first[h] .. ends[h] - 1 : j < m /\ cur[j] = h

Sorting(n, m, size, cur, first, ends, i) ==
  /\ Bounded(n, size, cur, first) /\ Claimed(m, size, cur, first, ends)
  /\ m \in Nat /\ (m = n \/ n = m + 1) /\ i \in 0 .. m
  /\ \A j \in 0 .. i - 1 : first[cur[j]] <= j /\ j < ends[cur[j]]

\* Finite sets of places.
LEMMA Places ==
  ASSUME NEW n \in Nat
  PROVE  /\ IsFiniteSet(0 .. n - 1) /\ Cardinality(0 .. n - 1) = n
         /\ \A S \in SUBSET (0 .. n - 1) :
              IsFiniteSet(S) /\ Cardinality(S) \in Nat /\ Cardinality(S) <= n
<1>1. IsFiniteSet(0 .. n - 1) /\ Cardinality(0 .. n - 1) = n
  BY FS_Interval, 0 \in Int, n - 1 \in Int
<1>. QED
  BY <1>1, FS_Subset, FS_CardinalityType, ZenonT(30)

LEMMA Spanned ==
  ASSUME NEW a \in Nat, NEW b \in Nat, a <= b
  PROVE  IsFiniteSet(a .. b - 1) /\ Cardinality(a .. b - 1) = b - a
<1>1. a \in Int /\ b - 1 \in Int
  OBVIOUS
<1>2. /\ IsFiniteSet(a .. b - 1)
      /\ Cardinality(a .. b - 1) = IF a > b - 1 THEN 0 ELSE (b - 1) - a + 1
  BY <1>1, FS_Interval
<1>. QED
  BY <1>2

\* A bucket ends where the next one begins.
LEMMA BucketBounds ==
  ASSUME NEW n, NEW size, NEW cur, NEW first, Bounded(n, size, cur, first)
  PROVE  /\ \A h \in 0 .. size : first[h] \in Nat /\ first[h] <= n
         /\ \A g, h \in 0 .. size : g <= h => first[g] <= first[h]
         /\ first[0] = 0 /\ first[size] = n
         /\ \A h \in 0 .. size - 1 : first[h + 1] = first[h] + Cardinality(Same(n, cur, h))
<1>1. /\ n \in Nat /\ size \in Nat \ {0} /\ cur \in [0 .. n - 1 -> 0 .. size - 1]
      /\ first \in [0 .. size -> Nat]
      /\ \A h \in 0 .. size : first[h] = Cardinality(Lower(n, cur, h))
  BY DEF Bounded
<1>2. \A j \in 0 .. n - 1 : cur[j] \in 0 .. size - 1
  BY <1>1
<1>3. \A h : Lower(n, cur, h) \in SUBSET (0 .. n - 1) /\ Same(n, cur, h) \in SUBSET (0 .. n - 1)
  BY DEF Lower, Same
<1>4. \A h \in 0 .. size : first[h] \in Nat /\ first[h] <= n
  BY <1>1, <1>3, Places
<1>5. ASSUME NEW g \in 0 .. size, NEW h \in 0 .. size, g <= h PROVE first[g] <= first[h]
  <2>1. Lower(n, cur, g) \in SUBSET Lower(n, cur, h)
    BY <1>1, <1>2, <1>5 DEF Lower
  <2>2. IsFiniteSet(Lower(n, cur, h))
    BY <1>1, <1>3, Places
  <2>3. Cardinality(Lower(n, cur, g)) <= Cardinality(Lower(n, cur, h))
    BY <2>1, <2>2, FS_Subset
  <2>. QED
    BY <1>1, <2>3
<1>6. first[0] = 0 /\ first[size] = n
  <2>1. Lower(n, cur, 0) = {} /\ Lower(n, cur, size) = 0 .. n - 1
    BY <1>1, <1>2, SMTT(30) DEF Lower
  <2>2. Cardinality({}) = 0 /\ 0 \in 0 .. size /\ size \in 0 .. size
    BY <1>1, FS_EmptySet
  <2>. QED
    BY <1>1, <2>1, <2>2, Places, ZenonT(30)
<1>7. ASSUME NEW h \in 0 .. size - 1
      PROVE  first[h + 1] = first[h] + Cardinality(Same(n, cur, h))
  <2> DEFINE L == Lower(n, cur, h)
             S == Same(n, cur, h)
  <2>1. Lower(n, cur, h + 1) = L \union S /\ L \intersect S = {}
    <3>1. h \in Int /\ \A j \in 0 .. n - 1 : cur[j] \in Int
      BY <1>1, <1>2
    <3>2. \A j \in 0 .. n - 1 : (cur[j] < h + 1) <=> (cur[j] < h \/ cur[j] = h)
      BY <3>1
    <3>3. Lower(n, cur, h + 1) = L \union S
      BY <3>2 DEF Lower, Same
    <3>4. L \intersect S = {}
      BY <3>1 DEF Lower, Same
    <3>. QED
      BY <3>3, <3>4
  <2>2. IsFiniteSet(L) /\ IsFiniteSet(S) /\ Cardinality(L) \in Nat /\ Cardinality(S) \in Nat
    BY <1>1, <1>3, Places
  <2>3. h \in 0 .. size /\ h + 1 \in 0 .. size
    BY <1>1
  <2>4. first[h] = Cardinality(L) /\ first[h + 1] = Cardinality(L \union S)
    BY <1>1, <2>1, <2>3
  <2>5. Cardinality(L \union S) = Cardinality(L) + Cardinality(S) - Cardinality(L \intersect S)
    <3> HIDE DEF L, S
    <3>. QED
      BY <2>2, FS_Union
  <2>6. Cardinality(L \intersect S) = 0
    BY <2>1, FS_EmptySet
  <2> HIDE DEF L
  <2>. QED
    BY <2>2, <2>4, <2>5, <2>6
<1>. QED
  BY <1>4, <1>5, <1>6, <1>7

\* A bucket is as large as any set of places with entries of it, or larger.
LEMMA RoomFor ==
  ASSUME NEW n, NEW size, NEW cur, NEW first, Bounded(n, size, cur, first),
         NEW h \in 0 .. size - 1, NEW S, S \in SUBSET Same(n, cur, h)
  PROVE  IsFiniteSet(S) /\ Cardinality(S) <= first[h + 1] - first[h]
<1>1. n \in Nat /\ size \in Nat \ {0}
  BY DEF Bounded
<1>2. Same(n, cur, h) \in SUBSET (0 .. n - 1)
  BY DEF Same
<1>3. IsFiniteSet(Same(n, cur, h)) /\ Cardinality(Same(n, cur, h)) \in Nat
  BY <1>1, <1>2, Places
<1>4. h \in 0 .. size /\ h + 1 \in 0 .. size
  BY <1>1
<1>5. first[h] \in Nat /\ first[h + 1] \in Nat /\ first[h + 1] = first[h] + Cardinality(Same(n, cur, h))
  BY <1>4, BucketBounds
<1>6. IsFiniteSet(S) /\ Cardinality(S) <= Cardinality(Same(n, cur, h)) /\ Cardinality(S) \in Nat
  BY <1>3, FS_Subset, FS_CardinalityType
<1>. QED
  BY <1>3, <1>5, <1>6

\* An entry that is not in place finds a place in its bucket, at or behind its own; if that
\* is not one of a whole entry, the part at the end belongs to a lower bucket.
LEMMA SortRoom ==
  ASSUME NEW n, NEW m, NEW size, NEW cur, NEW first, NEW ends, NEW i,
         Sorting(n, m, size, cur, first, ends, i), i < m, NEW h, h = cur[i],
         ~(i >= first[h] /\ i < ends[h])
  PROVE  /\ h \in 0 .. size - 1 /\ ends[h] \in i .. n - 1 /\ ends[h] < first[h + 1]
         /\ ends[h] >= m => n = m + 1 /\ cur[m] < h
<1>1. /\ Bounded(n, size, cur, first) /\ Claimed(m, size, cur, first, ends)
      /\ m \in Nat /\ (m = n \/ n = m + 1) /\ i \in 0 .. m
      /\ \A j \in 0 .. i - 1 : first[cur[j]] <= j /\ j < ends[cur[j]]
  BY DEF Sorting
<1>2. n \in Nat /\ size \in Nat \ {0} /\ cur \in [0 .. n - 1 -> 0 .. size - 1]
  BY <1>1 DEF Bounded
<1>3. i \in 0 .. n - 1 /\ h \in 0 .. size - 1 /\ h \in 0 .. size /\ h + 1 \in 0 .. size
  BY <1>1, <1>2
<1>4. /\ first[h] \in Nat /\ first[h + 1] \in Nat /\ first[h + 1] <= n
      /\ \A g \in 0 .. size : first[g] \in Nat
      /\ \A g, f \in 0 .. size : g <= f => first[g] <= first[f]
  BY <1>1, <1>3, BucketBounds
<1>5. /\ ends[h] \in Nat /\ first[h] <= ends[h] /\ ends[h] <= first[h + 1]
      /\ \A j \in first[h] .. ends[h] - 1 : j < m /\ cur[j] = h
  BY <1>1, <1>3 DEF Claimed
<1> DEFINE C == first[h] .. ends[h] - 1
<1>6. IsFiniteSet(C) /\ Cardinality(C) = ends[h] - first[h]
  BY <1>4, <1>5, Spanned
<1>7. C \in SUBSET Same(n, cur, h) /\ i \in Same(n, cur, h) /\ i \notin C
  <2>1. C \in SUBSET Same(n, cur, h)
    <3>1. ASSUME NEW j \in C PROVE j \in 0 .. n - 1 /\ cur[j] = h
      <4>1. j \in Int /\ first[h] <= j /\ j < m /\ cur[j] = h
        BY <1>4, <1>5
      <4>. QED
        BY <1>1, <1>2, <1>4, <4>1
    <3>. QED
      BY <3>1 DEF Same
  <2>2. i \in Same(n, cur, h)
    BY <1>3 DEF Same
  <2>3. i \notin C
    BY <1>3, <1>4, <1>5
  <2>. QED
    BY <2>1, <2>2, <2>3
<1> HIDE DEF C
<1>8. IsFiniteSet(C \union {i}) /\ Cardinality(C \union {i}) = ends[h] - first[h] + 1
  BY <1>6, <1>7, FS_AddElement
<1>9. Cardinality(C \union {i}) <= first[h + 1] - first[h]
  <2>1. C \union {i} \in SUBSET Same(n, cur, h)
    BY <1>7
  <2>. QED
    BY <1>1, <1>3, <2>1, RoomFor
<1>10. ends[h] < first[h + 1]
  BY <1>4, <1>5, <1>8, <1>9
<1>11. ends[h] >= i
  <2>1. SUFFICES ASSUME ends[h] < i PROVE FALSE
    BY <1>1, <1>5
  <2>a. PICK j : j = ends[h]
    OBVIOUS
  <2>b. PICK g : g = cur[j]
    OBVIOUS
  <2>2. j \in 0 .. i - 1 /\ j \in 0 .. n - 1
    <3>1. j \in Nat /\ j < i
      BY <1>5, <2>1, <2>a
    <3>. QED
      BY <1>2, <1>3, <3>1
  <2>3. g \in 0 .. size - 1 /\ g \in 0 .. size /\ g + 1 \in 0 .. size
    BY <1>2, <2>2, <2>b
  <2>4. first[g] <= j /\ j < ends[g] /\ ends[g] <= first[g + 1] /\ ends[g] \in Nat
    BY <1>1, <2>2, <2>3, <2>b DEF Claimed
  <2>5. CASE g = h
    BY <1>5, <2>4, <2>5, <2>a
  <2>6. CASE g < h
    <3>1. first[g + 1] <= first[h]
      BY <1>2, <1>3, <1>4, <2>3, <2>6
    <3>. QED
      BY <1>4, <1>5, <2>3, <2>4, <3>1, <2>a
  <2>7. CASE g > h
    <3>1. first[h + 1] <= first[g]
      BY <1>2, <1>3, <1>4, <2>3, <2>7
    <3>. QED
      BY <1>4, <1>5, <1>10, <2>3, <2>4, <3>1, <2>a
  <2>. QED
    BY <1>3, <2>3, <2>5, <2>6, <2>7
<1>12. ASSUME ends[h] >= m PROVE n = m + 1 /\ cur[m] < h
  <2>1. n = m + 1 /\ ends[h] = m /\ first[h + 1] = n
    BY <1>1, <1>2, <1>4, <1>5, <1>10, <1>12, SMTT(30)
  <2>2. m \in 0 .. n - 1 /\ cur[m] \in 0 .. size - 1
    BY <1>1, <1>2, <2>1
  <2>3. cur[m] <= h
    <3>1. SUFFICES ASSUME cur[m] > h PROVE FALSE
      BY <1>3, <2>2
    <3>a. PICK g : g = cur[m]
      OBVIOUS
    <3>2. g \in 0 .. size - 1 /\ g + 1 \in 0 .. size /\ g \in 0 .. size /\ h + 1 <= g
      BY <1>2, <1>3, <2>2, <3>1, <3>a
    <3>3. first[h + 1] <= first[g] /\ first[g + 1] <= n
      BY <1>1, <1>3, <1>4, <3>2, BucketBounds
    <3>6. first[g + 1] = first[g] + Cardinality(Same(n, cur, g))
      BY <1>1, <3>2, BucketBounds
    <3>4. m \in Same(n, cur, g) /\ Same(n, cur, g) \in SUBSET (0 .. n - 1)
      BY <2>2, <3>a DEF Same
    <3>5. IsFiniteSet(Same(n, cur, g)) /\ Cardinality(Same(n, cur, g)) \in Nat
      BY <1>2, <3>4, Places
    <3>7. Cardinality(Same(n, cur, g)) # 0
      BY <3>4, <3>5, FS_EmptySet
    <3>. QED
      BY <1>2, <1>4, <2>1, <3>2, <3>3, <3>5, <3>6, <3>7
  <2>4. cur[m] # h
    <3>1. SUFFICES ASSUME cur[m] = h PROVE FALSE
      OBVIOUS
    <3>2. m \in Same(n, cur, h) /\ m \notin C \union {i}
      BY <1>1, <1>4, <1>5, <2>1, <2>2, <3>1 DEF Same, C
    <3>3. Cardinality((C \union {i}) \union {m}) = ends[h] - first[h] + 1 + 1
      <4> DEFINE A == C \union {i}
      <4>1. IsFiniteSet(A) /\ m \notin A
        BY <1>8, <3>2
      <4> HIDE DEF A
      <4>2. Cardinality(A \union {m}) = Cardinality(A) + 1
        BY <4>1, FS_AddElement
      <4>. QED
        BY <1>8, <4>2 DEF A
    <3>4. (C \union {i}) \union {m} \in SUBSET Same(n, cur, h)
      BY <1>7, <3>2
    <3>5. Cardinality((C \union {i}) \union {m}) <= first[h + 1] - first[h]
      BY <1>1, <1>3, <3>4, RoomFor
    <3>. QED
      BY <1>1, <1>4, <2>1, <3>3, <3>5
  <2>. QED
    BY <1>3, <2>1, <2>2, <2>3, <2>4
<1>. QED
  BY <1>1, <1>3, <1>4, <1>5, <1>10, <1>11, <1>12

\* At first no entry has been placed.
LEMMA SortStart ==
  ASSUME NEW n, NEW m, NEW size, NEW cur, NEW first, Bounded(n, size, cur, first),
         m \in Nat, m = n \/ n = m + 1
  PROVE  Sorting(n, m, size, cur, first, first, 0)
<1>1. size \in Nat \ {0} /\ first \in [0 .. size -> Nat]
  BY DEF Bounded
<1>2. \A g, h \in 0 .. size : g <= h => first[g] <= first[h]
  BY BucketBounds
<1>3. ASSUME NEW h \in 0 .. size - 1
      PROVE  /\ first[h] <= first[h] /\ first[h] <= first[h + 1]
             /\ \A j \in first[h] .. first[h] - 1 : j < m /\ cur[j] = h
  <2>1. h \in 0 .. size /\ h + 1 \in 0 .. size /\ h <= h + 1
    BY <1>1
  <2>2. first[h] \in Nat /\ first[h] <= first[h + 1]
    BY <1>1, <1>2, <2>1
  <2>. QED
    BY <2>2
<1>4. Claimed(m, size, cur, first, first)
  BY <1>1, <1>3 DEF Claimed
<1>. QED
  BY <1>4 DEF Sorting

\* An entry in place is passed.
LEMMA SortNext ==
  ASSUME NEW n, NEW m, NEW size, NEW cur, NEW first, NEW ends, NEW i,
         Sorting(n, m, size, cur, first, ends, i), i < m,
         i >= first[cur[i]], i < ends[cur[i]]
  PROVE  Sorting(n, m, size, cur, first, ends, i + 1)
<1>1. /\ Bounded(n, size, cur, first) /\ Claimed(m, size, cur, first, ends)
      /\ m \in Nat /\ (m = n \/ n = m + 1) /\ i \in 0 .. m
      /\ \A j \in 0 .. i - 1 : first[cur[j]] <= j /\ j < ends[cur[j]]
  BY DEF Sorting
<1>2. cur[i] \in 0 .. size - 1 /\ first[cur[i]] \in Nat
  <2>1. n \in Nat /\ size \in Nat /\ cur \in [0 .. n - 1 -> 0 .. size - 1] /\ first \in [0 .. size -> Nat]
    BY <1>1 DEF Bounded
  <2>2. i \in 0 .. n - 1
    BY <1>1, <2>1
  <2>3. cur[i] \in 0 .. size - 1 /\ cur[i] \in 0 .. size
    BY <2>1, <2>2
  <2>. QED
    BY <2>1, <2>3
<1>3. first[cur[i]] <= i
  BY <1>1, <1>2
<1>4. \A j \in 0 .. (i + 1) - 1 : j \in 0 .. i - 1 \/ j = i
  BY <1>1
<1>5. \A j \in 0 .. (i + 1) - 1 : first[cur[j]] <= j /\ j < ends[cur[j]]
  BY <1>1, <1>3, <1>4
<1>6. i + 1 \in 0 .. m
  BY <1>1
<1>. QED
  BY <1>1, <1>5, <1>6 DEF Sorting

\* Two places exchanged in a set of places.
LEMMA Exchanged ==
  ASSUME NEW L, NEW x, NEW y, IsFiniteSet(L), x \in L, y \notin L
  PROVE  Cardinality((L \ {x}) \union {y}) = Cardinality(L)
<1> DEFINE M == L \ {x}
<1>1. IsFiniteSet(M) /\ Cardinality(M) = Cardinality(L) - 1 /\ y \notin M
  BY FS_RemoveElement
<1>2. Cardinality(L) \in Nat
  BY FS_CardinalityType
<1> HIDE DEF M
<1>3. Cardinality(M \union {y}) = Cardinality(M) + 1
  BY <1>1, FS_AddElement
<1>4. Cardinality(M \union {y}) = Cardinality(L)
  BY <1>1, <1>2, <1>3
<1>. QED
  BY <1>4 DEF M

Traded(cur, i, e) == [cur EXCEPT ![i] = cur[e], ![e] = cur[i]]

LEMMA TradedBounded ==
  ASSUME NEW n, NEW size, NEW cur, NEW first, Bounded(n, size, cur, first),
         NEW i \in 0 .. n - 1, NEW e \in 0 .. n - 1
  PROVE  Bounded(n, size, Traded(cur, i, e), first)
<1>a. PICK cur2 : cur2 = Traded(cur, i, e)
  OBVIOUS
<1>1. /\ n \in Nat /\ size \in Nat \ {0} /\ cur \in [0 .. n - 1 -> 0 .. size - 1]
      /\ first \in [0 .. size -> Nat]
      /\ \A h \in 0 .. size : first[h] = Cardinality(Lower(n, cur, h))
  BY DEF Bounded
<1>2. cur2 \in [0 .. n - 1 -> 0 .. size - 1]
  BY <1>1, <1>a DEF Traded
<1>3. /\ cur2[i] = cur[e] /\ cur2[e] = cur[i]
      /\ \A j \in 0 .. n - 1 : j # i /\ j # e => cur2[j] = cur[j]
  BY <1>1, <1>a DEF Traded
<1>4. ASSUME NEW h \in 0 .. size PROVE Cardinality(Lower(n, cur2, h)) = Cardinality(Lower(n, cur, h))
  <2>1. IsFiniteSet(Lower(n, cur, h))
    <3>1. Lower(n, cur, h) \in SUBSET (0 .. n - 1)
      BY DEF Lower
    <3>. QED
      BY <1>1, <3>1, Places
  <2>2. CASE cur[i] < h /\ ~(cur[e] < h)
    <3>1. Lower(n, cur2, h) = (Lower(n, cur, h) \ {i}) \union {e}
      BY <1>3, <2>2 DEF Lower
    <3>2. i \in Lower(n, cur, h) /\ e \notin Lower(n, cur, h)
      BY <2>2 DEF Lower
    <3>. QED
      BY <2>1, <3>1, <3>2, Exchanged
  <2>3. CASE ~(cur[i] < h) /\ cur[e] < h
    <3>1. Lower(n, cur2, h) = (Lower(n, cur, h) \ {e}) \union {i}
      BY <1>3, <2>3 DEF Lower
    <3>2. e \in Lower(n, cur, h) /\ i \notin Lower(n, cur, h)
      BY <2>3 DEF Lower
    <3>. QED
      BY <2>1, <3>1, <3>2, Exchanged
  <2>4. CASE (cur[i] < h) <=> (cur[e] < h)
    <3>1. Lower(n, cur2, h) = Lower(n, cur, h)
      BY <1>3, <2>4 DEF Lower
    <3>. QED
      BY <3>1
  <2>. QED
    BY <2>2, <2>3, <2>4
<1>5. \A h \in 0 .. size : first[h] = Cardinality(Lower(n, cur2, h))
  BY <1>1, <1>4
<1>6. Bounded(n, size, cur2, first)
  BY <1>1, <1>2, <1>5 DEF Bounded
<1>. QED
  BY <1>6, <1>a

\* An entry that is swapped into its bucket is in place there.
LEMMA SortSwap ==
  ASSUME NEW n, NEW m, NEW size, NEW cur, NEW first, NEW ends, NEW i,
         Sorting(n, m, size, cur, first, ends, i), i < m, NEW h, h = cur[i],
         ~(i >= first[h] /\ i < ends[h]), NEW e, e = ends[h], e < m
  PROVE  Sorting(n, m, size, Traded(cur, i, e), first, [ends EXCEPT ![h] = @ + 1], i)
<1>1. /\ Bounded(n, size, cur, first) /\ Claimed(m, size, cur, first, ends)
      /\ m \in Nat /\ (m = n \/ n = m + 1) /\ i \in 0 .. m
      /\ \A j \in 0 .. i - 1 : first[cur[j]] <= j /\ j < ends[cur[j]]
  BY DEF Sorting
<1>2. n \in Nat /\ size \in Nat \ {0} /\ cur \in [0 .. n - 1 -> 0 .. size - 1]
  BY <1>1 DEF Bounded
<1>3. h \in 0 .. size - 1 /\ e \in i .. n - 1 /\ e < first[h + 1]
  BY SortRoom
<1>4. i \in 0 .. n - 1 /\ e \in 0 .. n - 1
  BY <1>1, <1>2, <1>3
<1>5. /\ \A g \in 0 .. size : first[g] \in Nat
      /\ \A g, f \in 0 .. size : g <= f => first[g] <= first[f]
  BY <1>1, BucketBounds
<1>6. /\ ends \in [0 .. size -> Nat]
      /\ \A g \in 0 .. size - 1 :
           /\ first[g] <= ends[g] /\ ends[g] <= first[g + 1]
           /\ \A j \in first[g] .. ends[g] - 1 : j < m /\ cur[j] = g
  BY <1>1 DEF Claimed
<1>a. PICK cur2 : cur2 = Traded(cur, i, e)
  OBVIOUS
<1>b. PICK ends2 : ends2 = [ends EXCEPT ![h] = @ + 1]
  OBVIOUS
<1>7. Bounded(n, size, cur2, first)
  BY <1>1, <1>4, <1>a, TradedBounded
<1>8. /\ cur2[i] = cur[e] /\ cur2[e] = h
      /\ \A j \in 0 .. n - 1 : j # i /\ j # e => cur2[j] = cur[j]
  BY <1>2, <1>4, <1>a DEF Traded
<1>9. /\ ends2 \in [0 .. size -> Nat] /\ ends2[h] = e + 1
      /\ \A g \in 0 .. size : g # h => ends2[g] = ends[g]
  <2>1. h \in 0 .. size
    BY <1>2, <1>3
  <2>2. ends[h] \in Nat
    BY <1>6, <2>1
  <2>3. ends[h] + 1 \in Nat
    BY <2>2
  <2>. QED
    BY <1>6, <1>b, <2>1, <2>3
<1>10. h \in 0 .. size /\ h + 1 \in 0 .. size /\ first[h] <= e /\ e <= first[h + 1]
  <2>1. h \in 0 .. size /\ h + 1 \in 0 .. size
    BY <1>2, <1>3
  <2>2. first[h] <= ends[h] /\ ends[h] <= first[h + 1]
    BY <1>3, <1>6
  <2>. QED
    BY <2>1, <2>2
<1>11. ASSUME NEW g \in 0 .. size - 1
       PROVE  /\ first[g] <= ends2[g] /\ ends2[g] <= first[g + 1]
              /\ \A j \in first[g] .. ends2[g] - 1 : j < m /\ cur2[j] = g
  <2>1. g \in 0 .. size /\ g + 1 \in 0 .. size /\ first[g] \in Nat /\ first[g + 1] \in Nat /\ ends[g] \in Nat
    BY <1>2, <1>5, <1>6
  <2>2. CASE g = h
    <3>1. first[g] <= ends2[g] /\ ends2[g] <= first[g + 1]
      BY <1>3, <1>4, <1>9, <1>10, <2>1, <2>2
    <3>2. ASSUME NEW j \in first[g] .. ends2[g] - 1 PROVE j < m /\ cur2[j] = g
      <4>1. j \in Nat /\ first[h] <= j /\ j <= e
        BY <1>4, <1>9, <2>1, <2>2
      <4>2. CASE j = e
        BY <1>8, <2>2, <4>2
      <4>3. CASE j # e
        <5>1. j < m /\ cur[j] = h
          <6>1. j \in first[h] .. ends[h] - 1
            BY <1>4, <2>1, <2>2, <4>1, <4>3
          <6>. QED
            BY <1>3, <1>6, <6>1
        <5>2. j # i
          BY <1>3, <1>4, <4>1, <4>3
        <5>3. j \in 0 .. n - 1
          BY <1>1, <1>2, <4>1, <5>1
        <5>. QED
          BY <1>8, <2>2, <4>3, <5>1, <5>2, <5>3
      <4>. QED
        BY <4>2, <4>3
    <3>. QED
      BY <3>1, <3>2
  <2>3. CASE g # h
    <3>1. ends2[g] = ends[g]
      BY <1>9, <2>1, <2>3
    <3>2. ASSUME NEW j \in first[g] .. ends[g] - 1 PROVE j < m /\ cur2[j] = g
      <4>1. j < m /\ cur[j] = g /\ j \in Nat /\ first[g] <= j /\ j < ends[g] /\ ends[g] <= first[g + 1]
        BY <1>6, <2>1
      <4>2. j # i
        BY <2>3, <4>1
      <4>3. j # e
        <5>1. CASE g < h
          <6>a. g + 1 <= h
            BY <1>3, <5>1
          <6>1. first[g + 1] <= first[h]
            BY <1>5, <1>10, <2>1, <6>a
          <6>. QED
            BY <1>4, <1>5, <1>10, <2>1, <4>1, <6>1
        <5>2. CASE g > h
          <6>a. h + 1 <= g
            BY <1>3, <5>2
          <6>1. first[h + 1] <= first[g]
            BY <1>5, <1>10, <2>1, <6>a
          <6>. QED
            BY <1>3, <1>4, <1>5, <1>10, <2>1, <4>1, <6>1
        <5>. QED
          BY <1>3, <2>3, <5>1, <5>2
      <4>4. j \in 0 .. n - 1
        BY <1>1, <1>2, <4>1
      <4>. QED
        BY <1>8, <4>1, <4>2, <4>3, <4>4
    <3>. QED
      BY <1>6, <3>1, <3>2
  <2>. QED
    BY <2>2, <2>3
<1>12. Claimed(m, size, cur2, first, ends2)
  BY <1>9, <1>11 DEF Claimed
<1>13. ASSUME NEW j \in 0 .. i - 1 PROVE first[cur2[j]] <= j /\ j < ends2[cur2[j]]
  <2>1. j \in 0 .. n - 1 /\ j # i /\ j # e /\ j < e
    BY <1>1, <1>2, <1>3, <1>4
  <2>2. cur2[j] = cur[j] /\ cur[j] \in 0 .. size
    BY <1>2, <1>8, <2>1
  <2>3. first[cur[j]] <= j /\ j < ends[cur[j]]
    BY <1>1
  <2>4. CASE cur[j] = h
    BY <1>9, <2>1, <2>2, <2>3, <2>4, <1>4
  <2>5. CASE cur[j] # h
    BY <1>9, <2>2, <2>3, <2>5
  <2>. QED
    BY <2>4, <2>5
<1>14. Sorting(n, m, size, cur2, first, ends2, i)
  BY <1>1, <1>7, <1>12, <1>13 DEF Sorting
<1>. QED
  BY <1>14, <1>a, <1>b

\* Once all whole entries are in place, none belongs to a bucket behind that of the part.
LEMMA SortDone ==
  ASSUME NEW n, NEW m, NEW size, NEW cur, NEW first, NEW ends,
         Sorting(n, m, size, cur, first, ends, m)
  PROVE  /\ \A j \in 0 .. m - 1 : first[cur[j]] <= j /\ j < first[cur[j] + 1]
         /\ m = n \/ \A j \in 0 .. m - 1 : cur[j] <= cur[m]
<1>1. /\ Bounded(n, size, cur, first) /\ Claimed(m, size, cur, first, ends)
      /\ m \in Nat /\ (m = n \/ n = m + 1)
      /\ \A j \in 0 .. m - 1 : first[cur[j]] <= j /\ j < ends[cur[j]]
  BY DEF Sorting
<1>2. n \in Nat /\ size \in Nat \ {0} /\ cur \in [0 .. n - 1 -> 0 .. size - 1]
  BY <1>1 DEF Bounded
<1>3. /\ \A g \in 0 .. size : first[g] \in Nat
      /\ \A g, f \in 0 .. size : g <= f => first[g] <= first[f]
      /\ \A h \in 0 .. size : first[h] = Cardinality(Lower(n, cur, h))
  <2>1. \A h \in 0 .. size : first[h] = Cardinality(Lower(n, cur, h))
    BY <1>1 DEF Bounded
  <2>2. \A g, f \in 0 .. size : g <= f => first[g] <= first[f]
    BY <1>1, BucketBounds
  <2>3. \A g \in 0 .. size : first[g] \in Nat
    BY <1>1, BucketBounds
  <2>. QED
    BY <2>1, <2>2, <2>3
<1>4. ASSUME NEW j \in 0 .. m - 1
      PROVE  /\ j \in 0 .. n - 1 /\ cur[j] \in 0 .. size - 1
             /\ first[cur[j]] <= j /\ j < first[cur[j] + 1]
  <2>a. PICK g : g = cur[j]
    OBVIOUS
  <2>1. j \in 0 .. n - 1 /\ g \in 0 .. size - 1
    BY <1>1, <1>2, <2>a
  <2>2. g + 1 \in 0 .. size
    BY <1>2, <2>1
  <2>3. ends[g] <= first[g + 1] /\ ends[g] \in Nat /\ first[g + 1] \in Nat
    <3>1. g \in 0 .. size
      BY <1>2, <2>1
    <3>. QED
      BY <1>1, <1>3, <2>1, <2>2, <3>1 DEF Claimed
  <2>. QED
    BY <1>1, <2>1, <2>3, <2>a
<1>5. ASSUME n = m + 1, NEW j \in 0 .. m - 1 PROVE cur[j] <= cur[m]
  <2>a. PICK b : b = cur[m]
    OBVIOUS
  <2>1. m \in 0 .. n - 1 /\ b \in 0 .. size - 1 /\ b + 1 \in 0 .. size
    BY <1>1, <1>2, <1>5, <2>a
  <2>2. cur[j] \in 0 .. size - 1 /\ j \in 0 .. n - 1
    BY <1>4
  <2>3. SUFFICES ASSUME cur[j] > b PROVE FALSE
    BY <2>1, <2>2, <2>a
  <2> DEFINE A == 0 .. n - 1
             B == Lower(n, cur, b + 1)
  <2>b. PICK f : f = first[b + 1]
    OBVIOUS
  <2>4. f \in Nat /\ f = Cardinality(B) /\ B \in SUBSET A
    BY <1>3, <2>1, <2>b DEF Lower
  <2>5. IsFiniteSet(A) /\ Cardinality(A) = n /\ A \intersect B = B
    BY <1>2, <2>4, Places
  <2>6. ASSUME NEW k \in A \ B PROVE k \in f .. m - 1
    <3>a. PICK g : g = cur[k]
      OBVIOUS
    <3>1. k \in 0 .. n - 1 /\ g \in 0 .. size - 1 /\ ~(g < b + 1)
      BY <1>2, <2>6, <3>a DEF Lower
    <3>2. k # m
      BY <2>1, <2>a, <3>1, <3>a
    <3>3. k \in 0 .. m - 1
      BY <1>1, <1>5, <3>1, <3>2
    <3>4. first[g] <= k
      BY <1>4, <3>3, <3>a
    <3>5. g \in 0 .. size /\ b + 1 <= g
      BY <1>2, <2>1, <3>1
    <3>6. f <= first[g] /\ first[g] \in Nat
      BY <1>3, <2>1, <2>b, <3>5
    <3>. QED
      BY <1>1, <2>4, <3>3, <3>4, <3>6
  <2>7. j \in A \ B
    BY <2>1, <2>2, <2>3 DEF Lower
  <2>8. f <= m /\ j >= f
    BY <1>1, <2>4, <2>6, <2>7
  <2>9. IsFiniteSet(f .. m - 1) /\ Cardinality(f .. m - 1) = m - f
    BY <1>1, <2>4, <2>8, Spanned
  <2> HIDE DEF A, B
  <2>10. Cardinality(A \ B) = n - f
    <3>1. Cardinality(A \ B) = Cardinality(A) - Cardinality(A \intersect B)
      BY <2>5, FS_Difference
    <3>. QED
      BY <2>4, <2>5, <3>1
  <2>11. A \ B \in SUBSET (f .. m - 1)
    BY <2>6
  <2>12. Cardinality(A \ B) <= Cardinality(f .. m - 1)
    BY <2>9, <2>11, FS_Subset
  <2>. QED
    BY <1>1, <1>5, <2>4, <2>9, <2>10, <2>12
<1>. QED
  BY <1>1, <1>4, <1>5

-------------------------------------------------------------------------------
(* The bytes of entries.                                                    *)

\* Division, and the multiples of a divisor.
LEMMA Divided ==
  ASSUME NEW x \in Nat, NEW k \in Nat \ {0}
  PROVE  /\ x \div k \in Nat /\ x % k \in 0 .. k - 1 /\ x = (x \div k) * k + (x % k)
         /\ (x \div k) * k \in Nat
<1>1. x \div k \in Int /\ x % k \in 0 .. k - 1 /\ x = k * (x \div k) + (x % k)
  OBVIOUS
<1>2. x \div k >= 0
  <2>1. SUFFICES ASSUME x \div k <= 0 - 1 PROVE FALSE
    BY <1>1
  <2>2. k * (x \div k) <= k * (0 - 1)
    BY <1>1, <2>1
  <2>. QED
    BY <1>1, <2>2
<1>. QED
  BY <1>1, <1>2

LEMMA Multiples ==
  ASSUME NEW k \in Nat \ {0}, NEW i \in Nat, NEW j \in Nat
  PROVE  /\ i * k \in Nat /\ (i + 1) * k = i * k + k /\ (i + j) * k = i * k + j * k
         /\ i < j => i * k + k <= j * k
         /\ i <= j => i * k <= j * k
         /\ i * k = j * k => i = j
<1>1. i * k \in Nat /\ j * k \in Nat
  OBVIOUS
<1>2. (i + 1) * k = i * k + k /\ (i + j) * k = i * k + j * k
  OBVIOUS
<1>3. i <= j => i * k <= j * k
  OBVIOUS
<1>4. i < j => i * k + k <= j * k
  <2>1. SUFFICES ASSUME i < j PROVE (i + 1) * k <= j * k
    BY <1>2
  <2>2. i + 1 <= j
    BY <2>1
  <2>. QED
    BY <2>2
<1>5. i * k = j * k => i = j
  OBVIOUS
<1>. QED
  BY <1>1, <1>2, <1>3, <1>4, <1>5

\* A quotient is known by its remainder.
LEMMA QuotientIs ==
  ASSUME NEW k \in Nat \ {0}, NEW q \in Nat, NEW r \in 0 .. k - 1
  PROVE  (q * k + r) \div k = q /\ (q * k + r) % k = r
<1>1. q * k + r \in Nat
  OBVIOUS
<1> DEFINE a == (q * k + r) \div k
           b == (q * k + r) % k
<1>2. a \in Nat /\ b \in 0 .. k - 1 /\ q * k + r = a * k + b
  BY <1>1, Divided
<1> HIDE DEF a, b
<1>3. /\ q * k \in Nat /\ a * k \in Nat
      /\ q < a => q * k + k <= a * k
      /\ a < q => a * k + k <= q * k
  BY <1>2, Multiples
<1>4. a = q
  BY <1>2, <1>3
<1>5. b = r
  BY <1>2, <1>4
<1>. QED
  BY <1>4, <1>5 DEF a, b

\* A part of a sequence, as Bytes takes it.
LEMMA BytesOf ==
  ASSUME NEW X, NEW s \in Seq(X), NEW i \in 0 .. Len(s), NEW n \in Nat
  PROVE  /\ Bytes(s, i, n) \in Seq(X)
         /\ Len(Bytes(s, i, n)) = IF i + n <= Len(s) THEN n ELSE Len(s) - i
         /\ \A j \in 1 .. Len(Bytes(s, i, n)) : Bytes(s, i, n)[j] = s[i + j]
<1>a. PICK e : e = IF i + n <= Len(s) THEN i + n ELSE Len(s)
  OBVIOUS
<1>1. e \in i .. Len(s) /\ Len(s) \in Nat /\ i \in Nat /\ e \in Int /\ i + 1 \in Int
  BY <1>a
<1>2. \A j \in i + 1 .. e : s[j] \in X
  BY <1>1
<1>3. /\ SubSeq(s, i + 1, e) \in Seq(X)
      /\ Len(SubSeq(s, i + 1, e)) = IF i + 1 <= e THEN e - (i + 1) + 1 ELSE 0
      /\ \A j \in 1 .. e - (i + 1) + 1 : SubSeq(s, i + 1, e)[j] = s[(i + 1) + j - 1]
  BY <1>1, <1>2, SubSeqProperties, SMTT(30)
<1>4. Bytes(s, i, n) = SubSeq(s, i + 1, e)
  BY <1>a DEF Bytes
<1>5. Len(SubSeq(s, i + 1, e)) = e - i /\ e - (i + 1) + 1 = e - i
  BY <1>1, <1>3
<1>6. \A j \in 1 .. e - i : (i + 1) + j - 1 = i + j
  BY <1>1
<1>. QED
  BY <1>a, <1>1, <1>3, <1>4, <1>5, <1>6

\* The start of a part.
LEMMA BytesOfBytes ==
  ASSUME NEW X, NEW s \in Seq(X), NEW i \in 0 .. Len(s), NEW n \in Nat, NEW m \in 0 .. n
  PROVE  Bytes(Bytes(s, i, n), 0, m) = Bytes(s, i, m)
<1>a. PICK t : t = Bytes(s, i, n)
  OBVIOUS
<1>1. /\ t \in Seq(X) /\ Len(t) = (IF i + n <= Len(s) THEN n ELSE Len(s) - i)
      /\ \A j \in 1 .. Len(t) : t[j] = s[i + j]
  BY <1>a, BytesOf
<1>2. m \in Nat /\ 0 \in 0 .. Len(t) /\ Len(s) \in Nat /\ i \in Nat /\ Len(t) \in Nat
  BY <1>1
<1>3. /\ Bytes(t, 0, m) \in Seq(X)
      /\ Len(Bytes(t, 0, m)) = (IF 0 + m <= Len(t) THEN m ELSE Len(t) - 0)
      /\ \A j \in 1 .. Len(Bytes(t, 0, m)) : Bytes(t, 0, m)[j] = t[0 + j]
  <2>a. PICK z : z = 0
    OBVIOUS
  <2>1. t \in Seq(X) /\ z \in 0 .. Len(t) /\ m \in Nat
    BY <1>1, <1>2, <2>a
  <2>2. /\ Bytes(t, z, m) \in Seq(X)
        /\ Len(Bytes(t, z, m)) = (IF z + m <= Len(t) THEN m ELSE Len(t) - z)
        /\ \A j \in 1 .. Len(Bytes(t, z, m)) : Bytes(t, z, m)[j] = t[z + j]
    BY <2>1, BytesOf
  <2>. QED
    BY <2>2, <2>a
<1>4. /\ Bytes(s, i, m) \in Seq(X)
      /\ Len(Bytes(s, i, m)) = (IF i + m <= Len(s) THEN m ELSE Len(s) - i)
      /\ \A j \in 1 .. Len(Bytes(s, i, m)) : Bytes(s, i, m)[j] = s[i + j]
  BY <1>2, BytesOf
<1>5. Len(Bytes(t, 0, m)) = Len(Bytes(s, i, m))
  BY <1>1, <1>2, <1>3, <1>4
<1>6. ASSUME NEW j \in 1 .. Len(Bytes(t, 0, m)) PROVE Bytes(t, 0, m)[j] = Bytes(s, i, m)[j]
  <2>1. j \in 1 .. Len(t) /\ 0 + j = j
    BY <1>2, <1>3
  <2>. QED
    BY <1>1, <1>3, <1>4, <1>5, <2>1
<1>7. Bytes(t, 0, m) = Bytes(s, i, m)
  BY <1>3, <1>4, <1>5, <1>6, SeqEqual
<1>. QED
  BY <1>7, <1>a

\* A part of the first or the second of two sequences behind each other.
LEMMA BytesOfBoth ==
  ASSUME NEW X, NEW s \in Seq(X), NEW t \in Seq(X), NEW i \in Nat, NEW n \in Nat
  PROVE  /\ i + n <= Len(s) => Bytes(s \o t, i, n) = Bytes(s, i, n)
         /\ i + n <= Len(t) => Bytes(s \o t, Len(s) + i, n) = Bytes(t, i, n)
<1>a. PICK u : u = s \o t
  OBVIOUS
<1>1. /\ u \in Seq(X) /\ Len(u) = Len(s) + Len(t)
      /\ \A j \in 1 .. Len(s) + Len(t) : u[j] = IF j <= Len(s) THEN s[j] ELSE t[j - Len(s)]
  BY <1>a, ConcatProperties
<1>2. Len(s) \in Nat /\ Len(t) \in Nat
  OBVIOUS
<1>3. ASSUME i + n <= Len(s) PROVE Bytes(u, i, n) = Bytes(s, i, n)
  <2>1. i \in 0 .. Len(s) /\ i \in 0 .. Len(u) /\ i + n <= Len(u)
    BY <1>1, <1>2, <1>3
  <2>2. /\ Bytes(u, i, n) \in Seq(X) /\ Len(Bytes(u, i, n)) = n
        /\ \A j \in 1 .. n : Bytes(u, i, n)[j] = u[i + j]
    BY <1>1, <2>1, BytesOf
  <2>3. /\ Bytes(s, i, n) \in Seq(X) /\ Len(Bytes(s, i, n)) = n
        /\ \A j \in 1 .. n : Bytes(s, i, n)[j] = s[i + j]
    BY <1>3, <2>1, BytesOf
  <2>4. \A j \in 1 .. n : u[i + j] = s[i + j]
    <3>1. ASSUME NEW j \in 1 .. n PROVE i + j \in 1 .. Len(s) + Len(t) /\ i + j <= Len(s)
      BY <1>2, <1>3
    <3>. QED
      BY <1>1, <3>1
  <2>. QED
    BY <2>2, <2>3, <2>4, SeqEqual
<1>4. ASSUME i + n <= Len(t) PROVE Bytes(u, Len(s) + i, n) = Bytes(t, i, n)
  <2>1. i \in 0 .. Len(t) /\ Len(s) + i \in 0 .. Len(u) /\ (Len(s) + i) + n <= Len(u)
    BY <1>1, <1>2, <1>4
  <2>2. /\ Bytes(u, Len(s) + i, n) \in Seq(X) /\ Len(Bytes(u, Len(s) + i, n)) = n
        /\ \A j \in 1 .. n : Bytes(u, Len(s) + i, n)[j] = u[(Len(s) + i) + j]
    BY <1>1, <2>1, BytesOf
  <2>3. /\ Bytes(t, i, n) \in Seq(X) /\ Len(Bytes(t, i, n)) = n
        /\ \A j \in 1 .. n : Bytes(t, i, n)[j] = t[i + j]
    BY <1>4, <2>1, BytesOf
  <2>4. \A j \in 1 .. n : u[(Len(s) + i) + j] = t[i + j]
    <3>1. ASSUME NEW j \in 1 .. n
          PROVE  /\ (Len(s) + i) + j \in 1 .. Len(s) + Len(t) /\ ~((Len(s) + i) + j <= Len(s))
                 /\ (Len(s) + i) + j - Len(s) = i + j
      BY <1>2, <1>4
    <3>2. ASSUME NEW j \in 1 .. n PROVE u[(Len(s) + i) + j] = t[i + j]
      <4>a. PICK x : x = (Len(s) + i) + j
        OBVIOUS
      <4>1. x \in 1 .. Len(s) + Len(t) /\ ~(x <= Len(s)) /\ x - Len(s) = i + j
        BY <3>1, <4>a
      <4>2. u[x] = t[x - Len(s)]
        BY <1>1, <4>1
      <4>. QED
        BY <4>1, <4>2, <4>a
    <3>. QED
      BY <3>2
  <2>5. \A j \in 1 .. n : Bytes(u, Len(s) + i, n)[j] = Bytes(t, i, n)[j]
    BY <2>2, <2>3, <2>4
  <2>. QED
    BY <2>2, <2>3, <2>5, SeqEqual
<1>. QED
  BY <1>3, <1>4, <1>a

\* The entries of k bytes that a string of bytes holds.
HeldOf(k, bytes) == {Bytes(bytes, i * k, k) : i \in 0 .. Len(bytes) \div k - 1}

\* Behind whole entries come those of the next string of bytes.
LEMMA HeldBoth ==
  ASSUME NEW k \in Nat \ {0}, NEW X, NEW s \in Seq(X), NEW t \in Seq(X), Len(s) % k = 0
  PROVE  /\ Len(s \o t) % k = Len(t) % k
         /\ HeldOf(k, s \o t) = HeldOf(k, s) \union HeldOf(k, t)
<1>a. PICK q, p, r : q = Len(s) \div k /\ p = Len(t) \div k /\ r = Len(t) % k
  OBVIOUS
<1>1. /\ Len(s) \in Nat /\ Len(t) \in Nat /\ q \in Nat /\ p \in Nat /\ r \in 0 .. k - 1
      /\ Len(s) = q * k /\ Len(t) = p * k + r /\ q * k \in Nat /\ p * k \in Nat
  <2>1. Len(s) \in Nat /\ Len(t) \in Nat
    OBVIOUS
  <2>2. /\ q \in Nat /\ q * k \in Nat /\ Len(s) = q * k + (Len(s) % k)
        /\ p \in Nat /\ p * k \in Nat /\ Len(t) = p * k + r /\ r \in 0 .. k - 1
    BY <1>a, <2>1, Divided
  <2>. QED
    BY <2>1, <2>2
<1>2. Len(s \o t) = (q + p) * k + r /\ q + p \in Nat
  <2>1. Len(s \o t) = Len(s) + Len(t)
    BY ConcatProperties
  <2>2. (q + p) * k = q * k + p * k
    BY <1>1, Multiples
  <2>. QED
    BY <1>1, <2>1, <2>2
<1>3. Len(s \o t) \div k = q + p /\ Len(s \o t) % k = r
  BY <1>1, <1>2, QuotientIs, ZenonT(30)
<1>b. /\ HeldOf(k, s \o t) = {Bytes(s \o t, i * k, k) : i \in 0 .. (q + p) - 1}
      /\ HeldOf(k, s) = {Bytes(s, i * k, k) : i \in 0 .. q - 1}
      /\ HeldOf(k, t) = {Bytes(t, i * k, k) : i \in 0 .. p - 1}
  <2>1. Len(s) \div k - 1 = q - 1 /\ Len(t) \div k - 1 = p - 1
    BY <1>a
  <2>2. Len(s \o t) \div k - 1 = (q + p) - 1
    BY <1>3, Zenon
  <2>. QED
    BY <2>1, <2>2, Zenon DEF HeldOf
<1>4. ASSUME NEW i \in 0 .. q - 1 PROVE Bytes(s \o t, i * k, k) = Bytes(s, i * k, k)
  <2>a. PICK x : x = i * k
    OBVIOUS
  <2>1. x \in Nat /\ x + k <= q * k
    <3>1. i \in Nat /\ i < q
      BY <1>1
    <3>. QED
      BY <1>1, <2>a, <3>1, Multiples
  <2>2. x + k <= Len(s)
    BY <1>1, <2>1
  <2>. QED
    BY <2>1, <2>2, <2>a, BytesOfBoth
<1>5. ASSUME NEW i \in 0 .. p - 1 PROVE Bytes(s \o t, (q + i) * k, k) = Bytes(t, i * k, k)
  <2>1. i * k \in Nat /\ i * k + k <= p * k /\ (q + i) * k = q * k + i * k
    BY <1>1, Multiples
  <2>2. i * k + k <= Len(t) /\ (q + i) * k = Len(s) + i * k
    BY <1>1, <2>1
  <2>. QED
    BY <2>1, <2>2, BytesOfBoth
<1>6. ASSUME NEW e \in HeldOf(k, s \o t) PROVE e \in HeldOf(k, s) \union HeldOf(k, t)
  <2>1. PICK i \in 0 .. (q + p) - 1 : e = Bytes(s \o t, i * k, k)
    BY <1>6, <1>b
  <2>2. CASE i \in 0 .. q - 1
    BY <1>4, <1>b, <2>1, <2>2
  <2>3. CASE ~(i \in 0 .. q - 1)
    <3>1. i - q \in 0 .. p - 1 /\ q + (i - q) = i
      BY <1>1, <2>1, <2>3
    <3>2. e = Bytes(t, (i - q) * k, k)
      BY <1>5, <2>1, <3>1
    <3>. QED
      BY <1>b, <3>1, <3>2
  <2>. QED
    BY <2>2, <2>3
<1>7. HeldOf(k, s) \subseteq HeldOf(k, s \o t)
  <2>1. \A i \in 0 .. q - 1 : i \in 0 .. (q + p) - 1
    BY <1>1
  <2>. QED
    BY <1>4, <1>b, <2>1
<1>8. HeldOf(k, t) \subseteq HeldOf(k, s \o t)
  <2>1. \A i \in 0 .. p - 1 : q + i \in 0 .. (q + p) - 1
    BY <1>1
  <2>. QED
    BY <1>5, <1>b, <2>1
<1>9. HeldOf(k, s \o t) = HeldOf(k, s) \union HeldOf(k, t)
  BY <1>6, <1>7, <1>8
<1>. QED
  BY <1>3, <1>9, <1>a

Fields == [type : DOMAIN TypeSize, count : Nat]

\* The size of fields is a number of bytes.
LEMMA SizesAreNumbers ==
  ASSUME NEW fields \in Seq(Fields)
  PROVE  SizeOf(fields) \in Nat
<1> DEFINE m == Len(fields)
           term(n) == TypeSize[fields[n].type] * fields[n].count
           Step == [n \in 1 .. m |-> [x \in Nat |-> x + term(n)]]
           F(g) == [n \in 0 .. m |->
                      IF n = 0 THEN 0 ELSE g[n - 1] + TypeSize[fields[n].type] * fields[n].count]
           upTo == CHOOSE g : g = F(g)
<1>1. m \in Nat /\ \A n \in 1 .. m : term(n) \in Nat
  <2>1. ASSUME NEW n \in 1 .. m PROVE term(n) \in Nat
    <3>1. fields[n].type \in DOMAIN TypeSize /\ fields[n].count \in Nat
      <4>1. fields[n] \in Fields
        OBVIOUS
      <4>. QED
        BY <4>1, Zenon DEF Fields
    <3>2. TypeSize[fields[n].type] \in Nat
      BY <3>1 DEF TypeSize
    <3>. QED
      BY <3>1, <3>2
  <2>. QED
    BY <2>1
<1> HIDE DEF term
<1>2. Step \in [1 .. m -> [Nat -> Nat]]
  BY <1>1
<1>3. PICK g : Solves(g, Nat, 0, m, Step)
  <2>1. Recursion(Nat, 0, m, Step)
    <3> HIDE DEF m, Step
    <3>. QED
      BY <1>1, <1>2 DEF Recursion
  <2> HIDE DEF m, Step
  <2>. QED
    BY <2>1, RecursionSolved
<1>4. g \in [0 .. m -> Nat] /\ g[0] = 0 /\ \A n \in 1 .. m : g[n] = Step[n][g[n - 1]]
  <2> HIDE DEF m, Step
  <2>. QED
    BY <1>3 DEF Solves
<1>5. ASSUME NEW n \in 1 .. m PROVE g[n] = g[n - 1] + term(n)
  <2>1. n - 1 \in 0 .. m
    BY <1>1
  <2> HIDE DEF m
  <2>2. g[n - 1] \in Nat
    BY <1>4, <2>1
  <2>3. Step[n][g[n - 1]] = g[n - 1] + term(n)
    BY <2>2
  <2>. QED
    BY <1>4, <2>3
<1>6. g = F(g)
  <2>1. ASSUME NEW n \in 0 .. m PROVE g[n] = F(g)[n]
    <3>1. CASE n = 0
      BY <1>4, <3>1
    <3>2. CASE n # 0
      <4>1. n \in 1 .. m
        BY <1>1, <3>2
      <4> HIDE DEF m
      <4>. QED
        BY <1>5, <3>2, <4>1 DEF term
    <3>. QED
      BY <3>1, <3>2
  <2>2. F(g) = [n \in 0 .. m |-> F(g)[n]]
    OBVIOUS
  <2> HIDE DEF m, F
  <2>. QED
    BY <1>4, <2>1, <2>2
<1>7. upTo = F(upTo)
  <2> HIDE DEF F
  <2>. QED
    BY <1>6
<1>8. SizeOf(fields) = upTo[m]
  BY DEF SizeOf
<1> HIDE DEF upTo
<1>9. upTo[0] \in Nat
  <2>1. F(upTo)[0] = 0
    BY <1>1
  <2> HIDE DEF F
  <2>. QED
    BY <1>7, <2>1
<1>10. ASSUME NEW n \in 1 .. m, upTo[n - 1] \in Nat PROVE upTo[n] \in Nat
  <2>1. F(upTo)[n] = upTo[n - 1] + term(n)
    BY <1>1 DEF term
  <2> HIDE DEF F
  <2>2. upTo[n] = upTo[n - 1] + term(n)
    BY <1>7, <2>1
  <2>. QED
    BY <1>1, <1>10, <2>2
<1>11. \A n \in 0 .. m : upTo[n] \in Nat
  <2> HIDE DEF m
  <2>. QED
    BY <1>1, <1>9, <1>10, ValuesUpTo
<1>. QED
  BY <1>1, <1>8, <1>11

\* The bytes of files that hold whole entries hold the entries of each.
LEMMA HeldOfAll ==
  ASSUME NEW k \in Nat \ {0}, NEW Y, NEW parts \in Seq(Seq(Y)),
         \A i \in 1 .. Len(parts) : Len(parts[i]) % k = 0
  PROVE  HeldOf(k, FlattenSeq(parts)) = UNION {HeldOf(k, parts[i]) : i \in 1 .. Len(parts)}
<1> DEFINE X == Seq(Y)
           m == Len(parts)
           flat(n) == FlattenSeq(SubSeq(parts, 1, n))
           S == {n \in 0 .. m : /\ Len(flat(n)) % k = 0
                                /\ HeldOf(k, flat(n)) = UNION {HeldOf(k, parts[i]) : i \in 1 .. n}}
<1>1. m \in Nat /\ \A i \in 1 .. m : parts[i] \in X
  OBVIOUS
<1>2. /\ flat(0) = <<>> /\ flat(m) = FlattenSeq(parts)
      /\ \A n \in 1 .. m : flat(n) = flat(n - 1) \o parts[n]
      /\ \A n \in 0 .. m : flat(n) \in X
  BY FlattenUpTo
<1>3. 0 \in S
  <2>1. Len(<<>>) = 0 /\ 0 = 0 * k + 0 /\ 0 \in 0 .. k - 1
    OBVIOUS
  <2>2. 0 \div k = 0 /\ 0 % k = 0
    BY <2>1, QuotientIs
  <2>3. HeldOf(k, <<>>) = {}
    <3>1. Len(<<>>) \div k - 1 = 0 - 1
      BY <2>1, <2>2
    <3>2. 0 .. 0 - 1 = {}
      OBVIOUS
    <3>3. 0 .. Len(<<>>) \div k - 1 = {}
      BY <3>1, <3>2
    <3>. QED
      BY <3>3 DEF HeldOf
  <2>4. UNION {HeldOf(k, parts[i]) : i \in 1 .. 0} = {}
    OBVIOUS
  <2>5. 0 \in 0 .. m
    BY <1>1
  <2> HIDE DEF flat, m
  <2>. QED
    BY <1>2, <2>1, <2>2, <2>3, <2>4, <2>5
<1>4. ASSUME NEW n \in 0 .. m - 1, n \in S PROVE n + 1 \in S
  <2>1. n + 1 \in 1 .. m /\ (n + 1) - 1 = n /\ n + 1 \in 0 .. m /\ n \in 0 .. m
    BY <1>1
  <2>2. flat(n + 1) = flat(n) \o parts[n + 1] /\ flat(n) \in X /\ parts[n + 1] \in X
    <3> HIDE DEF flat, m, X
    <3>. QED
      BY <1>1, <1>2, <2>1
  <2>3. /\ Len(flat(n)) % k = 0 /\ HeldOf(k, flat(n)) = UNION {HeldOf(k, parts[i]) : i \in 1 .. n}
        /\ Len(parts[n + 1]) % k = 0
    <3> HIDE DEF flat, m, X
    <3>. QED
      BY <1>4, <2>1 DEF m
  <2>4. /\ Len(flat(n + 1)) % k = 0
        /\ HeldOf(k, flat(n + 1)) = HeldOf(k, flat(n)) \union HeldOf(k, parts[n + 1])
    <3>a. PICK a, b : a = flat(n) /\ b = parts[n + 1]
      OBVIOUS
    <3> HIDE DEF flat, m
    <3>1. a \in Seq(Y) /\ b \in Seq(Y) /\ Len(a) % k = 0 /\ Len(b) % k = 0
      BY <2>2, <2>3, <3>a DEF X
    <3>2. Len(a \o b) % k = Len(b) % k /\ HeldOf(k, a \o b) = HeldOf(k, a) \union HeldOf(k, b)
      BY <3>1, HeldBoth
    <3>. QED
      BY <2>2, <3>1, <3>2, <3>a
  <2>5. 1 .. n + 1 = (1 .. n) \union {n + 1}
    BY <1>1
  <2>6. UNION {HeldOf(k, parts[i]) : i \in 1 .. n + 1}
        = (UNION {HeldOf(k, parts[i]) : i \in 1 .. n}) \union HeldOf(k, parts[n + 1])
    BY <2>5
  <2> HIDE DEF flat, m, X
  <2>. QED
    BY <2>1, <2>3, <2>4, <2>6
<1>5. m \in S
  <2> HIDE DEF S, m
  <2>1. \A n \in 0 .. m : n \in S
    BY <1>1, <1>3, <1>4, InductionUpTo
  <2>. QED
    BY <1>1, <2>1
<1> HIDE DEF flat
<1>. QED
  BY <1>2, <1>5

-------------------------------------------------------------------------------
(* A run of the node: J is its job, r are its locals.                       *)

PartsIn(J)   == [i \in DOMAIN J.dir |-> J.dir[i].bytes]
All(J)       == Loaded(J.dir)
Kv(J)        == J.key_size + J.value_size
Whole(J)     == Len(All(J)) \div Kv(J)
PlacesOf(J)  == (Len(All(J)) + Kv(J) - 1) \div Kv(J)
Entry(J, i)  == Bytes(All(J), i * Kv(J), Kv(J))
HeldIn(J)    == HeldOf(Kv(J), All(J))
KeyIn(J, e)  == Bytes(e, 0, J.key_size)
BucketOf(J, size, e) == Hash(KeyIn(J, e)) % size

Node(J) ==
  /\ J.key_size \in Nat \ {0} /\ J.value_size \in Nat
  /\ J.dir \in Seq([opens : BOOLEAN, bytes : Seq(Byte)])
  /\ J.keys \in Seq(Byte) /\ Len(J.keys) % J.key_size = 0
  /\ \A i \in 0 .. Len(J.keys) : Hash(Bytes(J.keys, i, J.key_size)) \in Nat
  /\ \A i \in 0 .. Len(All(J)) : Hash(Bytes(All(J), i, J.key_size)) \in Nat

\* The jobs of the node.
LEMMA NodeJobs ==
  ASSUME NEW node \in Directories, NEW keys \in KeyStrings, NEW J, Len(keys) % SizeOf(node.key) = 0,
         J.dir = node.dir, J.keys = keys, J.key_size = SizeOf(node.key), J.value_size = SizeOf(node.value)
  PROVE  Node(J)
<1>1. /\ node.key \in Seq(Fields) /\ node.value \in Seq(Fields) /\ SizeOf(node.key) > 0
      /\ node.dir \in Seq([opens : BOOLEAN, bytes : Seq(Byte)]) /\ keys \in Seq(Byte)
  BY SchemaAssumption, BytesAssumption DEF Fields
<1>a. PICK ks : ks = SizeOf(node.key)
  OBVIOUS
<1>2. ks \in Nat \ {0} /\ SizeOf(node.value) \in Nat
  <2>1. SizeOf(node.key) \in Nat /\ SizeOf(node.value) \in Nat
    BY <1>1, SizesAreNumbers
  <2>. QED
    BY <1>1, <1>a, <2>1
<1>3. ks \in 0 .. ks
  BY <1>2
<1>4. \A i \in 0 .. Len(keys) : Hash(Bytes(keys, i, ks)) \in Nat
  BY <1>3, <1>a, HashAssumption
<1>5. \A i \in 0 .. Len(Loaded(node.dir)) : Hash(Bytes(Loaded(node.dir), i, ks)) \in Nat
  BY <1>3, <1>a, HashAssumption
<1>. QED
  BY <1>1, <1>2, <1>4, <1>5, <1>a DEF Node, All

\* The files and what they hold together.
LEMMA FilesOf ==
  ASSUME NEW J, Node(J)
  PROVE  /\ Len(J.dir) \in Nat /\ DOMAIN J.dir = 1 .. Len(J.dir)
         /\ PartsIn(J) \in Seq(Seq(Byte)) /\ Len(PartsIn(J)) = Len(J.dir)
         /\ \A i \in 1 .. Len(J.dir) : /\ J.dir[i].opens \in BOOLEAN /\ J.dir[i].bytes \in Seq(Byte)
                                       /\ PartsIn(J)[i] = J.dir[i].bytes
         /\ All(J) = FlattenSeq(PartsIn(J)) /\ All(J) \in Seq(Byte)
<1>1. J.dir \in Seq([opens : BOOLEAN, bytes : Seq(Byte)])
  BY DEF Node
<1>2. /\ Len(J.dir) \in Nat /\ DOMAIN J.dir = 1 .. Len(J.dir)
      /\ \A i \in 1 .. Len(J.dir) : J.dir[i] \in [opens : BOOLEAN, bytes : Seq(Byte)]
  <2>a. PICK d, R : d = J.dir /\ R = [opens : BOOLEAN, bytes : Seq(Byte)]
    OBVIOUS
  <2>1. d \in Seq(R)
    BY <1>1, <2>a
  <2>2. Len(d) \in Nat /\ DOMAIN d = 1 .. Len(d) /\ \A i \in 1 .. Len(d) : d[i] \in R
    BY <2>1
  <2>. QED
    BY <2>2, <2>a, Zenon
<1>3. \A i \in 1 .. Len(J.dir) : J.dir[i].opens \in BOOLEAN /\ J.dir[i].bytes \in Seq(Byte)
  BY <1>2
<1>4. /\ PartsIn(J) \in Seq(Seq(Byte)) /\ Len(PartsIn(J)) = Len(J.dir)
      /\ \A i \in 1 .. Len(J.dir) : PartsIn(J)[i] = J.dir[i].bytes
  <2>a. PICK X : X = Seq(Byte)
    OBVIOUS
  <2>1. \A i \in 1 .. Len(J.dir) : J.dir[i].bytes \in X
    BY <1>3, <2>a
  <2>2. PartsIn(J) = [i \in 1 .. Len(J.dir) |-> J.dir[i].bytes]
    BY <1>2 DEF PartsIn
  <2>3. PartsIn(J) \in Seq(X) /\ Len(PartsIn(J)) = Len(J.dir)
    BY <1>2, <2>1, <2>2
  <2>. QED
    BY <2>2, <2>3, <2>a
<1>5. All(J) = FlattenSeq(PartsIn(J))
  BY DEF All, Loaded, PartsIn
<1>6. All(J) \in Seq(Byte)
  <2>1. FlattenSeq(SubSeq(PartsIn(J), 1, Len(PartsIn(J)))) \in Seq(Byte)
    <3>a. PICK n : n = Len(PartsIn(J))
      OBVIOUS
    <3>1. n \in 0 .. Len(PartsIn(J))
      BY <1>2, <1>4, <3>a
    <3>2. FlattenSeq(SubSeq(PartsIn(J), 1, n)) \in Seq(Byte)
      BY <1>4, <3>1, FlattenUpTo
    <3>. QED
      BY <3>2, <3>a
  <2>2. SubSeq(PartsIn(J), 1, Len(PartsIn(J))) = PartsIn(J)
    BY <1>4, FlattenUpTo
  <2>. QED
    BY <1>5, <2>1, <2>2
<1>. QED
  BY <1>2, <1>3, <1>4, <1>5, <1>6

\* The places of the table: whole entries, and the part of one behind them.
LEMMA PlacesAre ==
  ASSUME NEW J, Node(J)
  PROVE  /\ Kv(J) \in Nat \ {0} /\ J.key_size \in 0 .. Kv(J)
         /\ Whole(J) \in Nat /\ PlacesOf(J) \in Nat
         /\ PlacesOf(J) = Whole(J) \/ PlacesOf(J) = Whole(J) + 1
         /\ (PlacesOf(J) = Whole(J)) <=> (Len(All(J)) % Kv(J) = 0)
         /\ Whole(J) * Kv(J) = Len(All(J)) - (Len(All(J)) % Kv(J))
         /\ \A i \in 0 .. PlacesOf(J) - 1 : i * Kv(J) \in 0 .. Len(All(J))
<1>1. Kv(J) \in Nat \ {0} /\ J.key_size \in 0 .. Kv(J)
  BY DEF Node, Kv
<1>a. PICK k, len, q, rem : k = Kv(J) /\ len = Len(All(J)) /\ q = len \div k /\ rem = len % k
  OBVIOUS
<1>2. k \in Nat \ {0} /\ len \in Nat /\ q = Whole(J)
  <2>1. Len(All(J)) \in Nat
    BY FilesOf
  <2>. QED
    BY <1>1, <1>a, <2>1 DEF Whole
<1>3. q \in Nat /\ rem \in 0 .. k - 1 /\ len = q * k + rem /\ q * k \in Nat
  <2>1. /\ len \div k \in Nat /\ len % k \in 0 .. k - 1 /\ len = (len \div k) * k + (len % k)
        /\ (len \div k) * k \in Nat
    BY <1>2, Divided
  <2>2. q = len \div k /\ rem = len % k
    BY <1>a
  <2>. QED
    BY <2>1, <2>2, Zenon
<1>b. PICK p : p = PlacesOf(J)
  OBVIOUS
<1>4. p = (len + k - 1) \div k
  BY <1>a, <1>b DEF PlacesOf
<1>5. ASSUME rem = 0 PROVE p = q /\ \A i \in 0 .. p - 1 : i * k \in 0 .. len
  <2>1. len + k - 1 = q * k + (k - 1) /\ k - 1 \in 0 .. k - 1
    BY <1>2, <1>3, <1>5
  <2>2. p = q
    BY <1>2, <1>3, <1>4, <2>1, QuotientIs
  <2>3. ASSUME NEW i \in 0 .. p - 1 PROVE i * k \in 0 .. len
    <3>1. i \in Nat /\ i < q
      BY <1>3, <2>2
    <3>2. i * k \in Nat /\ i * k + k <= q * k
      BY <1>2, <1>3, <3>1, Multiples
    <3>. QED
      BY <1>2, <1>3, <3>2
  <2>. QED
    BY <2>2, <2>3
<1>6. ASSUME rem # 0 PROVE p = q + 1 /\ \A i \in 0 .. p - 1 : i * k \in 0 .. len
  <2>a. PICK q1, r1 : q1 = q + 1 /\ r1 = rem - 1
    OBVIOUS
  <2>1. len + k - 1 = q1 * k + r1 /\ r1 \in 0 .. k - 1 /\ q1 \in Nat
    <3>1. (q + 1) * k = q * k + k
      BY <1>2, <1>3, Multiples
    <3>. QED
      BY <1>2, <1>3, <1>6, <2>a, <3>1
  <2>2. p = q1
    BY <1>2, <1>4, <2>1, QuotientIs
  <2>3. ASSUME NEW i \in 0 .. p - 1 PROVE i * k \in 0 .. len
    <3>1. i \in Nat /\ i <= q
      BY <1>3, <2>2, <2>a
    <3>2. i * k \in Nat /\ i * k <= q * k
      BY <1>2, <1>3, <3>1, Multiples
    <3>. QED
      BY <1>2, <1>3, <3>2
  <2>. QED
    BY <2>2, <2>3, <2>a
<1>7. /\ p \in Nat /\ (p = q \/ p = q + 1) /\ ((p = q) <=> (rem = 0))
      /\ q * k = len - rem /\ \A i \in 0 .. p - 1 : i * k \in 0 .. len
  BY <1>2, <1>3, <1>5, <1>6
<1>. QED
  BY <1>1, <1>2, <1>3, <1>7, <1>a, <1>b, Zenon

\* The entries, their keys and buckets.
LEMMA EntriesAre ==
  ASSUME NEW J, Node(J)
  PROVE  /\ \A i \in 0 .. PlacesOf(J) - 1 :
              /\ Entry(J, i) \in Seq(Byte) /\ Hash(KeyIn(J, Entry(J, i))) \in Nat
              /\ \A size \in Nat \ {0} : BucketOf(J, size, Entry(J, i)) \in 0 .. size - 1
         /\ HeldIn(J) = {Entry(J, i) : i \in 0 .. Whole(J) - 1}
<1>1. /\ Kv(J) \in Nat \ {0} /\ J.key_size \in 0 .. Kv(J) /\ All(J) \in Seq(Byte)
      /\ \A i \in 0 .. PlacesOf(J) - 1 : i * Kv(J) \in 0 .. Len(All(J))
  BY FilesOf, PlacesAre
<1>2. ASSUME NEW i \in 0 .. PlacesOf(J) - 1
      PROVE  Entry(J, i) \in Seq(Byte) /\ Hash(KeyIn(J, Entry(J, i))) \in Nat
  <2>a. PICK x : x = i * Kv(J)
    OBVIOUS
  <2>1. x \in 0 .. Len(All(J)) /\ Kv(J) \in Nat
    BY <1>1, <2>a
  <2>2. Entry(J, i) = Bytes(All(J), x, Kv(J))
    BY <2>a DEF Entry
  <2>3. Entry(J, i) \in Seq(Byte)
    BY <1>1, <2>1, <2>2, BytesOf
  <2>4. KeyIn(J, Entry(J, i)) = Bytes(All(J), x, J.key_size)
    BY <1>1, <2>1, <2>2, BytesOfBytes DEF KeyIn
  <2>5. Hash(Bytes(All(J), x, J.key_size)) \in Nat
    BY <2>1 DEF Node
  <2>. QED
    BY <2>3, <2>4, <2>5
<1>3. ASSUME NEW i \in 0 .. PlacesOf(J) - 1, NEW size \in Nat \ {0}
      PROVE  BucketOf(J, size, Entry(J, i)) \in 0 .. size - 1
  <2>a. PICK x : x = Hash(KeyIn(J, Entry(J, i)))
    OBVIOUS
  <2>1. x \in Nat
    BY <1>2, <2>a
  <2>2. x % size \in 0 .. size - 1
    BY <2>1
  <2>. QED
    BY <2>2, <2>a DEF BucketOf
<1>4. HeldIn(J) = {Entry(J, i) : i \in 0 .. Whole(J) - 1}
  BY Zenon DEF HeldIn, HeldOf, Entry, Whole
<1>. QED
  BY <1>2, <1>3, <1>4

Responses == [statuses : Seq({"FOUND", "NOT_FOUND"}), values : Seq(Byte \union {Beyond}),
              status : {"OK", "PARTIAL_OK"}]
NoResponse == [statuses |-> <<>>, values |-> <<>>, status |-> "OK"]

NodeLocals(entries, indexes, ends) ==
  [pc : {"load", "size", "sort", "get", "done"}, file : Nat, kvs : Seq(Byte), count : Nat,
   size : Nat \ {0}, started : BOOLEAN, defined : BOOLEAN, entries : {entries}, indexes : {indexes},
   ends : {ends}, i : Nat, pos : Nat, res : Responses]

Opened(J, n) == \A i \in 1 .. n : J.dir[i].opens

\* The table of entries: those of the files, in some order.
Buckets(J, size, entries) == [j \in 0 .. PlacesOf(J) - 1 |-> BucketOf(J, size, entries[j])]
Table(J, entries) ==
  /\ entries \in [0 .. PlacesOf(J) - 1 -> Seq(Byte)]
  /\ {entries[j] : j \in 0 .. Whole(J) - 1} = HeldIn(J)
  /\ PlacesOf(J) = Whole(J) + 1 => entries[Whole(J)] = Entry(J, Whole(J))

\* No whole entry belongs to a bucket behind that of the part.
Fits(J, size) ==
  \/ PlacesOf(J) = Whole(J)
  \/ \A e \in HeldIn(J) : BucketOf(J, size, e) <= BucketOf(J, size, Entry(J, Whole(J)))

\* Every whole entry is within its bucket.
Placed(J, r) ==
  /\ Bounded(PlacesOf(J), r.size, Buckets(J, r.size, r.entries), r.indexes)
  /\ \A j \in 0 .. Whole(J) - 1 :
       /\ r.indexes[BucketOf(J, r.size, r.entries[j])] <= j
       /\ j < r.indexes[BucketOf(J, r.size, r.entries[j]) + 1]

\* What is answered for key i.
EntriesFor(J, i)  == {e \in HeldIn(J) : KeyIn(J, e) = Bytes(J.keys, (i - 1) * J.key_size, J.key_size)}
ValueIn(J, e)     == [n \in 1 .. J.value_size |->
                        IF J.key_size + n <= Len(e) THEN e[J.key_size + n] ELSE Beyond]
AnswerIs(J, i, status, value) ==
  IF EntriesFor(J, i) # {}
  THEN status = "FOUND" /\ value \in {ValueIn(J, e) : e \in EntriesFor(J, i)}
  ELSE PlacesOf(J) = Whole(J) => status = "NOT_FOUND" /\ value = Zeros(J.value_size)

ValueAt(J, values, i) == SubSeq(values, (i - 1) * J.value_size + 1, i * J.value_size)
Answers(J, res, q) ==
  /\ Len(res.statuses) = q /\ Len(res.values) = q * J.value_size
  /\ \A i \in 1 .. q : AnswerIs(J, i, res.statuses[i], ValueAt(J, res.values, i))
  /\ (res.status = "OK") <=> \A i \in 1 .. q : res.statuses[i] = "FOUND"

Asked(J) == Len(J.keys) \div J.key_size

NodeHolds(J, r) ==
  /\ Node(J) /\ r \in NodeLocals(r.entries, r.indexes, r.ends)
  /\ r.pc # "done" => r.started /\ r.defined
  /\ r.pc \in {"load", "size"} => r.i = 0
  /\ r.pc \in {"load", "size", "sort"} => r.pos = 0 /\ r.res = NoResponse
  /\ r.pc = "load" => /\ r.file <= Len(J.dir) /\ Opened(J, r.file)
                      /\ r.kvs = FlattenSeq(SubSeq(PartsIn(J), 1, r.file))
  /\ r.pc \in {"size", "sort", "get"} =>
       Opened(J, Len(J.dir)) /\ r.kvs = All(J) /\ r.count = Whole(J)
  /\ r.pc \in {"sort", "get"} => Table(J, r.entries)
  /\ r.pc = "sort" => Sorting(PlacesOf(J), Whole(J), r.size, Buckets(J, r.size, r.entries),
                              r.indexes, r.ends, r.i)
  /\ r.pc = "get" => /\ Placed(J, r) /\ Fits(J, r.size)
                     /\ \E q \in 0 .. Asked(J) : r.pos = q * J.key_size /\ Answers(J, r.res, q)
  /\ r.pc = "done" =>
       \/ ~r.started /\ ~Opened(J, Len(J.dir))
       \/ r.started /\ Opened(J, Len(J.dir)) /\ ~r.defined /\ ~Fits(J, r.size)
       \/ /\ r.started /\ Opened(J, Len(J.dir)) /\ r.defined /\ Fits(J, r.size)
          /\ Answers(J, r.res, Asked(J))

\* The node starts with nothing loaded.
LEMMA NodeStarts ==
  ASSUME NEW J, NEW r, Node(J),
         r = [pc |-> "load", file |-> 0, kvs |-> <<>>, count |-> 0, size |-> 16, started |-> TRUE,
              defined |-> TRUE, entries |-> <<>>, indexes |-> <<>>, ends |-> <<>>, i |-> 0, pos |-> 0,
              res |-> NoResponse]
  PROVE  NodeHolds(J, r)
<1>1. NoResponse \in Responses
  <2>1. <<>> \in Seq({"FOUND", "NOT_FOUND"}) /\ <<>> \in Seq(Byte \union {Beyond})
    BY EmptySeq
  <2>. QED
    BY <2>1 DEF NoResponse, Responses
<1>2. <<>> \in Seq(Byte)
  BY EmptySeq
<1>3. r \in NodeLocals(r.entries, r.indexes, r.ends)
  <2> HIDE DEF NoResponse, Responses
  <2>. QED
    BY <1>1, <1>2 DEF NodeLocals
<1>4. <<>> = FlattenSeq(SubSeq(PartsIn(J), 1, 0)) /\ 0 <= Len(J.dir)
  <2>1. Len(J.dir) \in Nat /\ PartsIn(J) \in Seq(Seq(Byte))
    BY FilesOf
  <2>2. FlattenSeq(SubSeq(PartsIn(J), 1, 0)) = <<>>
    BY <2>1, FlattenUpTo
  <2>. QED
    BY <2>1, <2>2
<1>5. Opened(J, 0)
  BY DEF Opened
<1>. QED
  BY <1>3, <1>4, <1>5 DEF NodeHolds

\* Loading a file, one that does not open, and the end of loading.
LEMMA NodeLoads ==
  ASSUME NEW J, NEW r, NodeHolds(J, r), r.pc = "load", r.file < Len(J.dir), J.dir[r.file + 1].opens,
         NEW s, s = [r EXCEPT !.kvs = @ \o J.dir[r.file + 1].bytes, !.file = @ + 1]
  PROVE  NodeHolds(J, s)
<1>1. /\ Node(J) /\ r \in NodeLocals(r.entries, r.indexes, r.ends) /\ r.started /\ r.defined /\ r.i = 0
      /\ r.pos = 0 /\ r.res = NoResponse /\ Opened(J, r.file)
      /\ r.kvs = FlattenSeq(SubSeq(PartsIn(J), 1, r.file))
  BY DEF NodeHolds
<1>2. r.file \in Nat /\ r.kvs \in Seq(Byte)
  BY <1>1 DEF NodeLocals
<1>a. PICK n : n = r.file + 1
  OBVIOUS
<1>3. n \in 1 .. Len(J.dir) /\ n \in Nat /\ n - 1 = r.file /\ Len(J.dir) \in Nat
  <2>1. Len(J.dir) \in Nat
    BY <1>1, FilesOf
  <2>. QED
    BY <1>2, <1>a, <2>1
<1>4. J.dir[n].bytes \in Seq(Byte) /\ PartsIn(J)[n] = J.dir[n].bytes
  BY <1>1, <1>3, FilesOf
<1>5. FlattenSeq(SubSeq(PartsIn(J), 1, n)) = r.kvs \o J.dir[n].bytes
  <2>1. n \in 1 .. Len(PartsIn(J)) /\ PartsIn(J) \in Seq(Seq(Byte))
    BY <1>1, <1>3, FilesOf
  <2>2. FlattenSeq(SubSeq(PartsIn(J), 1, n)) = FlattenSeq(SubSeq(PartsIn(J), 1, n - 1)) \o PartsIn(J)[n]
    BY <2>1, FlattenUpTo
  <2>. QED
    BY <1>1, <1>3, <1>4, <2>2
<1>6. r.kvs \o J.dir[n].bytes \in Seq(Byte)
  BY <1>2, <1>4, ConcatProperties
<1>7. s = [r EXCEPT !.kvs = r.kvs \o J.dir[n].bytes, !.file = n]
  BY <1>a
<1>b. PICK b : b = r.kvs \o J.dir[n].bytes
  OBVIOUS
<1>8. /\ s \in NodeLocals(s.entries, s.indexes, s.ends) /\ s.file = n /\ s.kvs = b
      /\ s.pc = "load" /\ s.started /\ s.defined /\ s.i = 0 /\ s.pos = 0 /\ s.res = NoResponse
  BY <1>1, <1>3, <1>6, <1>7, <1>b, ZenonT(30) DEF NodeLocals
<1>9. Opened(J, n)
  <2>1. \A i \in 1 .. n : i = n \/ i \in 1 .. r.file
    BY <1>2, <1>3
  <2>. QED
    BY <1>1, <1>a, <2>1 DEF Opened
<1>10. n <= Len(J.dir) /\ b = FlattenSeq(SubSeq(PartsIn(J), 1, n))
  <2>1. n <= Len(J.dir)
    BY <1>3
  <2>. QED
    BY <1>5, <1>b, <2>1, Zenon
<1>. QED
  BY <1>1, <1>8, <1>9, <1>10 DEF NodeHolds

LEMMA NodeFails ==
  ASSUME NEW J, NEW r, NodeHolds(J, r), r.pc = "load", r.file < Len(J.dir), ~J.dir[r.file + 1].opens,
         NEW s, s = [r EXCEPT !.started = FALSE, !.pc = "done"]
  PROVE  NodeHolds(J, s)
<1>1. Node(J) /\ r \in NodeLocals(r.entries, r.indexes, r.ends)
  BY DEF NodeHolds
<1>2. s \in NodeLocals(s.entries, s.indexes, s.ends) /\ s.pc = "done" /\ ~s.started
  BY <1>1 DEF NodeLocals
<1>3. ~Opened(J, Len(J.dir))
  <2>1. r.file \in Nat /\ Len(J.dir) \in Nat
    BY <1>1, FilesOf DEF NodeLocals
  <2>2. r.file + 1 \in 1 .. Len(J.dir)
    BY <2>1
  <2>. QED
    BY <2>2 DEF Opened
<1>. QED
  BY <1>1, <1>2, <1>3 DEF NodeHolds

LEMMA NodeLoaded ==
  ASSUME NEW J, NEW r, NodeHolds(J, r), r.pc = "load", r.file = Len(J.dir),
         NEW s, s = [r EXCEPT !.count = Len(r.kvs) \div Kv(J), !.pc = "size"]
  PROVE  NodeHolds(J, s)
<1>1. /\ Node(J) /\ r \in NodeLocals(r.entries, r.indexes, r.ends) /\ r.started /\ r.defined /\ r.i = 0
      /\ r.pos = 0 /\ r.res = NoResponse /\ Opened(J, Len(J.dir))
      /\ r.kvs = FlattenSeq(SubSeq(PartsIn(J), 1, Len(J.dir)))
  BY DEF NodeHolds
<1>2. r.kvs = All(J)
  <2>1. SubSeq(PartsIn(J), 1, Len(PartsIn(J))) = PartsIn(J)
    BY <1>1, FilesOf, FlattenUpTo
  <2>. QED
    BY <1>1, <2>1, FilesOf, ZenonT(30)
<1>3. Len(r.kvs) \div Kv(J) = Whole(J) /\ Whole(J) \in Nat
  BY <1>1, <1>2, PlacesAre DEF Whole
<1>4. s = [r EXCEPT !.count = Whole(J), !.pc = "size"]
  BY <1>3
<1>5. /\ s \in NodeLocals(s.entries, s.indexes, s.ends) /\ s.kvs = All(J) /\ s.count = Whole(J)
      /\ s.pc = "size" /\ s.started /\ s.defined /\ s.i = 0 /\ s.pos = 0 /\ s.res = NoResponse
  BY <1>1, <1>2, <1>3, <1>4, ZenonT(30) DEF NodeLocals
<1>. QED
  BY <1>1, <1>5 DEF NodeHolds

\* The number of buckets is doubled.
LEMMA NodeSizes ==
  ASSUME NEW J, NEW r, NodeHolds(J, r), r.pc = "size", NEW s, s = [r EXCEPT !.size = @ * 2]
  PROVE  NodeHolds(J, s)
<1>1. /\ Node(J) /\ r \in NodeLocals(r.entries, r.indexes, r.ends) /\ r.started /\ r.defined /\ r.i = 0
      /\ r.pos = 0 /\ r.res = NoResponse /\ Opened(J, Len(J.dir)) /\ r.kvs = All(J) /\ r.count = Whole(J)
  BY DEF NodeHolds
<1>2. r.size \in Nat \ {0}
  BY <1>1 DEF NodeLocals
<1>3. r.size * 2 \in Nat \ {0}
  BY <1>2
<1>4. /\ s \in NodeLocals(s.entries, s.indexes, s.ends) /\ s.kvs = All(J) /\ s.count = Whole(J)
      /\ s.pc = "size" /\ s.started /\ s.defined /\ s.i = 0 /\ s.pos = 0 /\ s.res = NoResponse
  BY <1>1, <1>3 DEF NodeLocals
<1>. QED
  BY <1>1, <1>4 DEF NodeHolds

\* The entries are counted into buckets.
EntriesIn(J)             == [i \in 0 .. PlacesOf(J) - 1 |-> Entry(J, i)]
Counts(J, size, entries) ==
  [h \in 0 .. size |-> Cardinality({i \in 0 .. PlacesOf(J) - 1 : BucketOf(J, size, entries[i]) < h})]

LEMMA NodeCounts ==
  ASSUME NEW J, NEW r, NodeHolds(J, r), r.pc = "size",
         NEW entries, entries = EntriesIn(J), NEW indexes, indexes = Counts(J, r.size, entries),
         NEW s, s = [r EXCEPT !.entries = entries, !.indexes = indexes, !.ends = indexes, !.pc = "sort"]
  PROVE  NodeHolds(J, s)
<1>1. /\ Node(J) /\ r \in NodeLocals(r.entries, r.indexes, r.ends) /\ r.started /\ r.defined /\ r.i = 0
      /\ r.pos = 0 /\ r.res = NoResponse /\ Opened(J, Len(J.dir)) /\ r.kvs = All(J) /\ r.count = Whole(J)
  BY DEF NodeHolds
<1>2. r.size \in Nat \ {0}
  BY <1>1 DEF NodeLocals
<1>3. /\ s \in NodeLocals(s.entries, s.indexes, s.ends) /\ s.kvs = All(J) /\ s.count = Whole(J)
      /\ s.pc = "sort" /\ s.started /\ s.defined /\ s.i = 0 /\ s.pos = 0 /\ s.res = NoResponse
      /\ s.entries = entries /\ s.indexes = indexes /\ s.ends = indexes /\ s.size = r.size
  BY <1>1 DEF NodeLocals
<1>a. PICK n, m : n = PlacesOf(J) /\ m = Whole(J)
  OBVIOUS
<1>4. n \in Nat /\ m \in Nat /\ (n = m \/ n = m + 1)
  BY <1>1, <1>a, PlacesAre
<1>5. /\ \A i \in 0 .. n - 1 : entries[i] = Entry(J, i) /\ entries[i] \in Seq(Byte)
                               /\ BucketOf(J, r.size, entries[i]) \in 0 .. r.size - 1
      /\ HeldIn(J) = {Entry(J, i) : i \in 0 .. m - 1}
  <2>1. \A i \in 0 .. n - 1 : entries[i] = Entry(J, i)
    BY <1>a DEF EntriesIn
  <2>2. \A i \in 0 .. n - 1 : Entry(J, i) \in Seq(Byte) /\ BucketOf(J, r.size, Entry(J, i)) \in 0 .. r.size - 1
    BY <1>1, <1>2, <1>a, EntriesAre
  <2>3. HeldIn(J) = {Entry(J, i) : i \in 0 .. m - 1}
    BY <1>1, <1>a, EntriesAre
  <2>. QED
    BY <2>1, <2>2, <2>3
<1>6. Table(J, entries)
  <2>1. entries \in [0 .. n - 1 -> Seq(Byte)]
    <3>1. entries = [i \in 0 .. n - 1 |-> entries[i]]
      BY <1>a DEF EntriesIn
    <3>. QED
      BY <1>5, <3>1
  <2>2. \A i \in 0 .. m - 1 : i \in 0 .. n - 1
    BY <1>4
  <2>3. {entries[j] : j \in 0 .. m - 1} = HeldIn(J)
    BY <1>5, <2>2
  <2>4. n = m + 1 => m \in 0 .. n - 1
    BY <1>4
  <2>5. n = m + 1 => entries[m] = Entry(J, m)
    BY <1>5, <2>4
  <2>. QED
    BY <1>a, <2>1, <2>3, <2>5 DEF Table
<1>b. PICK cur : cur = Buckets(J, r.size, entries)
  OBVIOUS
<1>7. cur \in [0 .. n - 1 -> 0 .. r.size - 1] /\ \A j \in 0 .. n - 1 : cur[j] = BucketOf(J, r.size, entries[j])
  BY <1>5, <1>a, <1>b DEF Buckets
<1>8. Bounded(n, r.size, cur, indexes)
  <2>1. ASSUME NEW h \in 0 .. r.size
        PROVE  indexes[h] = Cardinality(Lower(n, cur, h)) /\ indexes[h] \in Nat
    <3>1. Lower(n, cur, h) = {i \in 0 .. n - 1 : BucketOf(J, r.size, entries[i]) < h}
      BY <1>7 DEF Lower
    <3>2. indexes[h] = Cardinality(Lower(n, cur, h))
      BY <1>a, <3>1 DEF Counts
    <3>3. Lower(n, cur, h) \in SUBSET (0 .. n - 1)
      BY DEF Lower
    <3>. QED
      BY <1>4, <3>2, <3>3, Places
  <2>2. indexes \in [0 .. r.size -> Nat]
    <3>1. indexes = [h \in 0 .. r.size |-> indexes[h]]
      BY DEF Counts
    <3>. QED
      BY <2>1, <3>1
  <2>. QED
    BY <1>2, <1>4, <1>7, <2>1, <2>2 DEF Bounded
<1>9. Sorting(n, m, r.size, cur, indexes, indexes, 0)
  BY <1>4, <1>8, SortStart
<1>. QED
  BY <1>1, <1>3, <1>6, <1>9, <1>a, <1>b DEF NodeHolds

\* The loop that brings entries into their buckets.
LEMMA NodeNextEntry ==
  ASSUME NEW J, NEW r, NodeHolds(J, r), r.pc = "sort", r.i < r.count,
         NEW b, b = BucketOf(J, r.size, r.entries[r.i]), r.i >= r.indexes[b], r.i < r.ends[b],
         NEW s, s = [r EXCEPT !.i = @ + 1]
  PROVE  NodeHolds(J, s)
<1>1. /\ Node(J) /\ r \in NodeLocals(r.entries, r.indexes, r.ends) /\ r.started /\ r.defined
      /\ r.pos = 0 /\ r.res = NoResponse /\ Opened(J, Len(J.dir)) /\ r.kvs = All(J) /\ r.count = Whole(J)
      /\ Table(J, r.entries)
  BY DEF NodeHolds
<1>a. PICK n, m, cur : n = PlacesOf(J) /\ m = Whole(J) /\ cur = Buckets(J, r.size, r.entries)
  OBVIOUS
<1>2. Sorting(n, m, r.size, cur, r.indexes, r.ends, r.i)
  BY <1>a DEF NodeHolds
<1>3. r.i \in 0 .. n - 1 /\ r.i < m /\ r.i + 1 \in Nat
  <2>1. r.i \in Nat /\ n \in Nat /\ m \in Nat /\ (n = m \/ n = m + 1)
    BY <1>1, <1>a, PlacesAre DEF NodeLocals
  <2>. QED
    BY <1>1, <1>a, <2>1
<1>4. cur[r.i] = b
  BY <1>3, <1>a DEF Buckets
<1>5. Sorting(n, m, r.size, cur, r.indexes, r.ends, r.i + 1)
  BY <1>2, <1>3, <1>4, SortNext
<1>6. /\ s \in NodeLocals(s.entries, s.indexes, s.ends) /\ s.kvs = All(J) /\ s.count = Whole(J)
      /\ s.pc = "sort" /\ s.started /\ s.defined /\ s.i = r.i + 1 /\ s.pos = 0 /\ s.res = NoResponse
      /\ s.entries = r.entries /\ s.indexes = r.indexes /\ s.ends = r.ends /\ s.size = r.size
  BY <1>1, <1>3, SMTT(30) DEF NodeLocals
<1>. QED
  BY <1>1, <1>5, <1>6, <1>a DEF NodeHolds

LEMMA NodeSwaps ==
  ASSUME NEW J, NEW r, NodeHolds(J, r), r.pc = "sort", r.i < r.count,
         NEW b, b = BucketOf(J, r.size, r.entries[r.i]), ~(r.i >= r.indexes[b] /\ r.i < r.ends[b]),
         r.ends[b] < r.count,
         NEW s, s = [r EXCEPT !.entries = Traded(r.entries, r.i, r.ends[b]),
                              !.ends = [r.ends EXCEPT ![b] = @ + 1]]
  PROVE  NodeHolds(J, s)
<1>1. /\ Node(J) /\ r \in NodeLocals(r.entries, r.indexes, r.ends) /\ r.started /\ r.defined
      /\ r.pos = 0 /\ r.res = NoResponse /\ Opened(J, Len(J.dir)) /\ r.kvs = All(J) /\ r.count = Whole(J)
      /\ Table(J, r.entries)
  BY DEF NodeHolds
<1>a. PICK n, m, cur : n = PlacesOf(J) /\ m = Whole(J) /\ cur = Buckets(J, r.size, r.entries)
  OBVIOUS
<1>b. PICK i, e : i = r.i /\ e = r.ends[b]
  OBVIOUS
<1>2. Sorting(n, m, r.size, cur, r.indexes, r.ends, i)
  BY <1>a, <1>b DEF NodeHolds
<1>3. i \in 0 .. n - 1 /\ i < m /\ e < m /\ n \in Nat /\ m \in Nat /\ (n = m \/ n = m + 1)
  <2>1. r.i \in Nat /\ n \in Nat /\ m \in Nat /\ (n = m \/ n = m + 1)
    BY <1>1, <1>a, PlacesAre DEF NodeLocals
  <2>. QED
    BY <1>1, <1>a, <1>b, <2>1
<1>4. cur[i] = b
  BY <1>3, <1>a, <1>b DEF Buckets
<1>5. e \in i .. n - 1
  BY <1>2, <1>3, <1>4, <1>b, SortRoom
<1>6. i \in 0 .. m - 1 /\ e \in 0 .. m - 1 /\ e \in 0 .. n - 1
  BY <1>3, <1>5
<1>c. PICK entries : entries = Traded(r.entries, i, e)
  OBVIOUS
<1>7. /\ r.entries \in [0 .. n - 1 -> Seq(Byte)]
      /\ {r.entries[j] : j \in 0 .. m - 1} = HeldIn(J)
      /\ n = m + 1 => r.entries[m] = Entry(J, m)
  BY <1>1, <1>a DEF Table
<1>8. /\ entries \in [0 .. n - 1 -> Seq(Byte)] /\ entries[i] = r.entries[e] /\ entries[e] = r.entries[i]
      /\ \A j \in 0 .. n - 1 : j # i /\ j # e => entries[j] = r.entries[j]
  <2>1. r.entries[i] \in Seq(Byte) /\ r.entries[e] \in Seq(Byte)
    BY <1>3, <1>6, <1>7
  <2>. QED
    BY <1>3, <1>6, <1>7, <1>c, <2>1 DEF Traded
<1>9. \A j \in 0 .. m - 1 : j \in 0 .. n - 1
  BY <1>3
<1>10. Table(J, entries)
  <2>1. {entries[j] : j \in 0 .. m - 1} = {r.entries[j] : j \in 0 .. m - 1}
    <3>1. ASSUME NEW j \in 0 .. m - 1 PROVE entries[j] \in {r.entries[k] : k \in 0 .. m - 1}
      BY <1>6, <1>8, <1>9
    <3>2. ASSUME NEW j \in 0 .. m - 1 PROVE r.entries[j] \in {entries[k] : k \in 0 .. m - 1}
      BY <1>6, <1>8, <1>9
    <3>. QED
      BY <3>1, <3>2
  <2>2. n = m + 1 => m \in 0 .. n - 1 /\ m # i /\ m # e
    BY <1>3, <1>6
  <2>. QED
    BY <1>7, <1>8, <1>a, <2>1, <2>2 DEF Table
<1>11. Buckets(J, r.size, entries) = Traded(cur, i, e)
  <2>1. Buckets(J, r.size, entries) = [j \in 0 .. n - 1 |-> BucketOf(J, r.size, entries[j])]
    BY <1>a DEF Buckets
  <2>2. cur = [j \in 0 .. n - 1 |-> BucketOf(J, r.size, r.entries[j])]
    BY <1>a DEF Buckets
  <2>3. Traded(cur, i, e) = [j \in 0 .. n - 1 |-> IF j = e THEN cur[i] ELSE IF j = i THEN cur[e] ELSE cur[j]]
    BY <1>3, <1>6, <2>2 DEF Traded
  <2>4. ASSUME NEW j \in 0 .. n - 1
        PROVE  BucketOf(J, r.size, entries[j]) = IF j = e THEN cur[i] ELSE IF j = i THEN cur[e] ELSE cur[j]
    BY <1>3, <1>6, <1>8, <2>2
  <2>. QED
    BY <2>1, <2>3, <2>4
<1>12. Sorting(n, m, r.size, Traded(cur, i, e), r.indexes, [r.ends EXCEPT ![b] = @ + 1], i)
  BY <1>2, <1>3, <1>4, <1>b, SortSwap
<1>d. PICK ends : ends = [r.ends EXCEPT ![b] = @ + 1]
  OBVIOUS
<1>13. s = [r EXCEPT !.entries = entries, !.ends = ends]
  BY <1>b, <1>c, <1>d
<1>14. /\ s \in NodeLocals(s.entries, s.indexes, s.ends) /\ s.kvs = All(J) /\ s.count = Whole(J)
       /\ s.pc = "sort" /\ s.started /\ s.defined /\ s.i = i /\ s.pos = 0 /\ s.res = NoResponse
       /\ s.entries = entries /\ s.indexes = r.indexes /\ s.ends = ends /\ s.size = r.size
  BY <1>1, <1>13, <1>b, ZenonT(30) DEF NodeLocals
<1>15. Sorting(PlacesOf(J), Whole(J), s.size, Buckets(J, s.size, s.entries), s.indexes, s.ends, s.i)
  BY <1>11, <1>12, <1>14, <1>a, <1>d
<1>. QED
  BY <1>1, <1>10, <1>14, <1>15, ZenonT(30) DEF NodeHolds

\* A swap with the part leaves the table: then a whole entry belongs behind it.
LEMMA NodeLeaves ==
  ASSUME NEW J, NEW r, NodeHolds(J, r), r.pc = "sort", r.i < r.count,
         NEW b, b = BucketOf(J, r.size, r.entries[r.i]), ~(r.i >= r.indexes[b] /\ r.i < r.ends[b]),
         r.ends[b] >= r.count,
         NEW s, s = [r EXCEPT !.defined = FALSE, !.pc = "done"]
  PROVE  NodeHolds(J, s)
<1>1. /\ Node(J) /\ r \in NodeLocals(r.entries, r.indexes, r.ends) /\ r.started
      /\ Opened(J, Len(J.dir)) /\ r.count = Whole(J) /\ Table(J, r.entries)
  BY DEF NodeHolds
<1>a. PICK n, m, cur : n = PlacesOf(J) /\ m = Whole(J) /\ cur = Buckets(J, r.size, r.entries)
  OBVIOUS
<1>b. PICK i : i = r.i
  OBVIOUS
<1>2. Sorting(n, m, r.size, cur, r.indexes, r.ends, i)
  BY <1>a, <1>b DEF NodeHolds
<1>3. i \in 0 .. n - 1 /\ i \in 0 .. m - 1 /\ i < m /\ n \in Nat /\ m \in Nat
  <2>1. r.i \in Nat /\ n \in Nat /\ m \in Nat /\ (n = m \/ n = m + 1)
    BY <1>1, <1>a, PlacesAre DEF NodeLocals
  <2>. QED
    BY <1>1, <1>a, <1>b, <2>1
<1>4. cur[i] = b
  BY <1>3, <1>a, <1>b DEF Buckets
<1>5. r.ends[b] >= m
  BY <1>1, <1>a
<1>6. n = m + 1 /\ cur[m] < b
  BY <1>2, <1>3, <1>4, <1>5, <1>b, SortRoom
<1>7. m \in 0 .. n - 1 /\ n # m
  BY <1>3, <1>6
<1>8. cur[m] = BucketOf(J, r.size, Entry(J, m))
  <2>1. cur[m] = BucketOf(J, r.size, r.entries[m])
    BY <1>7, <1>a DEF Buckets
  <2>2. r.entries[m] = Entry(J, m)
    BY <1>1, <1>6, <1>a DEF Table
  <2>. QED
    BY <2>1, <2>2
<1>9. r.entries[i] \in HeldIn(J)
  BY <1>1, <1>3, <1>a DEF Table
<1>10. ~(b <= cur[m])
  <2>1. r.size \in Nat \ {0} /\ m \in 0 .. PlacesOf(J) - 1
    BY <1>1, <1>7, <1>a DEF NodeLocals
  <2>2. cur[m] \in 0 .. r.size - 1
    BY <1>1, <1>8, <2>1, EntriesAre
  <2>3. cur \in [0 .. n - 1 -> 0 .. r.size - 1]
    BY <1>2 DEF Sorting, Bounded
  <2>4. b \in 0 .. r.size - 1
    BY <1>3, <1>4, <2>3
  <2>. QED
    BY <1>6, <2>1, <2>2, <2>4
<1>11. ~Fits(J, r.size)
  BY <1>7, <1>8, <1>9, <1>10, <1>a, <1>b DEF Fits
<1>12. s \in NodeLocals(s.entries, s.indexes, s.ends) /\ s.pc = "done" /\ s.started /\ ~s.defined /\ s.size = r.size
  BY <1>1 DEF NodeLocals
<1>. QED
  BY <1>1, <1>11, <1>12 DEF NodeHolds

\* All whole entries are in place.
LEMMA NodeConstructs ==
  ASSUME NEW J, NEW r, NodeHolds(J, r), r.pc = "sort", r.i = r.count, NEW s, s = [r EXCEPT !.pc = "get"]
  PROVE  NodeHolds(J, s)
<1>1. /\ Node(J) /\ r \in NodeLocals(r.entries, r.indexes, r.ends) /\ r.started /\ r.defined
      /\ r.pos = 0 /\ r.res = NoResponse /\ Opened(J, Len(J.dir)) /\ r.kvs = All(J) /\ r.count = Whole(J)
      /\ Table(J, r.entries)
  BY DEF NodeHolds
<1>a. PICK n, m, cur : n = PlacesOf(J) /\ m = Whole(J) /\ cur = Buckets(J, r.size, r.entries)
  OBVIOUS
<1>2. Sorting(n, m, r.size, cur, r.indexes, r.ends, m)
  BY <1>1, <1>a DEF NodeHolds
<1>3. n \in Nat /\ m \in Nat /\ (n = m \/ n = m + 1)
  BY <1>1, <1>a, PlacesAre
<1>4. \A j \in 0 .. n - 1 : cur[j] = BucketOf(J, r.size, r.entries[j])
  BY <1>a DEF Buckets
<1>5. /\ \A j \in 0 .. m - 1 : r.indexes[cur[j]] <= j /\ j < r.indexes[cur[j] + 1]
      /\ m = n \/ \A j \in 0 .. m - 1 : cur[j] <= cur[m]
  BY <1>2, SortDone
<1>6. /\ s \in NodeLocals(s.entries, s.indexes, s.ends) /\ s.kvs = All(J) /\ s.count = Whole(J)
      /\ s.pc = "get" /\ s.started /\ s.defined /\ s.pos = 0 /\ s.res = NoResponse
      /\ s.entries = r.entries /\ s.indexes = r.indexes /\ s.size = r.size
  BY <1>1 DEF NodeLocals
<1>7. \A j \in 0 .. m - 1 : j \in 0 .. n - 1
  BY <1>3
<1>8. Placed(J, s)
  <2>1. Bounded(n, r.size, cur, r.indexes)
    BY <1>2 DEF Sorting
  <2>2. \A j \in 0 .. m - 1 : /\ r.indexes[BucketOf(J, r.size, r.entries[j])] <= j
                              /\ j < r.indexes[BucketOf(J, r.size, r.entries[j]) + 1]
    BY <1>4, <1>5, <1>7
  <2>. QED
    BY <1>6, <1>a, <2>1, <2>2 DEF Placed
<1>9. Fits(J, s.size)
  <2>1. CASE m = n
    BY <1>a, <2>1 DEF Fits
  <2>2. CASE n = m + 1
    <3>1. m \in 0 .. n - 1 /\ m # n
      BY <1>3, <2>2
    <3>2. r.entries[m] = Entry(J, m) /\ HeldIn(J) = {r.entries[j] : j \in 0 .. m - 1}
      BY <1>1, <1>a, <2>2 DEF Table
    <3>3. \A j \in 0 .. m - 1 : BucketOf(J, r.size, r.entries[j]) <= BucketOf(J, r.size, r.entries[m])
      BY <1>4, <1>5, <1>7, <3>1
    <3>. QED
      BY <1>6, <1>a, <3>2, <3>3 DEF Fits
  <2>. QED
    BY <1>3, <2>1, <2>2
<1>10. 0 \in 0 .. Asked(J) /\ s.pos = 0 * J.key_size
  <2>1. Len(J.keys) \in Nat /\ J.key_size \in Nat \ {0}
    BY <1>1 DEF Node
  <2>2. Asked(J) \in Nat
    BY <2>1, Divided DEF Asked
  <2>. QED
    BY <1>6, <2>1, <2>2
<1>11. Answers(J, s.res, 0)
  <2>1. J.value_size \in Nat
    BY <1>1 DEF Node
  <2>2. Len(<<>>) = 0 /\ Len(<<>>) = 0 * J.value_size
    BY <2>1
  <2>. QED
    BY <1>6, <2>2 DEF Answers, NoResponse
<1>. QED
  BY <1>1, <1>6, <1>8, <1>9, <1>10, <1>11 DEF NodeHolds

LEMMA Times ==
  ASSUME NEW a \in Nat, NEW b \in Nat
  PROVE  a * b \in Nat /\ (a + 1) * b = a * b + b
OBVIOUS

\* A key is answered behind the others.
Replied(res, status, value) ==
  [res EXCEPT !.statuses = Append(@, status), !.values = @ \o value,
              !.status = IF status = "FOUND" THEN @ ELSE "PARTIAL_OK"]

LEMMA AnswersMore ==
  ASSUME NEW J, Node(J), NEW q \in Nat, NEW res \in Responses, Answers(J, res, q),
         NEW status \in {"FOUND", "NOT_FOUND"}, NEW value \in Seq(Byte \union {Beyond}),
         Len(value) = J.value_size, AnswerIs(J, q + 1, status, value),
         NEW out, out = Replied(res, status, value)
  PROVE  out \in Responses /\ Answers(J, out, q + 1)
<1> DEFINE V == Seq(Byte \union {Beyond})
<1>1. res.statuses \in Seq({"FOUND", "NOT_FOUND"}) /\ res.values \in V /\ res.status \in {"OK", "PARTIAL_OK"}
  BY DEF Responses
<1>2. /\ Len(res.statuses) = q /\ Len(res.values) = q * J.value_size
      /\ \A i \in 1 .. q : AnswerIs(J, i, res.statuses[i], ValueAt(J, res.values, i))
      /\ (res.status = "OK") <=> \A i \in 1 .. q : res.statuses[i] = "FOUND"
  BY DEF Answers
<1>a. PICK statuses, values, vs : /\ statuses = Append(res.statuses, status) /\ values = res.values \o value
                                  /\ vs = J.value_size
  OBVIOUS
<1>3. /\ statuses \in Seq({"FOUND", "NOT_FOUND"}) /\ Len(statuses) = q + 1
      /\ \A i \in 1 .. q : statuses[i] = res.statuses[i]
      /\ statuses[q + 1] = status
  BY <1>1, <1>2, <1>a, AppendProperties
<1>4. vs \in Nat
  BY <1>a DEF Node
<1>5. values \in V /\ Len(values) = (q + 1) * vs
  <2>1. values \in V /\ Len(values) = Len(res.values) + Len(value)
    BY <1>1, <1>a, ConcatProperties
  <2>2. (q + 1) * vs = q * vs + vs
    BY <1>4
  <2>. QED
    BY <1>2, <1>a, <2>1, <2>2
<1>6. ASSUME NEW w \in V, NEW i \in Nat \ {0}, NEW x, x = (i - 1) * vs, i * vs <= Len(w)
      PROVE  /\ ValueAt(J, w, i) = Bytes(w, x, vs) /\ x \in Nat /\ x + vs = i * vs /\ i * vs \in Nat
             /\ x + vs <= Len(w)
  <2>1. x \in Nat /\ x + vs = i * vs /\ i * vs \in Nat
    <3>a. PICK p : p = i - 1
      OBVIOUS
    <3>1. p \in Nat /\ i = p + 1
      BY <1>6, <3>a
    <3>2. p * vs \in Nat /\ (p + 1) * vs = p * vs + vs
      BY <1>4, <3>1, Times
    <3>. QED
      BY <1>4, <1>6, <3>1, <3>2, <3>a
  <2>. QED
    BY <1>6, <1>a, <2>1 DEF ValueAt, Bytes
<1>7. ASSUME NEW i \in 1 .. q PROVE ValueAt(J, values, i) = ValueAt(J, res.values, i)
  <2>a. PICK x, y : x = (i - 1) * vs /\ y = i * vs
    OBVIOUS
  <2>1. y <= q * vs /\ q * vs <= (q + 1) * vs
    <3>1. i <= q /\ i \in Nat
      OBVIOUS
    <3>2. (q + 1) * vs = q * vs + vs /\ q * vs \in Nat
      BY <1>4
    <3>3. i * vs <= q * vs
      BY <1>4, <3>1
    <3>. QED
      BY <1>4, <2>a, <3>2, <3>3
  <2>2. y <= Len(res.values) /\ y <= Len(values)
    <3>1. q * vs \in Nat /\ (q + 1) * vs \in Nat /\ y \in Nat
      BY <1>4, <2>a
    <3>. QED
      BY <1>2, <1>5, <1>a, <2>1, <3>1
  <2>3. /\ ValueAt(J, values, i) = Bytes(values, x, vs) /\ x \in Nat /\ x + vs <= Len(res.values)
        /\ ValueAt(J, res.values, i) = Bytes(res.values, x, vs)
    <3>1. i \in Nat \ {0} /\ values \in V /\ res.values \in V /\ i * vs <= Len(values) /\ i * vs <= Len(res.values)
      BY <1>1, <1>5, <2>2, <2>a
    <3> HIDE DEF V
    <3>2. ValueAt(J, values, i) = Bytes(values, x, vs)
      BY <1>6, <2>a, <3>1
    <3>3. /\ ValueAt(J, res.values, i) = Bytes(res.values, x, vs) /\ x \in Nat
          /\ x + vs <= Len(res.values)
      BY <1>6, <2>a, <3>1
    <3>. QED
      BY <3>2, <3>3
  <2>4. Bytes(values, x, vs) = Bytes(res.values, x, vs)
    BY <1>1, <1>4, <1>a, <2>3, BytesOfBoth
  <2>. QED
    BY <2>3, <2>4
<1>8. ValueAt(J, values, q + 1) = value
  <2>a. PICK x : x = ((q + 1) - 1) * vs
    OBVIOUS
  <2>1. x = Len(res.values)
    BY <1>2, <1>4, <1>a, <2>a
  <2>2. ValueAt(J, values, q + 1) = Bytes(values, x, vs)
    <3>a. PICK j : j = q + 1
      OBVIOUS
    <3>1. j \in Nat \ {0} /\ values \in V /\ x = (j - 1) * vs
      BY <1>5, <2>a, <3>a
    <3>2. j * vs <= Len(values)
      <4>1. (q + 1) * vs \in Nat
        BY <1>4, Times
      <4>. QED
        BY <1>5, <3>a, <4>1
    <3> HIDE DEF V
    <3>3. ValueAt(J, values, j) = Bytes(values, x, vs)
      BY <1>6, <3>1, <3>2
    <3>. QED
      BY <3>3, <3>a
  <2>3. Bytes(values, Len(res.values) + 0, vs) = Bytes(value, 0, vs)
    <3>1. 0 + vs <= Len(value) /\ 0 \in Nat /\ value \in V /\ res.values \in V
      BY <1>1, <1>4, <1>a
    <3>a. PICK z : z = 0
      OBVIOUS
    <3>2. Bytes(res.values \o value, Len(res.values) + z, vs) = Bytes(value, z, vs)
      <4>1. z \in Nat /\ z + vs <= Len(value)
        BY <3>1, <3>a
      <4>a. PICK v : v = res.values
        OBVIOUS
      <4>2. v \in Seq(Byte \union {Beyond}) /\ value \in Seq(Byte \union {Beyond})
        BY <1>1, <4>a
      <4> HIDE DEF V
      <4>3. Bytes(v \o value, Len(v) + z, vs) = Bytes(value, z, vs)
        BY <1>4, <4>1, <4>2, BytesOfBoth
      <4>. QED
        BY <4>3, <4>a
    <3>. QED
      BY <1>a, <3>2, <3>a
  <2>4. Len(res.values) + 0 = Len(res.values)
    BY <1>1
  <2>5. Bytes(value, 0, vs) = value
    <3>1. Bytes(value, 0, vs) = SubSeq(value, 1, Len(value))
      BY <1>4, <1>a DEF Bytes
    <3>. QED
      BY <3>1, SubSeqFull
  <2>. QED
    BY <2>1, <2>2, <2>3, <2>4, <2>5
<1>9. ASSUME NEW i \in 1 .. q + 1 PROVE AnswerIs(J, i, statuses[i], ValueAt(J, values, i))
  <2>1. i = q + 1 \/ i \in 1 .. q
    OBVIOUS
  <2>. QED
    BY <1>2, <1>3, <1>7, <1>8, <2>1
<1>b. PICK whole : whole = IF status = "FOUND" THEN res.status ELSE "PARTIAL_OK"
  OBVIOUS
<1>10. whole \in {"OK", "PARTIAL_OK"} /\ ((whole = "OK") <=> \A i \in 1 .. q + 1 : statuses[i] = "FOUND")
  <2>1. \A i \in 1 .. q + 1 : i = q + 1 \/ i \in 1 .. q
    OBVIOUS
  <2>2. q + 1 \in 1 .. q + 1 /\ \A i \in 1 .. q : i \in 1 .. q + 1
    OBVIOUS
  <2>. QED
    BY <1>1, <1>2, <1>3, <1>b, <2>1, <2>2
<1>11. out = [res EXCEPT !.statuses = statuses, !.values = values, !.status = whole]
  BY <1>a, <1>b DEF Replied
<1>12. out \in Responses /\ out.statuses = statuses /\ out.values = values /\ out.status = whole
  BY <1>3, <1>5, <1>10, <1>11 DEF Responses
<1>. QED
  BY <1>3, <1>5, <1>9, <1>10, <1>12, <1>a DEF Answers

\* What the search for a key finds.
FoundIn(J, r, key) ==
  LET h == Hash(key) % r.size IN {i \in r.indexes[h] .. r.indexes[h + 1] - 1 : KeyIn(J, r.entries[i]) = key}

LEMMA NodeFinds ==
  ASSUME NEW J, NEW r, NodeHolds(J, r), r.pc = "get", NEW key, Hash(key) \in Nat
  PROVE  /\ \A i \in FoundIn(J, r, key) :
              /\ i \in Nat /\ r.entries[i] \in Seq(Byte) /\ KeyIn(J, r.entries[i]) = key
              /\ i < Whole(J) \/ PlacesOf(J) = Whole(J) => r.entries[i] \in HeldIn(J)
         /\ \A e \in HeldIn(J) : KeyIn(J, e) = key => \E i \in FoundIn(J, r, key) : i < Whole(J)
<1>1. /\ Node(J) /\ r \in NodeLocals(r.entries, r.indexes, r.ends) /\ Table(J, r.entries) /\ Placed(J, r)
  BY DEF NodeHolds
<1>a. PICK n, m, h : n = PlacesOf(J) /\ m = Whole(J) /\ h = Hash(key) % r.size
  OBVIOUS
<1>2. n \in Nat /\ m \in Nat /\ (n = m \/ n = m + 1)
  BY <1>1, <1>a, PlacesAre
<1>3. /\ r.entries \in [0 .. n - 1 -> Seq(Byte)] /\ {r.entries[j] : j \in 0 .. m - 1} = HeldIn(J)
  BY <1>1, <1>a DEF Table
<1>4. r.size \in Nat \ {0} /\ h \in 0 .. r.size - 1
  <2>1. r.size \in Nat \ {0}
    BY <1>1 DEF NodeLocals
  <2>. QED
    BY <1>a, <2>1
<1>5. h \in 0 .. r.size /\ h + 1 \in 0 .. r.size
  BY <1>4
<1>b. PICK from, to : from = r.indexes[h] /\ to = r.indexes[h + 1]
  OBVIOUS
<1>6. from \in Nat /\ to \in Nat /\ to <= n
  <2>1. Bounded(n, r.size, Buckets(J, r.size, r.entries), r.indexes)
    BY <1>1, <1>a DEF Placed
  <2>. QED
    BY <1>5, <1>a, <1>b, <2>1, BucketBounds
<1>7. FoundIn(J, r, key) = {i \in from .. to - 1 : KeyIn(J, r.entries[i]) = key}
  BY <1>a, <1>b DEF FoundIn
<1>8. ASSUME NEW i \in FoundIn(J, r, key)
      PROVE  /\ i \in Nat /\ r.entries[i] \in Seq(Byte) /\ KeyIn(J, r.entries[i]) = key
             /\ i < Whole(J) \/ PlacesOf(J) = Whole(J) => r.entries[i] \in HeldIn(J)
  <2>1. i \in Nat /\ i \in 0 .. n - 1 /\ KeyIn(J, r.entries[i]) = key
    BY <1>2, <1>6, <1>7
  <2>2. i < m \/ n = m => i \in 0 .. m - 1
    BY <1>2, <2>1
  <2>. QED
    BY <1>3, <1>a, <2>1, <2>2
<1>9. ASSUME NEW e \in HeldIn(J), KeyIn(J, e) = key PROVE \E i \in FoundIn(J, r, key) : i < Whole(J)
  <2>1. PICK j \in 0 .. m - 1 : r.entries[j] = e
    BY <1>3
  <2>2. BucketOf(J, r.size, e) = h
    BY <1>9, <1>a DEF BucketOf
  <2>3. from <= j /\ j < to
    BY <1>1, <1>a, <1>b, <2>1, <2>2 DEF Placed
  <2>4. j \in from .. to - 1 /\ j < m
    BY <1>2, <1>6, <2>1, <2>3
  <2>. QED
    BY <1>7, <1>9, <1>a, <2>1, <2>4
<1>. QED
  BY <1>8, <1>9

\* The next key to answer.
LEMMA NodeAsked ==
  ASSUME NEW J, NEW r, NodeHolds(J, r), r.pc = "get"
  PROVE  \E q \in 0 .. Asked(J) :
           /\ r.pos = q * J.key_size /\ Answers(J, r.res, q)
           /\ q \in Nat /\ r.pos \in 0 .. Len(J.keys)
           /\ r.pos < Len(J.keys) <=> q < Asked(J)
           /\ Hash(Bytes(J.keys, r.pos, J.key_size)) \in Nat
<1>1. Node(J)
  BY DEF NodeHolds
<1>2. PICK q \in 0 .. Asked(J) : r.pos = q * J.key_size /\ Answers(J, r.res, q)
  BY DEF NodeHolds
<1>a. PICK k, len, a : k = J.key_size /\ len = Len(J.keys) /\ a = Asked(J)
  OBVIOUS
<1>3. k \in Nat \ {0} /\ len \in Nat /\ len % k = 0 /\ a = len \div k
  BY <1>1, <1>a DEF Node, Asked
<1>4. a \in Nat /\ len = a * k
  <2>1. /\ len \div k \in Nat /\ len = (len \div k) * k + (len % k) /\ (len \div k) * k \in Nat
    BY <1>3, Divided
  <2>. QED
    BY <1>3, <2>1
<1>5. /\ q \in Nat /\ q * k \in Nat /\ q * k <= a * k
      /\ q < a => q * k + k <= a * k
      /\ ~(q < a) => q = a
  <2>1. q \in Nat /\ q <= a
    BY <1>4, <1>a
  <2>. QED
    BY <1>3, <1>4, <2>1, Multiples
<1>6. r.pos \in 0 .. len /\ (r.pos < len <=> q < a)
  <2>a. PICK x : x = q * k
    OBVIOUS
  <2>1. x \in Nat /\ x <= len /\ (q < a => x + k <= len) /\ (~(q < a) => x = len)
    BY <1>4, <1>5, <2>a
  <2>2. r.pos = x
    BY <1>2, <1>a, <2>a
  <2>. QED
    BY <1>3, <2>1, <2>2
<1>7. Hash(Bytes(J.keys, r.pos, J.key_size)) \in Nat
  BY <1>1, <1>6, <1>a DEF Node
<1>. QED
  BY <1>2, <1>5, <1>6, <1>7, <1>a

\* One key is answered.
LEMMA NodeReplies ==
  ASSUME NEW J, NEW r, NodeHolds(J, r), r.pc = "get", r.pos < Len(J.keys),
         NEW status \in {"FOUND", "NOT_FOUND"}, NEW value \in Seq(Byte \union {Beyond}),
         Len(value) = J.value_size,
         \A i \in Nat : (i - 1) * J.key_size = r.pos => AnswerIs(J, i, status, value),
         NEW s, s = [r EXCEPT !.res.statuses = Append(@, status), !.res.values = @ \o value,
                              !.res.status = IF status = "FOUND" THEN @ ELSE "PARTIAL_OK",
                              !.pos = @ + J.key_size]
  PROVE  NodeHolds(J, s)
<1>1. /\ Node(J) /\ r \in NodeLocals(r.entries, r.indexes, r.ends) /\ r.started /\ r.defined
      /\ Opened(J, Len(J.dir)) /\ r.kvs = All(J) /\ r.count = Whole(J) /\ Table(J, r.entries)
      /\ Placed(J, r) /\ Fits(J, r.size)
  BY DEF NodeHolds
<1>2. PICK q \in 0 .. Asked(J) : /\ r.pos = q * J.key_size /\ Answers(J, r.res, q)
                                 /\ q \in Nat /\ (r.pos < Len(J.keys) <=> q < Asked(J))
  BY NodeAsked
<1>3. Asked(J) \in Nat /\ J.key_size \in Nat
  <2>1. Len(J.keys) \in Nat /\ J.key_size \in Nat \ {0}
    BY <1>1 DEF Node
  <2>. QED
    BY <2>1, Divided DEF Asked
<1>4. q + 1 \in 0 .. Asked(J) /\ q + 1 \in Nat /\ (q + 1) - 1 = q
  BY <1>2, <1>3
<1>5. AnswerIs(J, q + 1, status, value)
  BY <1>2, <1>4
<1>a. PICK out : out = Replied(r.res, status, value)
  OBVIOUS
<1>6. r.res \in Responses /\ r.pos \in Nat
  BY <1>1 DEF NodeLocals
<1>7. out \in Responses /\ Answers(J, out, q + 1)
  <2>a. PICK res : res = r.res
    OBVIOUS
  <2>1. /\ Node(J) /\ res \in Responses /\ Answers(J, res, q) /\ q \in Nat
        /\ AnswerIs(J, q + 1, status, value)
        /\ out = Replied(res, status, value)
    BY <1>1, <1>2, <1>5, <1>6, <1>a, <2>a
  <2>. QED
    BY <2>1, AnswersMore
<1>b. PICK p : p = r.pos + J.key_size
  OBVIOUS
<1>8. p \in Nat /\ p = (q + 1) * J.key_size
  BY <1>2, <1>3, <1>6, <1>b
<1>9. s = [r EXCEPT !.res = out, !.pos = p]
  <2>1. r \in NodeLocals(r.entries, r.indexes, r.ends)
    BY <1>1
  <2>. QED
    BY <1>6, <1>a, <1>b, <2>1 DEF NodeLocals, Responses, Replied
<1>10. /\ s \in NodeLocals(s.entries, s.indexes, s.ends) /\ s.kvs = All(J) /\ s.count = Whole(J)
       /\ s.pc = "get" /\ s.started /\ s.defined /\ s.pos = p /\ s.res = out
       /\ s.entries = r.entries /\ s.indexes = r.indexes /\ s.size = r.size
  BY <1>1, <1>7, <1>8, <1>9, ZenonT(30) DEF NodeLocals
<1>11. Placed(J, s)
  BY <1>1, <1>10 DEF Placed
<1>12. \E x \in 0 .. Asked(J) : s.pos = x * J.key_size /\ Answers(J, s.res, x)
  BY <1>4, <1>7, <1>8, <1>10
<1>. QED
  BY <1>1, <1>10, <1>11, <1>12 DEF NodeHolds

\* All keys are answered.
LEMMA NodeEnds ==
  ASSUME NEW J, NEW r, NodeHolds(J, r), r.pc = "get", ~(r.pos < Len(J.keys)),
         NEW s, s = [r EXCEPT !.pc = "done"]
  PROVE  NodeHolds(J, s)
<1>1. /\ Node(J) /\ r \in NodeLocals(r.entries, r.indexes, r.ends) /\ r.started /\ r.defined
      /\ Opened(J, Len(J.dir)) /\ Fits(J, r.size)
  BY DEF NodeHolds
<1>2. PICK q \in 0 .. Asked(J) : Answers(J, r.res, q) /\ (r.pos < Len(J.keys) <=> q < Asked(J))
  BY NodeAsked
<1>3. q = Asked(J)
  <2>1. Len(J.keys) \in Nat /\ J.key_size \in Nat \ {0}
    BY <1>1 DEF Node
  <2>2. Asked(J) \in Nat
    BY <2>1, Divided DEF Asked
  <2>. QED
    BY <1>2, <2>2
<1>4. s \in NodeLocals(s.entries, s.indexes, s.ends) /\ s.pc = "done" /\ s.started /\ s.defined
      /\ s.size = r.size /\ s.res = r.res
  BY <1>1 DEF NodeLocals
<1>. QED
  BY <1>1, <1>2, <1>3, <1>4 DEF NodeHolds

\* The node's definitions for its job.
LEMMA NodeTerms ==
  /\ KvSize = Kv(job)
  /\ \A e : KeyOf(e) = KeyIn(job, e) /\ ValueOf(e) = ValueIn(job, e)
  /\ \A e : HashOf(KeyOf(e)) = BucketOf(job, st.size, e)
  /\ \A bytes : Held(bytes) = HeldOf(Kv(job), bytes)
<1>1. KvSize = Kv(job)
  BY DEF KvSize, Kv
<1>2. \A e : KeyOf(e) = KeyIn(job, e)
  BY DEF KeyOf, KeyIn
<1>3. \A e : ValueOf(e) = ValueIn(job, e)
  BY DEF ValueOf, ValueIn
<1>4. \A e : HashOf(KeyOf(e)) = BucketOf(job, st.size, e)
  BY <1>2 DEF HashOf, BucketOf
<1>5. \A bytes : Held(bytes) = HeldOf(Kv(job), bytes)
  BY <1>1, Zenon DEF Held, HeldOf
<1>. QED
  BY <1>1, <1>2, <1>3, <1>4, <1>5

NodeInv == job.prog = "node" => NodeHolds(job, st)

LEMMA NodeInit == Init => NodeInv
<1>1. SUFFICES ASSUME Init, job.prog = "node" PROVE NodeHolds(job, st)
  BY DEF NodeInv
<1>2. PICK node \in Directories, keys \in KeyStrings : LoadAndGet(node, keys)
  BY <1>1, OwnInputs
<1>3. /\ Len(keys) % SizeOf(node.key) = 0
      /\ job.dir = node.dir /\ job.keys = keys /\ job.key_size = SizeOf(node.key)
      /\ job.value_size = SizeOf(node.value)
  BY <1>2 DEF LoadAndGet
<1>4. Node(job)
  BY <1>3, NodeJobs
<1>5. st = [pc |-> "load", file |-> 0, kvs |-> <<>>, count |-> 0, size |-> 16, started |-> TRUE,
            defined |-> TRUE, entries |-> <<>>, indexes |-> <<>>, ends |-> <<>>, i |-> 0, pos |-> 0,
            res |-> NoResponse]
  BY <1>2 DEF LoadAndGet, NoResponse
<1>. QED
  BY <1>4, <1>5, NodeStarts

\* Sorting and searching, for the job of the node.
LEMMA NodeCountsEntries ==
  ASSUME NodeHolds(job, st), CountEntries
  PROVE  NodeHolds(job, st')
<1>1. st.pc = "size" /\ job.prog = "node"
  BY DEF CountEntries, At
<1>2. st.kvs = All(job)
  BY <1>1 DEF NodeHolds
<1>a. PICK entries : entries = EntriesIn(job)
  OBVIOUS
<1>b. PICK indexes : indexes = Counts(job, st.size, entries)
  OBVIOUS
<1>3. Entries = entries
  BY <1>2, <1>a, NodeTerms, Zenon DEF Entries, EntriesIn, PlacesOf, Entry
<1>4. DOMAIN entries = 0 .. PlacesOf(job) - 1
  BY <1>a DEF EntriesIn
<1>5. [h \in 0 .. st.size |-> Cardinality({i \in DOMAIN Entries : HashOf(KeyOf(Entries[i])) < h})] = indexes
  BY <1>3, <1>4, <1>b, NodeTerms, Zenon DEF Counts
<1>6. st' = [st EXCEPT !.entries = entries, !.indexes = indexes, !.ends = indexes, !.pc = "sort"]
  BY <1>3, <1>5, ZenonT(30) DEF CountEntries, Becomes
<1>. QED
  BY <1>1, <1>6, <1>a, <1>b, NodeCounts

LEMMA NodeSwapsEntries ==
  ASSUME NodeHolds(job, st), SwapKv
  PROVE  NodeHolds(job, st')
<1>1. st.pc = "sort" /\ st.i < st.count
  BY DEF SwapKv, AtEntry, At
<1>a. PICK b : b = BucketOf(job, st.size, st.entries[st.i])
  OBVIOUS
<1>b. PICK e : e = st.ends[b]
  OBVIOUS
<1>2. Bucket = b
  BY <1>a, NodeTerms DEF Bucket
<1>3. ~(st.i >= st.indexes[b] /\ st.i < st.ends[b]) /\ st.ends[b] < st.count
  BY <1>2 DEF SwapKv, InPlace
<1>4. st' = [st EXCEPT !.entries[st.i] = st.entries[e], !.entries[e] = st.entries[st.i], !.ends[b] = @ + 1]
  BY <1>2, <1>b DEF SwapKv, Becomes
<1>5. st \in NodeLocals(st.entries, st.indexes, st.ends)
  BY DEF NodeHolds
<1>6. st' = [st EXCEPT !.entries = Traded(st.entries, st.i, e), !.ends = [st.ends EXCEPT ![b] = @ + 1]]
  BY <1>4, <1>5 DEF NodeLocals, Traded
<1>. QED
  BY <1>1, <1>3, <1>6, <1>a, <1>b, NodeSwaps, ZenonT(30)

\* The value of an entry has value_size bytes.
LEMMA ValuesOf ==
  ASSUME NEW J, Node(J)
  PROVE  /\ Zeros(J.value_size) \in Seq(Byte \union {Beyond}) /\ Len(Zeros(J.value_size)) = J.value_size
         /\ \A e \in Seq(Byte) : ValueIn(J, e) \in Seq(Byte \union {Beyond}) /\ Len(ValueIn(J, e)) = J.value_size
<1>a. PICK X, n : X = Byte \union {Beyond} /\ n = J.value_size
  OBVIOUS
<1>1. n \in Nat /\ J.key_size \in Nat
  BY <1>a DEF Node
<1>2. 0 \in X
  BY <1>a DEF Byte
<1>3. Zeros(n) = [i \in 1 .. n |-> 0] /\ Zeros(n) \in Seq(X) /\ Len(Zeros(n)) = n
  BY <1>1, <1>2 DEF Zeros
<1>4. ASSUME NEW e \in Seq(Byte) PROVE ValueIn(J, e) \in Seq(X) /\ Len(ValueIn(J, e)) = n
  <2>a. PICK at : at = [i \in 1 .. n |-> IF J.key_size + i <= Len(e) THEN e[J.key_size + i] ELSE Beyond]
    OBVIOUS
  <2>1. ASSUME NEW i \in 1 .. n
        PROVE  (IF J.key_size + i <= Len(e) THEN e[J.key_size + i] ELSE Beyond) \in X
    <3>1. CASE J.key_size + i <= Len(e)
      <4>1. J.key_size + i \in 1 .. Len(e)
        BY <1>1, <3>1
      <4>2. e[J.key_size + i] \in Byte
        BY <4>1
      <4>. QED
        BY <1>a, <3>1, <4>2
    <3>2. CASE ~(J.key_size + i <= Len(e))
      BY <1>a, <3>2
    <3>. QED
      BY <3>1, <3>2
  <2>2. at \in [1 .. n -> X]
    BY <2>1, <2>a
  <2>3. at \in Seq(X) /\ Len(at) = n
    BY <1>1, <2>2
  <2>. QED
    BY <1>a, <2>3, <2>a DEF ValueIn
<1>. QED
  BY <1>3, <1>4, <1>a

LEMMA NodeFindsKey ==
  ASSUME NodeHolds(job, st), KeyFound
  PROVE  NodeHolds(job, st')
<1>1. st.pc = "get" /\ st.pos < Len(job.keys) /\ Matches # {}
  BY DEF KeyFound, AtKey, At
<1>2. Node(job)
  BY DEF NodeHolds
<1>a. PICK key : key = Bytes(job.keys, st.pos, job.key_size)
  OBVIOUS
<1>3. Hash(key) \in Nat
  BY <1>1, <1>a, NodeAsked
<1>4. Matches = FoundIn(job, st, key)
  BY <1>a, NodeTerms DEF Matches, FoundIn, Key, HashOf
<1>5. /\ \A i \in Matches : /\ i \in Nat /\ st.entries[i] \in Seq(Byte) /\ KeyIn(job, st.entries[i]) = key
                            /\ i < Whole(job) \/ PlacesOf(job) = Whole(job) => st.entries[i] \in HeldIn(job)
      /\ \A e \in HeldIn(job) : KeyIn(job, e) = key => \E i \in Matches : i < Whole(job)
  BY <1>1, <1>3, <1>4, NodeFinds
<1>b. PICK c : c = CHOOSE i \in Matches : \A j \in Matches : i <= j
  OBVIOUS
<1>6. c \in Matches /\ \A j \in Matches : c <= j
  <2>1. Matches \in SUBSET Nat
    BY <1>5
  <2>2. \E i \in Matches : \A j \in Matches : i <= j
    BY <1>1, <2>1, LeastNat
  <2>. QED
    BY <1>b, <2>2
<1>c. PICK value : value = ValueIn(job, st.entries[c])
  OBVIOUS
<1>7. value \in Seq(Byte \union {Beyond}) /\ Len(value) = job.value_size
  BY <1>2, <1>5, <1>6, <1>c, ValuesOf
<1>8. ASSUME NEW i \in Nat, (i - 1) * job.key_size = st.pos PROVE AnswerIs(job, i, "FOUND", value)
  <2>1. EntriesFor(job, i) = {e \in HeldIn(job) : KeyIn(job, e) = key}
    BY <1>8, <1>a DEF EntriesFor
  <2>2. CASE EntriesFor(job, i) # {}
    <3>1. PICK e \in HeldIn(job) : KeyIn(job, e) = key
      BY <2>1, <2>2
    <3>2. PICK j \in Matches : j < Whole(job)
      BY <1>5, <3>1
    <3>3. c <= j /\ c \in Nat /\ j \in Nat /\ Whole(job) \in Nat
      BY <1>2, <1>5, <1>6, PlacesAre
    <3>4. c < Whole(job)
      BY <3>2, <3>3
    <3>5. st.entries[c] \in EntriesFor(job, i)
      BY <1>5, <1>6, <2>1, <3>4
    <3>. QED
      BY <1>c, <2>2, <3>5 DEF AnswerIs
  <2>3. CASE EntriesFor(job, i) = {}
    <3>1. PlacesOf(job) # Whole(job)
      BY <1>5, <1>6, <2>1, <2>3
    <3>. QED
      BY <2>3, <3>1 DEF AnswerIs
  <2>. QED
    BY <2>2, <2>3
<1>9. st' = [st EXCEPT !.res.statuses = Append(@, "FOUND"), !.res.values = @ \o value,
                       !.res.status = IF "FOUND" = "FOUND" THEN @ ELSE "PARTIAL_OK",
                       !.pos = @ + job.key_size]
  <2>1. Respond("FOUND", ValueOf(st.entries[c]))
    BY <1>b DEF KeyFound
  <2>2. ValueOf(st.entries[c]) = value
    BY <1>c, NodeTerms
  <2>3. Respond("FOUND", value)
    BY <2>1, <2>2
  <2>. QED
    BY <2>3, Zenon DEF Respond, Becomes
<1>10. "FOUND" \in {"FOUND", "NOT_FOUND"}
  OBVIOUS
<1>. QED
  BY <1>1, <1>7, <1>8, <1>9, <1>10, NodeReplies

LEMMA NodeFindsNothing ==
  ASSUME NodeHolds(job, st), KeyNotFound
  PROVE  NodeHolds(job, st')
<1>1. st.pc = "get" /\ st.pos < Len(job.keys) /\ Matches = {}
  BY DEF KeyNotFound, AtKey, At
<1>2. Node(job)
  BY DEF NodeHolds
<1>a. PICK key : key = Bytes(job.keys, st.pos, job.key_size)
  OBVIOUS
<1>3. Hash(key) \in Nat
  BY <1>1, <1>a, NodeAsked
<1>4. Matches = FoundIn(job, st, key)
  BY <1>a, NodeTerms DEF Matches, FoundIn, Key, HashOf
<1>5. \A e \in HeldIn(job) : KeyIn(job, e) # key
  BY <1>1, <1>3, <1>4, NodeFinds
<1>c. PICK value : value = Zeros(job.value_size)
  OBVIOUS
<1>7. value \in Seq(Byte \union {Beyond}) /\ Len(value) = job.value_size
  BY <1>2, <1>c, ValuesOf
<1>8. ASSUME NEW i \in Nat, (i - 1) * job.key_size = st.pos PROVE AnswerIs(job, i, "NOT_FOUND", value)
  <2>1. EntriesFor(job, i) = {}
    BY <1>5, <1>8, <1>a DEF EntriesFor
  <2>. QED
    BY <1>c, <2>1 DEF AnswerIs
<1>9. st' = [st EXCEPT !.res.statuses = Append(@, "NOT_FOUND"), !.res.values = @ \o value,
                       !.res.status = IF "NOT_FOUND" = "FOUND" THEN @ ELSE "PARTIAL_OK",
                       !.pos = @ + job.key_size]
  <2>1. Respond("NOT_FOUND", value)
    BY <1>c DEF KeyNotFound
  <2>. QED
    BY <2>1, Zenon DEF Respond, Becomes
<1>10. "NOT_FOUND" \in {"FOUND", "NOT_FOUND"}
  OBVIOUS
<1>. QED
  BY <1>1, <1>7, <1>8, <1>9, <1>10, NodeReplies

\* Every step of the node keeps the invariant.
LEMMA NodeNextHolds ==
  ASSUME NodeHolds(job, st), NodeNext
  PROVE  NodeHolds(job, st')
<1>a. PICK b : b = BucketOf(job, st.size, st.entries[st.i])
  OBVIOUS
<1>b. Bucket = b
  BY <1>a, NodeTerms DEF Bucket
<1>1. CASE LoadKvFile
  <2>1. /\ st.pc = "load" /\ st.file < Len(job.dir) /\ job.dir[st.file + 1].opens
        /\ st' = [st EXCEPT !.kvs = @ \o job.dir[st.file + 1].bytes, !.file = @ + 1]
    BY <1>1 DEF LoadKvFile, AtFile, CurKvFile, At, Becomes
  <2>. QED
    BY <2>1, NodeLoads
<1>2. CASE LoadFails
  <2>1. /\ st.pc = "load" /\ st.file < Len(job.dir) /\ ~job.dir[st.file + 1].opens
        /\ st' = [st EXCEPT !.started = FALSE, !.pc = "done"]
    BY <1>2 DEF LoadFails, AtFile, CurKvFile, At, Becomes
  <2>. QED
    BY <2>1, NodeFails
<1>3. CASE LoadKvs
  <2>1. /\ st.pc = "load" /\ st.file = Len(job.dir)
        /\ st' = [st EXCEPT !.count = Len(st.kvs) \div Kv(job), !.pc = "size"]
    BY <1>3, NodeTerms, Zenon DEF LoadKvs, At, Becomes
  <2>. QED
    BY <2>1, NodeLoaded
<1>4. CASE NextPower
  <2>1. st.pc = "size" /\ st' = [st EXCEPT !.size = @ * 2]
    BY <1>4 DEF NextPower, At, Becomes
  <2>. QED
    BY <2>1, NodeSizes
<1>5. CASE NextEntry
  <2>1. /\ st.pc = "sort" /\ st.i < st.count /\ st.i >= st.indexes[b] /\ st.i < st.ends[b]
        /\ st' = [st EXCEPT !.i = @ + 1]
    BY <1>5, <1>b, SMTT(30) DEF NextEntry, AtEntry, InPlace, At, Becomes
  <2>. QED
    BY <1>a, <2>1, NodeNextEntry
<1>6. CASE SwapBeyond
  <2>1. /\ st.pc = "sort" /\ st.i < st.count /\ ~(st.i >= st.indexes[b] /\ st.i < st.ends[b])
        /\ st.ends[b] >= st.count
        /\ st' = [st EXCEPT !.defined = FALSE, !.pc = "done"]
    BY <1>6, <1>b DEF SwapBeyond, AtEntry, InPlace, At, Becomes
  <2>. QED
    BY <1>a, <2>1, NodeLeaves
<1>7. CASE Constructed
  <2>1. st.pc = "sort" /\ st.i = st.count /\ st' = [st EXCEPT !.pc = "get"]
    BY <1>7 DEF Constructed, At, Becomes
  <2>. QED
    BY <2>1, NodeConstructs
<1>8. CASE Answered
  <2>1. st.pc = "get" /\ st.pos >= Len(job.keys) /\ st' = [st EXCEPT !.pc = "done"]
    BY <1>8 DEF Answered, At, Becomes
  <2>2. ~(st.pos < Len(job.keys))
    <3>1. st.pos \in Nat /\ Len(job.keys) \in Nat
      <4>1. st \in NodeLocals(st.entries, st.indexes, st.ends) /\ job.keys \in Seq(Byte)
        BY DEF NodeHolds, Node
      <4>. QED
        BY <4>1 DEF NodeLocals
    <3>. QED
      BY <2>1, <3>1
  <2>. QED
    BY <2>1, <2>2, NodeEnds
<1>. QED
  BY <1>1, <1>2, <1>3, <1>4, <1>5, <1>6, <1>7, <1>8, NodeCountsEntries, NodeSwapsEntries, NodeFindsKey,
     NodeFindsNothing DEF NodeNext

LEMMA NodeNextKeeps == NodeInv /\ [Next]_programVars => NodeInv'
<1>1. SUFFICES ASSUME NodeInv, [Next]_programVars, job'.prog = "node" PROVE NodeHolds(job', st')
  BY DEF NodeInv
<1>2. CASE UNCHANGED programVars
  BY <1>1, <1>2 DEF programVars, NodeInv
<1>3. CASE Next
  <2>1. job' = job
    BY <1>3, OwnSteps DEF Next
  <2>2. NodeNext
    BY <1>1, <1>3, <2>1, OwnSteps DEF Next
  <2>3. NodeHolds(job, st)
    BY <1>1, <2>1 DEF NodeInv
  <2>4. NodeHolds(job, st')
    BY <2>2, <2>3, NodeNextHolds
  <2>. QED
    BY <2>1, <2>4
<1>. QED
  BY <1>1, <1>2, <1>3

\* The parts of a file list that NodeAnswers speaks of.
LEMMA NodeFiles ==
  ASSUME Node(job)
  PROVE  /\ (IF \A f \in {job.dir[i].bytes : i \in DOMAIN job.dir} : Len(f) % KvSize = 0
             THEN UNION {Held(f) : f \in {job.dir[i].bytes : i \in DOMAIN job.dir}} ELSE Held(All(job)))
            = HeldIn(job)
         /\ (Len(All(job)) % KvSize = 0) <=> (PlacesOf(job) = Whole(job))
         /\ PartOf(All(job)) = Entry(job, Whole(job)) \/ PlacesOf(job) = Whole(job)
<1> DEFINE files == {job.dir[i].bytes : i \in DOMAIN job.dir}
<1>a. PICK k, all, parts : k = Kv(job) /\ all = All(job) /\ parts = PartsIn(job)
  OBVIOUS
<1>1. k \in Nat \ {0} /\ KvSize = k /\ \A bytes : Held(bytes) = HeldOf(k, bytes)
  BY <1>a, NodeTerms, PlacesAre
<1>2. /\ parts \in Seq(Seq(Byte)) /\ all = FlattenSeq(parts) /\ all \in Seq(Byte)
      /\ files = {parts[i] : i \in 1 .. Len(parts)}
  BY <1>a, FilesOf
<1>3. HeldIn(job) = HeldOf(k, all)
  BY <1>a DEF HeldIn
<1> DEFINE held == IF \A f \in files : Len(f) % KvSize = 0 THEN UNION {Held(f) : f \in files} ELSE Held(All(job))
<1>4. ASSUME \A f \in files : Len(f) % k = 0 PROVE held = HeldIn(job)
  <2>1. \A i \in 1 .. Len(parts) : Len(parts[i]) % k = 0
    BY <1>2, <1>4
  <2>2. HeldOf(k, all) = UNION {HeldOf(k, parts[i]) : i \in 1 .. Len(parts)}
    BY <1>1, <1>2, <2>1, HeldOfAll
  <2>3. UNION {Held(f) : f \in files} = UNION {HeldOf(k, parts[i]) : i \in 1 .. Len(parts)}
    BY <1>1, <1>2
  <2> HIDE DEF files
  <2>4. held = UNION {Held(f) : f \in files}
    BY <1>1, <1>4, Zenon
  <2> HIDE DEF held
  <2>. QED
    BY <1>3, <2>2, <2>3, <2>4
<1>5. ASSUME ~(\A f \in files : Len(f) % k = 0) PROVE held = HeldIn(job)
  <2> HIDE DEF files
  <2>1. held = Held(all)
    BY <1>1, <1>5, <1>a, Zenon
  <2> HIDE DEF held
  <2>. QED
    BY <1>1, <1>3, <2>1
<1>8. held = HeldIn(job)
  <2> HIDE DEF held, files
  <2>. QED
    BY <1>4, <1>5
<1>6. (Len(All(job)) % KvSize = 0) <=> (PlacesOf(job) = Whole(job))
  BY <1>1, <1>a, PlacesAre
<1>7. PartOf(all) = Entry(job, Whole(job)) \/ PlacesOf(job) = Whole(job)
  <2>1. SUFFICES ASSUME PlacesOf(job) # Whole(job) PROVE PartOf(all) = Entry(job, Whole(job))
    OBVIOUS
  <2>a. PICK len, rem, from : len = Len(all) /\ rem = len % k /\ from = Whole(job) * k
    OBVIOUS
  <2>2. from = len - rem /\ rem # 0
    BY <1>a, <2>1, <2>a, PlacesAre
  <2>3. len \in Nat /\ rem \in 0 .. k - 1
    BY <1>1, <1>2, <2>a
  <2>4. len - rem + 1 = from + 1 /\ ~(from + k <= len)
    BY <1>1, <2>2, <2>3
  <2>5. PartOf(all) = SubSeq(all, from + 1, len)
    BY <1>1, <2>4, <2>a, Zenon DEF PartOf
  <2>6. Entry(job, Whole(job)) = Bytes(all, from, k)
    BY <1>a, <2>a DEF Entry
  <2>7. Bytes(all, from, k) = SubSeq(all, from + 1, len)
    BY <2>4, <2>a DEF Bytes
  <2>. QED
    BY <2>5, <2>6, <2>7
<1>. QED
  BY <1>6, <1>7, <1>8, <1>a, Zenon

\* The node answers each key of a request from the whole entries of its files, and loads
\* within its table unless a whole entry belongs to a bucket behind that of the part.
THEOREM NodeIsRight == Spec => []NodeAnswers
<1>1. NodeInv => NodeAnswers
  <2>1. SUFFICES ASSUME NodeInv, At("node", "done") PROVE NodeAnswers
    BY DEF NodeAnswers
  <2>2. NodeHolds(job, st) /\ st.pc = "done"
    BY <2>1 DEF NodeInv, At
  <2>3. Node(job)
    BY <2>2 DEF NodeHolds
  <2>4. st.started \in BOOLEAN /\ st.defined \in BOOLEAN
    <3>1. st \in NodeLocals(st.entries, st.indexes, st.ends)
      BY <2>2 DEF NodeHolds
    <3>. QED
      BY <3>1 DEF NodeLocals
  <2>5. \/ ~st.started /\ ~Opened(job, Len(job.dir))
        \/ st.started /\ Opened(job, Len(job.dir)) /\ ~st.defined /\ ~Fits(job, st.size)
        \/ /\ st.started /\ Opened(job, Len(job.dir)) /\ st.defined /\ Fits(job, st.size)
           /\ Answers(job, st.res, Asked(job))
    BY <2>2 DEF NodeHolds
  <2> DEFINE files  == {job.dir[i].bytes : i \in DOMAIN job.dir}
             all    == Loaded(job.dir)
             whole  == Len(all) % KvSize = 0
             held   == IF \A f \in files : Len(f) % KvSize = 0 THEN UNION {Held(f) : f \in files} ELSE Held(all)
             ks     == job.key_size
             vs     == job.value_size
             entry(i)  == {e \in held : KeyOf(e) = Bytes(job.keys, (i - 1) * ks, ks)}
             value(i)  == SubSeq(st.res.values, (i - 1) * vs + 1, i * vs)
             status(i) == st.res.statuses[i]
             keys      == 1 .. Len(job.keys) \div ks
  <2>6. held = HeldIn(job) /\ (whole <=> (PlacesOf(job) = Whole(job)))
    BY <2>3, NodeFiles DEF All
  <2>7. Opened(job, Len(job.dir)) <=> \A i \in DOMAIN job.dir : job.dir[i].opens
    BY <2>3, FilesOf DEF Opened
  <2>8. st.started = \A i \in DOMAIN job.dir : job.dir[i].opens
    BY <2>4, <2>5, <2>7
  <2>9. Fits(job, st.size) <=> (whole \/ \A e \in held : HashOf(KeyOf(e)) <= HashOf(KeyOf(PartOf(all))))
    <3>1. CASE PlacesOf(job) = Whole(job)
      BY <2>6, <3>1 DEF Fits
    <3>2. CASE PlacesOf(job) # Whole(job)
      <4>1. PartOf(all) = Entry(job, Whole(job))
        BY <2>3, <3>2, NodeFiles DEF All
      <4> HIDE DEF held, whole, all
      <4>. QED
        BY <2>6, <3>2, <4>1, NodeTerms DEF Fits
    <3>. QED
      BY <3>1, <3>2
  <2>10. st.started => st.defined = (whole \/ \A e \in held : HashOf(KeyOf(e)) <= HashOf(KeyOf(PartOf(all))))
    <3> HIDE DEF held, whole, all
    <3>. QED
      BY <2>4, <2>5, <2>9
  <2>11. ASSUME st.started, st.defined
         PROVE  /\ DOMAIN st.res.statuses = keys
                /\ Len(st.res.values) = vs * Len(st.res.statuses)
                /\ \A i \in keys :
                     IF entry(i) # {}
                     THEN status(i) = "FOUND" /\ value(i) \in {ValueOf(e) : e \in entry(i)}
                     ELSE whole => status(i) = "NOT_FOUND" /\ value(i) = Zeros(vs)
                /\ (st.res.status = "OK") = \A i \in keys : status(i) = "FOUND"
    <3>1. /\ Len(st.res.statuses) = Asked(job) /\ Len(st.res.values) = Asked(job) * vs
          /\ \A i \in 1 .. Asked(job) : AnswerIs(job, i, st.res.statuses[i], ValueAt(job, st.res.values, i))
          /\ (st.res.status = "OK") <=> \A i \in 1 .. Asked(job) : st.res.statuses[i] = "FOUND"
      BY <2>5, <2>11 DEF Answers
    <3>2. st.res.statuses \in Seq({"FOUND", "NOT_FOUND"})
      <4>1. st.res \in Responses
        <5>1. st \in NodeLocals(st.entries, st.indexes, st.ends)
          BY <2>2 DEF NodeHolds
        <5>. QED
          BY <5>1 DEF NodeLocals
      <4>. QED
        BY <4>1 DEF Responses
    <3>3. keys = 1 .. Asked(job)
      BY DEF Asked
    <3>4. DOMAIN st.res.statuses = keys
      BY <3>1, <3>2, <3>3
    <3>5. Len(st.res.values) = vs * Len(st.res.statuses)
      <4>1. Asked(job) \in Nat /\ vs \in Nat
        <5>1. Len(st.res.statuses) \in Nat
          BY <3>2
        <5>. QED
          BY <2>3, <3>1, <5>1 DEF Node
      <4>. QED
        BY <3>1, <4>1
    <3>6. ASSUME NEW i \in keys
          PROVE  IF entry(i) # {}
                 THEN status(i) = "FOUND" /\ value(i) \in {ValueOf(e) : e \in entry(i)}
                 ELSE whole => status(i) = "NOT_FOUND" /\ value(i) = Zeros(vs)
      <4>1. AnswerIs(job, i, status(i), value(i))
        BY <3>1, <3>3 DEF ValueAt
      <4>2. entry(i) = EntriesFor(job, i)
        <5> HIDE DEF held
        <5>. QED
          BY <2>6, NodeTerms DEF EntriesFor
      <4> HIDE DEF entry, held, whole, value, status
      <4>. QED
        BY <2>6, <4>1, <4>2, NodeTerms DEF AnswerIs
    <3>7. (st.res.status = "OK") = \A i \in keys : status(i) = "FOUND"
      BY <3>1, <3>3
    <3>. QED
      BY <3>4, <3>5, <3>6, <3>7
  <2> HIDE DEF files, all, whole, held, entry, value, status, keys
  <2>. QED
    BY <2>8, <2>10, <2>11 DEF NodeAnswers, files, all, whole, held, entry, value, status, keys
<1>. QED
  BY <1>1, NodeInit, NodeNextKeeps, PTL DEF Spec
===============================================================================
