---------------------------- MODULE Programs_proofs ----------------------------
(***************************************************************************)
(* Proofs about the small programs, for any inputs.  Each program has its *)
(* loop invariants; the steps of the others leave its run alone.           *)
(***************************************************************************)
EXTENDS Programs, FiniteSetTheorems, SequenceTheorems, SetInduction, TLAPS

\* A step belongs to the program that runs, and keeps its input.
LEMMA OwnSteps ==
  /\ LoadNext => job.prog = "load" /\ job' = job
  /\ NodeNext => job.prog = "node" /\ job' = job
  /\ KMPNext => job.prog = "kmp" /\ job' = job
  /\ QsortNext => job.prog = "qsort" /\ job' = job
  /\ MultiplyNext => job.prog = "multiply" /\ job' = job
  /\ MergeNext => job.prog = "merge" /\ job' = job
  /\ PolishNext => job.prog = "polish" /\ job' = job
  /\ RexNext => job.prog = "rex" /\ job' = job
<1>1. LoadNext => job.prog = "load" /\ job' = job
  BY DEF LoadNext, OpenNext, Getline, LeaveFile, InsertBlock, InsertOutOfBounds, EndOfModel,
         EndOfBlock, At, Becomes
<1>2. NodeNext => job.prog = "node" /\ job' = job
  BY DEF NodeNext, LoadKvFile, LoadFails, LoadKvs, NextPower, CountEntries, NextEntry, SwapKv,
         SwapBeyond, Constructed, KeyFound, KeyNotFound, Answered, AtFile, AtEntry, AtKey, Respond,
         At, Becomes
<1>3. KMPNext => job.prog = "kmp" /\ job' = job
  BY DEF KMPNext, EmptyPattern, ShortText, GetNext, Filling, Fill, FillBehind, FallBack, Filled,
         Scan, Scanned, Found, At, Becomes
<1>4. QsortNext => job.prog = "qsort" /\ job' = job
  BY DEF QsortNext, SortFew, ChoosePivot, PartitionLess, PartitionGreater, PartitionEqual,
         SortParts, QsortReturns, At, Becomes
<1>5. MultiplyNext => job.prog = "multiply" /\ job' = job
  BY DEF MultiplyNext, ReturnZero, StartRows, MultiplyDigit, EndRow, ReturnProduct, At, Becomes
<1>6. MergeNext => job.prog = "merge" /\ job' = job
  BY DEF MergeNext, OneIsEmpty, BothHaveNodes, TakeFirst, TakeSecond, LinkRest, WalkOn, WalkEnds,
         At, Becomes
<1>7. PolishNext => job.prog = "polish" /\ job' = job
  BY SMTT(30) DEF PolishNext, Operand, PushOp, PopOp, CloseParen, SetDone, PushNumber, Apply, Calculated,
         AtElem, AtPostfix, At, Becomes
<1>8. RexNext => job.prog = "rex" /\ job' = job
  BY DEF RexNext, CompileStar, CompileChar, CompileEnd, AddSplit, AddState, Added, NextChar,
         StateReads, Unmark, EndOfList, Matched, Include, AtState, At, Becomes
<1>. QED
  BY <1>1, <1>2, <1>3, <1>4, <1>5, <1>6, <1>7, <1>8

\* An input belongs to the program that runs.
LEMMA OwnInputs ==
  ASSUME Init
  PROVE
  /\ job.prog = "load" => \E files \in TextFileLists, load \in Loads : LoadModel(files, load)
  /\ job.prog = "node" => \E node \in Directories, keys \in KeyStrings : LoadAndGet(node, keys)
  /\ job.prog = "kmp" => \E src \in Texts, ptn \in Patterns : Search(src, ptn)
  /\ job.prog = "qsort" => \E list \in Arrays : SortArray(list)
  /\ job.prog = "multiply" => \E s1, s2 \in Decimals : Multiply(s1, s2)
  /\ job.prog = "merge" => \E l1, l2 \in SortedLists : MergeLists(l1, l2)
  /\ job.prog = "polish" => \E t \in Terms, all \in BOOLEAN : Calculate(t, all)
  /\ job.prog = "rex" => \E ptn \in Rexes, src \in Words : IsMatched(ptn, src)
<1>1. (\E files \in TextFileLists, load \in Loads : LoadModel(files, load)) => job.prog = "load"
  BY DEF LoadModel
<1>2. (\E node \in Directories, keys \in KeyStrings : LoadAndGet(node, keys)) => job.prog = "node"
  BY DEF LoadAndGet
<1>3. (\E src \in Texts, ptn \in Patterns : Search(src, ptn)) => job.prog = "kmp"
  BY DEF Search
<1>4. (\E list \in Arrays : SortArray(list)) => job.prog = "qsort"
  BY DEF SortArray
<1>5. (\E s1, s2 \in Decimals : Multiply(s1, s2)) => job.prog = "multiply"
  BY DEF Multiply
<1>6. (\E l1, l2 \in SortedLists : MergeLists(l1, l2)) => job.prog = "merge"
  BY DEF MergeLists
<1>7. (\E t \in Terms, all \in BOOLEAN : Calculate(t, all)) => job.prog = "polish"
  BY DEF Calculate
<1>8. (\E ptn \in Rexes, src \in Words : IsMatched(ptn, src)) => job.prog = "rex"
  BY DEF IsMatched
<1>. QED
  BY <1>1, <1>2, <1>3, <1>4, <1>5, <1>6, <1>7, <1>8 DEF Init

-------------------------------------------------------------------------------
(* KMP.                                                                     *)

\* Borders and occurrences, character by character.
LEMMA BorderIff ==
  ASSUME NEW ptn \in Seq(Alphabet), NEW j \in 1 .. Len(ptn), NEW b \in 0 .. j - 1
  PROVE  IsBorder(ptn, j, b) <=> \A k \in 1 .. b : ptn[k] = ptn[j - b + k]
<1>1. /\ SubSeq(ptn, 1, b) \in Seq(Alphabet) /\ Len(SubSeq(ptn, 1, b)) = b
      /\ \A k \in 1 .. b : SubSeq(ptn, 1, b)[k] = ptn[k]
  BY SubSeqProperties
<1>2. /\ SubSeq(ptn, j - b + 1, j) \in Seq(Alphabet) /\ Len(SubSeq(ptn, j - b + 1, j)) = b
      /\ \A k \in 1 .. b : SubSeq(ptn, j - b + 1, j)[k] = ptn[j - b + k]
  BY SubSeqProperties
<1>. QED
  BY <1>1, <1>2, SeqEqual DEF IsBorder

LEMMA OccursIff ==
  ASSUME NEW src \in Seq(Alphabet), NEW ptn \in Seq(Alphabet), NEW p \in Nat
  PROVE  OccursAt(src, ptn, p) <=>
           p + Len(ptn) <= Len(src) /\ \A k \in 1 .. Len(ptn) : src[p + k] = ptn[k]
<1>1. CASE p + Len(ptn) <= Len(src)
  <2>1. /\ SubSeq(src, p + 1, p + Len(ptn)) \in Seq(Alphabet)
        /\ Len(SubSeq(src, p + 1, p + Len(ptn))) = Len(ptn)
        /\ \A k \in 1 .. Len(ptn) : SubSeq(src, p + 1, p + Len(ptn))[k] = src[p + k]
    BY <1>1, SubSeqProperties
  <2>. QED
    BY <1>1, <2>1, SeqEqual DEF OccursAt
<1>2. CASE ~(p + Len(ptn) <= Len(src))
  BY <1>2 DEF OccursAt
<1>. QED
  BY <1>1, <1>2

\* A border of a border is a border, and of two borders of one text the shorter is one of
\* the longer.
LEMMA BorderOfBorder ==
  ASSUME NEW ptn \in Seq(Alphabet), NEW j \in 1 .. Len(ptn), NEW i \in 1 .. j - 1,
         NEW b \in 0 .. i - 1, \A k \in 1 .. i : ptn[k] = ptn[j - i + k]
  PROVE  IsBorder(ptn, j, b) <=> IsBorder(ptn, i, b)
<1>1. i \in 1 .. Len(ptn) /\ b \in 0 .. j - 1 /\ Len(ptn) \in Nat
  OBVIOUS
<1>2. IsBorder(ptn, j, b) <=> \A k \in 1 .. b : ptn[k] = ptn[j - b + k]
  BY <1>1, BorderIff
<1>3. IsBorder(ptn, i, b) <=> \A k \in 1 .. b : ptn[k] = ptn[i - b + k]
  BY <1>1, BorderIff
<1>4. ASSUME NEW k \in 1 .. b PROVE ptn[i - b + k] = ptn[j - b + k]
  <2>1. i - b + k \in 1 .. i /\ j - i + (i - b + k) = j - b + k
    OBVIOUS
  <2>. QED
    BY <2>1
<1>. QED
  BY <1>2, <1>3, <1>4

\* The loop of getNext: the table up to j or to its last cell, i a border of j that none longer continues.
Continues(ptn, j, b) == IsBorder(ptn, j, b) /\ ptn[b + 1] = ptn[j + 1]
TableUpTo(ptn, next, j) ==
  next[0] = -1 /\ \A k \in 1 .. j : k < Len(ptn) => LongestBorder(ptn, k, next[k])
FillInv ==
  LET ptn == job.ptn  i == st.i  j == st.j IN
  /\ ptn # <<>> /\ j \in 0 .. Len(ptn) /\ i \in -1 .. j - 1
  /\ TableUpTo(ptn, st.next, j)
  /\ i >= 0 => IsBorder(ptn, j, i)
  /\ j \in 1 .. Len(ptn) - 1 => \A b \in i + 1 .. j - 1 : ~Continues(ptn, j, b)

\* The loop of KMP: i characters of the pattern match before j, and it begins nowhere
\* before that.
ScanInv ==
  LET src == job.src  ptn == job.ptn  i == st.i  j == st.j IN
  /\ ptn # <<>> /\ j \in 0 .. Len(src) /\ i \in -1 .. Len(ptn) /\ i <= j
  /\ TableUpTo(ptn, st.next, Len(ptn))
  /\ \A k \in 1 .. i : ptn[k] = src[j - i + k]
  /\ \A p \in 0 .. j - i - 1 : ~OccursAt(src, ptn, p)

KmpTypeOK ==
  /\ job.src \in Seq(Alphabet) /\ job.ptn \in Seq(Alphabet)
  /\ st = [pc |-> st.pc, i |-> st.i, j |-> st.j, next |-> st.next, found |-> st.found]
  /\ st.i \in Int /\ st.j \in Int
  /\ st.pc \in {"fill", "scan", "undefined"} => st.next \in [0 .. Len(job.ptn) - 1 -> Int]

FirstFound == st.pc = "done" =>
  LET found == {p \in 0 .. Len(job.src) : OccursAt(job.src, job.ptn, p)}
  IN  IF found = {} THEN st.found = -1
      ELSE st.found \in found /\ \A p \in found : st.found <= p

KmpInv == job.prog = "kmp" =>
  /\ KmpTypeOK /\ FirstFound
  /\ st.pc = "fill" => FillInv
  /\ st.pc = "scan" => ScanInv
  /\ st.pc = "undefined" => st.j = Len(job.ptn) - 1 /\ TableUpTo(job.ptn, st.next, st.j)

LEMMA KmpInit == Init => KmpInv
<1>1. ASSUME NEW src \in Texts, NEW ptn \in Patterns, Search(src, ptn)
      PROVE  KmpInv
  BY <1>1, TextAssumption DEF Search, KmpInv, KmpTypeOK, FirstFound
<1>. QED
  BY <1>1, OwnInputs DEF KmpInv

\* A match makes the border one longer.
LEMMA FillMatches ==
  ASSUME NEW ptn \in Seq(Alphabet), NEW j \in 0 .. Len(ptn) - 1, NEW i \in -1 .. j - 1,
         i >= 0 => IsBorder(ptn, j, i) /\ ptn[i + 1] = ptn[j + 1],
         j >= 1 => \A b \in i + 1 .. j - 1 : ~Continues(ptn, j, b)
  PROVE  LongestBorder(ptn, j + 1, i + 1)
<1>1. Len(ptn) \in Nat /\ j + 1 \in 1 .. Len(ptn) /\ i + 1 \in 0 .. (j + 1) - 1
  OBVIOUS
<1>2. IsBorder(ptn, j + 1, i + 1)
  <2>1. ASSUME NEW k \in 1 .. i + 1 PROVE ptn[k] = ptn[(j + 1) - (i + 1) + k]
    <3>1. CASE k = i + 1
      BY <3>1
    <3>2. CASE k # i + 1
      <4>1. j \in 1 .. Len(ptn) /\ i \in 0 .. j - 1 /\ k \in 1 .. i
        BY <3>2
      <4>2. ptn[k] = ptn[j - i + k]
        BY <4>1, BorderIff
      <4>. QED
        BY <4>2
    <3>. QED
      BY <3>1, <3>2
  <2>. QED
    BY <1>1, <2>1, BorderIff
<1>3. ASSUME NEW c \in 0 .. (j + 1) - 1, IsBorder(ptn, j + 1, c), c > i + 1
      PROVE  FALSE
  <2>1. /\ j \in 1 .. Len(ptn) /\ c - 1 \in 0 .. j - 1 /\ c - 1 \in i + 1 .. j - 1
    BY <1>3
  <2>2. \A k \in 1 .. c : ptn[k] = ptn[(j + 1) - c + k]
    BY <1>1, <1>3, BorderIff
  <2>3. \A k \in 1 .. c - 1 : ptn[k] = ptn[j - (c - 1) + k]
    BY <2>2
  <2>4. IsBorder(ptn, j, c - 1)
    BY <2>1, <2>3, BorderIff
  <2>5. ptn[(c - 1) + 1] = ptn[j + 1]
    <3>1. c \in 1 .. c /\ (j + 1) - c + c = j + 1 /\ (c - 1) + 1 = c
      BY <1>3
    <3>. QED
      BY <2>2, <3>1
  <2>. QED
    BY <2>1, <2>4, <2>5 DEF Continues
<1>. QED
  BY <1>1, <1>2, <1>3 DEF LongestBorder

\* After a mismatch no border between the old one and its longest border can be continued.
LEMMA FillFallsBack ==
  ASSUME NEW ptn \in Seq(Alphabet), NEW j \in 1 .. Len(ptn) - 1, NEW i \in 0 .. j - 1,
         NEW n, (n = -1 /\ i = 0) \/ (i >= 1 /\ LongestBorder(ptn, i, n)),
         IsBorder(ptn, j, i), ptn[i + 1] # ptn[j + 1],
         \A b \in i + 1 .. j - 1 : ~Continues(ptn, j, b)
  PROVE  /\ n \in -1 .. i - 1
         /\ n >= 0 => IsBorder(ptn, j, n)
         /\ \A b \in n + 1 .. j - 1 : ~Continues(ptn, j, b)
<1>1. Len(ptn) \in Nat /\ j \in 1 .. Len(ptn) /\ i \in 0 .. j - 1
  OBVIOUS
<1>2. \A k \in 1 .. i : ptn[k] = ptn[j - i + k]
  BY <1>1, BorderIff
<1>3. n \in -1 .. i - 1 /\ (n >= 0 => IsBorder(ptn, i, n))
  BY SMTT(30) DEF LongestBorder, IsBorder
<1>4. n >= 0 => IsBorder(ptn, j, n)
  BY <1>1, <1>2, <1>3, BorderOfBorder
<1>5. ASSUME NEW b \in n + 1 .. j - 1, Continues(ptn, j, b) PROVE FALSE
  <2>1. b # i /\ ~(b \in i + 1 .. j - 1) /\ IsBorder(ptn, j, b)
    BY <1>5 DEF Continues
  <2>2. i >= 1 /\ b \in 0 .. i - 1
    BY <1>3, <2>1
  <2>3. IsBorder(ptn, i, b)
    BY <1>1, <1>2, <2>1, <2>2, BorderOfBorder
  <2>. QED
    BY <1>3, <2>2, <2>3 DEF LongestBorder
<1>. QED
  BY <1>3, <1>4, <1>5

\* After a mismatch the pattern does not begin before the place where its longest border
\* would.
LEMMA ScanFallsBack ==
  ASSUME NEW src \in Seq(Alphabet), NEW ptn \in Seq(Alphabet),
         NEW j \in 0 .. Len(src) - 1, NEW i \in 0 .. Len(ptn) - 1, i <= j,
         NEW n, (n = -1 /\ i = 0) \/ (i >= 1 /\ LongestBorder(ptn, i, n)),
         \A k \in 1 .. i : ptn[k] = src[j - i + k],
         ptn[i + 1] # src[j + 1]
  PROVE  /\ n \in -1 .. i - 1
         /\ \A k \in 1 .. n : ptn[k] = src[j - n + k]
         /\ \A p \in j - i .. j - n - 1 : ~OccursAt(src, ptn, p)
<1>1. Len(ptn) \in Nat /\ Len(src) \in Nat
  OBVIOUS
<1>2. n \in -1 .. i - 1 /\ (n >= 0 => i \in 1 .. Len(ptn) /\ IsBorder(ptn, i, n))
  <2>1. CASE i >= 1 /\ LongestBorder(ptn, i, n)
    <3>1. IsBorder(ptn, i, n)
      BY <2>1 DEF LongestBorder
    <3>2. n \in 0 .. i - 1
      BY <3>1 DEF IsBorder
    <3>. QED
      BY <1>1, <2>1, <3>1, <3>2
  <2>. QED
    BY <2>1
<1>3. ASSUME NEW k \in 1 .. n PROVE ptn[k] = src[j - n + k]
  <2>1. i \in 1 .. Len(ptn) /\ n \in 0 .. i - 1 /\ IsBorder(ptn, i, n)
    BY <1>2
  <2>2. ptn[k] = ptn[i - n + k]
    BY <2>1, BorderIff
  <2>3. i - n + k \in 1 .. i /\ j - i + (i - n + k) = j - n + k
    <3>1. n \in Int /\ i \in Int /\ j \in Int /\ k \in Int /\ 1 <= k /\ k <= n /\ n <= i - 1
      BY <2>1
    <3>2. \A a, b, c, d \in Int : 1 <= d /\ d <= c /\ c <= a - 1 =>
            1 <= a - c + d /\ a - c + d <= a /\ b - a + (a - c + d) = b - c + d /\ a - c + d \in Int
      OBVIOUS
    <3>. QED
      BY <3>1, <3>2
  <2>. QED
    BY <2>2, <2>3
<1>4. ASSUME NEW p \in j - i .. j - n - 1, OccursAt(src, ptn, p) PROVE FALSE
  <2>1. p \in Nat
    BY <1>2
  <2>2. \A k \in 1 .. Len(ptn) : src[p + k] = ptn[k]
    BY <1>4, <2>1, OccursIff
  <2>3. CASE p = j - i
    <3>1. i + 1 \in 1 .. Len(ptn) /\ p + (i + 1) = j + 1
      BY <1>1, <2>3
    <3>. QED
      BY <2>2, <3>1
  <2>4. CASE p # j - i
    <3>0. i >= 1 /\ LongestBorder(ptn, i, n)
      BY <1>2, <2>4
    <3>1. i \in 1 .. Len(ptn) /\ j - p \in 0 .. i - 1 /\ j - p > n
      BY <1>1, <1>2, <2>4, <3>0
    <3>2. ASSUME NEW k \in 1 .. j - p PROVE ptn[k] = ptn[i - (j - p) + k]
      <4>1. k \in 1 .. Len(ptn) /\ i - (j - p) + k \in 1 .. i
        BY <1>1, <2>1, <3>0, <3>1, SMTT(30)
      <4>2. j - i + (i - (j - p) + k) = p + k
        BY <3>1
      <4>. QED
        BY <2>2, <4>1, <4>2
    <3>3. IsBorder(ptn, i, j - p)
      BY <3>1, <3>2, BorderIff
    <3>4. j - p <= n
      BY <3>0, <3>1, <3>3 DEF LongestBorder
    <3>. QED
      BY <1>2, <2>1, <3>1, <3>4
  <2>. QED
    BY <2>3, <2>4
<1>. QED
  BY <1>2, <1>3, <1>4

LEMMA KmpNextKeeps == KmpInv /\ [Next]_programVars => KmpInv'
<1>. SUFFICES ASSUME KmpInv, [Next]_programVars, job'.prog = "kmp"
              PROVE  KmpInv'
  BY DEF KmpInv
<1>1. CASE UNCHANGED programVars
  BY <1>1 DEF programVars, KmpInv, KmpTypeOK, FillInv, ScanInv, TableUpTo, FirstFound
<1>2. ASSUME KMPNext PROVE KmpInv'
  <2>1. job' = job /\ job.prog = "kmp"
    BY <1>2, OwnSteps
  <2>2. KmpTypeOK /\ (st.pc = "fill" => FillInv) /\ (st.pc = "scan" => ScanInv)
    BY <2>1 DEF KmpInv
  <2>3. /\ job.src \in Seq(Alphabet) /\ job.ptn \in Seq(Alphabet)
        /\ Len(job.ptn) \in Nat /\ Len(job.src) \in Nat
    BY <2>2 DEF KmpTypeOK
  <2>t. ASSUME st'.next \in [0 .. Len(job.ptn) - 1 -> Int] \/ st'.pc = "done",
               st'.i \in Int, st'.j \in Int,
               st' = [pc |-> st'.pc, i |-> st'.i, j |-> st'.j, next |-> st'.next, found |-> st'.found]
        PROVE  KmpTypeOK'
    BY <2>1, <2>3, <2>t DEF KmpTypeOK
  <2>4. CASE EmptyPattern
    <3>1. OccursAt(job.src, job.ptn, 0)
      <4>1. 0 \in Nat /\ Len(job.ptn) = 0 /\ 0 + Len(job.ptn) <= Len(job.src)
        BY <2>3, <2>4 DEF EmptyPattern
      <4>. QED
        BY <2>3, <4>1, OccursIff
    <3>2. st' = [st EXCEPT !.found = 0, !.pc = "done"]
      BY <2>4 DEF EmptyPattern, Found, Becomes
    <3>3. KmpTypeOK' /\ st'.found = 0 /\ st'.pc = "done"
      BY <2>1, <2>2, <2>3, <3>2 DEF KmpTypeOK
    <3>4. FirstFound'
      BY <2>1, <2>3, <3>1, <3>3 DEF FirstFound
    <3>. QED
      BY <3>3, <3>4 DEF KmpInv
  <2>5. CASE ShortText
    <3>1. ASSUME NEW p \in 0 .. Len(job.src) PROVE ~OccursAt(job.src, job.ptn, p)
      BY <2>3, <2>5, OccursIff DEF ShortText
    <3>. QED
      BY <2>1, <2>2, <2>3, <2>5, <3>1
         DEF ShortText, Found, KmpInv, KmpTypeOK, FirstFound, Becomes, At
  <2>6. CASE GetNext
    <3>1. st' = [st EXCEPT !.i = -1, !.j = 0, !.pc = "fill",
                           !.next = [k \in 0 .. Len(job.ptn) - 1 |-> IF k = 0 THEN -1 ELSE 0]]
      BY <2>6 DEF GetNext, Becomes
    <3>2. KmpTypeOK'
      <4>1. st' = [pc |-> "fill", i |-> -1, j |-> 0, found |-> st.found,
                   next |-> [k \in 0 .. Len(job.ptn) - 1 |-> IF k = 0 THEN -1 ELSE 0]]
        BY <2>2, <3>1 DEF KmpTypeOK
      <4>2. [k \in 0 .. Len(job.ptn) - 1 |-> IF k = 0 THEN -1 ELSE 0] \in [0 .. Len(job.ptn) - 1 -> Int]
        OBVIOUS
      <4>. QED
        BY <2>t, <4>1, <4>2
    <3>3. FillInv'
      BY <2>1, <2>2, <2>3, <2>6, <3>1 DEF FillInv, TableUpTo, KmpTypeOK, GetNext
    <3>. QED
      BY <2>1, <2>2, <3>1, <3>2, <3>3 DEF KmpInv, FirstFound, KmpTypeOK
  <2>u. st.pc = "undefined" => st.j = Len(job.ptn) - 1 /\ TableUpTo(job.ptn, st.next, st.j)
    BY <2>1 DEF KmpInv
  \* What is known at a turn of the loop of getNext.
  <2>f. ASSUME Filling
        PROVE  /\ FillInv /\ st.pc = "fill" /\ st.j < Len(job.ptn)
               /\ st.i \in Int /\ st.j \in Int /\ st.next \in [0 .. Len(job.ptn) - 1 -> Int]
               /\ st.j \in 0 .. Len(job.ptn) - 1 /\ st.i \in -1 .. st.j - 1
    <3>1. /\ FillInv /\ st.pc = "fill" /\ st.j < Len(job.ptn)
          /\ st.i \in Int /\ st.j \in Int /\ st.next \in [0 .. Len(job.ptn) - 1 -> Int]
      BY <2>2, <2>f DEF Filling, At, KmpTypeOK
    <3>. QED
      BY <2>3, <3>1 DEF FillInv
  \* A match, whatever becomes of the table beyond the cells known before.
  <2>m. ASSUME Filling, Continued, NEW next,
               next[0] = -1, \A k \in 1 .. st.j : next[k] = st.next[k],
               st.j + 1 < Len(job.ptn) => next[st.j + 1] = st.i + 1,
               job' = job, st'.i = st.i + 1, st'.j = st.j + 1, st'.next = next
        PROVE  FillInv'
    <3>1. job.ptn[st.i + 1] = job.ptn[st.j + 1] \/ st.i = -1
      BY <2>m DEF Continued, CharAt
    <3>2. LongestBorder(job.ptn, st.j + 1, st.i + 1)
      <4>1. st.i >= 0 => IsBorder(job.ptn, st.j, st.i) /\ job.ptn[st.i + 1] = job.ptn[st.j + 1]
        BY <2>f, <2>m, <3>1 DEF FillInv
      <4>2. st.j >= 1 => \A b \in st.i + 1 .. st.j - 1 : ~Continues(job.ptn, st.j, b)
        BY <2>f, <2>m DEF FillInv
      <4>. QED
        BY <2>3, <2>f, <2>m, <4>1, <4>2, FillMatches
    <3>3. TableUpTo(job.ptn, next, st.j + 1)
      <4>1. TableUpTo(job.ptn, st.next, st.j)
        BY <2>f, <2>m DEF FillInv
      <4>2. ASSUME NEW k \in 1 .. st.j + 1, k < Len(job.ptn)
            PROVE  LongestBorder(job.ptn, k, next[k])
        <5>1. CASE k = st.j + 1
          BY <2>m, <3>2, <4>2, <5>1
        <5>2. CASE k # st.j + 1
          <6>1. k \in 1 .. st.j
            BY <2>f, <2>m, <5>2
          <6>. QED
            BY <2>m, <4>1, <4>2, <6>1 DEF TableUpTo
        <5>. QED
          BY <5>1, <5>2
      <4>. QED
        BY <2>m, <4>2 DEF TableUpTo
    <3>4. IsBorder(job.ptn, st.j + 1, st.i + 1)
      BY <3>2 DEF LongestBorder
    <3>5. st.j + 1 \in 1 .. Len(job.ptn) - 1 =>
            \A b \in st.i + 2 .. st.j : ~Continues(job.ptn, st.j + 1, b)
      <4>1. ASSUME NEW b \in st.i + 2 .. st.j, Continues(job.ptn, st.j + 1, b) PROVE FALSE
        <5>1. b \in 0 .. (st.j + 1) - 1 /\ ~(b <= st.i + 1)
          BY <2>f, <2>m
        <5>. QED
          BY <3>2, <4>1, <5>1 DEF LongestBorder, Continues
      <4>. QED
        BY <4>1
    <3>6. job.ptn # <<>> /\ st.j + 1 \in 0 .. Len(job.ptn) /\ st.i + 1 \in -1 .. (st.j + 1) - 1
      BY <2>f, <2>m, SMTT(30) DEF FillInv
    <3>7. (st.i + 1) + 1 = st.i + 2 /\ (st.j + 1) - 1 = st.j
      BY <2>f, <2>m
    <3>. QED
      BY <2>m, <3>3, <3>4, <3>5, <3>6, <3>7 DEF FillInv
  <2>7. CASE Fill
    <3>0. Filling /\ Continued /\ st.j + 1 < Len(job.ptn)
      BY <2>7 DEF Fill
    <3>1. st' = [st EXCEPT !.i = @ + 1, !.j = @ + 1, !.next[st.j + 1] = st.i + 1]
      BY <2>7 DEF Fill, Becomes
    <3>2. st.j + 1 \in 0 .. Len(job.ptn) - 1
      BY <2>3, <2>f, <3>0
    <3>3. st' = [pc |-> "fill", i |-> st.i + 1, j |-> st.j + 1, found |-> st.found,
                 next |-> [st.next EXCEPT ![st.j + 1] = st.i + 1]]
      BY <2>2, <2>f, <3>0, <3>1 DEF KmpTypeOK
    <3>4. KmpTypeOK'
      <4>1. [st.next EXCEPT ![st.j + 1] = st.i + 1] \in [0 .. Len(job.ptn) - 1 -> Int]
        BY <2>f, <3>0, <3>2
      <4>. QED
        BY <2>t, <2>f, <3>0, <3>3, <4>1
    <3>5. /\ st'.i = st.i + 1 /\ st'.j = st.j + 1 /\ st'.pc = "fill"
          /\ st'.next[st.j + 1] = st.i + 1
          /\ \A k \in 0 .. st.j : st'.next[k] = st.next[k]
      BY <2>f, <3>0, <3>2, <3>3
    <3>6. st'.next[0] = -1 /\ \A k \in 1 .. st.j : st'.next[k] = st.next[k]
      <4>1. st.next[0] = -1
        BY <2>f, <3>0 DEF FillInv, TableUpTo
      <4>2. 0 \in 0 .. st.j /\ \A k \in 1 .. st.j : k \in 0 .. st.j
        BY <2>f, <3>0
      <4>. QED
        BY <3>5, <4>1, <4>2
    <3>7. FillInv'
      <4> DEFINE next == st'.next
      <4>1. /\ next[0] = -1 /\ \A k \in 1 .. st.j : next[k] = st.next[k]
            /\ next[st.j + 1] = st.i + 1 /\ st'.next = next
        BY <3>5, <3>6
      <4> HIDE DEF next
      <4>. QED
        BY <2>1, <2>m, <3>0, <3>5, <4>1
    <3>. QED
      BY <2>1, <3>4, <3>5, <3>7 DEF KmpInv, FirstFound
  <2>7a. CASE FillBehind
    <3>0. /\ Filling /\ Continued /\ st.j + 1 = Len(job.ptn)
          /\ TableUpTo(job.ptn, st.next, st.j)
      BY <2>7a, <2>f DEF FillBehind, FillInv
    <3>1. CASE st' = [st EXCEPT !.i = @ + 1, !.j = @ + 1]
      <4>1. st' = [pc |-> "fill", i |-> st.i + 1, j |-> st.j + 1, found |-> st.found, next |-> st.next]
        BY <2>2, <2>f, <3>0, <3>1 DEF KmpTypeOK
      <4>2. KmpTypeOK'
        BY <2>t, <2>f, <3>0, <4>1
      <4>3. FillInv'
        <5> DEFINE next == st.next
        <5>1. /\ next[0] = -1 /\ \A k \in 1 .. st.j : next[k] = st.next[k]
              /\ st'.next = next /\ st'.i = st.i + 1 /\ st'.j = st.j + 1
              /\ ~(st.j + 1 < Len(job.ptn))
          BY <2>3, <2>f, <3>0, <4>1 DEF TableUpTo
        <5> HIDE DEF next
        <5>. QED
          BY <2>1, <2>m, <3>0, <5>1
      <4>. QED
        BY <2>1, <4>1, <4>2, <4>3 DEF KmpInv, FirstFound
    <3>2. CASE st' = [st EXCEPT !.pc = "undefined"]
      <4>1. st' = [pc |-> "undefined", i |-> st.i, j |-> st.j, found |-> st.found, next |-> st.next]
        BY <2>2, <3>2 DEF KmpTypeOK
      <4>2. KmpTypeOK'
        BY <2>t, <2>f, <3>0, <4>1
      <4>3. st.j = Len(job.ptn) - 1
        BY <2>3, <2>f, <3>0
      <4>. QED
        BY <2>1, <3>0, <4>1, <4>2, <4>3 DEF KmpInv, FirstFound
    <3>. QED
      BY <2>7a, <3>1, <3>2 DEF FillBehind, Becomes
  <2>7b. CASE FallBack
    <3>0. Filling /\ ~Continued /\ st' = [st EXCEPT !.i = st.next[st.i]]
      BY <2>7b DEF FallBack, Becomes
    <3>1. st.i # -1 /\ job.ptn[st.i + 1] # job.ptn[st.j + 1]
      BY <3>0 DEF Continued, CharAt
    <3>2. st.i \in 0 .. st.j - 1 /\ st.j \in 1 .. Len(job.ptn) - 1 /\ st.i \in 0 .. Len(job.ptn) - 1
      BY <2>3, <2>f, <3>0, <3>1
    <3>3. \/ st.next[st.i] = -1 /\ st.i = 0
          \/ st.i >= 1 /\ LongestBorder(job.ptn, st.i, st.next[st.i])
      <4>1. TableUpTo(job.ptn, st.next, st.j)
        BY <2>f, <3>0 DEF FillInv
      <4>2. st.i = 0 \/ (st.i \in 1 .. st.j /\ st.i < Len(job.ptn) /\ st.i >= 1)
        BY <2>3, <3>2
      <4>. QED
        BY <4>1, <4>2 DEF TableUpTo
    <3>4. /\ st.next[st.i] \in -1 .. st.i - 1
          /\ st.next[st.i] >= 0 => IsBorder(job.ptn, st.j, st.next[st.i])
          /\ \A b \in st.next[st.i] + 1 .. st.j - 1 : ~Continues(job.ptn, st.j, b)
      <4>1. IsBorder(job.ptn, st.j, st.i)
        BY <2>f, <3>0, <3>2 DEF FillInv
      <4>2. \A b \in st.i + 1 .. st.j - 1 : ~Continues(job.ptn, st.j, b)
        BY <2>f, <3>0, <3>2 DEF FillInv
      <4> DEFINE n == st.next[st.i]
      <4>3. (n = -1 /\ st.i = 0) \/ (st.i >= 1 /\ LongestBorder(job.ptn, st.i, n))
        BY <3>3
      <4> HIDE DEF n
      <4>4. /\ n \in -1 .. st.i - 1
            /\ n >= 0 => IsBorder(job.ptn, st.j, n)
            /\ \A b \in n + 1 .. st.j - 1 : ~Continues(job.ptn, st.j, b)
        BY <2>3, <3>1, <3>2, <4>1, <4>2, <4>3, FillFallsBack
      <4>. QED
        BY <4>4 DEF n
    <3>5. KmpTypeOK' /\ st'.pc = "fill" /\ st'.i = st.next[st.i] /\ st'.j = st.j /\ st'.next = st.next
      BY <2>1, <2>2, <2>3, <2>f, <3>0, <3>2 DEF KmpTypeOK
    <3>6. FillInv'
      <4>1. job.ptn # <<>> /\ TableUpTo(job.ptn, st.next, st.j)
        BY <2>f, <3>0 DEF FillInv
      <4>2. st.j \in 0 .. Len(job.ptn) /\ st.next[st.i] \in -1 .. st.j - 1
        BY <2>3, <3>2, <3>4
      <4>. QED
        BY <2>1, <3>4, <3>5, <4>1, <4>2 DEF FillInv
    <3>. QED
      BY <2>1, <3>5, <3>6 DEF KmpInv, FirstFound
  <2>8. CASE Filled
    <3>1. FillInv /\ st.j = Len(job.ptn) /\ st' = [st EXCEPT !.i = 0, !.j = 0, !.pc = "scan"]
      BY <2>2, <2>3, <2>8 DEF Filled, FillInv, At, Becomes
    <3>2. KmpTypeOK' /\ st'.i = 0 /\ st'.j = 0 /\ st'.pc = "scan" /\ st'.next = st.next
      <4>1. st.pc = "fill" /\ st.next \in [0 .. Len(job.ptn) - 1 -> Int]
        BY <2>2, <2>8 DEF KmpTypeOK, Filled, At
      <4>2. st' = [pc |-> "scan", i |-> 0, j |-> 0, found |-> st.found, next |-> st.next]
        BY <2>2, <3>1 DEF KmpTypeOK
      <4>. QED
        BY <2>t, <4>1, <4>2
    <3>3. TableUpTo(job.ptn, st.next, Len(job.ptn)) /\ job.ptn # <<>>
      BY <3>1 DEF FillInv
    <3>4. ScanInv'
      BY <2>1, <2>3, <3>2, <3>3 DEF ScanInv
    <3>5. FirstFound'
      BY <2>1, <3>2, <3>3 DEF FirstFound
    <3>. QED
      BY <3>2, <3>4, <3>5 DEF KmpInv
  <2>9. CASE Scan
    <3>0. /\ ScanInv /\ st.pc = "scan" /\ st.i < Len(job.ptn) /\ st.j < Len(job.src)
          /\ st.i \in Int /\ st.j \in Int /\ st.next \in [0 .. Len(job.ptn) - 1 -> Int]
      BY <2>2, <2>9 DEF Scan, At, KmpTypeOK
    <3>0a. st.j \in 0 .. Len(job.src) - 1 /\ st.i \in -1 .. Len(job.ptn) - 1 /\ st.i <= st.j
      BY <2>3, <3>0 DEF ScanInv
    <3>0b. TableUpTo(job.ptn, st.next, Len(job.ptn)) /\ job.ptn # <<>>
      BY <3>0 DEF ScanInv
    <3>1. CASE st.i = -1 \/ job.ptn[st.i + 1] = job.src[st.j + 1]
      <4>1. st' = [st EXCEPT !.i = @ + 1, !.j = @ + 1]
        BY <2>9, <3>1 DEF Scan, CharAt, Becomes
      <4>2. KmpTypeOK' /\ st'.i = st.i + 1 /\ st'.j = st.j + 1 /\ st'.pc = "scan" /\ st'.next = st.next
        <5>1. st' = [pc |-> "scan", i |-> st.i + 1, j |-> st.j + 1, found |-> st.found, next |-> st.next]
          BY <2>2, <3>0, <4>1 DEF KmpTypeOK
        <5>. QED
          BY <2>t, <3>0, <5>1
      <4>3. ASSUME NEW k \in 1 .. st.i + 1
            PROVE job.ptn[k] = job.src[(st.j + 1) - (st.i + 1) + k]
        <5>1. CASE k = st.i + 1
          <6>1. (st.j + 1) - (st.i + 1) + k = st.j + 1 /\ st.i # -1
            BY <3>0, <5>1
          <6>. QED
            BY <3>1, <5>1, <6>1
        <5>2. CASE k # st.i + 1
          <6>1. st.i \in Int /\ st.j \in Int
            BY <3>0
          <6>2. k \in 1 .. st.i /\ (st.j + 1) - (st.i + 1) + k = st.j - st.i + k
            BY <5>2, <6>1, SMTT(30)
          <6>. QED
            BY <3>0, <6>2 DEF ScanInv
        <5>. QED
          BY <5>1, <5>2
      <4>4. (st.j + 1) - (st.i + 1) - 1 = st.j - st.i - 1
        BY <3>0
      <4>5. \A p \in 0 .. (st.j + 1) - (st.i + 1) - 1 : ~OccursAt(job.src, job.ptn, p)
        BY <3>0, <4>4 DEF ScanInv
      <4>6. /\ st.j + 1 \in 0 .. Len(job.src) /\ st.i + 1 \in -1 .. Len(job.ptn) /\ st.i + 1 <= st.j + 1
        BY <3>0a, SMTT(30)
      <4>7. ScanInv'
        BY <2>1, <3>0b, <4>2, <4>3, <4>5, <4>6 DEF ScanInv
      <4>. QED
        BY <2>1, <3>0b, <4>2, <4>7 DEF KmpInv, FirstFound
    <3>2. CASE ~(st.i = -1 \/ job.ptn[st.i + 1] = job.src[st.j + 1])
      <4>1. st' = [st EXCEPT !.i = st.next[st.i]]
        BY <2>9, <3>2 DEF Scan, CharAt, Becomes
      <4>2. st.i \in 0 .. Len(job.ptn) - 1 /\ st.i \in 0 .. Len(job.ptn)
        BY <2>3, <3>0a, <3>2
      <4>3. \/ st.next[st.i] = -1 /\ st.i = 0
            \/ st.i >= 1 /\ LongestBorder(job.ptn, st.i, st.next[st.i])
        BY <3>0b, <4>2 DEF TableUpTo
      <4>4. /\ st.next[st.i] \in -1 .. st.i - 1
            /\ \A k \in 1 .. st.next[st.i] : job.ptn[k] = job.src[st.j - st.next[st.i] + k]
            /\ \A p \in st.j - st.i .. st.j - st.next[st.i] - 1 : ~OccursAt(job.src, job.ptn, p)
        <5>1. \A k \in 1 .. st.i : job.ptn[k] = job.src[st.j - st.i + k]
          BY <3>0 DEF ScanInv
        <5>2. job.ptn[st.i + 1] # job.src[st.j + 1]
          BY <3>2
        <5>. QED
          BY <2>3, <3>0a, <4>2, <4>3, <5>1, <5>2, ScanFallsBack
      <4>5. KmpTypeOK' /\ st'.pc = "scan" /\ st'.i = st.next[st.i] /\ st'.j = st.j /\ st'.next = st.next
        BY <2>1, <2>2, <2>3, <3>0, <4>1, <4>2 DEF KmpTypeOK
      <4>6. ASSUME NEW p \in 0 .. st.j - st.next[st.i] - 1 PROVE ~OccursAt(job.src, job.ptn, p)
        <5>1. p \in 0 .. st.j - st.i - 1 \/ p \in st.j - st.i .. st.j - st.next[st.i] - 1
          BY <3>0, <4>4
        <5>. QED
          BY <3>0, <4>4, <5>1 DEF ScanInv
      <4>7. /\ st.j \in 0 .. Len(job.src) /\ st.next[st.i] \in -1 .. Len(job.ptn)
            /\ st.next[st.i] <= st.j
        BY <2>3, <3>0a, <4>2, <4>4
      <4>8. ScanInv'
        BY <2>1, <3>0b, <4>4, <4>5, <4>6, <4>7 DEF ScanInv
      <4>. QED
        BY <2>1, <3>0b, <4>5, <4>8 DEF KmpInv, FirstFound
    <3>. QED
      BY <3>1, <3>2
  <2>10. CASE Scanned
    <3>1. ScanInv /\ st.pc = "scan" /\ (st.i >= Len(job.ptn) \/ st.j >= Len(job.src))
      BY <2>2, <2>10 DEF Scanned, At
    <3>2. st' = [st EXCEPT !.found = IF st.i = Len(job.ptn) THEN st.j - Len(job.ptn) ELSE -1, !.pc = "done"]
      BY <2>10 DEF Scanned, Found, Becomes
    <3>3. st.i \in Int /\ st.j \in Int
      BY <2>2 DEF KmpTypeOK
    <3>4. /\ st.j \in 0 .. Len(job.src) /\ st.i \in -1 .. Len(job.ptn) /\ st.i <= st.j
          /\ \A k \in 1 .. st.i : job.ptn[k] = job.src[st.j - st.i + k]
          /\ \A p \in 0 .. st.j - st.i - 1 : ~OccursAt(job.src, job.ptn, p)
      BY <3>1 DEF ScanInv
    <3>5. KmpTypeOK' /\ st'.pc = "done"
      BY <2>1, <2>2, <2>3, <3>2, <3>3 DEF KmpTypeOK
    <3>6. CASE st.i = Len(job.ptn)
      <4>1. st'.found = st.j - Len(job.ptn) /\ st.j - Len(job.ptn) \in 0 .. Len(job.src)
        BY <2>2, <2>3, <3>2, <3>4, <3>6 DEF KmpTypeOK
      <4>2. OccursAt(job.src, job.ptn, st.j - Len(job.ptn))
        <5>1. /\ st.j - Len(job.ptn) \in Nat /\ st.j - Len(job.ptn) + Len(job.ptn) <= Len(job.src)
          BY <2>3, <3>4, <3>6
        <5>2. \A k \in 1 .. Len(job.ptn) : job.src[st.j - Len(job.ptn) + k] = job.ptn[k]
          BY <3>4, <3>6
        <5>. QED
          BY <2>3, <5>1, <5>2, OccursIff
      <4>3. ASSUME NEW p \in 0 .. Len(job.src), OccursAt(job.src, job.ptn, p)
            PROVE st.j - Len(job.ptn) <= p
        BY <2>3, <3>4, <3>6, <4>3
      <4>. QED
        BY <2>1, <3>5, <4>1, <4>2, <4>3 DEF KmpInv, FirstFound
    <3>7. CASE st.i # Len(job.ptn)
      <4>1. st'.found = -1
        BY <2>2, <3>2, <3>7 DEF KmpTypeOK
      <4>2. ASSUME NEW p \in 0 .. Len(job.src), OccursAt(job.src, job.ptn, p) PROVE FALSE
        <5>1. p + Len(job.ptn) <= Len(job.src)
          BY <2>3, <4>2, OccursIff
        <5>2. p \in 0 .. st.j - st.i - 1
          BY <2>3, <3>1, <3>3, <3>4, <3>7, <5>1, SMTT(30)
        <5>. QED
          BY <3>4, <4>2, <5>2
      <4>. QED
        BY <2>1, <3>5, <4>1, <4>2 DEF KmpInv, FirstFound
    <3>. QED
      BY <3>6, <3>7
  <2>. QED
    BY <1>2, <2>4, <2>5, <2>6, <2>7, <2>7a, <2>7b, <2>8, <2>9, <2>10 DEF KMPNext
<1>. QED
  BY <1>1, <1>2, OwnSteps DEF Next

\* KMP finds the first occurrence of any pattern in any text, and its table holds the
\* longest borders, unless the write of getNext past the vector makes the run undefined.
THEOREM KmpIsRight == Spec => []KmpFindsFirst
<1>1. Init => KmpInv
  BY KmpInit
<1>2. KmpInv /\ [Next]_programVars => KmpInv'
  BY KmpNextKeeps
<1>3. KmpInv => KmpFindsFirst
  <2>. SUFFICES ASSUME KmpInv, job.prog = "kmp" PROVE KmpFindsFirst
    BY DEF KmpFindsFirst, At
  <2>1. Len(job.ptn) \in Nat
    BY DEF KmpInv, KmpTypeOK
  <2>2. st.pc \in {"scan", "undefined"} =>
          \A j \in 1 .. Len(job.ptn) - 1 : LongestBorder(job.ptn, j, st.next[j])
    BY <2>1, SMTT(30) DEF KmpInv, ScanInv, TableUpTo
  <2>3. st.pc \in {"fill", "scan"} => DOMAIN st.next = 0 .. Len(job.ptn) - 1
    BY DEF KmpInv, KmpTypeOK
  <2>4. st.pc = "fill" => st.i \in -1 .. Len(job.ptn) - 1
    BY <2>1 DEF KmpInv, FillInv
  <2>5. st.pc = "scan" => st.i \in -1 .. Len(job.ptn)
    BY <2>1 DEF KmpInv, ScanInv
  <2>6. st.pc = "fill" => st.i \in DOMAIN st.next \union {-1}
    BY <2>1, <2>3, <2>4
  <2>7. st.pc = "scan" => st.i \in DOMAIN st.next \union {-1, Len(job.ptn)}
    BY <2>1, <2>3, <2>5
  <2>. QED
    BY <2>2, <2>6, <2>7 DEF KmpInv, FirstFound, KmpFindsFirst, At
<1>. QED
  BY <1>1, <1>2, <1>3, PTL DEF Spec

-------------------------------------------------------------------------------
(* Qsort.                                                                   *)

\* nums are the elements of old in some order.
Order(p, D) == /\ p \in [D -> D]
               /\ \A a, b \in D : p[a] = p[b] => a = b
               /\ \A a \in D : \E b \in D : p[b] = a
Rearranges(nums, old) ==
  \E p : Order(p, DOMAIN old) /\ \A a \in DOMAIN old : nums[a] = old[p[a]]

LEMMA SwapRearranges ==
  ASSUME NEW old, NEW nums \in [DOMAIN old -> Int], Rearranges(nums, old),
         NEW i \in DOMAIN old, NEW j \in DOMAIN old
  PROVE  Rearranges(Swapped(nums, i, j), old)
<1> DEFINE D == DOMAIN old
<1>1. PICK p : Order(p, D) /\ \A a \in D : nums[a] = old[p[a]]
  BY DEF Rearranges
<1> DEFINE q == Swapped(p, i, j)
<1> HIDE DEF D, q
<1>2. /\ p \in [D -> D] /\ i \in D /\ j \in D /\ nums \in [D -> Int]
      /\ \A a, b \in D : p[a] = p[b] => a = b
      /\ \A a \in D : \E b \in D : p[b] = a
  BY <1>1 DEF Order, D
<1>3. /\ q \in [D -> D] /\ q[i] = p[j] /\ q[j] = p[i]
      /\ \A a \in D : a # i /\ a # j => q[a] = p[a]
  BY <1>2 DEF q, Swapped
<1>4. /\ Swapped(nums, i, j)[i] = nums[j] /\ Swapped(nums, i, j)[j] = nums[i]
      /\ \A a \in D : a # i /\ a # j => Swapped(nums, i, j)[a] = nums[a]
  BY <1>2 DEF Swapped
<1>5. ASSUME NEW a \in D PROVE Swapped(nums, i, j)[a] = old[q[a]]
  <2>1. CASE a = i
    BY <1>1, <1>2, <1>3, <1>4, <2>1
  <2>2. CASE a = j
    BY <1>1, <1>2, <1>3, <1>4, <2>2
  <2>3. CASE a # i /\ a # j
    BY <1>1, <1>3, <1>4, <2>3
  <2>. QED
    BY <2>1, <2>2, <2>3
<1>6. \A a, b \in D : q[a] = q[b] => a = b
  BY <1>2, <1>3
<1>7. ASSUME NEW a \in D PROVE \E b \in D : q[b] = a
  <2>1. PICK b \in D : p[b] = a
    BY <1>2
  <2>2. CASE b = i
    BY <1>2, <1>3, <2>1, <2>2
  <2>3. CASE b = j
    BY <1>2, <1>3, <2>1, <2>3
  <2>4. CASE b # i /\ b # j
    BY <1>3, <2>1, <2>4
  <2>. QED
    BY <2>2, <2>3, <2>4
<1>8. Order(q, D)
  BY <1>3, <1>6, <1>7 DEF Order
<1>. QED
  BY <1>5, <1>8 DEF Rearranges, D

\* As many of each element, therefore.
Count(nums, n, v) == Cardinality({a \in 0 .. n - 1 : nums[a] = v})

LEMMA RearrangedCounts ==
  ASSUME NEW n \in Nat, NEW old, DOMAIN old = 0 .. n - 1, NEW nums, Rearranges(nums, old), NEW v
  PROVE  Count(nums, n, v) = Count(old, n, v)
<1> DEFINE D == 0 .. n - 1
           S == {a \in D : nums[a] = v}
           T == {a \in D : old[a] = v}
<1>1. PICK p : Order(p, D) /\ \A a \in D : nums[a] = old[p[a]]
  BY DEF Rearranges
<1>2. IsFiniteSet(S)
  <2>1. IsFiniteSet(D) /\ S \subseteq D
    BY FS_Interval
  <2>. QED
    BY <2>1, FS_Subset
<1> HIDE DEF D
<1>3. /\ p \in [D -> D] /\ \A a, b \in D : p[a] = p[b] => a = b
      /\ \A a \in D : \E b \in D : p[b] = a
  BY <1>1 DEF Order
<1> DEFINE q == [a \in S |-> p[a]]
<1>4. q \in [S -> T]
  <2>1. \A a \in S : p[a] \in T
    BY <1>1, <1>3
  <2>. QED
    BY <2>1
<1>5. \A a, b \in S : q[a] = q[b] => a = b
  BY <1>3
<1>6. ASSUME NEW t \in T PROVE \E a \in S : q[a] = t
  <2>1. PICK a \in D : p[a] = t
    BY <1>3
  <2>2. a \in S
    BY <1>1, <2>1
  <2>. QED
    BY <2>1, <2>2
<1> HIDE DEF q, S, T
<1>7. q \in Bijection(S, T)
  BY <1>4, <1>5, <1>6 DEF Bijection, Injection, IsInjective, Surjection
<1>8. ExistsBijection(S, T)
  BY <1>7 DEF ExistsBijection
<1>9. Cardinality(T) = Cardinality(S)
  BY <1>2, <1>8, FS_Bijection
<1>. QED
  BY <1>9 DEF S, T, D, Count

\* What is not in order yet is in one call that is still to be made.
Places(c) == c.s .. c.e
Apart(calls) ==
  \A m, n \in 1 .. Len(calls) : \A a \in Places(calls[m]) : a \in Places(calls[n]) => m = n
Between(nums, calls) ==
  \A a, b \in DOMAIN nums : a < b =>
    \/ nums[a] <= nums[b]
    \/ \E m \in 1 .. Len(calls) : a \in Places(calls[m]) /\ b \in Places(calls[m])

CallsType == [s : Int, e : Int]

LEMMA SwapBetween ==
  ASSUME NEW n \in Nat, NEW nums \in [0 .. n - 1 -> Int], NEW calls \in Seq(CallsType), calls # <<>>,
         Apart(calls), Between(nums, calls),
         NEW i \in 0 .. n - 1, NEW j \in 0 .. n - 1, i \in Places(calls[1]), j \in Places(calls[1])
  PROVE  Between(Swapped(nums, i, j), calls)
<1> DEFINE D == 0 .. n - 1
           swapped == Swapped(nums, i, j)
<1>0. 1 \in 1 .. Len(calls) /\ calls[1].s \in Int /\ calls[1].e \in Int
  <2>1. 1 \in 1 .. Len(calls)
    BY EmptySeq
  <2>2. calls[1] \in CallsType
    BY <2>1
  <2>. QED
    BY <2>1, <2>2 DEF CallsType
<1>a. ASSUME NEW x \in D, NEW y \in D, NEW z \in D,
             x \in Places(calls[1]), z \in Places(calls[1]), y \notin Places(calls[1])
      PROVE  (x < y => z < y) /\ (y < x => y < z)
  <2> DEFINE s == calls[1].s
             e == calls[1].e
  <2>1. s \in Int /\ e \in Int /\ x \in s .. e /\ z \in s .. e /\ y \notin s .. e
    BY <1>0, <1>a DEF Places
  <2> HIDE DEF s, e
  <2>2. x \in Int /\ y \in Int /\ z \in Int
    OBVIOUS
  <2>3. s <= x /\ x <= e /\ s <= z /\ z <= e /\ (y < s \/ e < y)
    BY <2>1, <2>2
  <2>. QED
    BY <2>1, <2>2, <2>3
<1>1. /\ swapped \in [D -> Int] /\ swapped[i] = nums[j] /\ swapped[j] = nums[i]
      /\ \A a \in D : a # i /\ a # j => swapped[a] = nums[a]
  BY DEF Swapped
<1> HIDE DEF swapped
<1>2. \A a \in D : a \notin Places(calls[1]) => swapped[a] = nums[a]
  BY <1>1
<1>3. \A a \in D : a \in Places(calls[1]) => \E c \in D : c \in Places(calls[1]) /\ swapped[a] = nums[c]
  BY <1>1
<1>4. ASSUME NEW a \in D, NEW b \in D, a < b, a \notin Places(calls[1]) \/ b \notin Places(calls[1])
      PROVE  \/ swapped[a] <= swapped[b]
             \/ \E m \in 1 .. Len(calls) : a \in Places(calls[m]) /\ b \in Places(calls[m])
  <2>1. CASE a \notin Places(calls[1]) /\ b \notin Places(calls[1])
    <3>1. swapped[a] = nums[a] /\ swapped[b] = nums[b]
      BY <1>2, <2>1
    <3>. QED
      BY <1>4, <3>1 DEF Between
  <2>2. CASE a \in Places(calls[1]) /\ b \notin Places(calls[1])
    <3>1. PICK c \in D : c \in Places(calls[1]) /\ swapped[a] = nums[c]
      BY <1>3, <2>2
    <3>2. c < b
      BY <1>a, <1>4, <2>2, <3>1
    <3>3. ~ \E m \in 1 .. Len(calls) : c \in Places(calls[m]) /\ b \in Places(calls[m])
      BY <1>0, <2>2, <3>1 DEF Apart
    <3>4. nums[c] <= nums[b]
      BY <3>2, <3>3 DEF Between
    <3>. QED
      BY <1>2, <2>2, <3>1, <3>4
  <2>3. CASE a \notin Places(calls[1]) /\ b \in Places(calls[1])
    <3>1. PICK c \in D : c \in Places(calls[1]) /\ swapped[b] = nums[c]
      BY <1>3, <2>3
    <3>2. a < c
      BY <1>a, <1>4, <2>3, <3>1
    <3>3. ~ \E m \in 1 .. Len(calls) : a \in Places(calls[m]) /\ c \in Places(calls[m])
      BY <1>0, <2>3, <3>1 DEF Apart
    <3>4. nums[a] <= nums[c]
      BY <3>2, <3>3 DEF Between
    <3>. QED
      BY <1>2, <2>3, <3>1, <3>4
  <2>. QED
    BY <1>4, <2>1, <2>2, <2>3
<1>5. DOMAIN swapped = D
  BY <1>1
<1>6. Between(swapped, calls)
  BY <1>0, <1>4, <1>5 DEF Between
<1>. QED
  BY <1>6 DEF swapped

QsortTypeOK ==
  /\ \E n \in Nat : job.nums \in [0 .. n - 1 -> Int] /\ st.nums \in [0 .. n - 1 -> Int]
  /\ st = [pc |-> st.pc, nums |-> st.nums, calls |-> st.calls, pivot |-> st.pivot,
           i |-> st.i, j |-> st.j, k |-> st.k]
  /\ st.calls \in Seq(CallsType) /\ st.pivot \in Int
  /\ st.i \in Int /\ st.j \in Int /\ st.k \in Int

\* The partition: less than the pivot before i, equal to it before j, greater behind k; and
\* the pivot is one of those between i and k.
HasPivot(nums, pivot, i, k) == \E m \in i .. k : nums[m] = pivot
PartitionInv ==
  LET c == st.calls[1] IN
  /\ st.calls # <<>> /\ c.s + 1 < c.e
  /\ c.s <= st.i /\ st.i <= st.j /\ st.j <= st.k + 1 /\ st.k <= c.e
  /\ \A a \in c.s .. st.i - 1 : st.nums[a] < st.pivot
  /\ \A a \in st.i .. st.j - 1 : st.nums[a] = st.pivot
  /\ \A a \in st.k + 1 .. c.e : st.nums[a] > st.pivot
  /\ HasPivot(st.nums, st.pivot, st.i, st.k)

QsortInv == job.prog = "qsort" =>
  /\ QsortTypeOK
  /\ \A m \in 1 .. Len(st.calls) : Places(st.calls[m]) \subseteq DOMAIN job.nums
  /\ Apart(st.calls) /\ Between(st.nums, st.calls) /\ Rearranges(st.nums, job.nums)
  /\ st.pc = "partition" => PartitionInv
  /\ st.pc = "done" => st.calls = <<>>

LEMMA QsortInit == Init => QsortInv
<1>1. ASSUME NEW list \in Arrays, SortArray(list)
      PROVE  QsortInv
  <2> DEFINE n == Len(list)
             D == 0 .. n - 1
  <2>1. list \in Seq(Int) /\ n \in Nat
    BY ArrayAssumption
  <2>2. /\ job.nums = [a \in D |-> list[a + 1]] /\ st.nums = job.nums /\ st.pc = "call"
        /\ st.calls = <<Call(0, n - 1)>> /\ st.pivot = 0 /\ st.i = 0 /\ st.j = 0 /\ st.k = 0
        /\ st = [pc |-> st.pc, nums |-> st.nums, calls |-> st.calls, pivot |-> st.pivot,
                 i |-> st.i, j |-> st.j, k |-> st.k]
    BY <1>1 DEF SortArray
  <2>3. job.nums \in [D -> Int]
    <3>1. ASSUME NEW a \in D PROVE list[a + 1] \in Int
      <4>1. a + 1 \in 1 .. Len(list)
        BY <2>1
      <4>. QED
        BY <2>1, <4>1
    <3> HIDE DEF D
    <3>. QED
      BY <2>2, <3>1
  <2>4. Call(0, n - 1) \in CallsType /\ Call(0, n - 1).s = 0 /\ Call(0, n - 1).e = n - 1
    BY <2>1 DEF Call, CallsType
  <2>5. st.calls \in Seq(CallsType) /\ Len(st.calls) = 1 /\ st.calls[1] = Call(0, n - 1)
    <3> DEFINE c == Call(0, n - 1)
    <3> HIDE DEF c
    <3>1. c \in CallsType /\ st.calls = <<c>>
      BY <2>2, <2>4 DEF c
    <3>2. <<c>> \in Seq(CallsType) /\ Len(<<c>>) = 1 /\ <<c>>[1] = c
      BY <3>1
    <3>. QED
      BY <3>1, <3>2 DEF c
  <2>6. Places(st.calls[1]) = D
    BY <2>4, <2>5 DEF Places
  <2>7. QsortTypeOK
    BY <2>1, <2>2, <2>3, <2>5 DEF QsortTypeOK
  <2>8. Apart(st.calls) /\ Between(st.nums, st.calls)
    <3> HIDE DEF D
    <3>1. DOMAIN st.nums = D /\ 1 \in 1 .. Len(st.calls) /\ \A m \in 1 .. Len(st.calls) : m = 1
      BY <2>2, <2>3, <2>5
    <3>. QED
      BY <2>6, <3>1 DEF Apart, Between
  <2>9. Rearranges(st.nums, job.nums)
    <3> HIDE DEF D
    <3>1. Order([a \in D |-> a], D)
      BY DEF Order
    <3>2. DOMAIN job.nums = D
      BY <2>3
    <3>3. \A a \in D : job.nums[a] = job.nums[[b \in D |-> b][a]]
      OBVIOUS
    <3>. QED
      BY <2>2, <3>1, <3>2, <3>3 DEF Rearranges
  <2>10. \A m \in 1 .. Len(st.calls) : Places(st.calls[m]) \subseteq DOMAIN job.nums
    <3> HIDE DEF D
    <3>1. DOMAIN job.nums = D /\ \A m \in 1 .. Len(st.calls) : m = 1
      BY <2>3, <2>5
    <3>. QED
      BY <2>6, <3>1
  <2>. QED
    BY <2>2, <2>7, <2>8, <2>9, <2>10 DEF QsortInv
<1>. QED
  BY <1>1, OwnInputs DEF QsortInv

LEMMA QsortNextKeeps == QsortInv /\ [Next]_programVars => QsortInv'
<1>. SUFFICES ASSUME QsortInv, [Next]_programVars, job'.prog = "qsort"
              PROVE  QsortInv'
  BY DEF QsortInv
<1>1. CASE UNCHANGED programVars
  BY <1>1 DEF programVars, QsortInv, QsortTypeOK, PartitionInv
<1>2. ASSUME QsortNext PROVE QsortInv'
  <2>1. job' = job /\ job.prog = "qsort"
    BY <1>2, OwnSteps
  <2>2. PICK n \in Nat : job.nums \in [0 .. n - 1 -> Int] /\ st.nums \in [0 .. n - 1 -> Int]
    BY <2>1 DEF QsortInv, QsortTypeOK
  <2> DEFINE D == 0 .. n - 1
  <2>3. /\ st = [pc |-> st.pc, nums |-> st.nums, calls |-> st.calls, pivot |-> st.pivot,
                 i |-> st.i, j |-> st.j, k |-> st.k]
        /\ st.calls \in Seq(CallsType) /\ st.pivot \in Int
        /\ st.i \in Int /\ st.j \in Int /\ st.k \in Int
        /\ DOMAIN job.nums = D /\ DOMAIN st.nums = D
    BY <2>1, <2>2 DEF QsortInv, QsortTypeOK
  <2>4. /\ \A m \in 1 .. Len(st.calls) : Places(st.calls[m]) \subseteq D
        /\ Apart(st.calls) /\ Between(st.nums, st.calls) /\ Rearranges(st.nums, job.nums)
        /\ st.pc = "partition" => PartitionInv
    BY <2>1, <2>3 DEF QsortInv
  <2>5. ASSUME st.calls # <<>>
        PROVE  /\ Cur = st.calls[1] /\ Cur \in CallsType /\ Cur.s \in Int /\ Cur.e \in Int
               /\ 1 \in 1 .. Len(st.calls) /\ Len(st.calls) \in Nat
               /\ Tail(st.calls) \in Seq(CallsType) /\ Len(Tail(st.calls)) = Len(st.calls) - 1
               /\ \A m \in 1 .. Len(st.calls) - 1 : Tail(st.calls)[m] = st.calls[m + 1]
               /\ Places(Cur) = Cur.s .. Cur.e /\ Places(Cur) \subseteq D
    <3>1. Cur = st.calls[1] /\ 1 \in 1 .. Len(st.calls) /\ Len(st.calls) \in Nat
      BY <2>3, <2>5, EmptySeq DEF Cur
    <3>2. Cur \in CallsType
      BY <2>3, <3>1
    <3>3. /\ Tail(st.calls) \in Seq(CallsType) /\ Len(Tail(st.calls)) = Len(st.calls) - 1
          /\ \A m \in 1 .. Len(Tail(st.calls)) : Tail(st.calls)[m] = st.calls[m + 1]
      BY <2>3, <2>5, HeadTailProperties
    <3>4. Cur.s \in Int /\ Cur.e \in Int
      BY <3>2 DEF CallsType
    <3>. QED
      BY <2>4, <3>1, <3>2, <3>3, <3>4 DEF Places
  <2> HIDE DEF D
  <2>6. ASSUME st.calls # <<>>, NEW p \in Places(Cur), NEW q \in Places(Cur)
        PROVE  /\ Swapped(st.nums, p, q) \in [D -> Int]
               /\ Between(Swapped(st.nums, p, q), st.calls) /\ Rearranges(Swapped(st.nums, p, q), job.nums)
               /\ Swapped(st.nums, p, q)[p] = st.nums[q] /\ Swapped(st.nums, p, q)[q] = st.nums[p]
               /\ \A a \in D : a # p /\ a # q => Swapped(st.nums, p, q)[a] = st.nums[a]
    <3>1. p \in D /\ q \in D /\ p \in Places(st.calls[1]) /\ q \in Places(st.calls[1])
      BY <2>5, <2>6
    <3>2. Between(Swapped(st.nums, p, q), st.calls)
      BY <2>2, <2>3, <2>4, <2>6, <3>1, SwapBetween DEF D
    <3>3. Rearranges(Swapped(st.nums, p, q), job.nums)
      BY <2>2, <2>3, <2>4, <3>1, SwapRearranges DEF D
    <3>. QED
      BY <2>2, <3>1, <3>2, <3>3 DEF Swapped, D
  <2>7. CASE SortFew
    <3> DEFINE nums == IF Cur.s + 1 = Cur.e /\ st.nums[Cur.s] > st.nums[Cur.e]
                       THEN Swapped(st.nums, Cur.s, Cur.e) ELSE st.nums
               calls == Tail(st.calls)
    <3>1. /\ st.pc = "call" /\ st.calls # <<>> /\ Cur.s + 1 >= Cur.e
          /\ st' = [st EXCEPT !.calls = calls, !.nums = nums]
      BY <2>7 DEF SortFew, At, Becomes
    <3>2. /\ nums \in [D -> Int] /\ Between(nums, st.calls) /\ Rearranges(nums, job.nums)
          /\ \A a, b \in D : a < b /\ a \in Places(Cur) /\ b \in Places(Cur) => nums[a] <= nums[b]
      <4>1. CASE Cur.s + 1 = Cur.e
        <5>1. Cur.s \in Places(Cur) /\ Cur.e \in Places(Cur) /\ Cur.s \in D /\ Cur.e \in D /\ Cur.s # Cur.e
          BY <2>5, <3>1, <4>1
        <5>2. \A a, b \in Places(Cur) : a < b => a = Cur.s /\ b = Cur.e
          BY <2>5, <3>1, <4>1
        <5>3. CASE st.nums[Cur.s] > st.nums[Cur.e]
          <6>1. nums = Swapped(st.nums, Cur.s, Cur.e)
            BY <4>1, <5>3
          <6>2. /\ nums \in [D -> Int] /\ Between(nums, st.calls) /\ Rearranges(nums, job.nums)
                /\ nums[Cur.s] = st.nums[Cur.e] /\ nums[Cur.e] = st.nums[Cur.s]
            BY <2>6, <3>1, <5>1, <6>1
          <6>3. nums[Cur.s] <= nums[Cur.e]
            <7>1. st.nums[Cur.s] \in Int /\ st.nums[Cur.e] \in Int
              BY <2>2, <5>1 DEF D
            <7>2. st.nums[Cur.e] <= st.nums[Cur.s]
              BY <5>3, <7>1
            <7> HIDE DEF nums
            <7>. QED
              BY <6>2, <7>2
          <6> HIDE DEF nums
          <6>. QED
            BY <5>2, <6>2, <6>3
        <5>4. CASE ~(st.nums[Cur.s] > st.nums[Cur.e])
          <6>1. nums = st.nums
            BY <5>4
          <6>2. st.nums[Cur.s] <= st.nums[Cur.e]
            BY <2>2, <5>1, <5>4, SMTT(30) DEF D
          <6>. QED
            BY <2>2, <2>4, <5>2, <6>1, <6>2 DEF D
        <5>. QED
          BY <5>3, <5>4
      <4>2. CASE Cur.s + 1 # Cur.e
        <5>1. nums = st.nums /\ Cur.s >= Cur.e
          BY <2>5, <3>1, <4>2
        <5>2. \A a, b \in Places(Cur) : ~(a < b)
          BY <2>5, <3>1, <5>1
        <5>. QED
          BY <2>2, <2>4, <5>1, <5>2 DEF D
      <4>. QED
        BY <4>1, <4>2
    <3> HIDE DEF nums
    <3>3. st' = [pc |-> "call", nums |-> nums, calls |-> calls, pivot |-> st.pivot,
                 i |-> st.i, j |-> st.j, k |-> st.k]
      BY <2>3, <3>1
    <3>4. \A m \in 1 .. Len(calls) : m + 1 \in 1 .. Len(st.calls) /\ calls[m] = st.calls[m + 1]
      BY <2>5, <3>1
    <3>5. \A m \in 1 .. Len(calls) : Places(calls[m]) \subseteq D
      BY <2>4, <3>4
    <3>6. Apart(calls)
      <4>1. ASSUME NEW l \in 1 .. Len(calls), NEW m \in 1 .. Len(calls), NEW a,
                   a \in Places(calls[l]), a \in Places(calls[m])
            PROVE  l = m
        <5>1. l + 1 = m + 1
          BY <2>4, <3>4, <4>1 DEF Apart
        <5>. QED
          BY <5>1
      <4>. QED
        BY <4>1 DEF Apart
    <3>7. Between(nums, calls)
      <4>1. ASSUME NEW a \in D, NEW b \in D, a < b, ~(nums[a] <= nums[b])
            PROVE  \E m \in 1 .. Len(calls) : a \in Places(calls[m]) /\ b \in Places(calls[m])
        <5>1. PICK m \in 1 .. Len(st.calls) : a \in Places(st.calls[m]) /\ b \in Places(st.calls[m])
          BY <3>2, <4>1 DEF Between
        <5>2. m # 1
          BY <2>5, <3>1, <3>2, <4>1, <5>1
        <5>3. m - 1 \in 1 .. Len(calls) /\ (m - 1) + 1 = m
          BY <2>5, <3>1, <5>2
        <5>. QED
          BY <3>4, <5>1, <5>3
      <4>. QED
        BY <3>2, <4>1 DEF Between
    <3>8. QsortTypeOK'
      BY <2>1, <2>2, <2>3, <2>5, <3>1, <3>2, <3>3 DEF QsortTypeOK, D
    <3>. QED
      BY <2>1, <2>3, <3>2, <3>3, <3>5, <3>6, <3>7, <3>8 DEF QsortInv
  <2>8. CASE ChoosePivot
    <3> DEFINE pivot == PivotOf(st.nums, Cur.s, Cur.e)
    <3>1. /\ st.pc = "call" /\ st.calls # <<>> /\ Cur.s + 1 < Cur.e
          /\ st' = [st EXCEPT !.pivot = pivot, !.i = Cur.s, !.j = Cur.s, !.k = Cur.e, !.pc = "partition"]
      BY <2>8 DEF ChoosePivot, At, Becomes
    <3>2. pivot \in Int /\ HasPivot(st.nums, pivot, Cur.s, Cur.e)
      <4>1. (Cur.e + Cur.s) \div 2 \in Cur.s .. Cur.e
        BY <2>5, <3>1
      <4>2. (Cur.e + Cur.s) \div 2 \in D /\ Cur.e \in D
        BY <2>5, <3>1, <4>1
      <4>3. st.nums[(Cur.e + Cur.s) \div 2] \in Int /\ st.nums[Cur.e] \in Int
        BY <2>2, <4>2 DEF D
      <4>4. pivot \in {st.nums[(Cur.e + Cur.s) \div 2], st.nums[Cur.e]}
        BY <4>3 DEF PivotOf, MaxOf, MinOf
      <4>5. Cur.e \in Cur.s .. Cur.e
        BY <2>5, <3>1
      <4>. QED
        BY <4>1, <4>3, <4>4, <4>5 DEF HasPivot
    <3> HIDE DEF pivot
    <3>3. st' = [pc |-> "partition", nums |-> st.nums, calls |-> st.calls, pivot |-> pivot,
                 i |-> Cur.s, j |-> Cur.s, k |-> Cur.e]
      BY <2>3, <3>1
    <3>4. QsortTypeOK'
      BY <2>1, <2>2, <2>3, <2>5, <3>1, <3>2, <3>3 DEF QsortTypeOK
    <3>5. PartitionInv'
      BY <2>5, <3>1, <3>2, <3>3 DEF PartitionInv
    <3>. QED
      BY <2>1, <2>3, <2>4, <3>3, <3>4, <3>5 DEF QsortInv
  <2>9. ASSUME st.pc = "partition"
        PROVE  /\ st.calls # <<>> /\ Cur.s + 1 < Cur.e
               /\ Cur.s <= st.i /\ st.i <= st.j /\ st.j <= st.k + 1 /\ st.k <= Cur.e
               /\ \A a \in Cur.s .. st.i - 1 : st.nums[a] < st.pivot
               /\ \A a \in st.i .. st.j - 1 : st.nums[a] = st.pivot
               /\ \A a \in st.k + 1 .. Cur.e : st.nums[a] > st.pivot
               /\ HasPivot(st.nums, st.pivot, st.i, st.k)
    <3>1. PartitionInv /\ st.calls # <<>>
      BY <2>4, <2>9 DEF PartitionInv
    <3>2. Cur = st.calls[1]
      BY <2>5, <3>1
    <3>. QED
      BY <3>1, <3>2 DEF PartitionInv
  <2>10. CASE PartitionLess
    <3> DEFINE nums == Swapped(st.nums, st.i, st.j)
    <3>1. /\ st.pc = "partition" /\ st.j <= st.k /\ st.nums[st.j] < st.pivot
          /\ st' = [st EXCEPT !.nums = nums, !.i = @ + 1, !.j = @ + 1]
      BY <2>10 DEF PartitionLess, At, Becomes
    <3>2. /\ st.i \in Places(Cur) /\ st.j \in Places(Cur) /\ st.calls # <<>>
          /\ \A a \in Cur.s .. Cur.e : a \in D
      BY <2>3, <2>5, <2>9, <3>1
    <3>3. /\ nums \in [D -> Int] /\ Between(nums, st.calls) /\ Rearranges(nums, job.nums)
          /\ nums[st.i] = st.nums[st.j] /\ nums[st.j] = st.nums[st.i]
          /\ \A a \in D : a # st.i /\ a # st.j => nums[a] = st.nums[a]
      BY <2>6, <3>2
    <3> HIDE DEF nums
    <3>4. st' = [pc |-> "partition", nums |-> nums, calls |-> st.calls, pivot |-> st.pivot,
                 i |-> st.i + 1, j |-> st.j + 1, k |-> st.k]
      BY <2>3, <3>1
    <3>5. QsortTypeOK'
      <4>1. job'.nums \in [0 .. n - 1 -> Int] /\ st'.nums \in [0 .. n - 1 -> Int]
        BY <2>1, <2>2, <3>3, <3>4 DEF D
      <4>2. /\ st' = [pc |-> st'.pc, nums |-> st'.nums, calls |-> st'.calls, pivot |-> st'.pivot,
                      i |-> st'.i, j |-> st'.j, k |-> st'.k]
            /\ st'.calls = st.calls /\ st'.pivot = st.pivot
            /\ st'.i = st.i + 1 /\ st'.j = st.j + 1 /\ st'.k = st.k
        BY <3>4
      <4>3. st'.i \in Int /\ st'.j \in Int /\ st'.k \in Int
        BY <2>3, <4>2
      <4>. QED
        BY <2>2, <2>3, <4>1, <4>2, <4>3 DEF QsortTypeOK
    <3>6. /\ Cur.s <= st.i + 1 /\ st.i + 1 <= st.j + 1 /\ st.j + 1 <= st.k + 1
      BY <2>3, <2>5, <2>9, <3>1, SMTT(30)
    <3>7. ASSUME NEW a \in Cur.s .. (st.i + 1) - 1 PROVE nums[a] < st.pivot
      <4>1. a = st.i \/ a \in Cur.s .. st.i - 1
        BY <2>3, <2>5, <3>2
      <4>2. a \in Cur.s .. Cur.e /\ (a # st.i => a # st.j)
        <5>1. /\ Cur.s \in Int /\ Cur.e \in Int /\ Cur.s <= st.i /\ st.i <= st.j
              /\ st.j <= st.k /\ st.k <= Cur.e
          BY <2>5, <2>9, <3>1
        <5>. QED
          BY <2>3, <5>1
      <4>. QED
        BY <2>9, <3>1, <3>2, <3>3, <4>1, <4>2
    <3>8. ASSUME NEW a \in st.i + 1 .. (st.j + 1) - 1 PROVE nums[a] = st.pivot
      <4>0. /\ Cur.s \in Int /\ Cur.e \in Int /\ Cur.s <= st.i /\ st.i <= st.j
            /\ st.j <= st.k /\ st.k <= Cur.e
        BY <2>5, <2>9, <3>1
      <4>1. a \in Cur.s .. Cur.e /\ a # st.i /\ (a = st.j => st.i \in st.i .. st.j - 1)
        BY <2>3, <4>0, SMTT(30)
      <4>2. a # st.j => a \in st.i .. st.j - 1
        BY <2>3
      <4>. QED
        BY <2>9, <3>1, <3>2, <3>3, <4>1, <4>2
    <3>9. ASSUME NEW a \in st.k + 1 .. Cur.e PROVE nums[a] > st.pivot
      <4>1. a \in Cur.s .. Cur.e /\ a # st.i /\ a # st.j
        <5>1. Cur.s \in Int /\ Cur.e \in Int /\ Cur.s <= st.i /\ st.i <= st.j /\ st.j <= st.k
          BY <2>5, <2>9, <3>1
        <5>. QED
          BY <2>3, <5>1
      <4>. QED
        BY <2>9, <3>1, <3>2, <3>3, <4>1
    <3>p. HasPivot(nums, st.pivot, st.i + 1, st.k)
      <4>1. PICK m \in st.i .. st.k : st.nums[m] = st.pivot
        BY <2>9, <3>1 DEF HasPivot
      <4>2. /\ Cur.s \in Int /\ Cur.e \in Int /\ Cur.s <= st.i /\ st.i <= st.j
            /\ st.j <= st.k /\ st.k <= Cur.e
        BY <2>5, <2>9, <3>1
      <4>3. st.nums[st.j] # st.pivot
        <5>1. st.j \in Cur.s .. Cur.e
          BY <2>3, <4>2
        <5>2. st.nums[st.j] \in Int
          BY <2>2, <3>2, <5>1 DEF D
        <5>. QED
          BY <2>3, <3>1, <5>2
      <4>4. m # st.j /\ m \in Cur.s .. Cur.e
        BY <2>3, <4>1, <4>2, <4>3
      <4>5. CASE m = st.i
        <5>1. st.j \in st.i + 1 .. st.k /\ nums[st.j] = st.pivot
          BY <2>3, <3>3, <4>1, <4>2, <4>4, <4>5
        <5>. QED
          BY <5>1 DEF HasPivot
      <4>6. CASE m # st.i
        <5>1. m \in st.i + 1 .. st.k
          BY <2>3, <4>6
        <5>2. nums[m] = st.pivot
          BY <3>2, <3>3, <4>1, <4>4, <4>6
        <5>. QED
          BY <5>1, <5>2 DEF HasPivot
      <4>. QED
        BY <4>5, <4>6
    <3>10. PartitionInv'
      BY <2>5, <2>9, <3>1, <3>2, <3>4, <3>6, <3>7, <3>8, <3>9, <3>p DEF PartitionInv
    <3>. QED
      BY <2>1, <2>3, <2>4, <3>3, <3>4, <3>5, <3>10 DEF QsortInv
  <2>11. CASE PartitionGreater
    <3> DEFINE nums == Swapped(st.nums, st.j, st.k)
    <3>1. /\ st.pc = "partition" /\ st.j <= st.k /\ st.nums[st.j] > st.pivot
          /\ st' = [st EXCEPT !.nums = nums, !.k = @ - 1]
      BY <2>11 DEF PartitionGreater, At, Becomes
    <3>2. /\ st.k \in Places(Cur) /\ st.j \in Places(Cur) /\ st.calls # <<>>
          /\ \A a \in Cur.s .. Cur.e : a \in D
      BY <2>3, <2>5, <2>9, <3>1, SMTT(30)
    <3>3. /\ nums \in [D -> Int] /\ Between(nums, st.calls) /\ Rearranges(nums, job.nums)
          /\ nums[st.j] = st.nums[st.k] /\ nums[st.k] = st.nums[st.j]
          /\ \A a \in D : a # st.j /\ a # st.k => nums[a] = st.nums[a]
      BY <2>6, <3>2
    <3> HIDE DEF nums
    <3>4. st' = [pc |-> "partition", nums |-> nums, calls |-> st.calls, pivot |-> st.pivot,
                 i |-> st.i, j |-> st.j, k |-> st.k - 1]
      BY <2>3, <3>1
    <3>5. QsortTypeOK'
      BY <2>1, <2>2, <2>3, <3>3, <3>4, SMTT(30) DEF QsortTypeOK, D
    <3>6. /\ st.j <= (st.k - 1) + 1 /\ st.k - 1 <= Cur.e
      BY <2>3, <2>5, <2>9, <3>1
    <3>7. ASSUME NEW a \in Cur.s .. st.i - 1 PROVE nums[a] < st.pivot
      <4>1. a \in Cur.s .. Cur.e /\ a # st.j /\ a # st.k
        <5>1. /\ Cur.s \in Int /\ Cur.e \in Int /\ Cur.s <= st.i /\ st.i <= st.j
              /\ st.j <= st.k /\ st.k <= Cur.e
          BY <2>5, <2>9, <3>1
        <5>. QED
          BY <2>3, <5>1
      <4>. QED
        BY <2>9, <3>1, <3>2, <3>3, <4>1
    <3>8. ASSUME NEW a \in st.i .. st.j - 1 PROVE nums[a] = st.pivot
      <4>1. a \in Cur.s .. Cur.e /\ a # st.j /\ a # st.k
        <5>1. /\ Cur.s \in Int /\ Cur.e \in Int /\ Cur.s <= st.i /\ st.i <= st.j
              /\ st.j <= st.k /\ st.k <= Cur.e
          BY <2>5, <2>9, <3>1
        <5>. QED
          BY <2>3, <5>1
      <4>. QED
        BY <2>9, <3>1, <3>2, <3>3, <4>1
    <3>9. ASSUME NEW a \in (st.k - 1) + 1 .. Cur.e PROVE nums[a] > st.pivot
      <4>1. CASE a = st.k
        BY <3>1, <3>3, <4>1
      <4>2. CASE a # st.k
        <5>0. Cur.s \in Int /\ Cur.e \in Int /\ Cur.s <= st.j /\ st.j <= st.k /\ st.k <= Cur.e
          BY <2>3, <2>5, <2>9, <3>1
        <5>1. a \in st.k + 1 .. Cur.e /\ a \in Cur.s .. Cur.e /\ a # st.j
          BY <2>3, <4>2, <5>0
        <5>. QED
          BY <2>9, <3>1, <3>2, <3>3, <4>2, <5>1
      <4>. QED
        BY <4>1, <4>2
    <3>p. HasPivot(nums, st.pivot, st.i, st.k - 1)
      <4>1. PICK m \in st.i .. st.k : st.nums[m] = st.pivot
        BY <2>9, <3>1 DEF HasPivot
      <4>2. /\ Cur.s \in Int /\ Cur.e \in Int /\ Cur.s <= st.i /\ st.i <= st.j
            /\ st.j <= st.k /\ st.k <= Cur.e
        BY <2>5, <2>9, <3>1
      <4>3. st.nums[st.j] # st.pivot
        <5>1. st.j \in Cur.s .. Cur.e
          BY <2>3, <4>2
        <5>2. st.nums[st.j] \in Int
          BY <2>2, <3>2, <5>1 DEF D
        <5>. QED
          BY <2>3, <3>1, <5>2
      <4>4. m # st.j /\ m \in Cur.s .. Cur.e
        BY <2>3, <4>1, <4>2, <4>3
      <4>5. CASE m = st.k
        <5>1. st.j \in st.i .. st.k - 1 /\ nums[st.j] = st.pivot
          BY <2>3, <3>3, <4>1, <4>2, <4>4, <4>5
        <5>. QED
          BY <5>1 DEF HasPivot
      <4>6. CASE m # st.k
        <5>1. m \in st.i .. st.k - 1
          BY <2>3, <4>6
        <5>2. nums[m] = st.pivot
          BY <3>2, <3>3, <4>1, <4>4, <4>6
        <5>. QED
          BY <5>1, <5>2 DEF HasPivot
      <4>. QED
        BY <4>5, <4>6
    <3>10. PartitionInv'
      BY <2>5, <2>9, <3>1, <3>2, <3>4, <3>6, <3>7, <3>8, <3>9, <3>p DEF PartitionInv
    <3>. QED
      BY <2>1, <2>3, <2>4, <3>3, <3>4, <3>5, <3>10 DEF QsortInv
  <2>12. CASE PartitionEqual
    <3>1. /\ st.pc = "partition" /\ st.j <= st.k /\ st.nums[st.j] = st.pivot
          /\ st' = [st EXCEPT !.j = @ + 1]
      BY <2>12 DEF PartitionEqual, At, Becomes
    <3>2. st' = [pc |-> "partition", nums |-> st.nums, calls |-> st.calls, pivot |-> st.pivot,
                 i |-> st.i, j |-> st.j + 1, k |-> st.k]
      BY <2>3, <3>1
    <3>3. QsortTypeOK'
      BY <2>1, <2>2, <2>3, <3>2, SMTT(30) DEF QsortTypeOK
    <3>4. ASSUME NEW a \in st.i .. (st.j + 1) - 1 PROVE st.nums[a] = st.pivot
      <4>1. a = st.j \/ a \in st.i .. st.j - 1
        BY <2>3
      <4>. QED
        BY <2>9, <3>1, <4>1
    <3>5. st.i <= st.j + 1 /\ st.j + 1 <= st.k + 1
      BY <2>3, <2>9, <3>1
    <3>6. PartitionInv'
      BY <2>5, <2>9, <3>1, <3>2, <3>4, <3>5 DEF PartitionInv
    <3>. QED
      BY <2>1, <2>3, <2>4, <3>2, <3>3, <3>6 DEF QsortInv
  <2>13. CASE SortParts
    <3> DEFINE left == Call(Cur.s, st.i - 1)
               right == Call(st.k + 1, Cur.e)
               rest == Tail(st.calls)
               calls == <<left, right>> \o rest
    <3>1. /\ st.pc = "partition" /\ st.j > st.k /\ st.calls # <<>>
          /\ st' = [st EXCEPT !.calls = calls, !.pc = "call"]
      BY <2>9, <2>13 DEF SortParts, At, Becomes
    <3>2. st.j = st.k + 1
      BY <2>3, <2>9, <3>1
    <3>3. /\ left \in CallsType /\ Places(left) = Cur.s .. st.i - 1
          /\ right \in CallsType /\ Places(right) = st.k + 1 .. Cur.e
      BY <2>3, <2>5, <3>1 DEF Call, CallsType, Places
    <3> HIDE DEF left, right
    <3>4. /\ calls \in Seq(CallsType) /\ Len(calls) = Len(st.calls) + 1
          /\ calls[1] = left /\ calls[2] = right
          /\ \A m \in 3 .. Len(calls) : m - 1 \in 2 .. Len(st.calls) /\ calls[m] = st.calls[m - 1]
      <4>1. <<left, right>> \in Seq(CallsType) /\ Len(<<left, right>>) = 2
        BY <3>3
      <4>2. rest \in Seq(CallsType) /\ Len(rest) = Len(st.calls) - 1 /\ Len(st.calls) \in Nat
        BY <2>5, <3>1
      <4>3. /\ calls \in Seq(CallsType) /\ Len(calls) = 2 + Len(rest)
            /\ \A m \in 1 .. 2 + Len(rest) :
                 calls[m] = IF m <= 2 THEN <<left, right>>[m] ELSE rest[m - 2]
        <5>1. /\ calls \in Seq(CallsType) /\ Len(calls) = Len(<<left, right>>) + Len(rest)
              /\ \A m \in 1 .. Len(<<left, right>>) + Len(rest) :
                   calls[m] = IF m <= Len(<<left, right>>) THEN <<left, right>>[m]
                              ELSE rest[m - Len(<<left, right>>)]
          BY <4>1, <4>2, ConcatProperties
        <5>. QED
          BY <4>1, <5>1
      <4> HIDE DEF calls, rest
      <4>4. calls[1] = left /\ calls[2] = right
        BY <4>2, <4>3
      <4>5. ASSUME NEW m \in 3 .. Len(calls)
            PROVE  m - 1 \in 2 .. Len(st.calls) /\ calls[m] = st.calls[m - 1]
        <5>1. m \in 1 .. 2 + Len(rest) /\ ~(m <= 2) /\ m - 2 \in 1 .. Len(st.calls) - 1 /\ (m - 2) + 1 = m - 1
          BY <4>2, <4>3
        <5>2. calls[m] = rest[m - 2] /\ rest[m - 2] = st.calls[(m - 2) + 1]
          BY <2>5, <3>1, <4>3, <5>1 DEF rest
        <5>. QED
          BY <4>2, <5>1, <5>2
      <4>6. Len(calls) = Len(st.calls) + 1
        BY <4>2, <4>3
      <4>. QED
        BY <4>3, <4>4, <4>5, <4>6
    <3> HIDE DEF calls
    <3>5. st' = [pc |-> "call", nums |-> st.nums, calls |-> calls, pivot |-> st.pivot,
                 i |-> st.i, j |-> st.j, k |-> st.k]
      BY <2>3, <3>1
    <3>6. /\ Places(left) \subseteq Places(Cur) /\ Places(right) \subseteq Places(Cur)
          /\ \A a \in Places(left) : a \notin Places(right)
      BY <2>3, <2>5, <2>9, <3>1, <3>2, <3>3, SMTT(30)
    <3>7. \A m \in 1 .. Len(calls) : m = 1 \/ m = 2 \/ m \in 3 .. Len(calls)
      BY <2>5, <3>1, <3>4
    <3>8. \A m \in 1 .. Len(calls) : Places(calls[m]) \subseteq D
      <4>1. Places(calls[1]) \subseteq D /\ Places(calls[2]) \subseteq D
        BY <2>5, <3>1, <3>4, <3>6
      <4>2. ASSUME NEW m \in 3 .. Len(calls) PROVE Places(calls[m]) \subseteq D
        <5>1. m - 1 \in 1 .. Len(st.calls)
          BY <3>4
        <5>. QED
          BY <2>4, <3>4, <5>1
      <4>. QED
        BY <3>7, <4>1, <4>2
    <3>9. \A m \in 3 .. Len(calls) : \A a \in Places(calls[m]) : a \notin Places(Cur)
      <4>1. ASSUME NEW m \in 3 .. Len(calls), NEW a \in Places(calls[m]), a \in Places(Cur) PROVE FALSE
        <5>1. m - 1 \in 1 .. Len(st.calls) /\ m - 1 # 1 /\ a \in Places(st.calls[m - 1])
          BY <3>4
        <5>2. 1 \in 1 .. Len(st.calls) /\ a \in Places(st.calls[1])
          BY <2>5, <3>1, <4>1
        <5>. QED
          BY <2>4, <5>1, <5>2 DEF Apart
      <4>. QED
        BY <4>1
    <3>10. Apart(calls)
      <4>1. ASSUME NEW l \in 3 .. Len(calls), NEW m \in 3 .. Len(calls), NEW a,
                   a \in Places(calls[l]), a \in Places(calls[m])
            PROVE  l = m
        <5>1. l - 1 \in 1 .. Len(st.calls) /\ m - 1 \in 1 .. Len(st.calls)
          BY <3>4
        <5>2. l - 1 = m - 1
          BY <2>4, <3>4, <4>1, <5>1 DEF Apart
        <5>. QED
          BY <5>2
      <4>2. ASSUME NEW l \in 1 .. Len(calls), NEW m \in 1 .. Len(calls), NEW a,
                   a \in Places(calls[l]), a \in Places(calls[m])
            PROVE  l = m
        <5>1. CASE l \in {1, 2} /\ m \in {1, 2}
          BY <3>4, <3>6, <4>2, <5>1
        <5>2. CASE l \in {1, 2} /\ m \in 3 .. Len(calls)
          BY <3>4, <3>6, <3>9, <4>2, <5>2
        <5>3. CASE l \in 3 .. Len(calls) /\ m \in {1, 2}
          BY <3>4, <3>6, <3>9, <4>2, <5>3
        <5>4. CASE l \in 3 .. Len(calls) /\ m \in 3 .. Len(calls)
          BY <4>1, <4>2, <5>4
        <5>. QED
          BY <3>7, <5>1, <5>2, <5>3, <5>4
      <4>. QED
        BY <4>2 DEF Apart
    <3>11. Between(st.nums, calls)
      <4>1. ASSUME NEW a \in D, NEW b \in D, a < b, ~(st.nums[a] <= st.nums[b])
            PROVE  \E m \in 1 .. Len(calls) : a \in Places(calls[m]) /\ b \in Places(calls[m])
        <5>1. PICK m \in 1 .. Len(st.calls) : a \in Places(st.calls[m]) /\ b \in Places(st.calls[m])
          BY <2>3, <2>4, <4>1 DEF Between
        <5>2. CASE m # 1
          <6>1. m + 1 \in 3 .. Len(calls) /\ m + 1 \in 1 .. Len(calls) /\ (m + 1) - 1 = m
            BY <2>5, <3>1, <3>4, <5>2, SMTT(30)
          <6>. QED
            BY <3>4, <5>1, <6>1
        <5>3. CASE m = 1
          <6>1. a \in Cur.s .. Cur.e /\ b \in Cur.s .. Cur.e /\ st.nums[a] \in Int /\ st.nums[b] \in Int
            BY <2>2, <2>5, <3>1, <5>1, <5>3 DEF D
          <6>2. a \in Int /\ b \in Int /\ 1 \in 1 .. Len(calls) /\ 2 \in 1 .. Len(calls)
            BY <2>5, <3>1, <3>4, <6>1, SMTT(30)
          <6>3. CASE b \in Cur.s .. st.i - 1
            <7>1. a \in Cur.s .. st.i - 1
              BY <2>3, <2>5, <3>1, <4>1, <6>1, <6>2, <6>3
            <7>. QED
              BY <3>3, <3>4, <6>2, <6>3, <7>1
          <6>4. CASE a \in st.k + 1 .. Cur.e
            <7>1. b \in st.k + 1 .. Cur.e
              BY <2>3, <2>5, <3>1, <4>1, <6>1, <6>2, <6>4
            <7>. QED
              BY <3>3, <3>4, <6>2, <6>4, <7>1
          <6>5. CASE b \notin Cur.s .. st.i - 1 /\ a \notin st.k + 1 .. Cur.e
            <7>0. /\ Cur.s \in Int /\ Cur.e \in Int /\ st.i \in Int /\ st.j \in Int /\ st.k \in Int
                  /\ Cur.s <= a /\ a <= Cur.e /\ Cur.s <= b /\ b <= Cur.e
              BY <2>3, <2>5, <3>1, <6>1
            <7>1. a \in Cur.s .. st.i - 1 \/ a \in st.i .. st.j - 1
              BY <3>2, <6>2, <6>5, <7>0
            <7>2. b \in st.i .. st.j - 1 \/ b \in st.k + 1 .. Cur.e
              BY <3>2, <6>2, <6>5, <7>0
            <7>3. st.nums[a] <= st.pivot /\ st.pivot <= st.nums[b]
              BY <2>3, <2>9, <3>1, <6>1, <7>1, <7>2, SMTT(30)
            <7>. QED
              BY <2>3, <4>1, <6>1, <7>3
          <6>. QED
            BY <6>3, <6>4, <6>5
        <5>. QED
          BY <5>2, <5>3
      <4>. QED
        BY <2>3, <4>1 DEF Between
    <3>12. QsortTypeOK'
      BY <2>1, <2>2, <2>3, <3>4, <3>5 DEF QsortTypeOK
    <3>. QED
      BY <2>1, <2>3, <2>4, <3>5, <3>8, <3>10, <3>11, <3>12 DEF QsortInv
  <2>14. CASE QsortReturns
    <3>1. st.calls = <<>> /\ st' = [st EXCEPT !.pc = "done"]
      BY <2>14 DEF QsortReturns, At, Becomes
    <3>2. st' = [pc |-> "done", nums |-> st.nums, calls |-> st.calls, pivot |-> st.pivot,
                 i |-> st.i, j |-> st.j, k |-> st.k]
      BY <2>3, <3>1
    <3>3. QsortTypeOK'
      BY <2>1, <2>2, <2>3, <3>2 DEF QsortTypeOK
    <3>. QED
      BY <2>1, <2>3, <2>4, <3>1, <3>2, <3>3 DEF QsortInv
  <2>. QED
    BY <1>2, <2>7, <2>8, <2>10, <2>11, <2>12, <2>13, <2>14 DEF QsortNext
<1>. QED
  BY <1>1, <1>2, OwnSteps DEF Next

\* qsort sorts any array of numbers, and leaves the pivot out of both its calls.
THEOREM QsortIsRight == Spec => []QsortSorts
<1>1. QsortInv => QsortSorts
  <2>p. ASSUME QsortInv, job.prog = "qsort", st.pc = "partition"
        PROVE  \E m \in st.i .. st.k : st.nums[m] = st.pivot
    BY <2>p DEF QsortInv, PartitionInv, HasPivot
  <2>. SUFFICES ASSUME QsortInv, job.prog = "qsort", st.pc = "done"
                PROVE  QsortSorts
    BY <2>p DEF QsortSorts, At
  <2>1. PICK n \in Nat : job.nums \in [0 .. n - 1 -> Int] /\ st.nums \in [0 .. n - 1 -> Int]
    BY DEF QsortInv, QsortTypeOK
  <2>2. Between(st.nums, st.calls) /\ Rearranges(st.nums, job.nums) /\ st.calls = <<>>
    BY DEF QsortInv
  <2>3. DOMAIN job.nums = 0 .. n - 1 /\ DOMAIN st.nums = 0 .. n - 1
    BY <2>1
  <2>4. ASSUME NEW i \in DOMAIN st.nums, NEW j \in DOMAIN st.nums, i < j PROVE st.nums[i] <= st.nums[j]
    <3>1. \A m \in 1 .. Len(st.calls) : FALSE
      BY <2>2, EmptySeq
    <3>. QED
      BY <2>2, <2>4, <3>1 DEF Between
  <2>5. \A v : Cardinality({i \in DOMAIN st.nums : st.nums[i] = v})
                 = Cardinality({i \in DOMAIN st.nums : job.nums[i] = v})
    <3>1. ASSUME NEW v
          PROVE  Cardinality({i \in 0 .. n - 1 : st.nums[i] = v})
                   = Cardinality({i \in 0 .. n - 1 : job.nums[i] = v})
      <4>1. n \in Nat /\ DOMAIN job.nums = 0 .. n - 1 /\ Rearranges(st.nums, job.nums)
        BY <2>1, <2>2, <2>3
      <4>2. Count(st.nums, n, v) = Count(job.nums, n, v)
        BY <4>1, RearrangedCounts
      <4>. QED
        BY <4>2 DEF Count
    <3>2. DOMAIN st.nums = 0 .. n - 1
      BY <2>3
    <3>. QED
      BY <3>1, <3>2
  <2>. QED
    BY <2>3, <2>4, <2>5 DEF QsortSorts, At
<1>. QED
  BY <1>1, QsortInit, QsortNextKeeps, PTL DEF Spec

-------------------------------------------------------------------------------
(* Merging two lists.                                                       *)

Nodes == 1 .. Len(job.data)

\* Both lists ascend, and not only from one node to the next.
MergeJob ==
  /\ job.data \in Seq(Int) /\ job.n1 \in 0 .. Len(job.data)
  /\ \A m, n \in Nodes : m <= n /\ (m <= job.n1 <=> n <= job.n1) => job.data[m] <= job.data[n]

LEMMA Ascends ==
  ASSUME NEW l \in SortedLists
  PROVE  \A m, n \in 1 .. Len(l) : m <= n => l[m] <= l[n]
<1>1. l \in Seq(Int) /\ Len(l) \in Nat /\ \A i \in 1 .. Len(l) - 1 : l[i] <= l[i + 1]
  BY ListAssumption
<1> DEFINE S == {d \in Nat : \A m, n \in 1 .. Len(l) : n = m + d => l[m] <= l[n]}
<1>2. 0 \in S
  <2>1. \A m, n \in 1 .. Len(l) : n = m + 0 => l[m] <= l[n]
    BY <1>1
  <2>. QED
    BY <2>1
<1>3. ASSUME NEW d \in Nat, d \in S PROVE d + 1 \in S
  <2>1. ASSUME NEW m \in 1 .. Len(l), NEW n \in 1 .. Len(l), n = m + (d + 1) PROVE l[m] <= l[n]
    <3>1. m + d \in 1 .. Len(l) /\ m + d \in 1 .. Len(l) - 1 /\ (m + d) + 1 = n
      BY <1>1, <2>1
    <3>2. l[m] <= l[m + d]
      BY <1>3, <3>1
    <3>3. l[m + d] <= l[n]
      BY <1>1, <3>1
    <3>4. l[m] \in Int /\ l[m + d] \in Int /\ l[n] \in Int
      BY <1>1, <3>1
    <3>. QED
      BY <3>2, <3>3, <3>4
  <2>. QED
    BY <2>1
<1> HIDE DEF S
<1>4. \A d \in Nat : d \in S
  BY <1>2, <1>3, InductionOnSet
<1>5. ASSUME NEW m \in 1 .. Len(l), NEW n \in 1 .. Len(l), m <= n PROVE l[m] <= l[n]
  <2>1. n - m \in Nat /\ n = m + (n - m)
    BY <1>1, <1>5
  <2>2. n - m \in S
    BY <1>4, <2>1
  <2>. QED
    BY <2>1, <2>2 DEF S
<1>. QED
  BY <1>5

\* Before is a strict order of all nodes.
LEMMA BeforeOrders ==
  ASSUME MergeJob
  PROVE  /\ \A m \in Nodes : ~Before(m, m)
         /\ \A m, n \in Nodes : m # n => Before(m, n) \/ Before(n, m)
         /\ \A m, n \in Nodes : Before(m, n) => ~Before(n, m)
         /\ \A m, n, k \in Nodes : Before(m, n) /\ Before(n, k) => Before(m, k)
         /\ \A m, n \in Nodes : m < n /\ (m <= job.n1 <=> n <= job.n1) => Before(m, n)
<1>1. \A m \in Nodes : m \in Int /\ (m \in 1 .. job.n1 <=> m <= job.n1) /\ job.data[m] \in Int
  BY DEF MergeJob, Nodes
<1>2. \A m, n \in Nodes : Before(m, n) <=>
        \/ job.data[m] < job.data[n]
        \/ job.data[m] = job.data[n] /\ (m <= job.n1 <=> n <= job.n1) /\ m < n
        \/ job.data[m] = job.data[n] /\ ~(m <= job.n1) /\ n <= job.n1
  BY <1>1 DEF Before
<1>3. job.n1 \in Int
  BY DEF MergeJob
<1>4. ASSUME NEW m \in Nodes, NEW n \in Nodes, m < n, m <= job.n1 <=> n <= job.n1 PROVE Before(m, n)
  <2>1. job.data[m] <= job.data[n]
    BY <1>1, <1>4 DEF MergeJob
  <2>. QED
    BY <1>1, <1>2, <1>4, <2>1
<1>5. \A m \in Nodes : ~Before(m, m)
  BY <1>1, <1>2
<1>6. \A m, n \in Nodes : Before(m, n) => ~Before(n, m)
  BY <1>1, <1>2, <1>3
<1>7. \A m, n \in Nodes : m # n => Before(m, n) \/ Before(n, m)
  BY <1>1, <1>2, <1>3
<1>8. \A m, n, k \in Nodes : Before(m, n) /\ Before(n, k) => Before(m, k)
  BY <1>1, <1>2, <1>3
<1>. QED
  BY <1>4, <1>5, <1>6, <1>7, <1>8

\* The nodes that are not taken yet, from the heads h1 and h2 on.
Rest(h1, h2) ==
  {m \in Nodes : IF m <= job.n1 THEN h1 # Nil /\ h1 <= m ELSE h2 # Nil /\ h2 <= m}

\* Nothing lies between m and x, or behind m.
Follows(m, x) ==
  IF x = Nil THEN \A k \in Nodes : ~Before(m, k)
             ELSE x \in Nodes /\ Before(m, x) /\ \A k \in Nodes : ~(Before(m, k) /\ Before(k, x))
First(x) == IF x = Nil THEN Nodes = {} ELSE x \in Nodes /\ \A k \in Nodes : ~Before(k, x)

\* The taken nodes come first and are linked in order up to the tail; the others are
\* linked as they were.
Merging(next, tail, rest) ==
  LET taken == Nodes \ rest IN
  /\ DOMAIN next = {Dummy} \union Nodes
  /\ \A t \in taken, r \in rest : Before(t, r)
  /\ IF tail = Dummy THEN taken = {}
                     ELSE tail \in taken /\ \A t \in taken : t = tail \/ Before(t, tail)
  /\ \A t \in taken : t # tail => Follows(t, next[t])
  /\ \A r \in rest : next[r] = IF r \in {job.n1, Len(job.data)} THEN Nil ELSE r + 1
  /\ tail # Dummy => First(next[Dummy])

\* A round moves the first of the rest behind the tail.
LEMMA TakeKeeps ==
  ASSUME MergeJob, NEW next, NEW tail, NEW rest \in SUBSET Nodes, Merging(next, tail, rest),
         NEW x \in rest, \A r \in rest : r = x \/ Before(x, r)
  PROVE  Merging([next EXCEPT ![tail] = x], x, rest \ {x})
<1> DEFINE taken == Nodes \ rest
           links == [next EXCEPT ![tail] = x]
           left  == rest \ {x}
<1>1. x \in Nodes /\ x # Dummy /\ Dummy \notin Nodes /\ Nodes \ left = taken \union {x} /\ x # Nil
  BY DEF Nodes, Dummy, Nil
<1>2. /\ DOMAIN next = {Dummy} \union Nodes
      /\ \A t \in taken, r \in rest : Before(t, r)
      /\ tail = Dummy => taken = {}
      /\ tail # Dummy => tail \in taken /\ \A t \in taken : t = tail \/ Before(t, tail)
      /\ \A t \in taken : t # tail => Follows(t, next[t])
      /\ \A r \in rest : next[r] = IF r \in {job.n1, Len(job.data)} THEN Nil ELSE r + 1
      /\ tail # Dummy => First(next[Dummy])
  BY DEF Merging
<1>3. DOMAIN links = {Dummy} \union Nodes /\ links[tail] = x /\ \A k \in {Dummy} \union Nodes : k # tail => links[k] = next[k]
  BY <1>1, <1>2
<1> HIDE DEF links
<1>4. \A t \in taken \union {x}, r \in left : Before(t, r)
  BY <1>2
<1>5. \A t \in taken \union {x} : t = x \/ Before(t, x)
  BY <1>2
<1>6. ASSUME NEW t \in taken \union {x}, t # x PROVE Follows(t, links[t])
  <2>1. CASE t = tail
    <3>1. \A k \in Nodes : ~(Before(tail, k) /\ Before(k, x))
      BY <1>1, <1>2, <1>6, <2>1, BeforeOrders
    <3>. QED
      BY <1>1, <1>2, <1>3, <1>6, <2>1, <3>1 DEF Follows
  <2>2. CASE t # tail
    BY <1>2, <1>3, <1>6, <2>2
  <2>. QED
    BY <2>1, <2>2
<1>7. \A r \in left : links[r] = IF r \in {job.n1, Len(job.data)} THEN Nil ELSE r + 1
  <2>1. tail \notin left
    BY <1>1, <1>2
  <2>. QED
    BY <1>2, <1>3, <2>1
<1>8. First(links[Dummy])
  <2>1. CASE tail = Dummy
    <3>1. \A k \in Nodes : ~Before(k, x)
      BY <1>1, <1>2, <2>1, BeforeOrders
    <3>. QED
      BY <1>1, <1>3, <2>1, <3>1 DEF First
  <2>2. CASE tail # Dummy
    BY <1>2, <1>3, <2>2
  <2>. QED
    BY <2>1, <2>2
<1>. QED
  BY <1>1, <1>3, <1>4, <1>5, <1>6, <1>7, <1>8 DEF Merging, links

\* The rest of one list is linked in order.
LEMMA RestFollows ==
  ASSUME MergeJob, NEW h1 \in {Nil} \union (1 .. job.n1),
         NEW h2 \in {Nil} \union (job.n1 + 1 .. Len(job.data)), Nil \in {h1, h2},
         \A t \in Nodes \ Rest(h1, h2), r \in Rest(h1, h2) : Before(t, r)
  PROVE  LET x == IF h1 = Nil THEN h2 ELSE h1 IN
         /\ x \in {Nil} \union Nodes
         /\ x = Nil => Rest(h1, h2) = {}
         /\ x # Nil => x \in Rest(h1, h2) /\ \A r \in Rest(h1, h2) : r = x \/ Before(x, r)
         /\ \A r \in Rest(h1, h2) :
              Follows(r, IF r \in {job.n1, Len(job.data)} THEN Nil ELSE r + 1)
<1> DEFINE x == IF h1 = Nil THEN h2 ELSE h1
           rest == Rest(h1, h2)
<1>1. job.n1 \in Nat /\ Len(job.data) \in Nat /\ job.n1 <= Len(job.data)
  BY DEF MergeJob
<1>2. x \in {Nil} \union Nodes
  BY <1>1 DEF Nodes, Nil
<1>3. x = Nil => rest = {}
  BY DEF Rest
<1>4. \A m, n \in rest : m \in Nodes /\ (m <= job.n1 <=> n <= job.n1) /\ (x # Nil => x <= m)
  BY DEF Rest
<1>5. x # Nil => x \in rest
  BY <1>1 DEF Rest, Nodes, Nil
<1>6. x # Nil => \A r \in rest : r = x \/ Before(x, r)
  <2>1. ASSUME x # Nil, NEW r \in rest, r # x PROVE Before(x, r)
    <3>1. x \in rest /\ x \in Nodes /\ r \in Nodes /\ (x <= job.n1 <=> r <= job.n1) /\ x <= r
      BY <1>4, <1>5, <2>1
    <3>2. x < r
      BY <2>1, <3>1 DEF Nodes
    <3>. QED
      BY <3>1, <3>2, BeforeOrders
  <2>. QED
    BY <2>1
<1>7. ASSUME NEW r \in rest
      PROVE  Follows(r, IF r \in {job.n1, Len(job.data)} THEN Nil ELSE r + 1)
  <2> DEFINE y == IF r \in {job.n1, Len(job.data)} THEN Nil ELSE r + 1
  <2>1. r \in Nodes /\ r \in Int /\ x # Nil
    BY <1>3, <1>4, <1>7 DEF Nodes
  <2>2. ASSUME NEW k \in Nodes, Before(r, k) PROVE k \in rest /\ r < k
    <3>1. k \in rest
      BY <1>7, <2>1, <2>2, BeforeOrders
    <3>2. k <= job.n1 <=> r <= job.n1
      BY <1>4, <1>7, <3>1
    <3>3. k \in Int
      BY DEF Nodes
    <3>4. ~(k < r) /\ k # r
      BY <2>1, <2>2, <3>2, BeforeOrders
    <3>. QED
      BY <2>1, <3>1, <3>3, <3>4
  <2>3. CASE y = Nil
    <3>1. r = job.n1 \/ r = Len(job.data)
      BY <2>1, <2>3 DEF Nodes, Nil
    <3>2. ASSUME NEW k \in Nodes, Before(r, k) PROVE FALSE
      <4>1. k \in rest /\ r < k /\ (k <= job.n1 <=> r <= job.n1) /\ k <= Len(job.data) /\ k \in Int
        BY <1>4, <1>7, <2>2, <3>2 DEF Nodes
      <4>. QED
        BY <1>1, <3>1, <4>1
    <3>. QED
      BY <2>3, <3>2 DEF Follows
  <2>4. CASE y # Nil
    <3>1. y = r + 1 /\ r # job.n1 /\ r # Len(job.data)
      BY <2>4
    <3>2. y \in Nodes /\ r < y /\ (r <= job.n1 <=> y <= job.n1)
      BY <1>1, <2>1, <3>1 DEF Nodes
    <3>3. Before(r, y)
      BY <2>1, <3>2, BeforeOrders
    <3>4. y \in rest
      BY <2>2, <3>2, <3>3
    <3>5. ASSUME NEW k \in Nodes, Before(r, k), Before(k, y) PROVE FALSE
      <4>1. k \in rest /\ r < k /\ k \in Int
        BY <2>2, <3>5 DEF Nodes
      <4>2. k = y \/ y < k
        BY <2>1, <3>1, <4>1
      <4>3. y <= job.n1 <=> k <= job.n1
        BY <1>4, <3>4, <4>1
      <4>4. k # y
        BY <3>2, <3>5, BeforeOrders
      <4>5. Before(y, k)
        BY <3>2, <4>2, <4>3, <4>4, BeforeOrders
      <4>. QED
        BY <3>2, <3>5, <4>5, BeforeOrders
    <3>. QED
      BY <2>4, <3>2, <3>3, <3>5 DEF Follows
  <2>. QED
    BY <2>3, <2>4
<1>. QED
  BY <1>2, <1>3, <1>5, <1>6, <1>7

\* While the result is walked along: the walk has the nodes before h, in order.
Walking(next, walk, h) ==
  /\ \A m \in Nodes : Follows(m, next[m])
  /\ walk \in Seq(Nodes) /\ h \in {Nil} \union Nodes
  /\ \A k \in Nodes : (\E i \in 1 .. Len(walk) : walk[i] = k) <=> (h # Nil => Before(k, h))
  /\ \A i, j \in 1 .. Len(walk) : i < j => Before(walk[i], walk[j])

MergeInv == job.prog = "merge" =>
  /\ MergeJob
  /\ st = [pc |-> st.pc, next |-> st.next, h1 |-> st.h1, h2 |-> st.h2, tail |-> st.tail,
           h |-> st.h, walk |-> st.walk]
  /\ st.h1 \in {Nil} \union (1 .. job.n1)
  /\ st.h2 \in {Nil} \union (job.n1 + 1 .. Len(job.data))
  /\ st.pc \in {"call", "loop", "walk", "done"}
  /\ st.pc \in {"call", "loop"} => st.walk = <<>> /\ Merging(st.next, st.tail, Rest(st.h1, st.h2))
  /\ st.pc = "call" => st.tail = Dummy
  /\ st.pc \in {"walk", "done"} => Walking(st.next, st.walk, st.h)
  /\ st.pc = "done" => st.h = Nil

LEMMA WalkStarts ==
  ASSUME NEW next, NEW h, \A m \in Nodes : Follows(m, next[m]), First(h)
  PROVE  Walking(next, <<>>, h)
<1>1. h \in {Nil} \union Nodes
  BY DEF First
<1>2. <<>> \in Seq(Nodes) /\ \A i \in 1 .. Len(<<>>) : FALSE
  BY EmptySeq
<1>3. ASSUME NEW k \in Nodes PROVE ~(h # Nil => Before(k, h))
  BY DEF First
<1>. QED
  BY <1>1, <1>2, <1>3 DEF Walking

LEMMA WalkGoesOn ==
  ASSUME MergeJob, NEW next, NEW walk, NEW h, h # Nil, Walking(next, walk, h)
  PROVE  Walking(next, Append(walk, h), next[h])
<1> DEFINE longer == Append(walk, h)
           on     == next[h]
<1>1. /\ h \in Nodes /\ walk \in Seq(Nodes) /\ Len(walk) \in Nat
      /\ Follows(h, on) /\ \A m \in Nodes : Follows(m, next[m])
      /\ \A k \in Nodes : (\E i \in 1 .. Len(walk) : walk[i] = k) <=> Before(k, h)
      /\ \A i, j \in 1 .. Len(walk) : i < j => Before(walk[i], walk[j])
  BY DEF Walking
<1>2. /\ longer \in Seq(Nodes) /\ Len(longer) = Len(walk) + 1 /\ longer[Len(walk) + 1] = h
      /\ \A i \in 1 .. Len(walk) : longer[i] = walk[i] /\ walk[i] \in Nodes
  BY <1>1, AppendProperties
<1> HIDE DEF longer, on
<1>3. \A i \in 1 .. Len(longer) : i \in 1 .. Len(walk) \/ i = Len(walk) + 1
  BY <1>1, <1>2
<1>4. \A i \in 1 .. Len(walk) : i \in 1 .. Len(longer) /\ i < Len(walk) + 1
  BY <1>1, <1>2
<1>5. on \in {Nil} \union Nodes
  BY <1>1 DEF Follows
<1>6. ASSUME NEW k \in Nodes
      PROVE  (\E i \in 1 .. Len(longer) : longer[i] = k) <=> (on # Nil => Before(k, on))
  <2>1. (\E i \in 1 .. Len(longer) : longer[i] = k) <=> Before(k, h) \/ k = h
    <3>1. Len(walk) + 1 \in 1 .. Len(longer)
      BY <1>1, <1>2
    <3>. QED
      BY <1>1, <1>2, <1>3, <1>4, <3>1
  <2>2. Before(k, h) \/ k = h \/ Before(h, k)
    BY <1>1, BeforeOrders
  <2>3. CASE on = Nil
    BY <1>1, <2>1, <2>2, <2>3 DEF Follows
  <2>4. CASE on # Nil
    <3>1. on \in Nodes /\ Before(h, on) /\ ~(Before(h, k) /\ Before(k, on))
      BY <1>1, <2>4 DEF Follows
    <3>2. Before(k, h) => Before(k, on)
      BY <1>1, <3>1, BeforeOrders
    <3>. QED
      BY <2>1, <2>2, <2>4, <3>1, <3>2
  <2>. QED
    BY <2>3, <2>4
<1>7. ASSUME NEW i \in 1 .. Len(longer), NEW j \in 1 .. Len(longer), i < j
      PROVE  Before(longer[i], longer[j])
  <2>1. i \in 1 .. Len(walk)
    BY <1>1, <1>2, <1>7
  <2>2. CASE j \in 1 .. Len(walk)
    BY <1>1, <1>2, <1>7, <2>1, <2>2
  <2>3. CASE j = Len(walk) + 1
    BY <1>1, <1>2, <2>1, <2>3
  <2>. QED
    BY <1>3, <2>2, <2>3
<1>. QED
  BY <1>1, <1>2, <1>5, <1>6, <1>7 DEF Walking, longer, on

LEMMA MergeInit == Init => MergeInv
<1>1. ASSUME NEW l1 \in SortedLists, NEW l2 \in SortedLists, MergeLists(l1, l2)
      PROVE  MergeInv
  <2> DEFINE n1 == Len(l1)
             n  == Len(l1) + Len(l2)
  <2>1. /\ l1 \in Seq(Int) /\ l2 \in Seq(Int) /\ n1 \in Nat /\ Len(l2) \in Nat /\ n \in Nat /\ n1 <= n
    BY ListAssumption
  <2>2. /\ job.data = l1 \o l2 /\ job.n1 = n1 /\ st.pc = "call" /\ st.next = Links(n1, n)
        /\ st.h1 = HeadOf(1, n1) /\ st.h2 = HeadOf(n1 + 1, n) /\ st.tail = Dummy /\ st.walk = <<>>
        /\ st = [pc |-> st.pc, next |-> st.next, h1 |-> st.h1, h2 |-> st.h2, tail |-> st.tail,
                 h |-> st.h, walk |-> st.walk]
    BY <1>1 DEF MergeLists
  <2>3. /\ job.data \in Seq(Int) /\ Len(job.data) = n
        /\ \A i \in 1 .. n : job.data[i] = IF i <= n1 THEN l1[i] ELSE l2[i - n1]
    BY <2>1, <2>2, ConcatProperties
  <2> HIDE DEF n1, n
  <2>4. MergeJob
    <3>1. ASSUME NEW i \in 1 .. n, NEW j \in 1 .. n, i <= j, i <= n1 <=> j <= n1
          PROVE  job.data[i] <= job.data[j]
      <4>1. CASE i <= n1
        <5>1. i \in 1 .. Len(l1) /\ j \in 1 .. Len(l1)
          BY <2>1, <3>1, <4>1 DEF n1
        <5>2. l1[i] <= l1[j]
          BY <3>1, <5>1, Ascends
        <5>. QED
          BY <2>3, <3>1, <4>1, <5>2
      <4>2. CASE ~(i <= n1)
        <5>1. i - n1 \in 1 .. Len(l2) /\ j - n1 \in 1 .. Len(l2) /\ i - n1 <= j - n1
          BY <2>1, <3>1, <4>2 DEF n, n1
        <5>2. l2[i - n1] <= l2[j - n1]
          BY <5>1, Ascends
        <5>. QED
          BY <2>3, <3>1, <4>2, <5>2
      <4>. QED
        BY <4>1, <4>2
    <3>2. job.n1 \in 0 .. Len(job.data)
      BY <2>1, <2>2, <2>3
    <3>. QED
      BY <2>2, <2>3, <3>1, <3>2 DEF MergeJob, Nodes
  <2>5. Nodes = 1 .. n
    BY <2>3 DEF Nodes
  <2>6. /\ st.h1 \in {Nil} \union (1 .. job.n1) /\ st.h2 \in {Nil} \union (job.n1 + 1 .. Len(job.data))
        /\ Rest(st.h1, st.h2) = Nodes
    BY <2>1, <2>2, <2>3, <2>5, SMTT(30) DEF HeadOf, Nil, Rest
  <2>7. Merging(st.next, st.tail, Nodes)
    <3>1. DOMAIN st.next = {Dummy} \union Nodes
      BY <2>2, <2>5 DEF Links
    <3>2. ASSUME NEW r \in Nodes PROVE st.next[r] = IF r \in {job.n1, Len(job.data)} THEN Nil ELSE r + 1
      BY <2>2, <2>3, <2>5 DEF Links, Dummy
    <3>. QED
      BY <2>2, <3>1, <3>2 DEF Merging
  <2>. QED
    BY <2>2, <2>4, <2>6, <2>7 DEF MergeInv
<1>. QED
  BY <1>1, OwnInputs DEF MergeInv

LEMMA MergeNextKeeps == MergeInv /\ [Next]_programVars => MergeInv'
<1>. SUFFICES ASSUME MergeInv, [Next]_programVars, job'.prog = "merge"
              PROVE  MergeInv'
  BY SMTT(30) DEF MergeInv
<1>1. CASE UNCHANGED programVars
  BY <1>1 DEF programVars, MergeInv, MergeJob, Nodes, Merging, Walking, Rest, Follows, First, Before
<1>2. ASSUME MergeNext PROVE MergeInv'
  <2>1. job' = job /\ job.prog = "merge"
    BY <1>2, OwnSteps
  <2> DEFINE rest == Rest(st.h1, st.h2)
             n    == Len(job.data)
  <2>2. /\ MergeJob /\ job.n1 \in Nat /\ n \in Nat /\ job.n1 <= n
        /\ st = [pc |-> st.pc, next |-> st.next, h1 |-> st.h1, h2 |-> st.h2, tail |-> st.tail,
                 h |-> st.h, walk |-> st.walk]
        /\ st.h1 \in {Nil} \union (1 .. job.n1) /\ st.h2 \in {Nil} \union (job.n1 + 1 .. n)
        /\ st.pc \in {"call", "loop"} => st.walk = <<>> /\ Merging(st.next, st.tail, rest)
        /\ st.pc = "call" => st.tail = Dummy
        /\ st.pc \in {"walk", "done"} => Walking(st.next, st.walk, st.h)
    BY <2>1 DEF MergeInv, MergeJob
  <2> HIDE DEF rest, n
  \* What a step has to show of the next state.
  <2>3. ASSUME NEW next, NEW h1, NEW h2, NEW tail,
               st' = [pc |-> "loop", next |-> next, h1 |-> h1, h2 |-> h2, tail |-> tail,
                      h |-> st.h, walk |-> <<>>],
               h1 \in {Nil} \union (1 .. job.n1), h2 \in {Nil} \union (job.n1 + 1 .. n),
               Merging(next, tail, Rest(h1, h2))
        PROVE  MergeInv'
    <3>1. /\ st'.pc = "loop" /\ st'.next = next /\ st'.h1 = h1 /\ st'.h2 = h2 /\ st'.tail = tail
          /\ st'.h = st.h /\ st'.walk = <<>>
      BY <2>3
    <3>2. Rest(st.h1, st.h2)' = Rest(h1, h2) /\ Nodes' = Nodes /\ MergeJob'
      BY <2>1, <2>2, <3>1 DEF Rest, Nodes, MergeJob
    <3>3. Merging(st.next, st.tail, Rest(st.h1, st.h2))'
      BY <2>1, <2>3, <3>1, <3>2 DEF Merging, Follows, First, Before
    <3>4. (st.h1 \in {Nil} \union (1 .. job.n1) /\ st.h2 \in {Nil} \union (job.n1 + 1 .. Len(job.data)))'
      BY <2>1, <2>3, <3>1 DEF n
    <3>5. (st = [pc |-> st.pc, next |-> st.next, h1 |-> st.h1, h2 |-> st.h2, tail |-> st.tail,
                 h |-> st.h, walk |-> st.walk])'
      BY <2>3, <3>1
    <3>. QED
      BY <3>1, <3>2, <3>3, <3>4, <3>5 DEF MergeInv
  <2>4. ASSUME NEW pc \in {"walk", "done"}, NEW next, NEW walk, NEW h,
               st' = [pc |-> pc, next |-> next, h1 |-> st.h1, h2 |-> st.h2, tail |-> st.tail,
                      h |-> h, walk |-> walk],
               Walking(next, walk, h), pc = "done" => h = Nil
        PROVE  MergeInv'
    <3>1. /\ st'.pc = pc /\ st'.next = next /\ st'.h1 = st.h1 /\ st'.h2 = st.h2
          /\ st'.tail = st.tail /\ st'.h = h /\ st'.walk = walk
      BY <2>4
    <3>2. Nodes' = Nodes /\ MergeJob'
      BY <2>1, <2>2 DEF Nodes, MergeJob
    <3>3. Walking(st.next, st.walk, st.h)'
      BY <2>1, <2>4, <3>1, <3>2 DEF Walking, Follows, Before
    <3>4. (st.h1 \in {Nil} \union (1 .. job.n1) /\ st.h2 \in {Nil} \union (job.n1 + 1 .. Len(job.data)))'
      BY <2>1, <2>2, <3>1 DEF n
    <3>5. (st = [pc |-> st.pc, next |-> st.next, h1 |-> st.h1, h2 |-> st.h2, tail |-> st.tail,
                 h |-> st.h, walk |-> st.walk])'
      BY <2>4, <3>1
    <3>6. (st.pc \in {"walk", "done"} /\ (st.pc = "done" => st.h = Nil))'
      BY <2>4, <3>1
    <3>. QED
      BY <3>2, <3>3, <3>4, <3>5, <3>6 DEF MergeInv
  \* The last list is linked behind the tail.
  <2>5. ASSUME st.pc \in {"call", "loop"}, Nil \in {st.h1, st.h2}
        PROVE  LET x == IF st.h1 = Nil THEN st.h2 ELSE st.h1 IN
               /\ st.tail = Dummy => First(x) /\ \A m \in Nodes : Follows(m, st.next[m])
               /\ LET links == [st.next EXCEPT ![st.tail] = x] IN
                  First(links[Dummy]) /\ \A m \in Nodes : Follows(m, links[m])
    <3> DEFINE x     == IF st.h1 = Nil THEN st.h2 ELSE st.h1
               links == [st.next EXCEPT ![st.tail] = x]
               taken == Nodes \ rest
    <3>1. /\ DOMAIN st.next = {Dummy} \union Nodes
          /\ \A t \in taken, r \in rest : Before(t, r)
          /\ st.tail = Dummy => taken = {}
          /\ st.tail # Dummy => st.tail \in taken /\ \A t \in taken : t = st.tail \/ Before(t, st.tail)
          /\ \A t \in taken : t # st.tail => Follows(t, st.next[t])
          /\ \A r \in rest : st.next[r] = IF r \in {job.n1, n} THEN Nil ELSE r + 1
          /\ st.tail # Dummy => First(st.next[Dummy])
      BY <2>2, <2>5 DEF Merging, n
    <3>2. /\ x \in {Nil} \union Nodes
          /\ x = Nil => rest = {}
          /\ x # Nil => x \in rest /\ \A r \in rest : r = x \/ Before(x, r)
          /\ \A r \in rest : Follows(r, IF r \in {job.n1, n} THEN Nil ELSE r + 1)
      BY <2>2, <2>5, <3>1, RestFollows DEF rest, n
    <3>3. rest \subseteq Nodes /\ Dummy \notin Nodes
      BY DEF rest, Rest, Nodes, Dummy
    <3>4. \A r \in rest : Follows(r, st.next[r])
      BY <3>1, <3>2
    <3> HIDE DEF x
    <3>5. st.tail = Dummy => First(x)
      <4>1. ASSUME st.tail = Dummy, NEW k \in Nodes, x # Nil, Before(k, x) PROVE FALSE
        BY <2>2, <3>1, <3>2, <3>3, <4>1, BeforeOrders
      <4>. QED
        BY <3>1, <3>2, <4>1 DEF First
    <3>6. st.tail = Dummy => \A m \in Nodes : Follows(m, st.next[m])
      BY <3>1, <3>4
    <3>7. links[st.tail] = x /\ \A k \in {Dummy} \union Nodes : k # st.tail => links[k] = st.next[k]
      BY <3>1
    <3> HIDE DEF links
    <3>8. First(links[Dummy])
      BY <3>1, <3>5, <3>7
    <3>9. st.tail # Dummy => Follows(st.tail, x)
      <4>1. ASSUME st.tail # Dummy, NEW k \in Nodes, Before(st.tail, k)
            PROVE  k \in rest /\ x # Nil /\ ~Before(k, x)
        BY <2>2, <3>1, <3>2, <3>3, <4>1, BeforeOrders
      <4>. QED
        BY <3>1, <3>2, <3>3, <4>1 DEF Follows
    <3>10. ASSUME NEW m \in Nodes PROVE Follows(m, links[m])
      <4>1. CASE m = st.tail
        BY <3>3, <3>7, <3>9, <4>1
      <4>2. CASE m # st.tail
        BY <3>1, <3>4, <3>7, <4>2
      <4>. QED
        BY <4>1, <4>2
    <3>. QED
      BY <3>5, <3>6, <3>8, <3>10 DEF links, x
  <2>6. CASE OneIsEmpty
    <3> DEFINE x == IF st.h1 = Nil THEN st.h2 ELSE st.h1
    <3>1. /\ st.pc = "call" /\ Nil \in {st.h1, st.h2} /\ st' = [st EXCEPT !.h = x, !.pc = "walk"]
          /\ st.walk = <<>>
      BY <2>2, <2>6 DEF OneIsEmpty, At, Becomes
    <3>2. First(x) /\ \A m \in Nodes : Follows(m, st.next[m])
      BY <2>2, <2>5, <3>1
    <3> HIDE DEF x
    <3>3. st' = [pc |-> "walk", next |-> st.next, h1 |-> st.h1, h2 |-> st.h2, tail |-> st.tail,
                 h |-> x, walk |-> <<>>]
      BY <2>2, <3>1
    <3>4. Walking(st.next, <<>>, x)
      BY <3>2, WalkStarts
    <3>. QED
      BY <2>4, <3>3, <3>4
  <2>7. CASE BothHaveNodes
    <3>1. st.pc = "call" /\ st' = [st EXCEPT !.pc = "loop"] /\ st.walk = <<>>
      BY <2>2, <2>7 DEF BothHaveNodes, At, Becomes
    <3>2. st' = [pc |-> "loop", next |-> st.next, h1 |-> st.h1, h2 |-> st.h2, tail |-> st.tail,
                 h |-> st.h, walk |-> <<>>]
      BY <2>2, <3>1
    <3>. QED
      BY <2>2, <2>3, <3>1, <3>2 DEF rest
  \* A round takes one of the heads, which is the first of the rest.
  <2>8. ASSUME st.pc = "loop", Nil \notin {st.h1, st.h2}
        PROVE  /\ st.h1 \in rest /\ st.h2 \in rest /\ rest \in SUBSET Nodes
               /\ st.h1 \in 1 .. job.n1 /\ st.h2 \in job.n1 + 1 .. n
               /\ st.next[st.h1] = (IF st.h1 = job.n1 THEN Nil ELSE st.h1 + 1)
               /\ st.next[st.h2] = (IF st.h2 = n THEN Nil ELSE st.h2 + 1)
               /\ \A r \in rest : /\ r \in Nodes
                                  /\ r <= job.n1 => st.h1 <= r
                                  /\ ~(r <= job.n1) => st.h2 <= r
               /\ \A r \in Nodes : job.data[r] \in Int
    <3>1. st.h1 \in 1 .. job.n1 /\ st.h2 \in job.n1 + 1 .. n
      BY <2>2, <2>8
    <3>2. st.h1 \in rest /\ st.h2 \in rest /\ rest \in SUBSET Nodes
      BY <2>2, <2>8, <3>1 DEF rest, Rest, Nodes, n
    <3>3. \A r \in rest : st.next[r] = IF r \in {job.n1, n} THEN Nil ELSE r + 1
      BY <2>2, <2>8 DEF Merging, n
    <3>4. st.h1 = n => st.h1 = job.n1
      BY <2>2, <3>1
    <3>5. st.h2 # job.n1
      BY <2>2, <3>1
    <3>6. /\ st.next[st.h1] = (IF st.h1 = job.n1 THEN Nil ELSE st.h1 + 1)
          /\ st.next[st.h2] = (IF st.h2 = n THEN Nil ELSE st.h2 + 1)
      BY <3>2, <3>3, <3>4, <3>5
    <3>7. \A r \in rest : r \in Nodes /\ (r <= job.n1 => st.h1 <= r) /\ (~(r <= job.n1) => st.h2 <= r)
      BY DEF rest, Rest
    <3>8. \A r \in Nodes : job.data[r] \in Int
      BY <2>2 DEF MergeJob, Nodes
    <3>. QED
      BY <2>8, <3>1, <3>2, <3>6, <3>7, <3>8
  <2>9. CASE TakeFirst
    <3>1. /\ st.pc = "loop" /\ Nil \notin {st.h1, st.h2} /\ job.data[st.h1] < job.data[st.h2]
          /\ st' = [st EXCEPT !.next[st.tail] = st.h1, !.tail = st.h1, !.h1 = st.next[st.h1]]
          /\ st.walk = <<>> /\ Merging(st.next, st.tail, rest)
      BY <2>2, <2>9 DEF TakeFirst, At, Becomes
    <3>2. ASSUME NEW r \in rest, r # st.h1 PROVE Before(st.h1, r)
      <4>1. CASE r <= job.n1
        <5>1. st.h1 \in Nodes /\ r \in Nodes /\ st.h1 < r /\ st.h1 <= job.n1
          BY <2>2, <2>8, <3>1, <3>2, <4>1 DEF Nodes
        <5>. QED
          BY <2>2, <4>1, <5>1, BeforeOrders
      <4>2. CASE ~(r <= job.n1)
        <5>1. st.h2 \in Nodes /\ r \in Nodes /\ st.h2 <= r /\ ~(st.h2 <= job.n1) /\ st.h1 \in Nodes
          BY <2>2, <2>8, <3>1, <3>2, <4>2 DEF Nodes
        <5>2. job.data[st.h2] <= job.data[r]
          BY <2>2, <4>2, <5>1 DEF MergeJob
        <5>3. job.data[st.h1] < job.data[r]
          BY <2>8, <3>1, <5>1, <5>2
        <5>. QED
          BY <5>3 DEF Before
      <4>. QED
        BY <4>1, <4>2
    <3> DEFINE links == [st.next EXCEPT ![st.tail] = st.h1]
               on    == st.next[st.h1]
    <3>3. Merging(links, st.h1, rest \ {st.h1})
      BY <2>2, <2>8, <3>1, <3>2, TakeKeeps
    <3>4. st' = [pc |-> "loop", next |-> links, h1 |-> on, h2 |-> st.h2, tail |-> st.h1,
                 h |-> st.h, walk |-> <<>>]
      BY <2>2, <3>1
    <3>5. on = (IF st.h1 = job.n1 THEN Nil ELSE st.h1 + 1)
      BY <2>8, <3>1
    <3> HIDE DEF links, on
    <3>6. on \in {Nil} \union (1 .. job.n1)
      BY <2>2, <2>8, <3>1, <3>5
    <3>7. Rest(on, st.h2) = rest \ {st.h1}
      BY <2>2, <2>8, <3>1, <3>5 DEF rest, Rest, Nodes, Nil
    <3>8. Merging(links, st.h1, Rest(on, st.h2))
      BY <3>3, <3>7
    <3>. QED
      BY <2>2, <2>3, <3>4, <3>6, <3>8
  <2>10. CASE TakeSecond
    <3>1. /\ st.pc = "loop" /\ Nil \notin {st.h1, st.h2} /\ job.data[st.h1] >= job.data[st.h2]
          /\ st' = [st EXCEPT !.next[st.tail] = st.h2, !.tail = st.h2, !.h2 = st.next[st.h2]]
          /\ st.walk = <<>> /\ Merging(st.next, st.tail, rest)
      BY <2>2, <2>10 DEF TakeSecond, At, Becomes
    <3>2. ASSUME NEW r \in rest, r # st.h2 PROVE Before(st.h2, r)
      <4>1. CASE ~(r <= job.n1)
        <5>1. st.h2 \in Nodes /\ r \in Nodes /\ st.h2 < r /\ ~(st.h2 <= job.n1)
          BY <2>2, <2>8, <3>1, <3>2, <4>1 DEF Nodes
        <5>. QED
          BY <2>2, <4>1, <5>1, BeforeOrders
      <4>2. CASE r <= job.n1
        <5>1. st.h1 \in Nodes /\ r \in Nodes /\ st.h1 <= r /\ st.h1 <= job.n1 /\ st.h2 \in Nodes
          BY <2>2, <2>8, <3>1, <3>2, <4>2 DEF Nodes
        <5>2. job.data[st.h1] <= job.data[r]
          BY <2>2, <4>2, <5>1 DEF MergeJob
        <5>3. job.data[st.h2] < job.data[r] \/ job.data[st.h2] = job.data[r]
          BY <2>8, <3>1, <5>1, <5>2
        <5>4. st.h2 \notin 1 .. job.n1 /\ r \in 1 .. job.n1
          BY <2>2, <2>8, <3>1, <4>2, <5>1 DEF Nodes
        <5>. QED
          BY <5>3, <5>4 DEF Before
      <4>. QED
        BY <4>1, <4>2
    <3> DEFINE links == [st.next EXCEPT ![st.tail] = st.h2]
               on    == st.next[st.h2]
    <3>3. Merging(links, st.h2, rest \ {st.h2})
      BY <2>2, <2>8, <3>1, <3>2, TakeKeeps
    <3>4. st' = [pc |-> "loop", next |-> links, h1 |-> st.h1, h2 |-> on, tail |-> st.h2,
                 h |-> st.h, walk |-> <<>>]
      BY <2>2, <3>1
    <3>5. on = (IF st.h2 = n THEN Nil ELSE st.h2 + 1)
      BY <2>8, <3>1
    <3> HIDE DEF links, on
    <3>6. on \in {Nil} \union (job.n1 + 1 .. n)
      BY <2>2, <2>8, <3>1, <3>5
    <3>7. Rest(st.h1, on) = rest \ {st.h2}
      BY <2>2, <2>8, <3>1, <3>5 DEF rest, Rest, Nodes, Nil, n
    <3>8. Merging(links, st.h2, Rest(st.h1, on))
      BY <3>3, <3>7
    <3>. QED
      BY <2>2, <2>3, <3>4, <3>6, <3>8
  <2>11. CASE LinkRest
    <3> DEFINE x     == IF st.h1 = Nil THEN st.h2 ELSE st.h1
               links == [st.next EXCEPT ![st.tail] = x]
    <3>1. /\ st.pc = "loop" /\ Nil \in {st.h1, st.h2} /\ st.walk = <<>>
          /\ st' = [st EXCEPT !.next = links, !.h = links[Dummy], !.pc = "walk"]
      BY <2>2, <2>11 DEF LinkRest, At, Becomes
    <3>2. First(links[Dummy]) /\ \A m \in Nodes : Follows(m, links[m])
      BY <2>2, <2>5, <3>1
    <3> HIDE DEF links
    <3>3. st' = [pc |-> "walk", next |-> links, h1 |-> st.h1, h2 |-> st.h2, tail |-> st.tail,
                 h |-> links[Dummy], walk |-> <<>>]
      BY <2>2, <3>1
    <3>4. Walking(links, <<>>, links[Dummy])
      BY <3>2, WalkStarts
    <3>. QED
      BY <2>4, <3>3, <3>4
  <2>12. CASE WalkOn
    <3>1. /\ st.pc = "walk" /\ st.h # Nil
          /\ st' = [st EXCEPT !.walk = Append(st.walk, st.h), !.h = st.next[st.h]]
      BY <2>12 DEF WalkOn, At, Becomes
    <3>2. st' = [pc |-> "walk", next |-> st.next, h1 |-> st.h1, h2 |-> st.h2, tail |-> st.tail,
                 h |-> st.next[st.h], walk |-> Append(st.walk, st.h)]
      BY <2>2, <3>1
    <3>3. Walking(st.next, Append(st.walk, st.h), st.next[st.h])
      BY <2>2, <3>1, WalkGoesOn
    <3>. QED
      BY <2>4, <3>2, <3>3
  <2>13. CASE WalkEnds
    <3>1. st.pc = "walk" /\ st.h = Nil /\ st' = [st EXCEPT !.pc = "done"]
      BY <2>13 DEF WalkEnds, At, Becomes
    <3>2. st' = [pc |-> "done", next |-> st.next, h1 |-> st.h1, h2 |-> st.h2, tail |-> st.tail,
                 h |-> st.h, walk |-> st.walk]
      BY <2>2, <3>1
    <3>. QED
      BY <2>2, <2>4, <3>1, <3>2
  <2>. QED
    BY <1>2, <2>6, <2>7, <2>9, <2>10, <2>11, <2>12, <2>13 DEF MergeNext
<1>. QED
  BY <1>1, <1>2, OwnSteps DEF Next

\* The merged list has every node of both lists, once and in order.
THEOREM MergeIsRight == Spec => []MergesAllNodes
<1>1. MergeInv => MergesAllNodes
  <2>. SUFFICES ASSUME MergeInv, job.prog = "merge", st.pc = "done"
                PROVE  MergesAllNodes
    BY DEF MergesAllNodes, At
  <2>1. Walking(st.next, st.walk, st.h) /\ st.h = Nil /\ job.data \in Seq(Int)
    BY DEF MergeInv, MergeJob
  <2>2. /\ st.walk \in Seq(Nodes) /\ \A k \in Nodes : \E i \in 1 .. Len(st.walk) : st.walk[i] = k
        /\ \A i, j \in 1 .. Len(st.walk) : i < j => Before(st.walk[i], st.walk[j])
    BY <2>1 DEF Walking
  <2>3. DOMAIN st.walk = 1 .. Len(st.walk) /\ DOMAIN job.data = Nodes
    BY <2>1, <2>2 DEF Nodes
  <2>4. {st.walk[i] : i \in 1 .. Len(st.walk)} = Nodes
    BY <2>2, SMTT(30)
  <2>. QED
    BY <2>2, <2>3, <2>4 DEF MergesAllNodes
<1>. QED
  BY <1>1, MergeInit, MergeNextKeeps, PTL DEF Spec

-------------------------------------------------------------------------------
(* Multiplying decimals.                                                    *)

\* Linear recursions have solutions.
Linear(g, a, p, q, m) ==
  g \in [0 .. m -> Int] /\ g[0] = a /\ \A n \in 1 .. m : g[n] = p * g[n - 1] + q[n]

LEMMA LinearRecursion ==
  ASSUME NEW m \in Nat, NEW a \in Int, NEW p \in Int, NEW q \in [1 .. m -> Int]
  PROVE  \E g : Linear(g, a, p, q, m)
<1> DEFINE Step == [n \in 1 .. m |-> [x \in Int |-> p * x + q[n]]]
<1>1. \A n \in 1 .. m, x \in Int : p * x + q[n] \in Int
  OBVIOUS
<1>2. Step \in [1 .. m -> [Int -> Int]]
  BY <1>1
<1>3. \A n \in 1 .. m, x \in Int : Step[n][x] = p * x + q[n]
  OBVIOUS
<1> HIDE DEF Step
<1>4. PICK g : Solves(g, Int, a, m, Step)
  <2>1. Recursion(Int, a, m, Step)
    BY <1>2 DEF Recursion
  <2>. QED
    BY <2>1, RecursionSolved
<1>5. g \in [0 .. m -> Int] /\ g[0] = a /\ \A n \in 1 .. m : g[n] = Step[n][g[n - 1]]
  BY <1>4 DEF Solves
<1>6. ASSUME NEW n \in 1 .. m PROVE g[n] = p * g[n - 1] + q[n]
  <2>1. n - 1 \in 0 .. m
    OBVIOUS
  <2>2. g[n - 1] \in Int
    BY <1>5, <2>1
  <2>. QED
    BY <1>3, <1>5, <2>2
<1>7. Linear(g, a, p, q, m)
  BY <1>5, <1>6 DEF Linear
<1>. QED
  BY <1>7

\* The powers of ten up to the n-th.
IsPowers(w, n) == w \in [0 .. n -> Int] /\ w[0] = 1 /\ \A k \in 1 .. n : w[k] = 10 * w[k - 1]
Powers(n)      == CHOOSE w : IsPowers(w, n)

LEMMA PowersExist ==
  ASSUME NEW n \in Nat
  PROVE  IsPowers(Powers(n), n)
<1> DEFINE q == [i \in 1 .. n |-> 0]
<1>1. q \in [1 .. n -> Int] /\ 1 \in Int /\ 10 \in Int /\ \A k \in 1 .. n : q[k] = 0
  OBVIOUS
<1> HIDE DEF q
<1>2. PICK w : Linear(w, 1, 10, q, n)
  BY <1>1, LinearRecursion
<1>3. w \in [0 .. n -> Int] /\ w[0] = 1 /\ \A k \in 1 .. n : w[k] = 10 * w[k - 1] + q[k]
  BY <1>2 DEF Linear
<1>4. ASSUME NEW k \in 1 .. n PROVE w[k] = 10 * w[k - 1]
  <2>1. k - 1 \in 0 .. n
    OBVIOUS
  <2>2. w[k - 1] \in Int /\ w[k] = 10 * w[k - 1] + 0
    BY <1>1, <1>3, <2>1
  <2>. QED
    BY <2>2
<1>5. IsPowers(w, n)
  BY <1>3, <1>4 DEF IsPowers
<1>. QED
  BY <1>5 DEF Powers

\* None of the powers is zero.
LEMMA PowersArePositive ==
  ASSUME NEW n \in Nat, NEW w, IsPowers(w, n)
  PROVE  \A k \in 0 .. n : w[k] \in Int /\ w[k] >= 1
<1> DEFINE S == {k \in 0 .. n : w[k] >= 1}
<1>1. w \in [0 .. n -> Int] /\ w[0] = 1 /\ \A k \in 1 .. n : w[k] = 10 * w[k - 1]
  BY DEF IsPowers
<1>2. 0 \in S
  BY <1>1
<1>3. ASSUME NEW k \in 0 .. n - 1, k \in S PROVE k + 1 \in S
  <2>1. k + 1 \in 1 .. n /\ (k + 1) - 1 = k /\ k \in 0 .. n /\ k + 1 \in 0 .. n
    OBVIOUS
  <2>2. w[k + 1] = 10 * w[k] /\ w[k] \in Int /\ w[k] >= 1
    BY <1>1, <1>3, <2>1
  <2>. QED
    BY <2>1, <2>2
<1> HIDE DEF S
<1>4. \A k \in 0 .. n : k \in S
  BY <1>2, <1>3, InductionUpTo
<1>. QED
  BY <1>1, <1>4 DEF S

\* Powers are multiplied by adding their exponents.
LEMMA PowersAdd ==
  ASSUME NEW n \in Nat, NEW w, IsPowers(w, n), NEW a \in Nat, NEW b \in Nat, a + b <= n
  PROVE  w[a + b] = w[a] * w[b]
<1> DEFINE S == {k \in 0 .. b : w[a + k] = w[a] * w[k]}
<1>1. w \in [0 .. n -> Int] /\ w[0] = 1 /\ \A k \in 1 .. n : w[k] = 10 * w[k - 1]
  BY DEF IsPowers
<1>2. 0 \in S
  <2>1. w[a] \in Int /\ a + 0 = a
    BY <1>1
  <2>. QED
    BY <1>1, <2>1
<1>3. ASSUME NEW k \in 0 .. b - 1, k \in S PROVE k + 1 \in S
  <2>1. /\ k + 1 \in 1 .. n /\ (k + 1) - 1 = k /\ k \in 0 .. n /\ a \in 0 .. n /\ k + 1 \in 0 .. b
        /\ a + (k + 1) \in 1 .. n /\ (a + (k + 1)) - 1 = a + k
    OBVIOUS
  <2>2. w[k + 1] = 10 * w[k] /\ w[a + (k + 1)] = 10 * w[a + k] /\ w[k] \in Int /\ w[a] \in Int
    BY <1>1, <2>1
  <2>3. w[a + k] = w[a] * w[k]
    BY <1>3
  <2>4. \A x, y \in Int : 10 * (x * y) = x * (10 * y)
    OBVIOUS
  <2>. QED
    BY <2>1, <2>2, <2>3, <2>4
<1> HIDE DEF S
<1>4. \A k \in 0 .. b : k \in S
  BY <1>2, <1>3, InductionUpTo
<1>5. b \in S
  BY <1>4
<1>. QED
  BY <1>5 DEF S

\* What the last cells of f stand for: v[t] is the value of the last t of its n cells.
IsValue(v, f, n, w) ==
  v \in [0 .. n -> Int] /\ v[0] = 0 /\ \A t \in 1 .. n : v[t] = v[t - 1] + f[n - t] * w[t - 1]
Value(f, n, w) == CHOOSE v : IsValue(v, f, n, w)

LEMMA ValueExists ==
  ASSUME NEW n \in Nat, NEW m \in Nat, n <= m, NEW w, IsPowers(w, m), NEW f \in [0 .. n - 1 -> Int]
  PROVE  IsValue(Value(f, n, w), f, n, w)
<1> DEFINE q == [t \in 1 .. n |-> f[n - t] * w[t - 1]]
<1>1. \A t \in 1 .. n : f[n - t] \in Int /\ w[t - 1] \in Int
  BY DEF IsPowers
<1>2. q \in [1 .. n -> Int]
  BY <1>1
<1>3. \A t \in 1 .. n : q[t] = f[n - t] * w[t - 1]
  OBVIOUS
<1> HIDE DEF q
<1>4. PICK v : v \in [0 .. n -> Int] /\ v[0] = 0 /\ \A t \in 1 .. n : v[t] = 1 * v[t - 1] + q[t]
  <2>1. 0 \in Int /\ 1 \in Int
    OBVIOUS
  <2>2. \E v : Linear(v, 0, 1, q, n)
    BY <1>2, <2>1, LinearRecursion
  <2>. QED
    BY <2>2 DEF Linear
<1>5. ASSUME NEW t \in 1 .. n PROVE v[t] = v[t - 1] + f[n - t] * w[t - 1]
  <2>1. t - 1 \in 0 .. n
    OBVIOUS
  <2>2. v[t - 1] \in Int /\ v[t] = 1 * v[t - 1] + q[t] /\ q[t] \in Int
    BY <1>2, <1>4, <2>1
  <2>3. v[t] = v[t - 1] + q[t]
    BY <2>2
  <2>. QED
    BY <1>3, <2>3
<1>6. IsValue(v, f, n, w)
  BY <1>4, <1>5 DEF IsValue
<1>. QED
  BY <1>6 DEF Value

\* The same with the powers that the cells need.
LEMMA ValueHere ==
  ASSUME NEW n \in Nat, NEW w, IsPowers(w, n), NEW f \in [0 .. n - 1 -> Int]
  PROVE  IsValue(Value(f, n, w), f, n, w)
<1>1. n <= n
  OBVIOUS
<1>. QED
  BY <1>1, ValueExists

\* Cells that are zero.
LEMMA ValueOfZeros ==
  ASSUME NEW n \in Nat, NEW m \in Nat, n <= m, NEW w, IsPowers(w, m), NEW f, \A k \in 0 .. n - 1 : f[k] = 0,
         NEW v, IsValue(v, f, n, w)
  PROVE  \A t \in 0 .. n : v[t] = 0
<1> DEFINE S == {t \in 0 .. n : v[t] = 0}
<1>1. v[0] = 0 /\ \A t \in 1 .. n : v[t] = v[t - 1] + f[n - t] * w[t - 1]
  BY DEF IsValue
<1>2. 0 \in S
  BY <1>1
<1>3. ASSUME NEW t \in 0 .. n - 1, t \in S PROVE t + 1 \in S
  <2>1. t + 1 \in 1 .. n /\ (t + 1) - 1 = t /\ n - (t + 1) \in 0 .. n - 1 /\ t + 1 \in 0 .. n /\ t \in 0 .. m
    OBVIOUS
  <2>2. v[t + 1] = v[t] + f[n - (t + 1)] * w[t] /\ v[t] = 0 /\ f[n - (t + 1)] = 0 /\ w[t] \in Int
    BY <1>1, <1>3, <2>1 DEF IsPowers
  <2>3. v[t + 1] = 0 + 0 * w[t]
    BY <2>2
  <2>. QED
    BY <2>1, <2>2, <2>3
<1> HIDE DEF S
<1>4. \A t \in 0 .. n : t \in S
  BY <1>2, <1>3, InductionUpTo
<1>. QED
  BY <1>4 DEF S

\* Facts about products, so that the provers need none where sums are compared.
LEMMA ProductIsInt == \A x, y \in Int : x * y \in Int
OBVIOUS

\* A digit times a number.
LEMMA DigitTimes ==
  ASSUME NEW d \in 0 .. 9, NEW x \in Int, x >= 1
  PROVE  d * x \in Int /\ 0 <= d * x /\ d * x <= 9 * x
BY d = 0 \/ d = 1 \/ d = 2 \/ d = 3 \/ d = 4 \/ d = 5 \/ d = 6 \/ d = 7 \/ d = 8 \/ d = 9

\* Products come apart.
LEMMA Distributes ==
  ASSUME NEW x \in Int, NEW y \in Int, NEW z \in Int
  PROVE  (x + y) * z = x * z + y * z /\ (x - y) * z = x * z - y * z
OBVIOUS

\* Ten moves to the other factor.
LEMMA MovesTen ==
  ASSUME NEW x \in Int, NEW y \in Int
  PROVE  (10 * x) * y = x * (10 * y) /\ 10 * (x * y) = x * (10 * y)
OBVIOUS

\* Digits stand for less than the next power of ten.
LEMMA ValueOfDigits ==
  ASSUME NEW n \in Nat, NEW m \in Nat, n <= m, NEW w, IsPowers(w, m), NEW f \in [0 .. n - 1 -> 0 .. 9],
         NEW v, IsValue(v, f, n, w)
  PROVE  \A t \in 0 .. n : 0 <= v[t] /\ v[t] <= w[t] - 1
<1> DEFINE S == {t \in 0 .. n : 0 <= v[t] /\ v[t] <= w[t] - 1}
<1>1. /\ v \in [0 .. n -> Int] /\ v[0] = 0 /\ \A t \in 1 .. n : v[t] = v[t - 1] + f[n - t] * w[t - 1]
      /\ w[0] = 1 /\ \A k \in 1 .. m : w[k] = 10 * w[k - 1]
      /\ \A k \in 0 .. m : w[k] \in Int /\ w[k] >= 1
  BY PowersArePositive DEF IsValue, IsPowers
<1>2. 0 \in S
  BY <1>1
<1>3. ASSUME NEW t \in 0 .. n - 1, t \in S PROVE t + 1 \in S
  <2>1. /\ t + 1 \in 1 .. n /\ (t + 1) - 1 = t /\ n - (t + 1) \in 0 .. n - 1 /\ t + 1 \in 0 .. n
        /\ t \in 0 .. m /\ t + 1 \in 1 .. m /\ t \in 0 .. n
    OBVIOUS
  <2>2. /\ v[t + 1] = v[t] + f[n - (t + 1)] * w[t] /\ f[n - (t + 1)] \in 0 .. 9
        /\ w[t] \in Int /\ w[t] >= 1 /\ w[t + 1] = 10 * w[t] /\ v[t] \in Int
    BY <1>1, <2>1
  <2>3. 0 <= v[t] /\ v[t] <= w[t] - 1
    BY <1>3
  <2> DEFINE y == f[n - (t + 1)] * w[t]
  <2>4. y \in Int /\ 0 <= y /\ y <= 9 * w[t]
    BY <2>2, DigitTimes
  <2>5. v[t + 1] = v[t] + y
    BY <2>2
  <2> HIDE DEF y
  <2>6. v[t] \in Int /\ w[t] \in Int /\ w[t + 1] = 10 * w[t]
    BY <2>2
  <2>7. 0 <= v[t + 1] /\ v[t + 1] <= w[t + 1] - 1
    BY <2>3, <2>4, <2>5, <2>6, SMTT(30)
  <2>. QED
    BY <2>1, <2>7
<1> HIDE DEF S
<1>4. \A t \in 0 .. n : t \in S
  BY <1>2, <1>3, InductionUpTo
<1>. QED
  BY <1>4 DEF S

\* A cell that changes moves the values it is part of.
Moves(u, v, n, k, add, w) ==
  \A t \in 0 .. n : u[t] = IF t < n - k THEN v[t] ELSE v[t] + add * w[(n - 1) - k]

LEMMA ValueMoves ==
  ASSUME NEW n \in Nat, NEW m \in Nat, n <= m, NEW w, IsPowers(w, m), NEW f \in [0 .. n - 1 -> Int],
         NEW k \in 0 .. n - 1, NEW x \in Int,
         NEW v, IsValue(v, f, n, w), NEW u, IsValue(u, [f EXCEPT ![k] = x], n, w)
  PROVE  Moves(u, v, n, k, x - f[k], w)
<1> DEFINE S == {t \in 0 .. n : u[t] = IF t < n - k THEN v[t] ELSE v[t] + (x - f[k]) * w[(n - 1) - k]}
           g == [f EXCEPT ![k] = x]
<1>1. /\ v \in [0 .. n -> Int] /\ v[0] = 0 /\ \A t \in 1 .. n : v[t] = v[t - 1] + f[n - t] * w[t - 1]
      /\ u \in [0 .. n -> Int] /\ u[0] = 0 /\ \A t \in 1 .. n : u[t] = u[t - 1] + g[n - t] * w[t - 1]
      /\ w \in [0 .. m -> Int]
  BY DEF IsValue, IsPowers
<1>2. g[k] = x /\ \A i \in 0 .. n - 1 : i # k => g[i] = f[i]
  OBVIOUS
<1> HIDE DEF g
<1>3. 0 \in S
  BY <1>1
<1>4. ASSUME NEW t \in 0 .. n - 1, t \in S PROVE t + 1 \in S
  <2>1. /\ t + 1 \in 1 .. n /\ (t + 1) - 1 = t /\ n - (t + 1) \in 0 .. n - 1 /\ t + 1 \in 0 .. n
        /\ t \in 0 .. m /\ t \in 0 .. n /\ (n - 1) - k \in 0 .. m
    OBVIOUS
  <2>2. /\ v[t + 1] = v[t] + f[n - (t + 1)] * w[t] /\ u[t + 1] = u[t] + g[n - (t + 1)] * w[t]
        /\ w[t] \in Int /\ v[t] \in Int /\ f[n - (t + 1)] \in Int /\ f[k] \in Int
        /\ w[(n - 1) - k] \in Int /\ v[t + 1] \in Int
    BY <1>1, <2>1
  <2>3. u[t] = IF t < n - k THEN v[t] ELSE v[t] + (x - f[k]) * w[(n - 1) - k]
    BY <1>4
  <2>4. CASE t + 1 < n - k
    BY <1>2, <2>1, <2>2, <2>3, <2>4, SMTT(30)
  <2>5. CASE t + 1 = n - k
    <3>1. n - (t + 1) = k /\ t = (n - 1) - k /\ t < n - k
      BY <2>5
    <3>2. u[t + 1] = v[t] + x * w[t] /\ v[t + 1] = v[t] + f[k] * w[t]
      BY <1>2, <2>2, <2>3, <3>1
    <3>3. (x - f[k]) * w[t] = x * w[t] - f[k] * w[t] /\ x * w[t] \in Int /\ f[k] * w[t] \in Int
      <4>1. f[k] \in Int /\ w[t] \in Int
        BY <2>2
      <4>. QED
        BY <4>1, Distributes, ProductIsInt
    <3> DEFINE y == x * w[t]
               z == f[k] * w[t]
    <3>4. /\ u[t + 1] = v[t] + y /\ v[t + 1] = v[t] + z /\ (x - f[k]) * w[t] = y - z
          /\ v[t] \in Int /\ y \in Int /\ z \in Int
      BY <2>2, <3>2, <3>3
    <3> HIDE DEF y, z
    <3>5. u[t + 1] = v[t + 1] + (x - f[k]) * w[t]
      BY <3>4
    <3>. QED
      BY <2>1, <2>5, <3>1, <3>5
  <2>6. CASE t + 1 > n - k
    <3>1. n - (t + 1) # k /\ ~(t < n - k) /\ ~(t + 1 < n - k)
      BY <2>6
    <3> DEFINE y == (x - f[k]) * w[(n - 1) - k]
               z == f[n - (t + 1)] * w[t]
    <3>2. u[t + 1] = (v[t] + y) + z /\ v[t + 1] = v[t] + z
      BY <1>2, <2>1, <2>2, <2>3, <3>1
    <3>3. y \in Int /\ z \in Int
      <4>1. x - f[k] \in Int
        BY <2>2
      <4>. QED
        BY <2>2, <4>1, ProductIsInt
    <3> HIDE DEF y, z
    <3>4. u[t + 1] = v[t + 1] + y
      BY <2>2, <3>2, <3>3, SMTT(30)
    <3>. QED
      BY <2>1, <3>1, <3>4 DEF y
  <2>. QED
    BY <2>4, <2>5, <2>6
<1> HIDE DEF S
<1>5. \A t \in 0 .. n : t \in S
  BY <1>3, <1>4, InductionUpTo
<1>. QED
  BY <1>5 DEF S, Moves

\* Cells that end alike have ends of the same value.
EndAlike(f, g, n, o) == \A t \in 1 .. o : f[n - t] = g[o - t]
SameUpTo(v, u, o)    == \A t \in 0 .. o : v[t] = u[t]

LEMMA ValueOfEnds ==
  ASSUME NEW n \in Nat, NEW o \in Nat, NEW m \in Nat, o <= n, n <= m, NEW w, IsPowers(w, m),
         NEW f \in [0 .. n - 1 -> Int], NEW g \in [0 .. o - 1 -> Int], EndAlike(f, g, n, o),
         NEW v, IsValue(v, f, n, w), NEW u, IsValue(u, g, o, w)
  PROVE  SameUpTo(v, u, o)
<1> DEFINE S == {t \in 0 .. o : v[t] = u[t]}
<1>1. /\ v[0] = 0 /\ \A t \in 1 .. n : v[t] = v[t - 1] + f[n - t] * w[t - 1]
      /\ u[0] = 0 /\ \A t \in 1 .. o : u[t] = u[t - 1] + g[o - t] * w[t - 1]
      /\ \A t \in 1 .. o : f[n - t] = g[o - t]
  BY DEF IsValue, EndAlike
<1>2. 0 \in S
  BY <1>1
<1>3. ASSUME NEW t \in 0 .. o - 1, t \in S PROVE t + 1 \in S
  <2>1. t + 1 \in 1 .. o /\ t + 1 \in 1 .. n /\ (t + 1) - 1 = t /\ t + 1 \in 0 .. o
    OBVIOUS
  <2>2. /\ v[t + 1] = v[t] + f[n - (t + 1)] * w[t] /\ u[t + 1] = u[t] + g[o - (t + 1)] * w[t]
        /\ f[n - (t + 1)] = g[o - (t + 1)] /\ v[t] = u[t]
    BY <1>1, <1>3, <2>1
  <2>. QED
    BY <2>1, <2>2
<1> HIDE DEF S
<1>4. \A t \in 0 .. o : t \in S
  BY <1>2, <1>3, InductionUpTo
<1>. QED
  BY <1>4 DEF S, SameUpTo

\* The recursion of NumberOf has its solution.
LEMMA NumberSteps ==
  ASSUME NEW s \in Seq(Int)
  PROVE  /\ NumberOf(s) \in [0 .. Len(s) -> Int] /\ NumberOf(s)[0] = 0
         /\ \A k \in 1 .. Len(s) : NumberOf(s)[k] = 10 * NumberOf(s)[k - 1] + s[k]
<1> DEFINE n == Len(s)
           Body(g) == [k \in 0 .. n |-> IF k = 0 THEN 0 ELSE 10 * g[k - 1] + s[k]]
           h == CHOOSE g : g = Body(g)
<1>1. n \in Nat /\ s \in [1 .. n -> Int] /\ 0 \in Int /\ 10 \in Int
  OBVIOUS
<1>2. NumberOf(s) = h
  BY DEF NumberOf
<1>3. PICK g : Linear(g, 0, 10, s, n)
  BY <1>1, LinearRecursion
<1>4. g \in [0 .. n -> Int] /\ g[0] = 0 /\ \A k \in 1 .. n : g[k] = 10 * g[k - 1] + s[k]
  BY <1>3 DEF Linear
<1>5. g = Body(g)
  <2>1. \A k \in 0 .. n : g[k] = Body(g)[k]
    BY <1>1, <1>4
  <2>. QED
    BY <1>4, <2>1
<1>6. h = Body(h)
  BY <1>5
<1> HIDE DEF h
<1> HIDE DEF n
<1> DEFINE S == {k \in 0 .. n : h[k] = g[k]}
<1>7. h[0] = 0 /\ \A k \in 1 .. n : h[k] = 10 * h[k - 1] + s[k]
  <2>1. h[0] = 0
    BY <1>1, <1>6
  <2>2. ASSUME NEW k \in 1 .. n PROVE h[k] = 10 * h[k - 1] + s[k]
    <3>1. k \in 0 .. n /\ k # 0
      BY <1>1
    <3>. QED
      BY <1>6, <3>1
  <2>. QED
    BY <2>1, <2>2
<1>8. 0 \in S
  BY <1>1, <1>4, <1>7
<1>9. ASSUME NEW k \in 0 .. n - 1, k \in S PROVE k + 1 \in S
  <2>1. k + 1 \in 1 .. n /\ (k + 1) - 1 = k /\ k + 1 \in 0 .. n
    BY <1>1
  <2>2. h[k + 1] = 10 * h[k] + s[k + 1] /\ g[k + 1] = 10 * g[k] + s[k + 1] /\ h[k] = g[k]
    BY <1>4, <1>7, <1>9, <2>1
  <2>. QED
    BY <2>1, <2>2
<1> HIDE DEF S
<1>10. \A k \in 0 .. n : k \in S
  BY <1>1, <1>8, <1>9, InductionUpTo
<1>11. \A k \in 0 .. n : h[k] = g[k]
  BY <1>10 DEF S
<1>12. h \in [0 .. n -> Int]
  <2>1. h = [k \in 0 .. n |-> h[k]]
    BY <1>6
  <2>2. \A k \in 0 .. n : h[k] \in Int
    BY <1>4, <1>11
  <2>. QED
    BY <2>1, <2>2
<1>. QED
  BY <1>2, <1>7, <1>12 DEF n

Cells(s) == [k \in 0 .. Len(s) - 1 |-> s[k + 1]]

\* Reading digits from the front, as Number does, or from the end is the same.
LEMMA NumberIsValue ==
  ASSUME NEW s \in Seq(Int), NEW m \in Nat, Len(s) <= m, NEW w, IsPowers(w, m),
         NEW v, IsValue(v, Cells(s), Len(s), w)
  PROVE  Number(s) = v[Len(s)]
<1> DEFINE n == Len(s)
           h == NumberOf(s)
           S == {t \in 0 .. n : h[n] = h[n - t] * w[t] + v[t]}
<1>1. n \in Nat /\ n <= m /\ s \in [1 .. n -> Int]
  OBVIOUS
<1>2. h \in [0 .. n -> Int] /\ h[0] = 0 /\ \A k \in 1 .. n : h[k] = 10 * h[k - 1] + s[k]
  BY NumberSteps
<1>3. /\ v \in [0 .. n -> Int] /\ v[0] = 0 /\ \A t \in 1 .. n : v[t] = v[t - 1] + Cells(s)[n - t] * w[t - 1]
      /\ w \in [0 .. m -> Int] /\ w[0] = 1 /\ \A k \in 1 .. m : w[k] = 10 * w[k - 1]
  BY DEF IsValue, IsPowers
<1>4. \A t \in 0 .. n - 1 : Cells(s)[n - (t + 1)] = s[n - t]
  <2>1. \A k \in 0 .. n - 1 : Cells(s)[k] = s[k + 1]
    BY DEF Cells
  <2>2. ASSUME NEW t \in 0 .. n - 1 PROVE n - (t + 1) \in 0 .. n - 1 /\ (n - (t + 1)) + 1 = n - t
    BY <1>1
  <2>. QED
    BY <2>1, <2>2
<1>5. Number(s) = h[n]
  BY DEF Number
<1> HIDE DEF n, h
<1>6. 0 \in S
  <2>1. n - 0 = n /\ n \in 0 .. n /\ 0 \in 0 .. n /\ h[n] \in Int
    BY <1>1, <1>2
  <2>2. h[n] = h[n] * 1 + 0
    BY <2>1
  <2>. QED
    BY <1>3, <2>1, <2>2
<1>7. ASSUME NEW t \in 0 .. n - 1, t \in S PROVE t + 1 \in S
  <2>1. /\ t + 1 \in 1 .. n /\ (t + 1) - 1 = t /\ t + 1 \in 0 .. n /\ n - t \in 1 .. n /\ n - t - 1 = n - (t + 1)
        /\ n - (t + 1) \in 0 .. n /\ t + 1 \in 1 .. m /\ t \in 0 .. m /\ t \in 0 .. n
    BY <1>1
  <2> DEFINE a == h[n - (t + 1)]
             b == w[t]
             d == s[n - t]
  <2>2. /\ h[n] = h[n - t] * b + v[t] /\ h[n - t] = 10 * a + d /\ v[t + 1] = v[t] + d * b /\ w[t + 1] = 10 * b
        /\ a \in Int /\ b \in Int /\ d \in Int /\ v[t] \in Int
    BY <1>1, <1>2, <1>3, <1>4, <1>7, <2>1
  <2> HIDE DEF a, b, d
  <2>3. (10 * a + d) * b = (10 * a) * b + d * b /\ (10 * a) * b = a * (10 * b)
    BY <2>2, MovesTen, Distributes
  <2>4. h[n] = (a * (10 * b) + d * b) + v[t]
    BY <2>2, <2>3
  <2>5. a * (10 * b) \in Int /\ d * b \in Int
    <3>1. 10 * b \in Int
      BY <2>2
    <3>. QED
      BY <2>2, <3>1, ProductIsInt
  <2>6. h[n] = a * (10 * b) + (v[t] + d * b)
    BY <2>2, <2>4, <2>5
  <2>7. h[n] = a * w[t + 1] + v[t + 1]
    BY <2>2, <2>6
  <2>. QED
    BY <2>1, <2>7 DEF a
<1> HIDE DEF S
<1>8. \A t \in 0 .. n : t \in S
  BY <1>1, <1>6, <1>7, InductionUpTo
<1>9. h[n] = h[n - n] * w[n] + v[n] /\ n - n = 0 /\ w[n] \in Int /\ v[n] \in Int
  BY <1>1, <1>3, <1>8 DEF S
<1>10. h[n] = 0 * w[n] + v[n]
  BY <1>2, <1>9
<1>11. h[n] = v[n]
  BY <1>9, <1>10
<1>. QED
  BY <1>5, <1>11 DEF n

DigitDue(p, c, w, r, d, e, w1, w2, b, q, x, y) ==
  p + c * w = r + (d * w1) * b /\ w = w1 * w2 /\ x + 10 * y = (q + d * e) + c
DigitDone(p, c, w, r, d, e, w1, w2, b, q, x, y) ==
  (p + (x - q) * w) + y * (10 * w) = r + (d * w1) * (b + e * w2)

\* A digit of the product: what it takes from the sum of the cell, the two digits
\* and the carry is what the cell and the next carry keep.
LEMMA DigitStep ==
  ASSUME NEW p \in Int, NEW c \in Int, NEW w \in Int, NEW r \in Int, NEW d \in Int, NEW e \in Int,
         NEW w1 \in Int, NEW w2 \in Int, NEW b \in Int, NEW q \in Int, NEW x \in Int, NEW y \in Int,
         DigitDue(p, c, w, r, d, e, w1, w2, b, q, x, y)
  PROVE  DigitDone(p, c, w, r, d, e, w1, w2, b, q, x, y)
<1>0. p + c * w = r + (d * w1) * b /\ w = w1 * w2 /\ x + 10 * y = (q + d * e) + c
  BY DEF DigitDue
<1>1. (x - q) * w = x * w - q * w
  BY Distributes
<1>2. y * (10 * w) = (10 * y) * w
  BY MovesTen
<1>3. ((q + d * e) + c) * w = (q * w + (d * e) * w) + c * w
  <2>1. d * e \in Int
    BY ProductIsInt
  <2>2. q + d * e \in Int
    BY <2>1
  <2>3. ((q + d * e) + c) * w = (q + d * e) * w + c * w
    BY <2>2, Distributes
  <2>4. (q + d * e) * w = q * w + (d * e) * w
    BY <2>1, Distributes
  <2>. QED
    BY <2>3, <2>4
<1>4. (x + 10 * y) * w = x * w + (10 * y) * w
  <2>1. 10 * y \in Int
    OBVIOUS
  <2>. QED
    BY <2>1, Distributes
<1>5. (d * w1) * (b + e * w2) = (d * w1) * b + (d * e) * w
  <2>1. (d * w1) * (e * w2) = (d * e) * (w1 * w2)
    OBVIOUS
  <2>2. \A z \in Int : z * (b + e * w2) = z * b + z * (e * w2)
    OBVIOUS
  <2>3. d * w1 \in Int
    BY ProductIsInt
  <2>4. (d * w1) * (b + e * w2) = (d * w1) * b + (d * w1) * (e * w2)
    BY <2>2, <2>3
  <2>. QED
    BY <1>0, <2>1, <2>4
<1> DEFINE xw == x * w
           qw == q * w
           yw == (10 * y) * w
           cw == c * w
           dw == (d * e) * w
           db == (d * w1) * b
<1>6. /\ xw \in Int /\ qw \in Int /\ yw \in Int /\ cw \in Int /\ dw \in Int /\ db \in Int
  <2>1. 10 * y \in Int /\ d * e \in Int /\ d * w1 \in Int
    BY ProductIsInt
  <2>. QED
    BY <2>1, ProductIsInt
<1>7. xw + yw = (qw + dw) + cw
  BY <1>0, <1>3, <1>4
<1>8. p + cw = r + db
  BY <1>0
<1> HIDE DEF xw, qw, yw, cw, dw, db
<1>9. (p + (xw - qw)) + yw = r + (db + dw)
  BY <1>6, <1>7, <1>8
<1>. QED
  BY <1>1, <1>2, <1>5, <1>9 DEF xw, qw, yw, dw, db, DigitDone

(* The loops over the digits.                                               *)

Width     == Len(job.s1) + Len(job.s2)
PowersOf  == Powers(Width)
ValueOf1  == Value(Cells(job.s1), Len(job.s1), PowersOf)
ValueOf2  == Value(Cells(job.s2), Len(job.s2), PowersOf)
ValueOfIt == Value(st.proInt, Width, PowersOf)

\* The rows below i are multiplied, and of row i the digits behind j; the carry is due
\* at the cell that is next.
Rows ==
  LET i == st.i  j == st.j  m1 == Len(job.s1)  m2 == Len(job.s2) IN
  /\ ~IsZero
  /\ i \in -1 .. m1 - 1 /\ j \in -1 .. m2 - 1 /\ st.c \in 0 .. 9 /\ st.proInt \in [0 .. Width - 1 -> 0 .. 9]
  /\ \A k \in 0 .. i : st.proInt[k] = 0
  /\ i >= 0 => ValueOfIt[(Width - 1) - i] + st.c * PowersOf[((Width - 2) - i) - j]
                 = ValueOf1[(m1 - 1) - i] * ValueOf2[m2]
                   + (job.s1[i + 1] * PowersOf[(m1 - 1) - i]) * ValueOf2[(m2 - 1) - j]
  /\ i < 0 => ValueOfIt[Width] = ValueOf1[m1] * ValueOf2[m2]

Untouched == /\ st.i = Len(job.s1) - 1 /\ st.j = Len(job.s2) - 1 /\ st.c = 0
             /\ st.proInt = [k \in 0 .. Width - 1 |-> 0]

Operands == \A s \in {job.s1, job.s2} : s = <<>> \/ Plain(s)

MultiplyInv == job.prog = "multiply" =>
  /\ Operands
  /\ st = [pc |-> st.pc, i |-> st.i, j |-> st.j, c |-> st.c, proInt |-> st.proInt, ret |-> st.ret]
  /\ st.pc \in {"call", "row", "done"}
  /\ st.pc = "call" => Untouched
  /\ st.pc = "row" => Rows
  /\ st.pc = "done" => Plain(st.ret) /\ Number(st.ret) = Number(job.s1) * Number(job.s2)

\* The first state has it.
LEMMA MultiplyInit == Init => MultiplyInv
<1>1. ASSUME NEW s1 \in Decimals, NEW s2 \in Decimals, Multiply(s1, s2)
      PROVE  MultiplyInv
  <2>1. /\ job.s1 = s1 /\ job.s2 = s2
        /\ st = [pc |-> "call", i |-> Len(s1) - 1, j |-> Len(s2) - 1, c |-> 0,
                 proInt |-> [k \in 0 .. (Len(s1) + Len(s2)) - 1 |-> 0], ret |-> <<>>]
    BY <1>1 DEF Multiply
  <2>2. Operands
    BY <2>1, DecimalAssumption DEF Operands
  <2>. QED
    BY <2>1, <2>2 DEF MultiplyInv, Width, Untouched
<1>. SUFFICES ASSUME Init, job.prog = "multiply"
              PROVE  MultiplyInv
  BY DEF MultiplyInv
<1>2. PICK s1 \in Decimals, s2 \in Decimals : Multiply(s1, s2)
  BY OwnInputs
<1>. QED
  BY <1>1, <1>2

\* What a run whose operands are not zero computes with.
LEMMA OperandFacts ==
  ASSUME Operands, ~IsZero
  PROVE  /\ job.s1 \in Seq(0 .. 9) /\ job.s2 \in Seq(0 .. 9) /\ Width \in Nat
         /\ Len(job.s1) \in Nat /\ Len(job.s2) \in Nat /\ Len(job.s1) >= 1 /\ Len(job.s2) >= 1
         /\ job.s1[1] # 0 /\ job.s2[1] # 0
         /\ IsPowers(PowersOf, Width)
         /\ Cells(job.s1) \in [0 .. Len(job.s1) - 1 -> 0 .. 9] /\ Cells(job.s2) \in [0 .. Len(job.s2) - 1 -> 0 .. 9]
         /\ IsValue(ValueOf1, Cells(job.s1), Len(job.s1), PowersOf)
         /\ IsValue(ValueOf2, Cells(job.s2), Len(job.s2), PowersOf)
<1>1. job.s1 # <<>> /\ job.s2 # <<>> /\ job.s1[1] # 0 /\ job.s2[1] # 0
  BY DEF IsZero
<1>2. job.s1 \in Seq(0 .. 9) /\ job.s2 \in Seq(0 .. 9)
  BY <1>1 DEF Operands, Plain
<1>3. ASSUME NEW s \in Seq(0 .. 9), s # <<>> PROVE Len(s) \in Nat /\ Len(s) >= 1
  BY <1>3
<1>4. /\ Len(job.s1) \in Nat /\ Len(job.s2) \in Nat /\ Len(job.s1) >= 1 /\ Len(job.s2) >= 1
  BY <1>1, <1>2, <1>3
<1>5. Width \in Nat /\ Len(job.s1) <= Width /\ Len(job.s2) <= Width
  <2>1. \A x, y \in Nat : x + y \in Nat /\ x <= x + y /\ y <= x + y
    OBVIOUS
  <2>. QED
    BY <1>4, <2>1 DEF Width
<1>6. IsPowers(PowersOf, Width)
  BY <1>5, PowersExist DEF PowersOf
<1>7. ASSUME NEW s \in Seq(0 .. 9), NEW l \in Nat, l = Len(s) PROVE Cells(s) \in [0 .. l - 1 -> 0 .. 9]
  BY <1>7 DEF Cells
<1>8. Cells(job.s1) \in [0 .. Len(job.s1) - 1 -> 0 .. 9] /\ Cells(job.s2) \in [0 .. Len(job.s2) - 1 -> 0 .. 9]
  BY <1>2, <1>4, <1>7
<1>9. ASSUME NEW f, NEW l \in Nat, f \in [0 .. l - 1 -> 0 .. 9] PROVE f \in [0 .. l - 1 -> Int]
  BY <1>9
<1>10. Cells(job.s1) \in [0 .. Len(job.s1) - 1 -> Int] /\ Cells(job.s2) \in [0 .. Len(job.s2) - 1 -> Int]
  BY <1>4, <1>8, <1>9
<1>11. /\ IsValue(ValueOf1, Cells(job.s1), Len(job.s1), PowersOf)
       /\ IsValue(ValueOf2, Cells(job.s2), Len(job.s2), PowersOf)
  BY <1>4, <1>5, <1>6, <1>10, ValueExists DEF ValueOf1, ValueOf2
<1>. QED
  BY <1>1, <1>2, <1>4, <1>5, <1>6, <1>8, <1>11

\* Two digits and what is carried.
LEMMA DigitProduct ==
  ASSUME NEW d \in 0 .. 9, NEW e \in 0 .. 9, NEW q \in 0 .. 9, NEW c \in 0 .. 9
  PROVE  LET z == q + d * e + c IN
         z \in Int /\ z % 10 \in 0 .. 9 /\ z \div 10 \in 0 .. 9 /\ (z % 10) + 10 * (z \div 10) = (q + d * e) + c
<1>1. d * e \in 0 .. 81
  <2>1. CASE e = 0
    BY <2>1
  <2>2. CASE e >= 1
    <3>1. e \in Int /\ d * e \in Int /\ 0 <= d * e /\ d * e <= 9 * e
      BY <2>2, DigitTimes
    <3>. QED
      BY <3>1
  <2>. QED
    BY <2>1, <2>2
<1> DEFINE y == d * e
<1>2. y \in 0 .. 81
  BY <1>1
<1> HIDE DEF y
<1>3. ASSUME NEW z \in 0 .. 99 PROVE z % 10 \in 0 .. 9 /\ z \div 10 \in 0 .. 9 /\ (z % 10) + 10 * (z \div 10) = z
  OBVIOUS
<1>4. q + y + c \in 0 .. 99 /\ q + y + c = (q + y) + c
  BY <1>2
<1>5. LET z == q + y + c IN
      z \in Int /\ z % 10 \in 0 .. 9 /\ z \div 10 \in 0 .. 9 /\ (z % 10) + 10 * (z \div 10) = (q + y) + c
  BY <1>3, <1>4
<1>. QED
  BY <1>5 DEF y

\* Before the first row.
LEMMA RowsStart ==
  ASSUME Operands, ~IsZero, Untouched
  PROVE  Rows
<1> DEFINE m1 == Len(job.s1)
           m2 == Len(job.s2)
           n  == Width
<1>1. /\ m1 \in Nat /\ m2 \in Nat /\ n \in Nat /\ m1 >= 1 /\ m2 >= 1 /\ n = m1 + m2
      /\ IsPowers(PowersOf, n)
      /\ IsValue(ValueOf1, Cells(job.s1), m1, PowersOf) /\ IsValue(ValueOf2, Cells(job.s2), m2, PowersOf)
      /\ job.s1 \in Seq(0 .. 9)
  BY OperandFacts DEF Width
<1>2. st.proInt \in [0 .. n - 1 -> 0 .. 9] /\ st.proInt \in [0 .. n - 1 -> Int] /\ \A k \in 0 .. n - 1 : st.proInt[k] = 0
  BY DEF Untouched
<1> HIDE DEF m1, m2
<1>3. IsValue(ValueOfIt, st.proInt, n, PowersOf)
  <2>1. \A f : f \in [0 .. n - 1 -> Int] => IsValue(Value(f, n, PowersOf), f, n, PowersOf)
    <3> HIDE DEF n
    <3>1. n <= n
      BY <1>1
    <3>. QED
      BY <1>1, <3>1, ValueExists
  <2>. QED
    BY <1>2, <2>1 DEF ValueOfIt
<1> HIDE DEF n
<1>4. \A t \in 0 .. n : ValueOfIt[t] = 0
  <2>1. /\ n \in Nat /\ n <= n /\ IsPowers(PowersOf, n) /\ \A k \in 0 .. n - 1 : st.proInt[k] = 0
        /\ IsValue(ValueOfIt, st.proInt, n, PowersOf)
    BY <1>1, <1>2, <1>3
  <2>. QED
    BY <2>1, ValueOfZeros
<1>5. /\ ValueOf1[0] = 0 /\ ValueOf2[0] = 0 /\ ValueOf2 \in [0 .. m2 -> Int] /\ PowersOf \in [0 .. n -> Int]
      /\ PowersOf[0] = 1
  BY <1>1 DEF IsValue, IsPowers
<1>6. /\ (n - 1) - (m1 - 1) = m2 /\ ((n - 2) - (m1 - 1)) - (m2 - 1) = 0 /\ (m1 - 1) - (m1 - 1) = 0
      /\ (m2 - 1) - (m2 - 1) = 0 /\ m2 \in 0 .. n /\ m2 \in 0 .. m2 /\ (m1 - 1) + 1 = m1 /\ m1 \in 1 .. m1
  BY <1>1
<1>0. m1 \in Int /\ m2 \in Int /\ n = m1 + m2
  BY <1>1
<1>7. ValueOfIt[m2] = 0 /\ ValueOf2[m2] \in Int /\ job.s1[m1] \in Int
  <2>1. \A z \in Seq(0 .. 9) : \A k \in 1 .. Len(z) : z[k] \in 0 .. 9
    OBVIOUS
  <2>2. job.s1[m1] \in 0 .. 9
    BY <1>1, <1>6, <2>1 DEF m1
  <2>. QED
    BY <1>4, <1>5, <1>6, <2>2, SMTT(20)
<1>8. ValueOfIt[m2] + 0 * 1 = 0 * ValueOf2[m2] + (job.s1[m1] * 1) * 0
  BY <1>7
<1>9. st.i = m1 - 1 /\ st.j = m2 - 1 /\ st.c = 0
  BY DEF m1, m2, Untouched
<1>10. ValueOfIt[(n - 1) - st.i] + st.c * PowersOf[((n - 2) - st.i) - st.j]
        = ValueOf1[(m1 - 1) - st.i] * ValueOf2[m2]
          + (job.s1[st.i + 1] * PowersOf[(m1 - 1) - st.i]) * ValueOf2[(m2 - 1) - st.j]
  <2>1. /\ (n - 1) - st.i = m2 /\ ((n - 2) - st.i) - st.j = 0 /\ (m1 - 1) - st.i = 0 /\ (m2 - 1) - st.j = 0
        /\ st.i + 1 = m1
    BY <1>0, <1>9
  <2>2. ValueOf1[0] = 0 /\ ValueOf2[0] = 0 /\ PowersOf[0] = 1 /\ st.c = 0
    BY <1>5, <1>9
  <2>. QED
    BY <1>8, <2>1, <2>2
<1>11. /\ st.i \in -1 .. m1 - 1 /\ st.j \in -1 .. m2 - 1 /\ st.c \in 0 .. 9 /\ st.i >= 0
       /\ \A k \in 0 .. st.i : k \in 0 .. n - 1
  BY <1>1, <1>9
<1>. QED
  BY <1>2, <1>10, <1>11 DEF Rows, m1, m2, n

Locals == st = [pc |-> st.pc, i |-> st.i, j |-> st.j, c |-> st.c, proInt |-> st.proInt, ret |-> st.ret]

\* The parts of Rows, with what the values are made of.
LEMMA RowFacts ==
  ASSUME Operands, Rows
  PROVE  /\ Width \in Nat /\ Width = Len(job.s1) + Len(job.s2) /\ IsPowers(PowersOf, Width)
         /\ Len(job.s1) \in Nat /\ Len(job.s2) \in Nat /\ Len(job.s1) >= 1 /\ Len(job.s2) >= 1
         /\ st.i \in Int /\ st.i >= -1 /\ st.i <= Len(job.s1) - 1
         /\ st.j \in Int /\ st.j >= -1 /\ st.j <= Len(job.s2) - 1
         /\ st.c \in 0 .. 9 /\ st.proInt \in [0 .. Width - 1 -> 0 .. 9] /\ st.proInt \in [0 .. Width - 1 -> Int]
         /\ IsValue(ValueOfIt, st.proInt, Width, PowersOf)
         /\ ValueOfIt \in [0 .. Width -> Int] /\ PowersOf \in [0 .. Width -> Int]
         /\ ValueOf1 \in [0 .. Len(job.s1) -> Int] /\ ValueOf2 \in [0 .. Len(job.s2) -> Int]
         /\ \A k \in 1 .. Len(job.s1) : job.s1[k] \in 0 .. 9
         /\ \A k \in 1 .. Len(job.s2) : job.s2[k] \in 0 .. 9
<1>1. ~IsZero
  BY DEF Rows
<1>2. /\ job.s1 \in Seq(0 .. 9) /\ job.s2 \in Seq(0 .. 9) /\ Width \in Nat
      /\ Len(job.s1) \in Nat /\ Len(job.s2) \in Nat /\ Len(job.s1) >= 1 /\ Len(job.s2) >= 1
      /\ IsPowers(PowersOf, Width)
      /\ IsValue(ValueOf1, Cells(job.s1), Len(job.s1), PowersOf)
      /\ IsValue(ValueOf2, Cells(job.s2), Len(job.s2), PowersOf)
  BY <1>1, OperandFacts
<1>3. \A z \in Seq(0 .. 9) : \A k \in 1 .. Len(z) : z[k] \in 0 .. 9
  OBVIOUS
<1>4. (\A k \in 1 .. Len(job.s1) : job.s1[k] \in 0 .. 9) /\ (\A k \in 1 .. Len(job.s2) : job.s2[k] \in 0 .. 9)
  BY <1>2, <1>3
<1>5. /\ st.i \in -1 .. Len(job.s1) - 1 /\ st.j \in -1 .. Len(job.s2) - 1
      /\ st.c \in 0 .. 9 /\ st.proInt \in [0 .. Width - 1 -> 0 .. 9]
  BY DEF Rows
<1>6. /\ st.i \in Int /\ st.i >= -1 /\ st.i <= Len(job.s1) - 1
      /\ st.j \in Int /\ st.j >= -1 /\ st.j <= Len(job.s2) - 1
  BY <1>2, <1>5
<1>7. st.proInt \in [0 .. Width - 1 -> Int]
  BY <1>5, SMTT(30)
<1>8. IsValue(ValueOfIt, st.proInt, Width, PowersOf)
  BY <1>2, <1>7, ValueHere DEF ValueOfIt
<1>9. ValueOfIt \in [0 .. Width -> Int] /\ PowersOf \in [0 .. Width -> Int]
  BY <1>2, <1>8 DEF IsValue, IsPowers
<1>10. ValueOf1 \in [0 .. Len(job.s1) -> Int] /\ ValueOf2 \in [0 .. Len(job.s2) -> Int]
  BY <1>2 DEF IsValue
<1>11. Width = Len(job.s1) + Len(job.s2)
  BY DEF Width
<1>. QED
  BY <1>2, <1>4, <1>5, <1>6, <1>7, <1>8, <1>9, <1>10, <1>11

\* A turn of the loop over j.
LEMMA DigitKeepsRows ==
  ASSUME Operands, Rows, Locals, MultiplyDigit
  PROVE  Rows' /\ Locals' /\ st'.pc = "row"
<1> DEFINE i  == st.i
           j  == st.j
           m1 == Len(job.s1)
           m2 == Len(job.s2)
           n  == Width
           w  == PowersOf
           k  == i + j + 1
           o1 == (m1 - 1) - i
           o2 == (m2 - 1) - j
           t  == ((n - 2) - i) - j
           d  == job.s1[i + 1]
           e  == job.s2[j + 1]
           q  == st.proInt[k]
           c  == st.c
           z  == q + d * e + c
           x  == z % 10
           y  == z \div 10
           g  == [st.proInt EXCEPT ![k] = x]
           p  == ValueOfIt
           u  == Value(g, n, w)
           a  == ValueOf1
           b  == ValueOf2
<1>1. /\ i >= 0 /\ j >= 0 /\ st.pc = "row" /\ job' = job
      /\ st' = [st EXCEPT !.proInt[k] = x, !.c = y, !.j = j - 1]
  BY DEF MultiplyDigit, At, Becomes
<1>2. st' = [pc |-> "row", i |-> i, j |-> j - 1, c |-> y, proInt |-> g, ret |-> st.ret]
  BY <1>1 DEF Locals
<1>3. /\ n \in Nat /\ n = m1 + m2 /\ IsPowers(w, n)
      /\ m1 \in Nat /\ m2 \in Nat /\ m1 >= 1 /\ m2 >= 1
      /\ i \in Int /\ i <= m1 - 1 /\ j \in Int /\ j <= m2 - 1
      /\ c \in 0 .. 9 /\ st.proInt \in [0 .. n - 1 -> 0 .. 9] /\ st.proInt \in [0 .. n - 1 -> Int]
      /\ IsValue(p, st.proInt, n, w)
      /\ p \in [0 .. n -> Int] /\ w \in [0 .. n -> Int]
      /\ a \in [0 .. m1 -> Int] /\ b \in [0 .. m2 -> Int]
      /\ (\A l \in 1 .. m1 : job.s1[l] \in 0 .. 9) /\ (\A l \in 1 .. m2 : job.s2[l] \in 0 .. 9)
  BY RowFacts
<1>4. /\ ~IsZero /\ \A l \in 0 .. i : st.proInt[l] = 0
      /\ p[(n - 1) - i] + c * w[t] = a[o1] * b[m2] + (d * w[o1]) * b[o2]
  BY <1>1 DEF Rows
<1>5. IsValue(b, Cells(job.s2), m2, w)
  BY <1>4, OperandFacts
<1> HIDE DEF p, w, n, m1, m2, i, j, c, a, b
<1>6. i \in Int /\ j \in Int /\ m1 \in Int /\ m2 \in Int /\ n = m1 + m2 /\ 0 <= i /\ 0 <= j /\ i <= m1 - 1 /\ j <= m2 - 1
  BY <1>1, <1>3
<1>7. /\ k \in 0 .. n - 1 /\ i + 1 \in 1 .. m1 /\ j + 1 \in 1 .. m2 /\ i < k
      /\ (n - 1) - i \in 0 .. n /\ ~((n - 1) - i < n - k) /\ (n - 1) - k = t
      /\ t \in 0 .. n /\ ((n - 2) - i) - (j - 1) = t + 1 /\ t + 1 \in 1 .. n /\ (t + 1) - 1 = t
      /\ o1 \in 0 .. m1 /\ o2 \in 0 .. m2 /\ (m2 - 1) - (j - 1) = o2 + 1
      /\ o2 + 1 \in 1 .. m2 /\ m2 - (o2 + 1) = j /\ (o2 + 1) - 1 = o2
      /\ o1 \in Nat /\ o2 \in Nat /\ o1 + o2 = t /\ o1 + o2 <= n /\ o1 \in 0 .. n /\ o2 \in 0 .. n /\ m2 \in 0 .. m2
      /\ j \in 0 .. m2 - 1 /\ i \in -1 .. m1 - 1 /\ j - 1 \in -1 .. m2 - 1
      /\ \A l \in 0 .. i : l # k /\ l \in 0 .. n - 1
  BY <1>6
<1>8. Cells(job.s2)[j] = e
  BY <1>7 DEF Cells, m2
<1>9. d \in 0 .. 9 /\ e \in 0 .. 9 /\ q \in 0 .. 9
  BY <1>3, <1>7
<1> HIDE DEF d, e, q
<1>10. x \in 0 .. 9 /\ y \in 0 .. 9 /\ x + 10 * y = (q + d * e) + c
  <2>1. d \in 0 .. 9 /\ e \in 0 .. 9 /\ q \in 0 .. 9 /\ c \in 0 .. 9
    BY <1>3, <1>9
  <2>. QED
    BY <2>1, DigitProduct
<1> HIDE DEF x, y, k, o1, o2, t
<1>11. g \in [0 .. n - 1 -> 0 .. 9] /\ \A l \in 0 .. i : g[l] = 0
  BY <1>3, <1>4, <1>7, <1>10
<1>12. g \in [0 .. n - 1 -> Int]
  BY <1>11
<1>13. IsValue(u, g, n, w)
  BY <1>3, <1>12, ValueHere
<1> HIDE DEF u
<1>14. u[(n - 1) - i] = p[(n - 1) - i] + (x - q) * w[t]
  <2>1. /\ n \in Nat /\ IsPowers(w, n) /\ st.proInt \in [0 .. n - 1 -> Int] /\ k \in 0 .. n - 1
        /\ IsValue(p, st.proInt, n, w) /\ x \in Int /\ n <= n
    BY <1>3, <1>7, <1>10, SMTT(30)
  <2>3. IsValue(u, [st.proInt EXCEPT ![k] = x], n, w)
    BY <1>13
  <2>4. Moves(u, p, n, k, x - st.proInt[k], w)
    BY <2>1, <2>3, ValueMoves
  <2>. QED
    BY <1>7, <2>4 DEF q, Moves
<1> HIDE DEF g
<1>15. w[t + 1] = 10 * w[t] /\ w[t] = w[o1] * w[o2]
  <2>1. w[t + 1] = 10 * w[(t + 1) - 1]
    BY <1>3, <1>7 DEF IsPowers
  <2>2. w[o1 + o2] = w[o1] * w[o2]
    <3>1. n \in Nat /\ IsPowers(w, n) /\ o1 \in Nat /\ o2 \in Nat /\ o1 + o2 <= n
      BY <1>3, <1>7
    <3>. QED
      BY <3>1, PowersAdd
  <2>. QED
    BY <1>7, <2>1, <2>2
<1>16. b[o2 + 1] = b[o2] + e * w[o2]
  <2>1. b[o2 + 1] = b[(o2 + 1) - 1] + Cells(job.s2)[m2 - (o2 + 1)] * w[(o2 + 1) - 1]
    BY <1>5, <1>7 DEF IsValue
  <2>. QED
    BY <1>7, <1>8, <2>1
<1>17. /\ w[t] \in Int /\ w[o1] \in Int /\ w[o2] \in Int /\ b[o2] \in Int /\ a[o1] \in Int /\ b[m2] \in Int
       /\ p[(n - 1) - i] \in Int /\ c \in Int /\ d \in Int /\ e \in Int /\ q \in Int /\ x \in Int /\ y \in Int
  <2>1. w[t] \in Int /\ w[o1] \in Int /\ w[o2] \in Int
    BY <1>3, <1>7
  <2>2. b[o2] \in Int /\ a[o1] \in Int /\ b[m2] \in Int
    BY <1>3, <1>7
  <2>3. p[(n - 1) - i] \in Int
    BY <1>3, <1>7
  <2>4. c \in Int /\ d \in Int /\ e \in Int /\ q \in Int /\ x \in Int /\ y \in Int
    BY <1>3, <1>9, <1>10
  <2>. QED
    BY <2>1, <2>2, <2>3, <2>4
<1>18. a[o1] * b[m2] \in Int
  BY <1>17, ProductIsInt
<1>19. u[(n - 1) - i] + y * w[t + 1] = a[o1] * b[m2] + (d * w[o1]) * b[o2 + 1]
  <2>1. (p[(n - 1) - i] + (x - q) * w[t]) + y * (10 * w[t]) = a[o1] * b[m2] + (d * w[o1]) * (b[o2] + e * w[o2])
    <3>1. /\ p[(n - 1) - i] + c * w[t] = a[o1] * b[m2] + (d * w[o1]) * b[o2]
          /\ w[t] = w[o1] * w[o2] /\ x + 10 * y = (q + d * e) + c
      BY <1>4, <1>10, <1>15
    <3> DEFINE r  == a[o1] * b[m2]
               pv == p[(n - 1) - i]
    <3>2. r \in Int /\ pv \in Int
      BY <1>17, <1>18
    <3>3. pv + c * w[t] = r + (d * w[o1]) * b[o2]
      BY <3>1
    <3> HIDE DEF r, pv
    <3>4. DigitDue(pv, c, w[t], r, d, e, w[o1], w[o2], b[o2], q, x, y)
      BY <3>1, <3>3 DEF DigitDue
    <3>5. DigitDone(pv, c, w[t], r, d, e, w[o1], w[o2], b[o2], q, x, y)
      BY <1>17, <3>2, <3>4, DigitStep
    <3>. QED
      BY <3>5 DEF r, pv, DigitDone
  <2>. QED
    BY <1>14, <1>15, <1>16, <2>1
<1>20. /\ n' = n /\ w' = w /\ m1' = m1 /\ m2' = m2 /\ a' = a /\ b' = b /\ ~IsZero' /\ job'.s1 = job.s1
  BY <1>1, <1>4 DEF n, w, m1, m2, a, b, Width, PowersOf, ValueOf1, ValueOf2, IsZero
<1>21. /\ st'.i = i /\ st'.j = j - 1 /\ st'.c = y /\ st'.proInt = g /\ st'.pc = "row" /\ Locals'
  BY <1>2 DEF Locals, g
<1>22. ValueOfIt' = u
  BY <1>20, <1>21 DEF ValueOfIt, n, w, u, g
<1>23. ValueOfIt'[(n - 1) - i] + y * w[((n - 2) - i) - (j - 1)]
         = a[(m1 - 1) - i] * b[m2] + (job.s1[i + 1] * w[(m1 - 1) - i]) * b[(m2 - 1) - (j - 1)]
  BY <1>7, <1>19, <1>22 DEF o1, d
<1>24. i >= 0
  BY <1>1
<1>25. /\ Width' = n /\ PowersOf' = w /\ Len(job.s1)' = m1 /\ Len(job.s2)' = m2 /\ ValueOf1' = a /\ ValueOf2' = b
  BY <1>20 DEF n, w, m1, m2, a, b
<1>26. Rows'
  <2>1. /\ st'.i \in -1 .. Len(job.s1)' - 1 /\ st'.j \in -1 .. Len(job.s2)' - 1
        /\ st'.c \in 0 .. 9 /\ st'.proInt \in [0 .. Width' - 1 -> 0 .. 9]
        /\ \A l \in 0 .. st'.i : st'.proInt[l] = 0
    BY <1>7, <1>10, <1>11, <1>21, <1>25
  <2>2. ValueOfIt'[(Width' - 1) - st'.i] + st'.c * PowersOf'[((Width' - 2) - st'.i) - st'.j]
          = ValueOf1'[(Len(job.s1)' - 1) - st'.i] * ValueOf2'[Len(job.s2)']
            + (job'.s1[st'.i + 1] * PowersOf'[(Len(job.s1)' - 1) - st'.i]) * ValueOf2'[(Len(job.s2)' - 1) - st'.j]
    BY <1>20, <1>21, <1>23, <1>25
  <2>3. ~(st'.i < 0)
    BY <1>6, <1>21
  <2>. QED
    BY <1>20, <2>1, <2>2, <2>3 DEF Rows
<1>. QED
  BY <1>21, <1>26

\* The end of a row, with its carry.
LEMMA EndKeepsRows ==
  ASSUME Operands, Rows, Locals, EndRow
  PROVE  Rows' /\ Locals' /\ st'.pc = "row"
<1> DEFINE i  == st.i
           j  == st.j
           m1 == Len(job.s1)
           m2 == Len(job.s2)
           n  == Width
           w  == PowersOf
           o  == (m1 - 1) - i
           d  == job.s1[i + 1]
           c  == st.c
           g  == [st.proInt EXCEPT ![i] = c]
           p  == ValueOfIt
           u  == Value(g, n, w)
           a  == ValueOf1
           b  == ValueOf2
<1>1. /\ i >= 0 /\ j < 0 /\ st.pc = "row" /\ job' = job
      /\ st' = [st EXCEPT !.proInt[i] = c, !.c = 0, !.i = i - 1, !.j = m2 - 1]
  BY DEF EndRow, At, Becomes
<1>2. st' = [pc |-> "row", i |-> i - 1, j |-> m2 - 1, c |-> 0, proInt |-> g, ret |-> st.ret]
  BY <1>1 DEF Locals
<1>3. /\ n \in Nat /\ n = m1 + m2 /\ IsPowers(w, n)
      /\ m1 \in Nat /\ m2 \in Nat /\ m1 >= 1 /\ m2 >= 1
      /\ i \in Int /\ i <= m1 - 1 /\ j \in Int /\ j >= -1
      /\ c \in 0 .. 9 /\ st.proInt \in [0 .. n - 1 -> 0 .. 9] /\ st.proInt \in [0 .. n - 1 -> Int]
      /\ IsValue(p, st.proInt, n, w)
      /\ p \in [0 .. n -> Int] /\ w \in [0 .. n -> Int]
      /\ a \in [0 .. m1 -> Int] /\ b \in [0 .. m2 -> Int]
      /\ (\A l \in 1 .. m1 : job.s1[l] \in 0 .. 9) /\ (\A l \in 1 .. m2 : job.s2[l] \in 0 .. 9)
  BY RowFacts
<1>4. /\ ~IsZero /\ \A l \in 0 .. i : st.proInt[l] = 0
      /\ p[(n - 1) - i] + c * w[((n - 2) - i) - j] = a[o] * b[m2] + (d * w[o]) * b[(m2 - 1) - j]
  BY <1>1 DEF Rows
<1>5. IsValue(a, Cells(job.s1), m1, w) /\ IsValue(b, Cells(job.s2), m2, w)
  BY <1>4, OperandFacts
<1> HIDE DEF p, w, n, m1, m2, i, j, c, a, b
<1>6. i \in Int /\ j = -1 /\ m1 \in Int /\ m2 \in Int /\ n = m1 + m2 /\ 0 <= i /\ i <= m1 - 1 /\ 1 <= m2
  BY <1>1, <1>3
<1>7. /\ i \in 0 .. n - 1 /\ i + 1 \in 1 .. m1 /\ i \in 0 .. m1 - 1
      /\ (n - 1) - i \in 0 .. n /\ (n - 1) - i < n - i /\ n - i \in 1 .. n /\ (n - i) - 1 = (n - 1) - i /\ n - (n - i) = i
      /\ ((n - 2) - i) - j = (n - 1) - i /\ (m2 - 1) - j = m2 /\ m2 \in 0 .. m2
      /\ o \in 0 .. m1 /\ o \in 0 .. n /\ o + 1 \in 1 .. m1 /\ o + 1 \in 0 .. m1 /\ (o + 1) - 1 = o /\ m1 - (o + 1) = i
      /\ (n - 1) - (i - 1) = n - i /\ (m1 - 1) - (i - 1) = o + 1 /\ (m2 - 1) - (m2 - 1) = 0
      /\ ((n - 2) - (i - 1)) - (m2 - 1) \in 0 .. n
      /\ i - 1 \in -1 .. m1 - 1 /\ m2 - 1 \in -1 .. m2 - 1
      /\ \A l \in 0 .. i - 1 : l # i /\ l \in 0 .. n - 1 /\ l \in 0 .. i
  BY <1>6
<1>8. Cells(job.s1)[i] = d
  BY <1>7 DEF Cells, m1
<1>9. d \in 0 .. 9
  BY <1>3, <1>7
<1> HIDE DEF d, o
<1>10. g \in [0 .. n - 1 -> 0 .. 9] /\ (\A l \in 0 .. i - 1 : g[l] = 0) /\ g[i] = c
  BY <1>3, <1>4, <1>7
<1>11. g \in [0 .. n - 1 -> Int]
  BY <1>10
<1>12. IsValue(u, g, n, w)
  BY <1>3, <1>11, ValueHere
<1> HIDE DEF u
<1>13. u[(n - 1) - i] = p[(n - 1) - i]
  <2>1. /\ n \in Nat /\ IsPowers(w, n) /\ st.proInt \in [0 .. n - 1 -> Int] /\ i \in 0 .. n - 1
        /\ IsValue(p, st.proInt, n, w) /\ c \in Int /\ n <= n
    BY <1>3, <1>7
  <2>2. IsValue(u, [st.proInt EXCEPT ![i] = c], n, w)
    BY <1>12
  <2>3. Moves(u, p, n, i, c - st.proInt[i], w)
    BY <2>1, <2>2, ValueMoves
  <2>. QED
    BY <1>7, <2>3 DEF Moves
<1> HIDE DEF g
<1>14. u[n - i] = p[(n - 1) - i] + c * w[(n - 1) - i]
  <2>1. u[n - i] = u[(n - i) - 1] + g[n - (n - i)] * w[(n - i) - 1]
    BY <1>7, <1>12 DEF IsValue
  <2>. QED
    BY <1>7, <1>10, <1>13, <2>1
<1>15. a[o + 1] = a[o] + d * w[o]
  <2>1. a[o + 1] = a[(o + 1) - 1] + Cells(job.s1)[m1 - (o + 1)] * w[(o + 1) - 1]
    BY <1>5, <1>7 DEF IsValue
  <2>. QED
    BY <1>7, <1>8, <2>1
<1>16. w[o] \in Int /\ a[o] \in Int /\ b[m2] \in Int /\ d \in Int /\ a[o + 1] \in Int
  <2>1. w[o] \in Int
    BY <1>3, <1>7
  <2>2. a[o] \in Int /\ a[o + 1] \in Int
    BY <1>3, <1>7
  <2>3. b[m2] \in Int
    BY <1>3, <1>7
  <2>. QED
    BY <1>9, <2>1, <2>2, <2>3
<1>17. u[n - i] = a[o + 1] * b[m2]
  <2>1. u[n - i] = a[o] * b[m2] + (d * w[o]) * b[m2]
    BY <1>4, <1>7, <1>14
  <2>2. d * w[o] \in Int
    BY <1>16, ProductIsInt
  <2>3. (a[o] + d * w[o]) * b[m2] = a[o] * b[m2] + (d * w[o]) * b[m2]
    BY <1>16, <2>2, Distributes
  <2>. QED
    BY <1>15, <2>1, <2>3
<1>18. /\ Width' = n /\ PowersOf' = w /\ Len(job.s1)' = m1 /\ Len(job.s2)' = m2 /\ ValueOf1' = a /\ ValueOf2' = b
       /\ ~IsZero' /\ job'.s1 = job.s1
  BY <1>1, <1>4 DEF n, w, m1, m2, a, b, Width, PowersOf, ValueOf1, ValueOf2, IsZero
<1>19. /\ st'.i = i - 1 /\ st'.j = m2 - 1 /\ st'.c = 0 /\ st'.proInt = g /\ st'.pc = "row" /\ Locals'
  BY <1>2 DEF Locals, g
<1>20. ValueOfIt' = u
  BY <1>18, <1>19 DEF ValueOfIt, n, w, u, g
<1>21. Rows'
  <2>1. /\ st'.i \in -1 .. Len(job.s1)' - 1 /\ st'.j \in -1 .. Len(job.s2)' - 1
        /\ st'.c \in 0 .. 9 /\ st'.proInt \in [0 .. Width' - 1 -> 0 .. 9]
        /\ \A l \in 0 .. st'.i : st'.proInt[l] = 0
    <3>1. st'.i \in -1 .. Len(job.s1)' - 1 /\ st'.j \in -1 .. Len(job.s2)' - 1
      BY <1>7, <1>18, <1>19
    <3>2. st'.c \in 0 .. 9 /\ st'.proInt \in [0 .. Width' - 1 -> 0 .. 9]
      BY <1>10, <1>18, <1>19
    <3>3. \A l \in 0 .. st'.i : st'.proInt[l] = 0
      BY <1>10, <1>19
    <3>. QED
      BY <3>1, <3>2, <3>3
  <2>2. ASSUME st'.i >= 0
        PROVE  ValueOfIt'[(Width' - 1) - st'.i] + st'.c * PowersOf'[((Width' - 2) - st'.i) - st'.j]
                 = ValueOf1'[(Len(job.s1)' - 1) - st'.i] * ValueOf2'[Len(job.s2)']
                   + (job'.s1[st'.i + 1] * PowersOf'[(Len(job.s1)' - 1) - st'.i])
                     * ValueOf2'[(Len(job.s2)' - 1) - st'.j]
    <3> DEFINE x == w[((n - 2) - (i - 1)) - (m2 - 1)]
               y == job.s1[(i - 1) + 1]
               z == w[o + 1]
               r == a[o + 1] * b[m2]
    <3>1. i >= 1
      BY <1>6, <1>19, <2>2
    <3>2. x \in Int /\ y \in Int /\ z \in Int
      <4>1. (i - 1) + 1 \in 1 .. m1 /\ o + 1 \in 0 .. n
        <5>1. (i - 1) + 1 \in 1 .. m1
          BY <1>6, <3>1
        <5>2. o + 1 \in 0 .. n
          BY <1>6, <1>7
        <5>. QED
          BY <5>1, <5>2
      <4>2. x \in Int
        BY <1>3, <1>7
      <4>3. y \in Int
        <5>1. y \in 0 .. 9
          BY <1>3, <4>1
        <5>. QED
          BY <5>1
      <4>4. z \in Int
        BY <1>3, <4>1
      <4>. QED
        BY <4>2, <4>3, <4>4
    <3>3. b[0] = 0
      BY <1>5 DEF IsValue
    <3>4. r \in Int /\ y * z \in Int
      BY <1>16, <3>2, ProductIsInt
    <3>5. u[n - i] = r
      BY <1>17
    <3> HIDE DEF x, y, z, r
    <3>6. r + 0 * x = r + (y * z) * 0
      <4>1. 0 * x = 0 /\ (y * z) * 0 = 0
        BY <3>2, <3>4
      <4>. QED
        BY <3>4, <4>1
    <3>7. u[(n - 1) - (i - 1)] + 0 * x
            = a[(m1 - 1) - (i - 1)] * b[m2] + (y * w[(m1 - 1) - (i - 1)]) * b[(m2 - 1) - (m2 - 1)]
      BY <1>7, <3>3, <3>5, <3>6 DEF r, z
    <3>. QED
      BY <1>18, <1>19, <1>20, <3>7 DEF x, y
  <2>3. ASSUME st'.i < 0 PROVE ValueOfIt'[Width'] = ValueOf1'[Len(job.s1)'] * ValueOf2'[Len(job.s2)']
    <3>1. n - i = n /\ o + 1 = m1
      BY <1>6, <1>7, <1>19, <2>3
    <3>. QED
      BY <1>17, <1>18, <1>20, <3>1
  <2>. QED
    BY <1>18, <2>1, <2>2, <2>3 DEF Rows
<1>. QED
  BY <1>19, <1>21

\* A number without a zero in front is at least the power of its first digit.
LEMMA FirstDigit ==
  ASSUME NEW s \in Seq(0 .. 9), NEW n \in Nat, n = Len(s), n >= 1, s[1] # 0, NEW m \in Nat, n <= m,
         NEW w, IsPowers(w, m), Cells(s) \in [0 .. n - 1 -> 0 .. 9], NEW v, IsValue(v, Cells(s), n, w)
  PROVE  v[n] >= w[n - 1]
<1>1. s[1] \in 0 .. 9 /\ Cells(s)[0] = s[1]
  <2>1. \A z \in Seq(0 .. 9) : \A k \in 1 .. Len(z) : z[k] \in 0 .. 9
    OBVIOUS
  <2>2. 1 \in 1 .. Len(s) /\ 0 \in 0 .. Len(s) - 1
    OBVIOUS
  <2>. QED
    BY <2>1, <2>2 DEF Cells
<1>2. v[n] = v[n - 1] + Cells(s)[0] * w[n - 1]
  <2>1. n \in 1 .. n /\ n - n = 0
    OBVIOUS
  <2>. QED
    BY <2>1 DEF IsValue
<1>3. w[n - 1] \in Int /\ w[n - 1] >= 1
  BY PowersArePositive
<1>4. v[n - 1] >= 0 /\ v[n - 1] \in Int
  <2>1. \A t \in 0 .. n : 0 <= v[t] /\ v[t] <= w[t] - 1
    BY ValueOfDigits
  <2>2. v \in [0 .. n -> Int]
    BY DEF IsValue
  <2>3. n - 1 \in 0 .. n
    OBVIOUS
  <2>. QED
    BY <2>1, <2>2, <2>3
<1> DEFINE d == s[1]
           x == w[n - 1]
<1>5. d * x >= x
  <2>1. d \in 1 .. 9
    BY <1>1
  <2> HIDE DEF d
  <2>2. d = 1 \/ d = 2 \/ d = 3 \/ d = 4 \/ d = 5 \/ d = 6 \/ d = 7 \/ d = 8 \/ d = 9
    BY <2>1
  <2>. QED
    BY <1>3, <2>2
<1>6. d * x \in Int
  <2>1. d \in Int
    BY <1>1
  <2>. QED
    BY <1>3, <2>1, ProductIsInt
<1> DEFINE y == d * x
<1>7. v[n] = v[n - 1] + y
  BY <1>1, <1>2
<1> HIDE DEF y, x
<1>8. y >= x /\ y \in Int /\ x \in Int
  BY <1>3, <1>5, <1>6 DEF x, y
<1>9. v[n] >= x
  BY <1>4, <1>7, <1>8
<1>. QED
  BY <1>9 DEF x

\* A product grows with its factors.
LEMMA ProductsGrow ==
  ASSUME NEW x \in Int, NEW y \in Int, NEW u \in Int, NEW v \in Int, 1 <= u, 1 <= v, u <= x, v <= y
  PROVE  u * v <= x * y
<1>1. u * v <= x * v
  OBVIOUS
<1>2. x * v <= x * y
  <2>1. 1 <= x
    OBVIOUS
  <2>. QED
    BY <2>1
<1>3. u * v \in Int /\ x * v \in Int /\ x * y \in Int
  BY ProductIsInt
<1>. QED
  BY <1>1, <1>2, <1>3

\* Digits are numbers.
LEMMA DigitsAreInts == \A s \in Seq(0 .. 9) : s \in Seq(Int)
OBVIOUS

\* What is returned after the last row.
LEMMA ProductIsReturned ==
  ASSUME Operands, Rows, Locals, ReturnProduct
  PROVE  Plain(st'.ret) /\ Number(st'.ret) = Number(job.s1) * Number(job.s2)
<1> DEFINE m1 == Len(job.s1)
           m2 == Len(job.s2)
           n  == Width
           w  == PowersOf
           f  == st.proInt
           p  == ValueOfIt
           a  == ValueOf1
           b  == ValueOf2
           s  == IF f[0] # 0 THEN 0 ELSE 1
           o  == n - s
           ret == [k \in 1 .. o |-> f[s + k - 1]]
           v  == Value(Cells(ret), o, w)
<1>1. st.i < 0 /\ st' = [st EXCEPT !.ret = ret, !.pc = "done"]
  BY DEF ReturnProduct, At, Becomes, Width
<1>2. /\ n \in Nat /\ n = m1 + m2 /\ IsPowers(w, n)
      /\ m1 \in Nat /\ m2 \in Nat /\ m1 >= 1 /\ m2 >= 1
      /\ f \in [0 .. n - 1 -> 0 .. 9] /\ f \in [0 .. n - 1 -> Int]
      /\ IsValue(p, f, n, w)
      /\ p \in [0 .. n -> Int] /\ w \in [0 .. n -> Int]
      /\ a \in [0 .. m1 -> Int] /\ b \in [0 .. m2 -> Int]
  BY RowFacts
<1>3. p[n] = a[m1] * b[m2] /\ ~IsZero
  BY <1>1 DEF Rows
<1>4. /\ job.s1 \in Seq(0 .. 9) /\ job.s2 \in Seq(0 .. 9) /\ job.s1[1] # 0 /\ job.s2[1] # 0
      /\ Cells(job.s1) \in [0 .. m1 - 1 -> 0 .. 9] /\ Cells(job.s2) \in [0 .. m2 - 1 -> 0 .. 9]
      /\ IsValue(a, Cells(job.s1), m1, w) /\ IsValue(b, Cells(job.s2), m2, w)
  BY <1>3, OperandFacts
<1>5. job.s1 \in Seq(Int) /\ job.s2 \in Seq(Int)
  <2>1. \A z \in Seq(0 .. 9) : z \in Seq(Int)
    BY DigitsAreInts
  <2>. QED
    BY <1>4, <2>1
<1>0. m1 \in Int /\ m2 \in Int /\ n = m1 + m2 /\ m1 >= 1 /\ m2 >= 1
  BY <1>2
<1>6. Number(job.s1) = a[m1] /\ Number(job.s2) = b[m2]
  <2> HIDE DEF n, w, a, b
  <2>1. m1 <= n /\ m2 <= n
    <3> HIDE DEF m1, m2
    <3>. QED
      BY <1>0
  <2>. QED
    BY <1>2, <1>4, <1>5, <2>1, NumberIsValue
<1>7. st'.ret = ret
  BY <1>1 DEF Locals
<1>8. s \in {0, 1} /\ (s = 0 => f[0] # 0) /\ (s = 1 => f[0] = 0)
  OBVIOUS
<1> HIDE DEF m1, m2, n, w, f, p, a, b, s
<1>9. /\ o \in Nat /\ o >= 1 /\ o <= n /\ n >= 2 /\ n - 1 \in 0 .. n /\ n \in 0 .. n /\ n - 2 \in 0 .. n
      /\ (\A k \in 1 .. o : s + k - 1 \in 0 .. n - 1) /\ (\A t \in 1 .. o : s + ((o - t) + 1) - 1 = n - t)
  BY <1>0, <1>8
<1> HIDE DEF o
<1>10. ret \in [1 .. o -> 0 .. 9] /\ \A k \in 1 .. o : ret[k] = f[s + k - 1]
  BY <1>2, <1>9
<1> HIDE DEF ret
<1>11. ret \in Seq(0 .. 9) /\ Len(ret) = o /\ ret # <<>>
  <2>1. ret \in Seq(0 .. 9)
    BY <1>9, <1>10
  <2>2. Len(ret) = o
    BY <1>9, <1>10, <2>1
  <2>3. Len(<<>>) = 0
    OBVIOUS
  <2>. QED
    BY <1>9, <2>1, <2>2, <2>3
<1>12. ret \in Seq(Int)
  BY <1>11
<1>13. /\ Cells(ret) \in [0 .. o - 1 -> Int]
       /\ \A t \in 1 .. o : f[n - t] = Cells(ret)[o - t]
  <2>1. \A k \in 0 .. o - 1 : k + 1 \in 1 .. o /\ ret[k + 1] \in Int
    <3>1. \A k \in 0 .. o - 1 : k + 1 \in 1 .. o
      BY <1>9
    <3>2. \A k \in 1 .. o : ret[k] \in Int
      BY <1>10
    <3>. QED
      BY <3>1, <3>2
  <2>2. \A k \in 0 .. o - 1 : Cells(ret)[k] = ret[k + 1]
    BY <1>11 DEF Cells
  <2>3. Cells(ret) \in [0 .. o - 1 -> Int]
    BY <1>11, <2>1 DEF Cells
  <2>4. ASSUME NEW t \in 1 .. o PROVE f[n - t] = Cells(ret)[o - t]
    <3>1. o - t \in 0 .. o - 1
      BY <1>9
    <3>2. ret[(o - t) + 1] = f[s + ((o - t) + 1) - 1]
      BY <1>10, <2>1, <3>1
    <3>. QED
      BY <1>9, <2>2, <3>1, <3>2
  <2>. QED
    BY <2>3, <2>4
<1>14. IsValue(v, Cells(ret), o, w)
  <2>1. o \in Nat /\ n \in Nat /\ o <= n /\ IsPowers(w, n)
    BY <1>2, <1>9
  <2>. QED
    BY <1>13, <2>1, ValueExists
<1> HIDE DEF v
<1>15. \A t \in 0 .. o : p[t] = v[t]
  <2>1. /\ n \in Nat /\ o \in Nat /\ o <= n /\ n <= n /\ IsPowers(w, n) /\ f \in [0 .. n - 1 -> Int]
        /\ IsValue(p, f, n, w)
    BY <1>2, <1>9
  <2> DEFINE r == Cells(ret)
  <2>2. EndAlike(f, r, n, o) /\ r \in [0 .. o - 1 -> Int] /\ IsValue(v, r, o, w)
    BY <1>13, <1>14 DEF EndAlike
  <2> HIDE DEF r
  <2>3. SameUpTo(p, v, o)
    BY <2>1, <2>2, ValueOfEnds
  <2>. QED
    BY <2>3 DEF SameUpTo
<1>16. Number(ret) = v[o]
  <2>1. n \in Nat /\ Len(ret) <= n /\ IsPowers(w, n) /\ IsValue(v, Cells(ret), Len(ret), w)
    BY <1>2, <1>9, <1>11, <1>14
  <2>2. Number(ret) = v[Len(ret)]
    BY <1>12, <2>1, NumberIsValue
  <2>. QED
    BY <1>11, <2>2
<1>17. p[n] = p[n - 1] + f[0] * w[n - 1]
  <2>1. n \in 1 .. n /\ n - n = 0
    BY <1>9
  <2>. QED
    BY <1>2, <2>1 DEF IsValue
<1>18. f[0] = 0 => p[n] = p[n - 1]
  <2>1. p[n - 1] \in Int /\ w[n - 1] \in Int
    BY <1>2, <1>9
  <2>2. p[n - 1] + 0 * w[n - 1] = p[n - 1]
    BY <2>1
  <2>. QED
    BY <1>17, <2>2
<1>19. Number(ret) = p[n]
  <2>1. o \in 0 .. o
    BY <1>9
  <2>2. Number(ret) = p[o]
    BY <1>15, <1>16, <2>1
  <2>3. CASE s = 0
    <3>1. o = n
      BY <1>2, <2>3 DEF o
    <3>. QED
      BY <2>2, <3>1
  <2>4. CASE s = 1
    <3>1. o = n - 1
      BY <1>2, <2>4 DEF o
    <3>. QED
      BY <1>8, <1>18, <2>2, <2>4, <3>1
  <2>. QED
    BY <1>8, <2>3, <2>4
<1>20. a[m1] >= w[m1 - 1] /\ b[m2] >= w[m2 - 1]
  <2>1. m1 <= n /\ m2 <= n /\ m1 = Len(job.s1) /\ m2 = Len(job.s2)
    <3>1. m1 <= n /\ m2 <= n
      BY <1>0
    <3>. QED
      BY <3>1 DEF m1, m2
  <2>2. a[m1] >= w[m1 - 1]
    BY <1>2, <1>4, <2>1, FirstDigit
  <2>3. b[m2] >= w[m2 - 1]
    BY <1>2, <1>4, <2>1, FirstDigit
  <2>. QED
    BY <2>2, <2>3
<1>21. p[n] >= w[n - 2]
  <2>1. m1 - 1 \in Nat /\ m2 - 1 \in Nat /\ (m1 - 1) + (m2 - 1) = n - 2 /\ n - 2 <= n
        /\ m1 - 1 \in 0 .. n /\ m2 - 1 \in 0 .. n /\ m1 \in 0 .. m1 /\ m2 \in 0 .. m2
    BY <1>0
  <2>2. w[(m1 - 1) + (m2 - 1)] = w[m1 - 1] * w[m2 - 1]
    <3>1. (m1 - 1) + (m2 - 1) <= n
      BY <2>1
    <3>2. n \in Nat /\ IsPowers(w, n) /\ m1 - 1 \in Nat /\ m2 - 1 \in Nat
      BY <1>2, <2>1
    <3>. QED
      BY <3>1, <3>2, PowersAdd
  <2>3. \A k \in 0 .. n : w[k] \in Int /\ w[k] >= 1
    BY <1>2, PowersArePositive
  <2>4. a[m1] \in Int /\ b[m2] \in Int
    BY <1>2, <2>1
  <2> DEFINE x == w[m1 - 1]
             y == w[m2 - 1]
  <2>5. x \in Int /\ y \in Int /\ 1 <= x /\ 1 <= y
    BY <2>1, <2>3
  <2>6. x <= a[m1] /\ y <= b[m2]
    BY <1>20, <2>4, <2>5
  <2>7. x * y <= a[m1] * b[m2]
    BY <2>4, <2>5, <2>6, ProductsGrow
  <2>8. x * y = w[n - 2]
    BY <2>1, <2>2
  <2>9. w[n - 2] <= p[n]
    BY <1>3, <2>7, <2>8
  <2>10. w[n - 2] \in Int /\ p[n] \in Int
    BY <1>2, <1>9
  <2>. QED
    BY <2>9, <2>10
<1>22. f[0] = 0 => f[1] # 0
  <2>. SUFFICES ASSUME f[0] = 0, f[1] = 0
                PROVE  FALSE
    OBVIOUS
  <2>1. p[n] = p[n - 1]
    BY <1>18
  <2>2. p[n - 1] = p[n - 2] + f[1] * w[n - 2]
    <3>1. n - 1 \in 1 .. n /\ (n - 1) - 1 = n - 2 /\ n - (n - 1) = 1
      BY <1>9
    <3>2. p[n - 1] = p[(n - 1) - 1] + f[n - (n - 1)] * w[(n - 1) - 1]
      BY <1>2, <3>1 DEF IsValue
    <3>. QED
      BY <3>1, <3>2
  <2>3. p[n - 2] \in Int /\ w[n - 2] \in Int
    BY <1>2, <1>9
  <2>4. p[n - 2] + 0 * w[n - 2] = p[n - 2]
    BY <2>3
  <2>5. p[n] = p[n - 2]
    BY <2>1, <2>2, <2>4
  <2>6. p[n - 2] <= w[n - 2] - 1
    <3>1. n \in Nat /\ n <= n /\ IsPowers(w, n) /\ f \in [0 .. n - 1 -> 0 .. 9] /\ IsValue(p, f, n, w)
      BY <1>2
    <3>2. \A t \in 0 .. n : 0 <= p[t] /\ p[t] <= w[t] - 1
      BY <3>1, ValueOfDigits
    <3>. QED
      BY <1>9, <3>2
  <2>. QED
    BY <1>21, <2>3, <2>5, <2>6
<1>23. ret[1] # 0
  <2>1. ret[1] = f[s + 1 - 1]
    BY <1>9, <1>10
  <2>2. CASE s = 0
    BY <1>8, <2>1, <2>2
  <2>3. CASE s = 1
    BY <1>8, <1>22, <2>1, <2>3
  <2>. QED
    BY <1>8, <2>2, <2>3
<1>24. Plain(ret)
  BY <1>11, <1>23 DEF Plain
<1>. QED
  BY <1>3, <1>6, <1>7, <1>19, <1>24

\* A product with zero, or with nothing.
LEMMA ZeroIsReturned ==
  ASSUME Operands, IsZero
  PROVE  Plain(<<0>>) /\ Number(<<0>>) = Number(job.s1) * Number(job.s2)
<1>1. ASSUME NEW s \in Seq(Int), Len(s) = 0 \/ (Len(s) = 1 /\ s[1] = 0)
      PROVE  Number(s) = 0
  <2>1. /\ NumberOf(s) \in [0 .. Len(s) -> Int] /\ NumberOf(s)[0] = 0
        /\ \A k \in 1 .. Len(s) : NumberOf(s)[k] = 10 * NumberOf(s)[k - 1] + s[k]
    BY NumberSteps
  <2>2. CASE Len(s) = 0
    BY <2>1, <2>2 DEF Number
  <2>3. CASE Len(s) = 1 /\ s[1] = 0
    <3>1. 1 \in 1 .. Len(s) /\ 1 - 1 = 0
      BY <2>3
    <3>2. NumberOf(s)[1] = 10 * 0 + 0
      BY <2>1, <2>3, <3>1
    <3>. QED
      BY <2>3, <3>2 DEF Number
  <2>. QED
    BY <1>1, <2>2, <2>3
<1>2. ASSUME NEW s, s = <<>> \/ Plain(s) PROVE s \in Seq(Int) /\ (s # <<>> /\ s[1] = 0 => Len(s) = 1)
  <2>1. CASE s = <<>>
    <3>1. <<>> \in Seq(Int)
      OBVIOUS
    <3>. QED
      BY <2>1, <3>1
  <2>2. CASE Plain(s)
    BY <2>2, DigitsAreInts DEF Plain
  <2>. QED
    BY <1>2, <2>1, <2>2
<1>3. ASSUME NEW s, s = <<>> \/ Plain(s) PROVE Number(s) \in Int
  <2>1. s \in Seq(Int)
    BY <1>2, <1>3
  <2>2. Len(s) \in 0 .. Len(s) /\ NumberOf(s) \in [0 .. Len(s) -> Int]
    BY <2>1, NumberSteps
  <2>. QED
    BY <2>2 DEF Number
<1>4. ASSUME NEW s, s = <<>> \/ Plain(s), s = <<>> \/ s[1] = 0 PROVE Number(s) = 0
  <2>1. s \in Seq(Int) /\ (s # <<>> /\ s[1] = 0 => Len(s) = 1)
    BY <1>2, <1>4
  <2>2. s = <<>> => Len(s) = 0
    OBVIOUS
  <2>. QED
    BY <1>1, <1>4, <2>1, <2>2
<1>5. (job.s1 = <<>> \/ Plain(job.s1)) /\ (job.s2 = <<>> \/ Plain(job.s2))
  BY DEF Operands
<1>6. (job.s1 = <<>> \/ job.s1[1] = 0) \/ (job.s2 = <<>> \/ job.s2[1] = 0)
  BY DEF IsZero
<1>7. Number(job.s1) \in Int /\ Number(job.s2) \in Int /\ (Number(job.s1) = 0 \/ Number(job.s2) = 0)
  BY <1>3, <1>4, <1>5, <1>6
<1>8. Number(job.s1) * Number(job.s2) = 0
  BY <1>7
<1>9. Plain(<<0>>)
  BY DEF Plain
<1>10. Number(<<0>>) = 0
  BY <1>4, <1>9
<1>. QED
  BY <1>8, <1>9, <1>10

\* Every step keeps the invariant.
LEMMA MultiplyNextKeeps == MultiplyInv /\ [Next]_programVars => MultiplyInv'
<1>. SUFFICES ASSUME MultiplyInv, [Next]_programVars, job'.prog = "multiply"
              PROVE  MultiplyInv'
  BY DEF MultiplyInv
<1>1. CASE UNCHANGED programVars
  BY <1>1 DEF programVars, MultiplyInv, Operands, Untouched, Rows, Width, PowersOf, ValueOf1, ValueOf2, ValueOfIt,
              IsZero
<1>2. ASSUME MultiplyNext PROVE MultiplyInv'
  <2>1. job' = job /\ job.prog = "multiply"
    BY <1>2, OwnSteps
  <2>2. /\ Operands /\ Locals /\ (st.pc = "call" => Untouched) /\ (st.pc = "row" => Rows)
    BY <2>1 DEF MultiplyInv, Locals
  <2>3. Operands'
    BY <2>1, <2>2 DEF Operands
  <2>4. ASSUME ReturnZero PROVE MultiplyInv'
    <3>1. IsZero /\ st' = [st EXCEPT !.ret = <<0>>, !.pc = "done"]
      BY <2>4 DEF ReturnZero, At, Becomes
    <3>2. st' = [pc |-> "done", i |-> st.i, j |-> st.j, c |-> st.c, proInt |-> st.proInt, ret |-> <<0>>]
      BY <2>2, <3>1 DEF Locals
    <3>3. Plain(<<0>>) /\ Number(<<0>>) = Number(job.s1) * Number(job.s2)
      BY <2>2, <3>1, ZeroIsReturned
    <3>. QED
      BY <2>1, <2>3, <3>2, <3>3 DEF MultiplyInv
  <2>5. ASSUME StartRows PROVE MultiplyInv'
    <3>1. ~IsZero /\ st.pc = "call" /\ st' = [st EXCEPT !.pc = "row"]
      BY <2>5 DEF StartRows, At, Becomes
    <3>2. st' = [pc |-> "row", i |-> st.i, j |-> st.j, c |-> st.c, proInt |-> st.proInt, ret |-> st.ret]
      BY <2>2, <3>1 DEF Locals
    <3>3. Rows
      BY <2>2, <3>1, RowsStart
    <3>4. Rows'
      BY <2>1, <3>2, <3>3 DEF Rows, Width, PowersOf, ValueOf1, ValueOf2, ValueOfIt, IsZero
    <3>. QED
      BY <2>1, <2>3, <3>2, <3>4 DEF MultiplyInv
  <2>6. ASSUME MultiplyDigit PROVE MultiplyInv'
    <3>1. st.pc = "row"
      BY <2>6 DEF MultiplyDigit, At
    <3>2. Rows' /\ Locals' /\ st'.pc = "row"
      BY <2>2, <2>6, <3>1, DigitKeepsRows
    <3>. QED
      BY <2>3, <3>2 DEF MultiplyInv, Locals
  <2>7. ASSUME EndRow PROVE MultiplyInv'
    <3>1. st.pc = "row"
      BY <2>7 DEF EndRow, At
    <3>2. Rows' /\ Locals' /\ st'.pc = "row"
      BY <2>2, <2>7, <3>1, EndKeepsRows
    <3>. QED
      BY <2>3, <3>2 DEF MultiplyInv, Locals
  <2>8. ASSUME ReturnProduct PROVE MultiplyInv'
    <3>1. st.pc = "row"
      BY <2>8 DEF ReturnProduct, At
    <3>2. Plain(st'.ret) /\ Number(st'.ret) = Number(job.s1) * Number(job.s2)
      BY <2>2, <2>8, <3>1, ProductIsReturned, SMTT(30)
    <3>3. \E r : st' = [st EXCEPT !.ret = r, !.pc = "done"]
      BY <2>8 DEF ReturnProduct, At, Becomes
    <3>4. Locals' /\ st'.pc = "done"
      BY <2>2, <3>3 DEF Locals
    <3>. QED
      BY <2>1, <2>3, <3>2, <3>4 DEF MultiplyInv, Locals
  <2>. QED
    BY <1>2, <2>4, <2>5, <2>6, <2>7, <2>8 DEF MultiplyNext
<1>. QED
  BY <1>1, <1>2, OwnSteps DEF Next

\* Any two decimals are multiplied: the digits of the product, with every carry and no zero
\* in front.
THEOREM MultiplyIsRight == Spec => []MultipliesDecimals
<1>1. MultiplyInv => MultipliesDecimals
  BY DEF MultiplyInv, MultipliesDecimals, At
<1>. QED
  BY <1>1, MultiplyInit, MultiplyNextKeeps, PTL DEF Spec

-------------------------------------------------------------------------------
(* Matching a pattern.                                                      *)

StarAt(ptn, i)        == i + 1 < Len(ptn) /\ ptn[i + 2] = "*"
Reads(ptn, src, i, j) == j < Len(src) /\ ptn[i + 1] \in {src[j + 1], "."}

\* What Language computes for i from what it is for what is behind i.
WordsFrom(ptn, src, f, i) ==
  IF i = Len(ptn) THEN {Len(src)}
  ELSE IF StarAt(ptn, i)
  THEN {j \in 0 .. Len(src) :
          \E k \in f[i + 2] : j <= k /\ \A l \in j .. k - 1 : ptn[i + 1] \in {src[l + 1], "."}}
  ELSE {j \in 0 .. Len(src) - 1 : ptn[i + 1] \in {src[j + 1], "."} /\ j + 1 \in f[i + 1]}

LEMMA LanguageIs ==
  ASSUME NEW ptn, NEW src, Len(ptn) \in Nat, Len(src) \in Nat
  PROVE  /\ Language(ptn, src) \in [0 .. Len(ptn) -> SUBSET (0 .. Len(src))]
         /\ \A i \in 0 .. Len(ptn) :
              Language(ptn, src)[i] = WordsFrom(ptn, src, Language(ptn, src), i)
<1> DEFINE m == Len(ptn)
           D == 0 .. m
           Y == SUBSET (0 .. Len(src))
           G(f) == [i \in D |-> WordsFrom(ptn, src, f, i)]
           F == [f \in [D -> Y] |-> G(f)]
           rank == [i \in D |-> m - i]
           from == CHOOSE f : f = G(f)
<1>1. \A f, i : WordsFrom(ptn, src, f, i) \in Y
  BY DEF WordsFrom
<1>2. F \in [[D -> Y] -> [D -> Y]]
  <2> HIDE DEF D, Y
  <2>. QED
    BY <1>1
<1>3. DependsBelow(D, Y, rank, F)
  <2>1. ASSUME NEW f \in [D -> Y], NEW g \in [D -> Y], NEW i \in D,
               \A k \in D : rank[k] < rank[i] => f[k] = g[k]
        PROVE  F[f][i] = F[g][i]
    <3>1. \A k \in D : k > i => f[k] = g[k]
      BY <2>1
    <3>2. WordsFrom(ptn, src, f, i) = WordsFrom(ptn, src, g, i)
      <4>1. CASE i = m
        BY <4>1 DEF WordsFrom
      <4>2. CASE i # m /\ StarAt(ptn, i)
        <5>1. f[i + 2] = g[i + 2]
          BY <3>1, <4>2 DEF StarAt
        <5>. QED
          BY <4>2, <5>1 DEF WordsFrom
      <4>3. CASE i # m /\ ~StarAt(ptn, i)
        <5>1. f[i + 1] = g[i + 1]
          BY <3>1, <4>3
        <5>. QED
          BY <4>3, <5>1 DEF WordsFrom
      <4>. QED
        BY <4>1, <4>2, <4>3
    <3>. QED
      BY <3>2
  <2> HIDE DEF D, Y, F, rank
  <2>. QED
    BY <2>1 DEF DependsBelow
<1>4. PICK f : f \in [D -> Y] /\ F[f] = f
  <2>1. rank \in [D -> 0 .. m] /\ m \in Nat
    OBVIOUS
  <2>3. {} \in Y
    OBVIOUS
  <2> HIDE DEF m, D, Y, F, rank
  <2>2. Ranked(D, Y, m, rank, F)
    BY <1>2, <1>3, <2>1, <2>3 DEF Ranked
  <2>. QED
    BY <2>2, RankedRecursion
<1>5. from = G(from)
  <2>1. f = G(f)
    BY <1>4
  <2> HIDE DEF G
  <2>. QED
    BY <2>1
<1>6. Language(ptn, src) = from
  BY DEF Language, WordsFrom, StarAt
<1>. QED
  <2> HIDE DEF from
  <2>1. \A i \in D : from[i] = WordsFrom(ptn, src, from, i)
    BY <1>5
  <2>2. from \in [D -> Y]
    <3>1. from = [i \in D |-> WordsFrom(ptn, src, from, i)]
      BY <1>5
    <3> HIDE DEF Y, D
    <3>. QED
      BY <1>1, <3>1
  <2>. QED
    BY <1>6, <2>1, <2>2

\* A word of a pattern that begins with a star is one of the rest, or begins with a character
\* for the star.
LEMMA LanguageSteps ==
  ASSUME NEW ptn, NEW src, Len(ptn) \in Nat, Len(src) \in Nat,
         NEW i \in 0 .. Len(ptn) - 1, NEW j \in 0 .. Len(src)
  PROVE  LET from == Language(ptn, src) IN
         IF StarAt(ptn, i)
         THEN j \in from[i] <=> j \in from[i + 2] \/ (Reads(ptn, src, i, j) /\ j + 1 \in from[i])
         ELSE j \in from[i] <=> Reads(ptn, src, i, j) /\ j + 1 \in from[i + 1]
<1> DEFINE from == Language(ptn, src)
           read(l) == ptn[i + 1] \in {src[l + 1], "."}
<1>1. from[i] = WordsFrom(ptn, src, from, i) /\ i # Len(ptn)
  BY LanguageIs
<1>2. CASE ~StarAt(ptn, i)
  BY <1>1, <1>2 DEF WordsFrom, Reads
<1>3. CASE StarAt(ptn, i)
  <2>1. from[i + 2] \subseteq 0 .. Len(src)
    BY <1>3, LanguageIs DEF StarAt
  <2> HIDE DEF from
  <2>2. \A l \in 0 .. Len(src) :
          l \in from[i] <=> \E k \in from[i + 2] : l <= k /\ \A n \in l .. k - 1 : read(n)
    BY <1>1, <1>3 DEF WordsFrom
  <2> HIDE DEF read
  <2>3. ASSUME j \in from[i], j \notin from[i + 2] PROVE j < Len(src) /\ read(j) /\ j + 1 \in from[i]
    <3>1. PICK k \in from[i + 2] : j <= k /\ \A n \in j .. k - 1 : read(n)
      BY <2>2, <2>3
    <3>2. j < k /\ k \in 0 .. Len(src)
      BY <2>1, <2>3, <3>1
    <3>3. j + 1 \in 0 .. Len(src) /\ j + 1 <= k /\ \A n \in j + 1 .. k - 1 : read(n)
      BY <3>1, <3>2
    <3>4. j + 1 \in from[i]
      BY <2>2, <3>3
    <3>. QED
      BY <3>1, <3>2, <3>4
  <2>4. ASSUME j \in from[i + 2] PROVE j \in from[i]
    BY <2>2, <2>4
  <2>5. ASSUME j < Len(src), read(j), j + 1 \in from[i] PROVE j \in from[i]
    <3>1. j + 1 \in 0 .. Len(src)
      BY <2>5
    <3>2. PICK k \in from[i + 2] : j + 1 <= k /\ \A n \in j + 1 .. k - 1 : read(n)
      BY <2>2, <2>5, <3>1
    <3>3. k \in 0 .. Len(src)
      BY <2>1
    <3>4. \A n \in j .. k - 1 : n = j \/ n \in j + 1 .. k - 1
      BY <3>3
    <3>5. j <= k /\ \A n \in j .. k - 1 : read(n)
      BY <2>5, <3>2, <3>3, <3>4
    <3>. QED
      BY <2>2, <3>5
  <2>6. Reads(ptn, src, i, j) <=> j < Len(src) /\ read(j)
    BY DEF Reads, read
  <2>. QED
    BY <1>3, <2>3, <2>4, <2>5, <2>6 DEF from
<1>. QED
  BY <1>2, <1>3

-------------------------------------------------------------------------------
(* Compiling: at[s] is how much of the pattern comes before state number s. *)

RexStates == [c : RexChars \union {Split, Final}, out : Int, out1 : Int, last_list : {-1, 0, 1}]

\* The state behind a split is the one that reads the character of the star.
StarChar(S, s) == s > 0 /\ S[s].c = Split
LinkOf(S, s)   == IF S[s + 1].c = Split THEN S[s + 1].out1 ELSE S[s + 1].out
Behind(S, s)   == IF S[s + 1].c = Split THEN s + 2 ELSE s + 1

Atom(S, P, at, s) ==
  /\ at[s] < Len(P)
  /\ StarChar(S, s) => /\ S[s + 1].c = P[at[s] + 1] /\ StarAt(P, at[s])
                       /\ S[s + 1].out = s - 1 /\ at[s - 1] = at[s]
  /\ ~StarChar(S, s) /\ S[s + 1].c = Split =>
       StarAt(P, at[s]) /\ S[s + 1].out = s + 1 /\ s + 2 <= Len(S) /\ at[s + 2] = at[s] + 2
  /\ ~StarChar(S, s) /\ S[s + 1].c # Split =>
       S[s + 1].c = P[at[s] + 1] /\ ~StarAt(P, at[s]) /\ at[s + 1] = at[s] + 1

\* Each state leads to the one behind it, but for the last one, which is still to be linked.
Compiled(S, P, at, i, last) ==
  /\ S \in Seq(RexStates) /\ at \in [0 .. Len(S) -> 0 .. Len(P)]
  /\ at[0] = 0 /\ at[Len(S)] = i
  /\ \A s \in 0 .. Len(S) - 1 :
       /\ Atom(S, P, at, s) /\ S[s + 1].last_list = -1
       /\ ~StarChar(S, s) => IF Behind(S, s) = Len(S) THEN last = s ELSE LinkOf(S, s) = Behind(S, s)
  /\ S = <<>> => last = -1
  /\ S # <<>> => last \in 0 .. Len(S) - 1 /\ ~StarChar(S, last) /\ Behind(S, last) = Len(S)

Automaton(S, P, at) ==
  /\ S \in Seq(RexStates) /\ Len(S) > 0 /\ at \in [0 .. Len(S) - 1 -> 0 .. Len(P)]
  /\ at[0] = 0 /\ at[Len(S) - 1] = Len(P)
  /\ S[Len(S)].c = Final /\ ~StarChar(S, Len(S) - 1)
  /\ \A s \in 0 .. Len(S) - 2 :
       /\ Atom(S, P, at, s) /\ S[s + 1].c # Final
       /\ ~StarChar(S, s) => LinkOf(S, s) = Behind(S, s) /\ Behind(S, s) < Len(S)

LEMMA RexStateIs ==
  ASSUME NEW x \in RexStates, NEW y \in RexStates,
         x.c = y.c, x.out = y.out, x.out1 = y.out1, x.last_list = y.last_list
  PROVE  x = y
<1>1. /\ x = [c |-> x.c, out |-> x.out, out1 |-> x.out1, last_list |-> x.last_list]
      /\ y = [c |-> y.c, out |-> y.out, out1 |-> y.out1, last_list |-> y.last_list]
  BY DEF RexStates
<1>. QED
  BY <1>1

Connected(X, last, to, T) ==
  /\ T \in Seq(RexStates) /\ Len(T) = Len(X)
  /\ \A s \in 0 .. Len(X) - 1 :
       /\ T[s + 1].c = X[s + 1].c /\ T[s + 1].last_list = X[s + 1].last_list
       /\ T[s + 1].out = (IF s = last /\ X[s + 1].c # Split THEN to ELSE X[s + 1].out)
       /\ T[s + 1].out1 = (IF s = last /\ X[s + 1].c = Split THEN to ELSE X[s + 1].out1)

LEMMA ConnectIs ==
  ASSUME NEW X \in Seq(RexStates), NEW last, last = -1 \/ last \in 0 .. Len(X) - 1, NEW to \in Int,
         NEW T, T = Connect(X, last, to)
  PROVE  Connected(X, last, to, T)
<1>1. CASE last = -1
  BY <1>1 DEF Connect, Connected
<1>2. CASE last \in 0 .. Len(X) - 1
  <2>1. X[last + 1] \in RexStates /\ last # -1 /\ last + 1 \in 1 .. Len(X)
    BY <1>2
  <2>2. \A s \in 0 .. Len(X) - 1 : X[s + 1] \in RexStates /\ s + 1 \in 1 .. Len(X)
    OBVIOUS
  <2>3. CASE X[last + 1].c = Split
    <3> DEFINE new == [X[last + 1] EXCEPT !.out1 = to]
    <3>1. T = [X EXCEPT ![last + 1] = new]
      BY <2>1, <2>3 DEF Connect
    <3>2. /\ new \in RexStates /\ new.c = X[last + 1].c /\ new.last_list = X[last + 1].last_list
          /\ new.out = X[last + 1].out /\ new.out1 = to
      BY <2>1 DEF RexStates
    <3> HIDE DEF new
    <3>3. /\ T \in Seq(RexStates) /\ Len(T) = Len(X)
          /\ \A s \in 0 .. Len(X) - 1 : T[s + 1] = IF s = last THEN new ELSE X[s + 1]
      BY <1>2, <3>1, <3>2
    <3>. QED
      BY <1>2, <2>2, <2>3, <3>2, <3>3 DEF Connected
  <2>4. CASE X[last + 1].c # Split
    <3> DEFINE new == [X[last + 1] EXCEPT !.out = to]
    <3>1. T = [X EXCEPT ![last + 1] = new]
      BY <2>1, <2>4 DEF Connect
    <3>2. /\ new \in RexStates /\ new.c = X[last + 1].c /\ new.last_list = X[last + 1].last_list
          /\ new.out1 = X[last + 1].out1 /\ new.out = to
      BY <2>1 DEF RexStates
    <3> HIDE DEF new
    <3>3. /\ T \in Seq(RexStates) /\ Len(T) = Len(X)
          /\ \A s \in 0 .. Len(X) - 1 : T[s + 1] = IF s = last THEN new ELSE X[s + 1]
      BY <1>2, <3>1, <3>2
    <3>. QED
      BY <1>2, <2>2, <2>4, <3>2, <3>3 DEF Connected
  <2>. QED
    BY <2>3, <2>4
<1>. QED
  BY <1>1, <1>2

\* What a sequence of states has after others were appended and the last one was linked.
Extended(S, E, last, T) ==
  /\ T \in Seq(RexStates) /\ Len(T) = Len(S) + Len(E)
  /\ \A s \in 0 .. Len(S) - 1 :
       /\ T[s + 1].c = S[s + 1].c /\ T[s + 1].last_list = S[s + 1].last_list
       /\ s # last => T[s + 1].out = S[s + 1].out /\ T[s + 1].out1 = S[s + 1].out1
       /\ s = last /\ S[s + 1].c = Split => T[s + 1].out = S[s + 1].out /\ T[s + 1].out1 = Len(S)
       /\ s = last /\ S[s + 1].c # Split => T[s + 1].out = Len(S)
  /\ \A k \in 1 .. Len(E) : T[Len(S) + k] = E[k]

LEMMA ConnectExtends ==
  ASSUME NEW S \in Seq(RexStates), NEW E \in Seq(RexStates), NEW last,
         last = -1 \/ last \in 0 .. Len(S) - 1
  PROVE  Extended(S, E, last, Connect(S \o E, last, Len(S)))
<1> DEFINE X == S \o E
           T == Connect(X, last, Len(S))
<1>1. /\ X \in Seq(RexStates) /\ Len(X) = Len(S) + Len(E) /\ Len(S) \in Nat /\ Len(E) \in Nat
      /\ \A s \in 0 .. Len(S) - 1 : X[s + 1] = S[s + 1]
      /\ \A k \in 1 .. Len(E) : X[Len(S) + k] = E[k]
  OBVIOUS
<1>t. T = Connect(X, last, Len(S)) /\ Len(S) \in Int
  OBVIOUS
<1> HIDE DEF X, T
<1>2. last = -1 \/ last \in 0 .. Len(X) - 1
  BY <1>1
<1>3. Connected(X, last, Len(S), T)
  BY <1>1, <1>2, <1>t, ConnectIs
<1>4. ASSUME NEW k \in 1 .. Len(E) PROVE T[Len(S) + k] = E[k]
  <2> DEFINE s == Len(S) + k - 1
  <2>1. s \in 0 .. Len(X) - 1 /\ s # last /\ s + 1 = Len(S) + k
    BY <1>1
  <2>2. T[s + 1] \in RexStates /\ X[s + 1] \in RexStates
    BY <1>1, <1>3, <2>1 DEF Connected
  <2>3. /\ T[s + 1].c = X[s + 1].c /\ T[s + 1].last_list = X[s + 1].last_list
        /\ T[s + 1].out = X[s + 1].out /\ T[s + 1].out1 = X[s + 1].out1
    BY <1>3, <2>1 DEF Connected
  <2>4. T[s + 1] = X[s + 1]
    BY <2>2, <2>3, RexStateIs
  <2>. QED
    BY <1>1, <2>1, <2>4
<1>5. \A s \in 0 .. Len(S) - 1 : s \in 0 .. Len(X) - 1
  BY <1>1
<1>6. Extended(S, E, last, T)
  BY <1>1, <1>3, <1>4, <1>5 DEF Extended, Connected
<1>. QED
  BY <1>6 DEF T, X

\* The first n states, linked.
Linked(T, P, at, n) ==
  \A s \in 0 .. n - 1 :
    /\ Atom(T, P, at, s) /\ T[s + 1].last_list = -1 /\ T[s + 1].c # Final
    /\ ~StarChar(T, s) => LinkOf(T, s) = Behind(T, s) /\ Behind(T, s) <= n

LEMMA OldLinked ==
  ASSUME NEW P \in Seq(RexChars), NEW S, NEW at, NEW i, NEW last, Compiled(S, P, at, i, last),
         NEW E, NEW T, Extended(S, E, last, T), Len(E) \in Nat,
         NEW at2, \A s \in 0 .. Len(S) : at2[s] = at[s]
  PROVE  Linked(T, P, at2, Len(S)) /\ ~StarChar(T, Len(S))
<1> DEFINE n == Len(S)
<1>1. /\ S \in Seq(RexStates) /\ n \in Nat /\ at \in [0 .. n -> 0 .. Len(P)] /\ Len(P) \in Nat
      /\ T \in Seq(RexStates) /\ Len(T) >= n
  BY DEF Compiled, Extended
<1>2. ASSUME NEW s \in 0 .. n - 1
      PROVE  /\ T[s + 1].c = S[s + 1].c /\ Atom(S, P, at, s) /\ T[s + 1].last_list = -1
             /\ S[s + 1].c \in RexChars \union {Split} /\ S[s + 1].c # Final
             /\ StarChar(T, s) <=> StarChar(S, s)
             /\ Behind(T, s) = Behind(S, s) /\ at2[s] = at[s] /\ at[s] < Len(P)
  <2>1. /\ T[s + 1].c = S[s + 1].c /\ Atom(S, P, at, s)
        /\ T[s + 1].last_list = -1 /\ at2[s] = at[s] /\ at[s] < Len(P)
    <3>1. Atom(S, P, at, s) /\ S[s + 1].last_list = -1
      BY DEF Compiled
    <3>2. T[s + 1].c = S[s + 1].c /\ T[s + 1].last_list = S[s + 1].last_list
      BY DEF Extended
    <3>3. at[s] < Len(P)
      BY <3>1 DEF Atom
    <3>4. at2[s] = at[s]
      BY <1>1
    <3>. QED
      BY <3>1, <3>2, <3>3, <3>4
  <2>2. s > 0 => T[s].c = S[s].c
    <3>1. s > 0 => s - 1 \in 0 .. n - 1 /\ (s - 1) + 1 = s
      OBVIOUS
    <3>2. s > 0 => T[(s - 1) + 1].c = S[(s - 1) + 1].c
      BY <3>1 DEF Extended
    <3>. QED
      BY <3>1, <3>2
  <2>3. P[at[s] + 1] \in RexChars
    BY <1>1, <2>1
  <2>4. S[s + 1].c \in RexChars \union {Split}
    BY <2>1, <2>3 DEF Atom
  <2>5. S[s + 1].c # Final
    BY <2>4, RexAssumption DEF Split, Final
  <2>. QED
    BY <2>1, <2>2, <2>4, <2>5 DEF StarChar, Behind
<1>3. ASSUME NEW s \in 0 .. n - 1, ~StarChar(S, s) PROVE Behind(S, s) <= n
  BY <1>2, <1>3 DEF Atom, Behind
<1>4. ASSUME NEW s \in 0 .. n - 1
      PROVE  /\ Atom(T, P, at2, s)
             /\ ~StarChar(T, s) => LinkOf(T, s) = Behind(T, s) /\ Behind(T, s) <= n
  <2>1. CASE StarChar(S, s)
    <3>1. s > 0 /\ s - 1 \in 0 .. n /\ s # last /\ s # n
      BY <2>1 DEF StarChar, Compiled
    <3>2. T[s + 1].out = S[s + 1].out /\ at2[s - 1] = at[s - 1]
      BY <3>1 DEF Extended
    <3>. QED
      BY <1>2, <2>1, <3>2 DEF Atom
  <2>2. CASE ~StarChar(S, s) /\ S[s + 1].c = Split
    <3>1. T[s + 1].out = S[s + 1].out /\ (s = last => T[s + 1].out1 = n)
          /\ (s # last => T[s + 1].out1 = S[s + 1].out1)
      BY <2>2 DEF Extended
    <3>2. s + 2 <= n /\ at2[s + 2] = at[s + 2] /\ s + 2 <= Len(T)
      BY <1>1, <1>2, <2>2 DEF Atom
    <3>3. Atom(T, P, at2, s)
      BY <1>2, <2>2, <3>1, <3>2 DEF Atom
    <3>4. IF Behind(S, s) = n THEN last = s ELSE LinkOf(S, s) = Behind(S, s)
      BY <2>2 DEF Compiled
    <3>5. s = last => Behind(S, s) = n
      BY DEF Compiled
    <3>6. LinkOf(T, s) = T[s + 1].out1 /\ LinkOf(S, s) = S[s + 1].out1
      BY <1>2, <2>2 DEF LinkOf
    <3>. QED
      BY <1>2, <1>3, <2>2, <3>1, <3>3, <3>4, <3>5, <3>6
  <2>3. CASE ~StarChar(S, s) /\ S[s + 1].c # Split
    <3>1. (s = last => T[s + 1].out = n) /\ (s # last => T[s + 1].out = S[s + 1].out)
      BY <2>3 DEF Extended
    <3>2. s + 1 <= n /\ at2[s + 1] = at[s + 1]
      BY <1>1
    <3>3. Atom(T, P, at2, s)
      BY <1>2, <2>3, <3>2 DEF Atom
    <3>4. IF Behind(S, s) = n THEN last = s ELSE LinkOf(S, s) = Behind(S, s)
      BY <2>3 DEF Compiled
    <3>5. s = last => Behind(S, s) = n
      BY DEF Compiled
    <3>6. LinkOf(T, s) = T[s + 1].out /\ LinkOf(S, s) = S[s + 1].out
      BY <1>2, <2>3 DEF LinkOf
    <3>. QED
      BY <1>2, <1>3, <2>3, <3>1, <3>3, <3>4, <3>5, <3>6
  <2>. QED
    BY <2>1, <2>2, <2>3
<1>5. ~StarChar(T, n)
  <2> SUFFICES ASSUME n > 0, T[n].c = Split PROVE FALSE
    BY DEF StarChar
  <2>1. n - 1 \in 0 .. n - 1 /\ (n - 1) + 1 = n
    BY <1>1
  <2>2. S[n].c = Split /\ Atom(S, P, at, n - 1)
    BY <1>2, <2>1
  <2>3. CASE StarChar(S, n - 1)
    <3>1. S[n].c = P[at[n - 1] + 1] /\ at[n - 1] < Len(P)
      BY <2>1, <2>2, <2>3 DEF Atom
    <3>2. at[n - 1] \in 0 .. Len(P)
      <4>1. n - 1 \in 0 .. n
        BY <1>1, <2>1
      <4> HIDE DEF n
      <4>. QED
        BY <1>1, <4>1
    <3>3. P[at[n - 1] + 1] \in RexChars
      BY <1>1, <3>1, <3>2
    <3>. QED
      BY <2>2, <3>1, <3>3, RexAssumption
  <2>4. CASE ~StarChar(S, n - 1)
    <3>1. (n - 1) + 2 <= n
      BY <2>1, <2>2, <2>4 DEF Atom
    <3>. QED
      BY <1>1, <3>1
  <2>. QED
    BY <2>3, <2>4
<1>. QED
  BY <1>2, <1>4, <1>5 DEF Linked

\* One more star, ...
LEMMA AddStar ==
  ASSUME NEW P \in Seq(RexChars), NEW S, NEW at, NEW i, NEW last, Compiled(S, P, at, i, last),
         i \in Nat, i < Len(P), StarAt(P, i), NEW T,
         T = Connect(S \o <<State(Split, Len(S) + 1), State(P[i + 1], Len(S))>>, last, Len(S))
  PROVE  \E at2 : Compiled(T, P, at2, i + 2, Len(S))
<1> DEFINE n == Len(S)
           E == <<State(Split, n + 1), State(P[i + 1], n)>>
           at2 == [s \in 0 .. n + 2 |-> IF s <= n THEN at[s] ELSE IF s = n + 1 THEN i ELSE i + 2]
<1>1. /\ S \in Seq(RexStates) /\ n \in Nat /\ at \in [0 .. n -> 0 .. Len(P)] /\ Len(P) \in Nat
      /\ last = -1 \/ last \in 0 .. n - 1
      /\ at[0] = 0 /\ at[n] = i /\ i + 2 <= Len(P)
  BY DEF Compiled, StarAt
<1>2. P[i + 1] \in RexChars
  BY <1>1
<1>3. E \in Seq(RexStates) /\ Len(E) = 2
  <2>1. State(Split, n + 1) \in RexStates /\ State(P[i + 1], n) \in RexStates
    BY <1>1, <1>2 DEF State, RexStates
  <2>. QED
    BY <2>1
<1>4. Extended(S, E, last, T)
  BY <1>1, <1>3, ConnectExtends
<1>5. /\ at2 \in [0 .. n + 2 -> 0 .. Len(P)] /\ at2[0] = 0 /\ at2[n] = i /\ at2[n + 1] = i
      /\ at2[n + 2] = i + 2 /\ \A s \in 0 .. n : at2[s] = at[s]
  BY <1>1
<1> HIDE DEF at2
<1>6. Linked(T, P, at2, n) /\ ~StarChar(T, n)
  <2>1. Len(E) \in Nat
    BY <1>3
  <2> HIDE DEF n, E
  <2>. QED
    BY <1>4, <1>5, <2>1, OldLinked DEF n
<1>7. /\ T \in Seq(RexStates) /\ Len(T) = n + 2
      /\ T[n + 1] = State(Split, n + 1) /\ T[n + 2] = State(P[i + 1], n)
  <2>1. T[n + 1] = E[1] /\ T[n + 2] = E[2]
    BY <1>3, <1>4, SMTT(30) DEF Extended
  <2>. QED
    BY <1>3, <1>4, <2>1 DEF Extended
<1>8. /\ T[n + 1].c = Split /\ T[n + 1].out = n + 1 /\ T[n + 1].last_list = -1
      /\ T[n + 2].c = P[i + 1] /\ T[n + 2].out = n /\ T[n + 2].last_list = -1
  BY <1>7 DEF State
<1>9. Atom(T, P, at2, n)
  BY <1>1, <1>5, <1>6, <1>7, <1>8 DEF Atom
<1>10. StarChar(T, n + 1)
  BY <1>1, <1>8 DEF StarChar
<1>11. Atom(T, P, at2, n + 1)
  BY <1>1, <1>5, <1>8, <1>10 DEF Atom
<1>12. Behind(T, n) = n + 2
  BY <1>8 DEF Behind
<1>13. ASSUME NEW s \in 0 .. Len(T) - 1
       PROVE  /\ Atom(T, P, at2, s) /\ T[s + 1].last_list = -1
              /\ ~StarChar(T, s) => IF Behind(T, s) = Len(T) THEN n = s
                                    ELSE LinkOf(T, s) = Behind(T, s)
  <2>1. CASE s \in 0 .. n - 1
    <3>1. /\ Atom(T, P, at2, s) /\ T[s + 1].last_list = -1
          /\ ~StarChar(T, s) => LinkOf(T, s) = Behind(T, s) /\ Behind(T, s) <= n
      BY <1>6, <2>1 DEF Linked
    <3>2. Behind(T, s) \in Int /\ n < Len(T)
      BY <1>1, <1>7, <2>1 DEF Behind
    <3>3. Behind(T, s) <= n => Behind(T, s) # Len(T)
      BY <1>1, <1>7, <3>2
    <3>. QED
      BY <3>1, <3>3
  <2>2. CASE s = n
    BY <1>7, <1>8, <1>9, <1>12, <2>2
  <2>3. CASE s = n + 1
    BY <1>8, <1>10, <1>11, <2>3
  <2>. QED
    BY <1>1, <1>7, <2>1, <2>2, <2>3
<1>14. Compiled(T, P, at2, i + 2, n)
  <2>1. n \in 0 .. Len(T) - 1 /\ T # <<>> /\ at2[Len(T)] = i + 2
    BY <1>1, <1>5, <1>7
  <2>2. at2 \in [0 .. Len(T) -> 0 .. Len(P)]
    BY <1>5, <1>7
  <2>. QED
    BY <1>5, <1>6, <1>7, <1>12, <1>13, <2>1, <2>2 DEF Compiled
<1>. QED
  BY <1>14

\* ... one more character, ...
LEMMA AddChar ==
  ASSUME NEW P \in Seq(RexChars), NEW S, NEW at, NEW i, NEW last, Compiled(S, P, at, i, last),
         i \in Nat, i < Len(P), ~StarAt(P, i), NEW T,
         T = Connect(Append(S, State(P[i + 1], -1)), last, Len(S))
  PROVE  \E at2 : Compiled(T, P, at2, i + 1, Len(S))
<1> DEFINE n == Len(S)
           E == <<State(P[i + 1], -1)>>
           at2 == [s \in 0 .. n + 1 |-> IF s <= n THEN at[s] ELSE i + 1]
<1>1. /\ S \in Seq(RexStates) /\ n \in Nat /\ at \in [0 .. n -> 0 .. Len(P)] /\ Len(P) \in Nat
      /\ last = -1 \/ last \in 0 .. n - 1
      /\ at[0] = 0 /\ at[n] = i /\ i + 1 <= Len(P)
  BY DEF Compiled
<1>2. P[i + 1] \in RexChars /\ P[i + 1] # Split
  BY <1>1, RexAssumption
<1>3. E \in Seq(RexStates) /\ Len(E) = 1
  <2>1. State(P[i + 1], -1) \in RexStates
    BY <1>2 DEF State, RexStates
  <2>. QED
    BY <2>1
<1>4. Extended(S, E, last, T)
  <2>1. Append(S, State(P[i + 1], -1)) = S \o E
    BY <1>1, <1>3
  <2>2. T = Connect(S \o E, last, Len(S))
    BY <2>1
  <2> HIDE DEF E
  <2>. QED
    BY <1>1, <1>3, <2>2, ConnectExtends
<1>5. /\ at2 \in [0 .. n + 1 -> 0 .. Len(P)] /\ at2[0] = 0 /\ at2[n] = i /\ at2[n + 1] = i + 1
      /\ \A s \in 0 .. n : at2[s] = at[s]
  BY <1>1
<1> HIDE DEF at2
<1>6. Linked(T, P, at2, n) /\ ~StarChar(T, n)
  <2>1. Len(E) \in Nat
    BY <1>3
  <2> HIDE DEF n, E
  <2>. QED
    BY <1>4, <1>5, <2>1, OldLinked DEF n
<1>7. T \in Seq(RexStates) /\ Len(T) = n + 1 /\ T[n + 1] = State(P[i + 1], -1)
  <2>1. T[n + 1] = E[1]
    BY <1>3, <1>4 DEF Extended
  <2>. QED
    BY <1>3, <1>4, <2>1 DEF Extended
<1>8. T[n + 1].c = P[i + 1] /\ T[n + 1].last_list = -1
  BY <1>7 DEF State
<1>9. Atom(T, P, at2, n)
  BY <1>1, <1>2, <1>5, <1>6, <1>7, <1>8 DEF Atom
<1>10. Behind(T, n) = n + 1
  BY <1>2, <1>8 DEF Behind
<1>11. ASSUME NEW s \in 0 .. Len(T) - 1
       PROVE  /\ Atom(T, P, at2, s) /\ T[s + 1].last_list = -1
              /\ ~StarChar(T, s) => IF Behind(T, s) = Len(T) THEN n = s
                                    ELSE LinkOf(T, s) = Behind(T, s)
  <2>1. CASE s \in 0 .. n - 1
    <3>1. /\ Atom(T, P, at2, s) /\ T[s + 1].last_list = -1
          /\ ~StarChar(T, s) => LinkOf(T, s) = Behind(T, s) /\ Behind(T, s) <= n
      BY <1>6, <2>1 DEF Linked
    <3>2. Behind(T, s) \in Int /\ n < Len(T)
      BY <1>1, <1>7, <2>1 DEF Behind
    <3>3. Behind(T, s) <= n => Behind(T, s) # Len(T)
      BY <1>1, <1>7, <3>2
    <3>. QED
      BY <3>1, <3>3
  <2>2. CASE s = n
    BY <1>7, <1>8, <1>9, <1>10, <2>2
  <2>. QED
    BY <1>1, <1>7, <2>1, <2>2
<1>12. Compiled(T, P, at2, i + 1, n)
  BY <1>1, <1>5, <1>6, <1>7, <1>10, <1>11 DEF Compiled
<1>. QED
  BY <1>12

\* ... and the last state.
LEMMA AddFinal ==
  ASSUME NEW P \in Seq(RexChars), NEW S, NEW at, NEW last, Compiled(S, P, at, Len(P), last),
         NEW T, T = Connect(Append(S, State(Final, -1)), last, Len(S))
  PROVE  /\ \E at2 : Automaton(T, P, at2)
         /\ Len(T) = Len(S) + 1 /\ \A s \in 0 .. Len(T) - 1 : T[s + 1].last_list = -1
<1> DEFINE n == Len(S)
           E == <<State(Final, -1)>>
<1>1. /\ S \in Seq(RexStates) /\ n \in Nat /\ at \in [0 .. n -> 0 .. Len(P)] /\ Len(P) \in Nat
      /\ last = -1 \/ last \in 0 .. n - 1
      /\ at[0] = 0 /\ at[n] = Len(P)
  BY DEF Compiled
<1>3. E \in Seq(RexStates) /\ Len(E) = 1
  <2>1. State(Final, -1) \in RexStates
    BY DEF State, RexStates
  <2>. QED
    BY <2>1
<1>4. Extended(S, E, last, T)
  <2>1. Append(S, State(Final, -1)) = S \o E
    BY <1>1, <1>3
  <2>2. T = Connect(S \o E, last, Len(S))
    BY <2>1
  <2> HIDE DEF E
  <2>. QED
    BY <1>1, <1>3, <2>2, ConnectExtends
<1>6. Linked(T, P, at, n) /\ ~StarChar(T, n)
  <2>1. Len(E) \in Nat
    BY <1>3
  <2> HIDE DEF n, E
  <2>. QED
    BY <1>4, <2>1, OldLinked DEF n
<1>7. T \in Seq(RexStates) /\ Len(T) = n + 1 /\ T[n + 1] = State(Final, -1)
  <2>1. T[n + 1] = E[1]
    BY <1>3, <1>4 DEF Extended
  <2>. QED
    BY <1>3, <1>4, <2>1 DEF Extended
<1>8. T[n + 1].c = Final /\ T[n + 1].last_list = -1
  BY <1>7 DEF State
<1>9. Len(T) - 1 = n /\ 0 .. Len(T) - 2 = 0 .. n - 1 /\ Len(T) > 0
  BY <1>1, <1>7
<1>10. ASSUME NEW s \in 0 .. n - 1, ~StarChar(T, s)
       PROVE LinkOf(T, s) = Behind(T, s) /\ Behind(T, s) < Len(T)
  <2>1. LinkOf(T, s) = Behind(T, s) /\ Behind(T, s) <= n
    BY <1>6, <1>10 DEF Linked
  <2>. QED
    BY <1>1, <1>7, <2>1 DEF Behind
<1>11. Automaton(T, P, at)
  BY <1>1, <1>6, <1>7, <1>8, <1>9, <1>10 DEF Automaton, Linked
<1>12. ASSUME NEW s \in 0 .. Len(T) - 1 PROVE T[s + 1].last_list = -1
  <2>1. CASE s \in 0 .. n - 1
    BY <1>6, <2>1 DEF Linked
  <2>2. CASE s = n
    BY <1>8, <2>2
  <2>. QED
    BY <1>1, <1>7, <2>1, <2>2
<1>. QED
  BY <1>7, <1>11, <1>12

-------------------------------------------------------------------------------
(* Running the automaton: the words that a state accepts.                   *)

Accepts(S, P, src, at, s, j) ==
  IF S[s + 1].c = Final THEN j = Len(src)
  ELSE Reads(P, src, at[s], j) /\ j + 1 \in Language(P, src)[at[S[s + 1].out]]

\* A state that a list may have, and one that may be added with what it leads to.
Listed(S, s)  == s \in 0 .. Len(S) - 1 /\ S[s + 1].c # Split
Addable(S, s) == s \in 0 .. Len(S) - 1 /\ ~StarChar(S, s)

LEMMA AutomatonStates ==
  ASSUME NEW P \in Seq(RexChars), NEW S, NEW at, Automaton(S, P, at), NEW s \in 0 .. Len(S) - 1
  PROVE  /\ S[s + 1].c \in RexChars \union {Split, Final} /\ at[s] \in 0 .. Len(P)
         /\ S[s + 1].c = Final => s = Len(S) - 1 /\ at[s] = Len(P)
         /\ S[s + 1].c # Final => s \in 0 .. Len(S) - 2 /\ Atom(S, P, at, s) /\ at[s] \in 0 .. Len(P) - 1
         /\ StarChar(S, s) => S[s + 1].c \in RexChars /\ S[s + 1].c # Split
         /\ S[s + 1].c = Split => ~StarChar(S, s)
         /\ s = Len(S) - 1 => S[s + 1].c = Final
<1>0. /\ S \in Seq(RexStates) /\ at \in [0 .. Len(S) - 1 -> 0 .. Len(P)]
      /\ at[Len(S) - 1] = Len(P) /\ S[Len(S)].c = Final
  BY DEF Automaton
<1>1. /\ S \in Seq(RexStates) /\ Len(S) \in Nat /\ Len(P) \in Nat /\ at[s] \in 0 .. Len(P)
      /\ at[Len(S) - 1] = Len(P) /\ S[Len(S)].c = Final
  BY <1>0
<1>2. S[s + 1] \in RexStates
  BY <1>1
<1>3. CASE s = Len(S) - 1
  <2>1. S[s + 1].c = Final /\ ~StarChar(S, s)
    BY <1>1, <1>3 DEF Automaton
  <2>. QED
    BY <1>1, <1>3, <2>1 DEF Final, Split
<1>4. CASE s \in 0 .. Len(S) - 2
  <2>1. Atom(S, P, at, s) /\ S[s + 1].c # Final
    BY <1>4 DEF Automaton
  <2>2. at[s] < Len(P)
    BY <2>1 DEF Atom
  <2>3. P[at[s] + 1] \in RexChars
    BY <1>1, <2>2
  <2>4. StarChar(S, s) => S[s + 1].c = P[at[s] + 1]
    BY <2>1 DEF Atom
  <2>5. S[s + 1].c \in RexChars \union {Split, Final}
    BY <1>2 DEF RexStates
  <2>6. StarChar(S, s) => S[s + 1].c \in RexChars /\ S[s + 1].c # Split
    BY <2>3, <2>4, RexAssumption
  <2>7. s # Len(S) - 1 /\ at[s] \in 0 .. Len(P) - 1
    BY <1>1, <1>4, <2>2
  <2> HIDE DEF Atom
  <2>. QED
    BY <1>1, <1>4, <2>1, <2>5, <2>6, <2>7
<1>. QED
  BY <1>1, <1>3, <1>4

\* What may be added accepts what the rest of the pattern does.
LEMMA StartAccepts ==
  ASSUME NEW P \in Seq(RexChars), NEW src \in Seq(RexChars), NEW S, NEW at, Automaton(S, P, at),
         NEW s, Addable(S, s), NEW j \in 0 .. Len(src)
  PROVE  LET x == S[s + 1]  from == Language(P, src) IN
         /\ x.c = Split => /\ Listed(S, x.out) /\ Addable(S, x.out1)
                           /\ j \in from[at[s]] <=> Accepts(S, P, src, at, x.out, j) \/ j \in from[at[x.out1]]
         /\ x.c # Split => /\ Listed(S, s)
                           /\ j \in from[at[s]] <=> Accepts(S, P, src, at, s, j)
<1> DEFINE x == S[s + 1]
           from == Language(P, src)
<1>1. /\ S \in Seq(RexStates) /\ Len(S) \in Nat /\ Len(P) \in Nat /\ Len(src) \in Nat
      /\ s \in 0 .. Len(S) - 1 /\ ~StarChar(S, s)
  BY DEF Automaton, Addable
<1>2. from[Len(P)] = {Len(src)}
  <2>1. Len(P) \in 0 .. Len(P)
    BY <1>1
  <2>2. Language(P, src)[Len(P)] = WordsFrom(P, src, Language(P, src), Len(P))
    BY <1>1, <2>1, LanguageIs
  <2>. QED
    BY <2>2 DEF WordsFrom
<1>3. CASE x.c = Final
  BY <1>1, <1>2, <1>3, AutomatonStates DEF Accepts, Listed, Final, Split
<1>4. CASE x.c = Split
  <2>1. /\ s \in 0 .. Len(S) - 2 /\ Atom(S, P, at, s) /\ at[s] \in 0 .. Len(P) - 1
    BY <1>1, <1>4, AutomatonStates DEF Final, Split
  <2>2. StarAt(P, at[s]) /\ x.out = s + 1 /\ s + 2 <= Len(S) /\ at[s + 2] = at[s] + 2
    BY <1>1, <1>4, <2>1 DEF Atom
  <2>3. x.out1 = s + 2 /\ s + 2 < Len(S)
    BY <1>1, <1>4, <2>1 DEF Automaton, LinkOf, Behind
  <2>4. s + 1 \in 0 .. Len(S) - 1 /\ s + 2 \in 0 .. Len(S) - 1 /\ (s + 1) + 1 = s + 2
    BY <1>1, <2>3
  <2>5. StarChar(S, s + 1)
    BY <1>1, <1>4 DEF StarChar
  <2>6. S[s + 2].c # Split /\ S[s + 2].c # Final /\ Atom(S, P, at, s + 1)
    BY <2>4, <2>5, AutomatonStates, RexAssumption
  <2>7. ~StarChar(S, s + 2)
    BY <2>6 DEF StarChar
  <2>8. S[s + 2].out = s /\ at[s + 1] = at[s]
    BY <1>1, <2>4, <2>5, <2>6 DEF Atom
  <2>9. Accepts(S, P, src, at, s + 1, j) <=> Reads(P, src, at[s], j) /\ j + 1 \in from[at[s]]
    BY <2>4, <2>6, <2>8 DEF Accepts
  <2>10. j \in from[at[s]] <=> j \in from[at[s] + 2] \/ (Reads(P, src, at[s], j) /\ j + 1 \in from[at[s]])
    BY <1>1, <2>1, <2>2, LanguageSteps
  <2>. QED
    BY <1>4, <2>2, <2>3, <2>4, <2>6, <2>7, <2>9, <2>10 DEF Listed, Addable
<1>5. CASE x.c # Split /\ x.c # Final
  <2>1. /\ s \in 0 .. Len(S) - 2 /\ Atom(S, P, at, s) /\ at[s] \in 0 .. Len(P) - 1
    BY <1>1, <1>5, AutomatonStates
  <2>2. ~StarAt(P, at[s]) /\ at[s + 1] = at[s] + 1
    BY <1>1, <1>5, <2>1 DEF Atom
  <2>3. x.out = s + 1
    BY <1>1, <1>5, <2>1 DEF Automaton, LinkOf, Behind
  <2>4. Accepts(S, P, src, at, s, j) <=> Reads(P, src, at[s], j) /\ j + 1 \in from[at[s] + 1]
    BY <1>5, <2>2, <2>3 DEF Accepts
  <2>5. j \in from[at[s]] <=> Reads(P, src, at[s], j) /\ j + 1 \in from[at[s] + 1]
    BY <1>1, <2>1, <2>2, LanguageSteps
  <2>. QED
    BY <1>1, <1>5, <2>4, <2>5 DEF Listed
<1>. QED
  BY <1>3, <1>4, <1>5

\* A listed state reads the next character or does not accept.
LEMMA ListedReads ==
  ASSUME NEW P \in Seq(RexChars), NEW src \in Seq(RexChars), NEW S, NEW at, Automaton(S, P, at),
         NEW s, Listed(S, s), NEW j \in 0 .. Len(src) - 1
  PROVE  LET x == S[s + 1] IN
         IF x.c \in {src[j + 1], "."}
         THEN /\ Addable(S, x.out)
              /\ Accepts(S, P, src, at, s, j) <=> j + 1 \in Language(P, src)[at[x.out]]
         ELSE ~Accepts(S, P, src, at, s, j)
<1> DEFINE x == S[s + 1]
<1>1. /\ S \in Seq(RexStates) /\ Len(S) \in Nat /\ Len(P) \in Nat /\ Len(src) \in Nat
      /\ s \in 0 .. Len(S) - 1 /\ x.c # Split
  BY DEF Automaton, Listed
<1>2. src[j + 1] # Final /\ "." # Final
  <2>1. src[j + 1] \in RexChars
    BY <1>1
  <2>. QED
    BY <2>1, RexAssumption DEF Final
<1>3. CASE x.c = Final
  BY <1>1, <1>2, <1>3 DEF Accepts
<1>4. CASE x.c # Final
  <2>1. s \in 0 .. Len(S) - 2 /\ Atom(S, P, at, s)
    BY <1>1, <1>4, AutomatonStates
  <2>2. x.c = P[at[s] + 1]
    BY <1>1, <2>1 DEF Atom
  <2>3. Reads(P, src, at[s], j) <=> x.c \in {src[j + 1], "."}
    BY <1>1, <2>2 DEF Reads
  <2>4. Addable(S, x.out)
    <3>1. CASE StarChar(S, s)
      <4>1. s > 0 /\ S[s].c = Split /\ s - 1 \in 0 .. Len(S) - 1 /\ (s - 1) + 1 = s
        BY <1>1, <3>1 DEF StarChar
      <4>2. x.out = s - 1
        BY <2>1, <3>1 DEF Atom
      <4>3. ~StarChar(S, s - 1)
        BY <4>1, AutomatonStates
      <4>. QED
        BY <4>1, <4>2, <4>3 DEF Addable
    <3>2. CASE ~StarChar(S, s)
      <4>1. x.out = s + 1
        BY <1>1, <2>1, <3>2 DEF Automaton, LinkOf, Behind
      <4>2. ~StarChar(S, s + 1)
        BY <1>1 DEF StarChar
      <4>. QED
        BY <1>1, <2>1, <4>1, <4>2 DEF Addable
    <3>. QED
      BY <3>1, <3>2
  <2>. QED
    BY <1>4, <2>3, <2>4 DEF Accepts
<1>. QED
  BY <1>3, <1>4

\* The marks of states are no part of the automaton.
SameLinks(S, T) ==
  /\ T \in Seq(RexStates) /\ Len(T) = Len(S)
  /\ \A k \in 1 .. Len(S) : T[k].c = S[k].c /\ T[k].out = S[k].out /\ T[k].out1 = S[k].out1

LEMMA SameAutomaton ==
  ASSUME NEW P, NEW S, NEW at, Automaton(S, P, at), NEW T, SameLinks(S, T)
  PROVE  /\ Automaton(T, P, at)
         /\ \A s : Listed(S, s) => Listed(T, s)
         /\ \A s : Addable(S, s) => Addable(T, s)
         /\ \A s \in 0 .. Len(S) - 1 : \A src, j : Accepts(T, P, src, at, s, j) = Accepts(S, P, src, at, s, j)
<1>1. S \in Seq(RexStates) /\ Len(S) \in Nat /\ Len(S) > 0 /\ T \in Seq(RexStates) /\ Len(T) = Len(S)
  BY DEF Automaton, SameLinks
<1>2. ASSUME NEW s \in 0 .. Len(S) - 1
      PROVE  /\ T[s + 1].c = S[s + 1].c /\ T[s + 1].out = S[s + 1].out /\ T[s + 1].out1 = S[s + 1].out1
             /\ StarChar(T, s) = StarChar(S, s)
             /\ LinkOf(T, s) = LinkOf(S, s) /\ Behind(T, s) = Behind(S, s)
  <2>1. s + 1 \in 1 .. Len(S) /\ (s > 0 => s \in 1 .. Len(S))
    BY <1>1
  <2>. QED
    BY <2>1 DEF SameLinks, StarChar, LinkOf, Behind
<1>3. ASSUME NEW s \in 0 .. Len(S) - 1, Atom(S, P, at, s) PROVE Atom(T, P, at, s)
  BY <1>1, <1>2, <1>3 DEF Atom
<1>4. Automaton(T, P, at)
  <2>1. \A s \in 0 .. Len(S) - 2 : s \in 0 .. Len(S) - 1
    BY <1>1
  <2>2. Len(S) - 1 \in 0 .. Len(S) - 1 /\ (Len(S) - 1) + 1 = Len(S)
    BY <1>1
  <2>3. T[Len(T)].c = Final /\ ~StarChar(T, Len(T) - 1)
    BY <1>1, <1>2, <2>2 DEF Automaton
  <2>. QED
    BY <1>1, <1>2, <1>3, <2>1, <2>3 DEF Automaton
<1>5. \A s : Listed(S, s) => Listed(T, s)
  BY <1>1, <1>2 DEF Listed
<1>6. \A s : Addable(S, s) => Addable(T, s)
  BY <1>1, <1>2 DEF Addable
<1>7. \A s \in 0 .. Len(S) - 1 : \A src, j : Accepts(T, P, src, at, s, j) = Accepts(S, P, src, at, s, j)
  BY <1>2 DEF Accepts
<1>. QED
  BY <1>4, <1>5, <1>6, <1>7

-------------------------------------------------------------------------------
(* The run, of its locals r.                                                *)

RexLocals ==
  [pc : {"compile", "add", "char", "state", "unmark", "done"}, i : Nat, states : Seq(RexStates),
   last : Int, lists : [{0, 1} -> Seq(Nat)], clist : {0, 1}, pos : Nat, n : Nat, add : Int,
   to : {0, 1}, matched : BOOLEAN]

\* Before the first character the states are added to the current list, then to the other.
RexShape(src, r) ==
  /\ r.add # -1 => r.pc = "add" /\ Addable(r.states, r.add)
  /\ \A l \in {0, 1} : \A k \in 1 .. Len(r.lists[l]) : Listed(r.states, r.lists[l][k])
  /\ IF r.n = 0
     THEN /\ r.pc \in {"add", "char"} /\ r.to = r.clist /\ r.pos <= Len(src)
          /\ r.lists[1 - r.clist] = <<>>
     ELSE /\ r.pc \in {"add", "state", "unmark"} /\ r.to = 1 - r.clist /\ r.pos < Len(src)
          /\ r.pc # "state" => r.n <= Len(r.lists[r.clist])

\* A mark says where the state is, if it is not one of the current list that is done.
MarksIn(S, lists, clist, n) ==
  \A s \in 0 .. Len(S) - 1 : \A l \in {0, 1} :
    S[s + 1].last_list = l => \E k \in 1 .. Len(lists[l]) : lists[l][k] = s /\ (l = clist => k >= n)

RexMarks(r) == MarksIn(r.states, r.lists, r.clist, r.n)

\* A state of the list, from place k on, accepts what is left of src behind j.
AcceptedIn(P, src, at, S, list, k, j) ==
  \E m \in 1 .. Len(list) : m >= k /\ Accepts(S, P, src, at, list[m], j)

\* Where the states of list to are in src, and the first place of the current one that is left.
Reached(r) == IF r.n = 0 THEN r.pos ELSE r.pos + 1
Left(r)    == IF r.pc = "state" THEN r.n ELSE r.n + 1

\* The pattern accepts src exactly if a state does that is still to be run.
RexWords(P, src, at, r) ==
  0 \in Language(P, src)[0] <=>
    \/ r.add # -1 /\ Reached(r) \in Language(P, src)[at[r.add]]
    \/ AcceptedIn(P, src, at, r.states, r.lists[r.clist], Left(r), r.pos)
    \/ AcceptedIn(P, src, at, r.states, r.lists[r.to], 1, Reached(r))

Running(P, src, at, r) ==
  /\ r \in RexLocals /\ Automaton(r.states, P, at)
  /\ RexShape(src, r) /\ RexMarks(r) /\ RexWords(P, src, at, r)

\* The first state is added.
LEMMA RexStarts ==
  ASSUME NEW P \in Seq(RexChars), NEW src \in Seq(RexChars), NEW at, NEW r \in RexLocals,
         Automaton(r.states, P, at), r.pc = "add", r.add = 0, r.n = 0, r.pos = 0, r.clist = 0, r.to = 0,
         r.lists = [l \in {0, 1} |-> <<>>], \A s \in 0 .. Len(r.states) - 1 : r.states[s + 1].last_list = -1
  PROVE  Running(P, src, at, r)
<1>1. Len(src) \in Nat /\ Len(r.states) \in Nat /\ Len(r.states) > 0 /\ at[0] = 0
  BY DEF Automaton
<1>2. r.lists[0] = <<>> /\ r.lists[1] = <<>> /\ r.lists[1 - r.clist] = <<>>
  OBVIOUS
<1>3. RexShape(src, r)
  BY <1>1, <1>2 DEF RexShape, Addable, StarChar
<1>4. RexMarks(r)
  BY DEF RexMarks, MarksIn
<1>5. RexWords(P, src, at, r)
  BY <1>1, <1>2 DEF RexWords, AcceptedIn, Reached
<1>. QED
  BY <1>3, <1>4, <1>5 DEF Running

\* Setting a mark, and adding a state to a list in which it may be.
Marked(S, s, m, T) ==
  /\ SameLinks(S, T) /\ Len(T) = Len(S)
  /\ \A x \in 0 .. Len(S) - 1 : T[x + 1].last_list = IF x = s THEN m ELSE S[x + 1].last_list

LEMMA MarkIs ==
  ASSUME NEW S \in Seq(RexStates), NEW s \in 0 .. Len(S) - 1, NEW m \in {-1, 0, 1},
         NEW T, T = [S EXCEPT ![s + 1].last_list = m]
  PROVE  Marked(S, s, m, T)
<1>1. Len(S) \in Nat /\ s + 1 \in 1 .. Len(S) /\ DOMAIN S = 1 .. Len(S)
  OBVIOUS
<1> DEFINE y == [S[s + 1] EXCEPT !.last_list = m]
<1>2. S[s + 1] \in RexStates
  BY <1>1
<1>3. /\ y \in RexStates /\ y.c = S[s + 1].c /\ y.out = S[s + 1].out /\ y.out1 = S[s + 1].out1
      /\ y.last_list = m
  BY <1>2 DEF RexStates
<1>4. T = [S EXCEPT ![s + 1] = y]
  OBVIOUS
<1> HIDE DEF y
<1>5. T \in Seq(RexStates) /\ Len(T) = Len(S) /\ \A k \in 1 .. Len(S) : T[k] = IF k = s + 1 THEN y ELSE S[k]
  BY <1>1, <1>3, <1>4
<1>6. SameLinks(S, T)
  BY <1>3, <1>5 DEF SameLinks
<1>7. ASSUME NEW x \in 0 .. Len(S) - 1
      PROVE  T[x + 1].last_list = IF x = s THEN m ELSE S[x + 1].last_list
  <2>1. x + 1 \in 1 .. Len(S) /\ (x + 1 = s + 1 <=> x = s)
    BY <1>1
  <2>. QED
    BY <1>3, <1>5, <2>1
<1>. QED
  BY <1>5, <1>6, <1>7 DEF Marked

AddedIn(old, s, new) ==
  /\ new \in Seq(Nat)
  /\ \A k \in 1 .. Len(old) : k \in 1 .. Len(new) /\ new[k] = old[k]
  /\ \E k \in 1 .. Len(new) : new[k] = s
  /\ \A k \in 1 .. Len(new) : new[k] = s \/ (k \in 1 .. Len(old) /\ new[k] = old[k])

LEMMA AddedTo ==
  ASSUME NEW old \in Seq(Nat), NEW s \in Nat, NEW in, in => \E k \in 1 .. Len(old) : old[k] = s,
         NEW new, new = IF ~in THEN Append(old, s) ELSE old
  PROVE  AddedIn(old, s, new)
<1>1. CASE ~in
  <2>1. new = Append(old, s)
    BY <1>1
  <2>2. /\ new \in Seq(Nat) /\ Len(new) = Len(old) + 1 /\ Len(old) \in Nat /\ new[Len(old) + 1] = s
        /\ \A k \in 1 .. Len(old) : new[k] = old[k]
    BY <2>1
  <2>. QED
    BY <2>2 DEF AddedIn
<1>2. CASE in
  <2>1. new = old
    BY <1>2
  <2>. QED
    BY <1>2, <2>1 DEF AddedIn
<1>. QED
  BY <1>1, <1>2

\* A state is included in list to, in which it may be.
LEMMA RexIncludes ==
  ASSUME NEW P \in Seq(RexChars), NEW src \in Seq(RexChars), NEW at, NEW r, Running(P, src, at, r),
         r.pc = "add", r.add # -1, NEW s, Listed(r.states, s),
         NEW next \in Int, next = -1 \/ Addable(r.states, next),
         Reached(r) \in Language(P, src)[at[r.add]] <=>
           \/ Accepts(r.states, P, src, at, s, Reached(r))
           \/ next # -1 /\ Reached(r) \in Language(P, src)[at[next]],
         NEW q,
         q = [r EXCEPT !.lists[r.to] = IF r.states[s + 1].last_list # r.to THEN Append(@, s) ELSE @,
                       !.states[s + 1].last_list = r.to, !.add = next]
  PROVE  Running(P, src, at, q)
<1> DEFINE S == r.states
           old == r.lists[r.to]
           in == S[s + 1].last_list = r.to
           L == Language(P, src)
           j == Reached(r)
<1>a. PICK T : T = [S EXCEPT ![s + 1].last_list = r.to]
  OBVIOUS
<1>b. PICK new : new = IF ~in THEN Append(old, s) ELSE old
  OBVIOUS
<1>c. PICK lists : lists = [r.lists EXCEPT ![r.to] = new]
  OBVIOUS
<1>1. /\ r \in RexLocals /\ Automaton(S, P, at) /\ RexShape(src, r) /\ RexMarks(r)
      /\ RexWords(P, src, at, r)
  BY DEF Running
<1>2. /\ S \in Seq(RexStates) /\ r.to \in {0, 1} /\ r.clist \in {0, 1}
      /\ r.lists \in [{0, 1} -> Seq(Nat)] /\ r.n \in Nat /\ r.pos \in Nat
  BY <1>1 DEF RexLocals
<1>3. s \in 0 .. Len(S) - 1 /\ s \in Nat /\ Len(S) \in Nat
  BY <1>2 DEF Listed
<1>4. old \in Seq(Nat) /\ Len(old) \in Nat
  BY <1>2
<1>5. in => \E k \in 1 .. Len(old) : old[k] = s
  BY <1>1, <1>2, <1>3 DEF RexMarks, MarksIn
<1>6. q = [r EXCEPT !.lists = lists, !.states = T, !.add = next]
  BY <1>a, <1>b, <1>c
<1>m. Marked(S, s, r.to, T)
  <2>1. r.to \in {-1, 0, 1}
    BY <1>2
  <2> HIDE DEF S
  <2>. QED
    BY <1>2, <1>3, <1>a, <2>1, MarkIs
<1>9. /\ SameLinks(S, T) /\ Len(T) = Len(S)
      /\ \A x \in 0 .. Len(S) - 1 : T[x + 1].last_list = IF x = s THEN r.to ELSE S[x + 1].last_list
  BY <1>m DEF Marked
<1>n. AddedIn(old, s, new)
  <2> HIDE DEF old, in
  <2>. QED
    BY <1>3, <1>4, <1>5, <1>b, AddedTo
<1>12. /\ new \in Seq(Nat)
       /\ \A k \in 1 .. Len(old) : k \in 1 .. Len(new) /\ new[k] = old[k]
       /\ \E k \in 1 .. Len(new) : new[k] = s
       /\ \A k \in 1 .. Len(new) : new[k] = s \/ (k \in 1 .. Len(old) /\ new[k] = old[k])
  BY <1>n DEF AddedIn
<1>7. /\ lists \in [{0, 1} -> Seq(Nat)] /\ lists[r.to] = new
      /\ \A l \in {0, 1} : l # r.to => lists[l] = r.lists[l]
  <2>. QED
    BY <1>2, <1>12, <1>c
<1>13. \A l \in {0, 1} : \A k \in 1 .. Len(r.lists[l]) : k \in 1 .. Len(lists[l]) /\ lists[l][k] = r.lists[l][k]
  <2>. QED
    BY <1>7, <1>12
<1>14. \A l \in {0, 1} : \A k \in 1 .. Len(lists[l]) :
          lists[l][k] = s \/ (k \in 1 .. Len(r.lists[l]) /\ lists[l][k] = r.lists[l][k])
  <2>. QED
    BY <1>7, <1>12
<1>10. \E k \in 1 .. Len(lists[r.to]) : lists[r.to][k] = s /\ (r.to = r.clist => k >= r.n)
  <2>1. PICK k \in 1 .. Len(new) : new[k] = s
    BY <1>12
  <2>2. r.to = r.clist => r.n = 0
    BY <1>1, <1>2 DEF RexShape
  <2>. QED
    BY <1>7, <1>12, <2>1, <2>2
<1> HIDE DEF in, old
<1>8. /\ q \in RexLocals /\ q.pc = "add" /\ q.states = T /\ q.lists = lists /\ q.add = next
      /\ q.clist = r.clist /\ q.to = r.to /\ q.n = r.n /\ q.pos = r.pos
  <2>1. T \in Seq(RexStates)
    BY <1>9 DEF SameLinks
  <2>. QED
    BY <1>1, <1>6, <1>7, <2>1, ZenonT(30) DEF RexLocals
<1>11. /\ Automaton(T, P, at)
       /\ \A x : Listed(S, x) => Listed(T, x)
       /\ \A x : Addable(S, x) => Addable(T, x)
       /\ \A x \in 0 .. Len(S) - 1 : \A m : Accepts(T, P, src, at, x, m) = Accepts(S, P, src, at, x, m)
  <2> HIDE DEF S
  <2>. QED
    BY <1>1, <1>9, SameAutomaton, SMTT(30)
<1>15. RexShape(src, q)
  <2>1. \A l \in {0, 1} : \A k \in 1 .. Len(r.lists[l]) : Listed(S, r.lists[l][k])
    BY <1>1 DEF RexShape
  <2>2. \A l \in {0, 1} : \A k \in 1 .. Len(lists[l]) : Listed(T, lists[l][k])
    BY <1>11, <1>14, <2>1
  <2>3. r.n = 0 => lists[1 - r.clist] = <<>>
    BY <1>1, <1>2, <1>7 DEF RexShape
  <2>4. r.n # 0 => lists[r.clist] = r.lists[r.clist]
    BY <1>1, <1>2, <1>7 DEF RexShape
  <2>. QED
    BY <1>1, <1>8, <1>11, <2>2, <2>3, <2>4 DEF RexShape
<1>16. RexMarks(q)
  <2>1. ASSUME NEW x \in 0 .. Len(S) - 1, NEW l \in {0, 1}, T[x + 1].last_list = l
        PROVE  \E k \in 1 .. Len(lists[l]) : lists[l][k] = x /\ (l = r.clist => k >= r.n)
    <3>1. CASE x = s
      BY <1>9, <1>10, <2>1, <3>1
    <3>2. CASE x # s
      <4>1. S[x + 1].last_list = l
        BY <1>9, <2>1, <3>2
      <4>4. PICK k \in 1 .. Len(r.lists[l]) : r.lists[l][k] = x /\ (l = r.clist => k >= r.n)
        BY <1>1, <2>1, <4>1 DEF RexMarks, MarksIn
      <4>. QED
        BY <1>13, <2>1, <4>4
    <3>. QED
      BY <3>1, <3>2
  <2>2. MarksIn(T, lists, r.clist, r.n)
    BY <1>9, <2>1 DEF MarksIn
  <2>. QED
    BY <1>8, <2>2 DEF RexMarks
<1>17. RexWords(P, src, at, q)
  <2>1. \A l \in {0, 1} : \A k \in 1 .. Len(r.lists[l]) : r.lists[l][k] \in 0 .. Len(S) - 1
    BY <1>1 DEF RexShape, Listed
  <2>2. AcceptedIn(P, src, at, T, lists[r.to], 1, j) <=>
          AcceptedIn(P, src, at, S, r.lists[r.to], 1, j) \/ Accepts(S, P, src, at, s, j)
    <3>1. ASSUME AcceptedIn(P, src, at, T, lists[r.to], 1, j)
          PROVE  AcceptedIn(P, src, at, S, r.lists[r.to], 1, j) \/ Accepts(S, P, src, at, s, j)
      <4>1. PICK m \in 1 .. Len(lists[r.to]) : Accepts(T, P, src, at, lists[r.to][m], j)
        BY <3>1 DEF AcceptedIn
      <4>2. CASE lists[r.to][m] = s
        BY <1>3, <1>11, <4>1, <4>2
      <4>3. CASE m \in 1 .. Len(r.lists[r.to]) /\ lists[r.to][m] = r.lists[r.to][m]
        <5>1. r.lists[r.to][m] \in 0 .. Len(S) - 1
          BY <1>2, <2>1, <4>3
        <5>2. Accepts(S, P, src, at, r.lists[r.to][m], j)
          BY <1>11, <4>1, <4>3, <5>1
        <5>. QED
          BY <4>3, <5>2 DEF AcceptedIn
      <4>. QED
        BY <1>2, <1>14, <4>1, <4>2, <4>3
    <3>2. ASSUME AcceptedIn(P, src, at, S, r.lists[r.to], 1, j)
          PROVE  AcceptedIn(P, src, at, T, lists[r.to], 1, j)
      <4>1. PICK m \in 1 .. Len(r.lists[r.to]) : Accepts(S, P, src, at, r.lists[r.to][m], j)
        BY <3>2 DEF AcceptedIn
      <4>2. Accepts(T, P, src, at, r.lists[r.to][m], j)
        BY <1>2, <1>11, <2>1, <4>1
      <4>3. m \in 1 .. Len(lists[r.to]) /\ lists[r.to][m] = r.lists[r.to][m]
        BY <1>2, <1>13, <4>1
      <4>. QED
        BY <4>2, <4>3 DEF AcceptedIn
    <3>3. ASSUME Accepts(S, P, src, at, s, j)
          PROVE  AcceptedIn(P, src, at, T, lists[r.to], 1, j)
      <4>1. PICK m \in 1 .. Len(new) : new[m] = s
        BY <1>12
      <4>2. Accepts(T, P, src, at, s, j)
        BY <1>3, <1>11, <3>3
      <4>. QED
        BY <1>7, <4>1, <4>2 DEF AcceptedIn
    <3>. QED
      BY <3>1, <3>2, <3>3
  <2>3. r.n # 0 => (AcceptedIn(P, src, at, T, lists[r.clist], Left(q), r.pos) <=>
                    AcceptedIn(P, src, at, S, r.lists[r.clist], Left(r), r.pos))
    <3>. SUFFICES ASSUME r.n # 0
                  PROVE  AcceptedIn(P, src, at, T, lists[r.clist], Left(q), r.pos) <=>
                         AcceptedIn(P, src, at, S, r.lists[r.clist], Left(r), r.pos)
      OBVIOUS
    <3>1. lists[r.clist] = r.lists[r.clist] /\ Left(q) = Left(r)
      BY <1>1, <1>2, <1>7, <1>8 DEF RexShape, Left
    <3>2. \A m \in 1 .. Len(r.lists[r.clist]) :
            Accepts(T, P, src, at, r.lists[r.clist][m], r.pos) = Accepts(S, P, src, at, r.lists[r.clist][m], r.pos)
      BY <1>2, <1>11, <2>1
    <3>. QED
      BY <3>1, <3>2 DEF AcceptedIn
  <2>4. r.n = 0 => /\ r.to = r.clist /\ Left(q) = 1 /\ Left(r) = 1 /\ r.pos = j
    BY <1>1, <1>8 DEF RexShape, Left, Reached
  <2>5. Reached(q) = j
    BY <1>8 DEF Reached
  <2>6. 0 \in L[0] <=>
          \/ j \in L[at[r.add]]
          \/ AcceptedIn(P, src, at, S, r.lists[r.clist], Left(r), r.pos)
          \/ AcceptedIn(P, src, at, S, r.lists[r.to], 1, j)
    BY <1>1 DEF RexWords
  <2>7. j \in L[at[r.add]] <=> Accepts(S, P, src, at, s, j) \/ (next # -1 /\ j \in L[at[next]])
    OBVIOUS
  <2>8. RexWords(P, src, at, q) <=>
          (0 \in L[0] <=> \/ next # -1 /\ j \in L[at[next]]
                          \/ AcceptedIn(P, src, at, T, lists[r.clist], Left(q), r.pos)
                          \/ AcceptedIn(P, src, at, T, lists[r.to], 1, j))
    BY <1>8, <2>5 DEF RexWords
  <2> HIDE DEF L, j
  <2>. QED
    BY <2>2, <2>3, <2>4, <2>6, <2>7, <2>8
<1>. QED
  BY <1>8, <1>11, <1>15, <1>16, <1>17 DEF Running

\* When all are added, the next state is due, or the first character.
LEMMA RexAdded ==
  ASSUME NEW P, NEW src \in Seq(RexChars), NEW at, NEW r, Running(P, src, at, r),
         r.pc = "add", r.add = -1, NEW q, q = [r EXCEPT !.pc = IF r.n = 0 THEN "char" ELSE "unmark"]
  PROVE  Running(P, src, at, q)
<1>1. /\ r \in RexLocals /\ Automaton(r.states, P, at) /\ RexShape(src, r) /\ RexMarks(r)
      /\ RexWords(P, src, at, r)
  BY DEF Running
<1>2. /\ q \in RexLocals /\ q.pc = (IF r.n = 0 THEN "char" ELSE "unmark") /\ q.states = r.states
      /\ q.lists = r.lists /\ q.clist = r.clist /\ q.pos = r.pos /\ q.n = r.n /\ q.add = -1 /\ q.to = r.to
  BY <1>1 DEF RexLocals
<1>3. RexShape(src, q)
  BY <1>1, <1>2 DEF RexShape
<1>4. RexMarks(q)
  BY <1>1, <1>2 DEF RexMarks, MarksIn
<1>5. Left(q) = Left(r) /\ Reached(q) = Reached(r)
  BY <1>2 DEF Left, Reached
<1>6. RexWords(P, src, at, q)
  BY <1>1, <1>2, <1>5 DEF RexWords
<1>. QED
  BY <1>1, <1>2, <1>3, <1>4, <1>6 DEF Running

LEMMA RexNextChar ==
  ASSUME NEW P, NEW src \in Seq(RexChars), NEW at, NEW r, Running(P, src, at, r),
         r.pc = "char", r.pos < Len(src), NEW q, q = [r EXCEPT !.n = 1, !.to = 1 - r.clist, !.pc = "state"]
  PROVE  Running(P, src, at, q)
<1>1. /\ r \in RexLocals /\ Automaton(r.states, P, at) /\ RexShape(src, r) /\ RexMarks(r)
      /\ RexWords(P, src, at, r)
  BY DEF Running
<1>2. /\ r.n = 0 /\ r.add = -1 /\ r.to = r.clist /\ r.lists[1 - r.clist] = <<>>
  BY <1>1 DEF RexShape
<1>3. /\ q \in RexLocals /\ q.pc = "state" /\ q.states = r.states
      /\ q.lists = r.lists /\ q.clist = r.clist /\ q.pos = r.pos /\ q.n = 1 /\ q.add = -1
      /\ q.to = 1 - r.clist
  <2>1. 1 - r.clist \in {0, 1}
    BY <1>1 DEF RexLocals
  <2>. QED
    BY <1>1, <1>2, <2>1, ZenonT(30) DEF RexLocals
<1>4. RexShape(src, q)
  BY <1>1, <1>3 DEF RexShape
<1>5. RexMarks(q)
  BY <1>1, <1>3, SMTT(30) DEF RexMarks, MarksIn
<1>6. Left(q) = 1 /\ Left(r) = 1 /\ Reached(r) = r.pos
  BY <1>2, <1>3 DEF Left, Reached
<1>7. ~AcceptedIn(P, src, at, r.states, r.lists[q.to], 1, Reached(q))
  BY <1>2, <1>3 DEF AcceptedIn
<1>8. RexWords(P, src, at, q)
  BY <1>1, <1>2, <1>3, <1>6, <1>7 DEF RexWords
<1>. QED
  BY <1>1, <1>3, <1>4, <1>5, <1>8 DEF Running

LEMMA AddableIs ==
  ASSUME NEW S, Len(S) \in Nat, NEW s, Addable(S, s)
  PROVE  s # -1
BY SMTT(30) DEF Addable

SameRun(q, r) ==
  q.states = r.states /\ q.lists = r.lists /\ q.clist = r.clist /\ q.pos = r.pos /\ q.to = r.to

\* The state that is due reads the character, or accepts nothing more.
LEMMA RexReads ==
  ASSUME NEW P \in Seq(RexChars), NEW src \in Seq(RexChars), NEW at, NEW r, Running(P, src, at, r),
         r.pc = "state", r.n <= Len(r.lists[r.clist]), NEW x, x = r.states[r.lists[r.clist][r.n] + 1],
         NEW q \in RexLocals, SameRun(q, r), q.n = r.n,
         IF x.c \in {src[r.pos + 1], "."} THEN q.pc = "add" /\ q.add = x.out
         ELSE q.pc = "unmark" /\ q.add = r.add
  PROVE  Running(P, src, at, q)
<1> DEFINE S == r.states
           cur == r.lists[r.clist]
           s == cur[r.n]
           L == Language(P, src)
           reads == x.c \in {src[r.pos + 1], "."}
<1>1. /\ r \in RexLocals /\ Automaton(S, P, at) /\ RexShape(src, r) /\ RexMarks(r)
      /\ RexWords(P, src, at, r)
  BY DEF Running
<1>2. /\ r.n # 0 /\ r.n \in Nat /\ r.pos \in Nat /\ r.add = -1 /\ r.to = 1 - r.clist /\ r.pos < Len(src)
      /\ r.clist \in {0, 1} /\ cur \in Seq(Nat) /\ Len(cur) \in Nat /\ S \in Seq(RexStates)
  BY <1>1, SMTT(30) DEF RexShape, RexLocals
<1>3. r.n \in 1 .. Len(cur) /\ r.pos \in 0 .. Len(src) - 1
  BY <1>2
<1>4. Listed(S, s)
  BY <1>1, <1>2, <1>3 DEF RexShape
<1>5. /\ reads => /\ Addable(S, x.out)
                  /\ Accepts(S, P, src, at, s, r.pos) <=> r.pos + 1 \in L[at[x.out]]
      /\ ~reads => ~Accepts(S, P, src, at, s, r.pos)
  <2>1. x = S[s + 1]
    OBVIOUS
  <2> HIDE DEF s, S
  <2>. QED
    BY <1>1, <1>3, <1>4, <2>1, ListedReads, SMTT(30)
<1>6. x.out \in Int /\ (reads => x.out # -1)
  <2>1. s \in 0 .. Len(S) - 1 /\ Len(S) \in Nat
    BY <1>2, <1>4 DEF Listed
  <2>0. x = S[s + 1] /\ S \in Seq(RexStates)
    BY <1>2
  <2> HIDE DEF S, s, cur
  <2>2. S[s + 1] \in RexStates
    BY <2>0, <2>1
  <2>3. x.out \in Int
    BY <2>0, <2>2, SMTT(30) DEF RexStates
  <2>4. Addable(S, x.out) => x.out # -1
    BY <2>1, AddableIs, ZenonT(30)
  <2>. QED
    BY <1>5, <2>3, <2>4, ZenonT(30)
<1>7. /\ q.states = S /\ q.lists = r.lists /\ q.clist = r.clist /\ q.pos = r.pos
      /\ q.n = r.n /\ q.to = r.to /\ q.pc # "state" /\ q.pc \in {"add", "unmark"}
      /\ reads => q.pc = "add" /\ q.add = x.out
      /\ ~reads => q.add = -1
  BY <1>2, ZenonT(30) DEF SameRun
<1> HIDE DEF S, cur, reads
<1>8. RexShape(src, q)
  BY <1>1, <1>2, <1>3, <1>5, <1>7, ZenonT(30) DEF RexShape, S, cur
<1>9. RexMarks(q)
  BY <1>1, <1>7 DEF RexMarks, S
<1>10. Left(q) = r.n + 1 /\ Left(r) = r.n /\ Reached(q) = Reached(r) /\ Reached(r) = r.pos + 1
  <2>1. q.n = r.n /\ q.pos = r.pos /\ q.pc # "state" /\ r.n # 0
    BY <1>2, <1>7
  <2>. QED
    BY <1>2, <2>1 DEF Left, Reached
<1>11. AcceptedIn(P, src, at, S, cur, r.n, r.pos) <=>
         Accepts(S, P, src, at, s, r.pos) \/ AcceptedIn(P, src, at, S, cur, r.n + 1, r.pos)
  <2>1. \A m \in 1 .. Len(cur) : m >= r.n <=> m = r.n \/ m >= r.n + 1
    BY <1>2, SMTT(30)
  <2>. QED
    BY <1>3, <2>1 DEF AcceptedIn
<1>12. RexWords(P, src, at, q)
  <2>1. 0 \in L[0] <=> \/ AcceptedIn(P, src, at, S, cur, r.n, r.pos)
                       \/ AcceptedIn(P, src, at, S, r.lists[r.to], 1, r.pos + 1)
    BY <1>1, <1>2, <1>10 DEF RexWords, S, cur
  <2>2. RexWords(P, src, at, q) <=>
          (0 \in L[0] <=> \/ q.add # -1 /\ r.pos + 1 \in L[at[q.add]]
                          \/ AcceptedIn(P, src, at, S, cur, r.n + 1, r.pos)
                          \/ AcceptedIn(P, src, at, S, r.lists[r.to], 1, r.pos + 1))
    BY <1>7, <1>10 DEF RexWords, cur
  <2> HIDE DEF L, s
  <2>. QED
    BY <1>5, <1>6, <1>7, <1>11, <2>1, <2>2, ZenonT(30)
<1>. QED
  BY <1>1, <1>7, <1>8, <1>9, <1>12 DEF Running

Unmarks(r, s, mark, q) ==
  /\ r.pc = "unmark" /\ s = r.lists[r.clist][r.n]
  /\ mark \in {-1, r.to} /\ (r.states[s + 1].last_list # r.to => mark = -1)
  /\ q \in RexLocals /\ Marked(r.states, s, mark, q.states) /\ q.lists = r.lists
  /\ q.clist = r.clist /\ q.pos = r.pos /\ q.to = r.to /\ q.n = r.n + 1 /\ q.pc = "state"
  /\ q.add = r.add

LEMMA RexUnmarks ==
  ASSUME NEW P, NEW src \in Seq(RexChars), NEW at, NEW r, Running(P, src, at, r),
         NEW s, NEW mark, NEW q, Unmarks(r, s, mark, q)
  PROVE  Running(P, src, at, q)
<1> DEFINE S == r.states
           cur == r.lists[r.clist]
           T == q.states
<1>1. /\ r \in RexLocals /\ Automaton(S, P, at) /\ RexShape(src, r) /\ RexMarks(r)
      /\ RexWords(P, src, at, r)
  BY DEF Running
<1>7. /\ r.pc = "unmark" /\ s = cur[r.n] /\ Marked(S, s, mark, T) /\ q \in RexLocals
      /\ q.states = T /\ q.lists = r.lists /\ q.clist = r.clist /\ q.pos = r.pos /\ q.to = r.to
      /\ q.n = r.n + 1 /\ q.pc = "state" /\ q.add = r.add
      /\ mark \in {-1, r.to} /\ (S[s + 1].last_list # r.to => mark = -1)
  BY DEF Unmarks
<1>2. /\ r.n # 0 /\ r.n \in Nat /\ r.pos \in Nat /\ r.add = -1 /\ r.to = 1 - r.clist /\ r.pos < Len(src)
      /\ r.clist \in {0, 1} /\ cur \in Seq(Nat) /\ Len(cur) \in Nat /\ S \in Seq(RexStates)
      /\ r.n <= Len(cur)
  BY <1>1, <1>7, SMTT(30) DEF RexShape, RexLocals
<1>5. /\ SameLinks(S, T) /\ Len(T) = Len(S)
      /\ \A x \in 0 .. Len(S) - 1 : T[x + 1].last_list = IF x = s THEN mark ELSE S[x + 1].last_list
  BY <1>7 DEF Marked
<1> HIDE DEF S, cur, T
<1>6. /\ Automaton(T, P, at)
      /\ \A x : Listed(S, x) => Listed(T, x)
      /\ \A x \in 0 .. Len(S) - 1 : \A w, m : Accepts(T, P, w, at, x, m) = Accepts(S, P, w, at, x, m)
  BY <1>1, <1>5, SameAutomaton
<1>8. RexShape(src, q)
  BY <1>1, <1>2, <1>6, <1>7 DEF RexShape, S
<1>9. RexMarks(q)
  <2>1. ASSUME NEW x \in 0 .. Len(S) - 1, NEW l \in {0, 1}, T[x + 1].last_list = l
        PROVE  \E k \in 1 .. Len(r.lists[l]) : r.lists[l][k] = x /\ (l = r.clist => k >= r.n + 1)
    <3>1. S[x + 1].last_list = l /\ (x = s => l = r.to)
      <4>1. CASE x = s
        <5>1. mark = l
          BY <1>5, <2>1, <4>1
        <5>2. mark # -1
          BY <5>1
        <5>. QED
          BY <1>7, <4>1, <5>1, <5>2
      <4>2. CASE x # s
        BY <1>5, <2>1, <4>2
      <4>. QED
        BY <4>1, <4>2
    <3>2. PICK k \in 1 .. Len(r.lists[l]) : r.lists[l][k] = x /\ (l = r.clist => k >= r.n)
      BY <1>1, <2>1, <3>1 DEF RexMarks, MarksIn, S
    <3>3. l = r.clist => k # r.n
      <4>1. l = r.clist => l # r.to
        BY <1>2
      <4>2. r.lists[r.clist][r.n] = s
        BY <1>7 DEF cur
      <4>. QED
        BY <3>1, <3>2, <4>1, <4>2
    <3>. QED
      BY <1>2, <3>2, <3>3
  <2>2. MarksIn(T, r.lists, r.clist, r.n + 1)
    BY <1>5, <2>1 DEF MarksIn
  <2>. QED
    BY <1>7, <2>2 DEF RexMarks
<1>10. RexWords(P, src, at, q)
  <2>1. \A l \in {0, 1} : \A k \in 1 .. Len(r.lists[l]) : r.lists[l][k] \in 0 .. Len(S) - 1
    BY <1>1 DEF RexShape, Listed, S
  <2>2. \A l \in {0, 1} : \A k, j : AcceptedIn(P, src, at, T, r.lists[l], k, j) = AcceptedIn(P, src, at, S, r.lists[l], k, j)
    BY <1>6, <2>1, ZenonT(30) DEF AcceptedIn
  <2>3. Left(q) = r.n + 1 /\ Left(r) = r.n + 1 /\ Reached(q) = Reached(r)
    <3>1. q.pc = "state" /\ r.pc = "unmark" /\ q.n = r.n + 1 /\ r.n \in Nat /\ r.n # 0 /\ q.n # 0 /\ q.pos = r.pos
      BY <1>2, <1>7
    <3>. QED
      BY <3>1 DEF Left, Reached
  <2>. QED
    BY <1>1, <1>2, <1>7, <2>2, <2>3 DEF RexWords, S
<1>. QED
  BY <1>6, <1>7, <1>8, <1>9, <1>10 DEF Running

ListEnds(src, r, q) ==
  /\ r.pc = "state" /\ r.n > Len(r.lists[r.clist]) /\ q \in RexLocals
  /\ q.pc \in {"done", "char"} /\ (q.pc = "done" <=> r.lists[r.to] = <<>>)
  /\ q.lists[r.clist] = <<>> /\ q.lists[1 - r.clist] = r.lists[1 - r.clist]
  /\ q.states = r.states /\ q.clist = 1 - r.clist /\ q.pos = r.pos + 1 /\ q.n = 0
  /\ q.add = r.add /\ q.to = r.to

\* The other list is the current one, or no state is left.
LEMMA RexEndsList ==
  ASSUME NEW P, NEW src \in Seq(RexChars), NEW at, NEW r, Running(P, src, at, r),
         NEW q, ListEnds(src, r, q)
  PROVE  /\ q.pc = "done" => 0 \notin Language(P, src)[0]
         /\ q.pc # "done" => Running(P, src, at, q)
<1> DEFINE S == r.states
           L == Language(P, src)
           cur == r.lists[r.clist]
           other == r.lists[r.to]
           lists == q.lists
<1>1. /\ r \in RexLocals /\ Automaton(S, P, at) /\ RexShape(src, r) /\ RexMarks(r)
      /\ RexWords(P, src, at, r) /\ r.pc = "state" /\ q \in RexLocals
  BY DEF Running, ListEnds
<1>2. /\ r.n # 0 /\ r.n \in Nat /\ r.pos \in Nat /\ r.add = -1 /\ r.to = 1 - r.clist /\ r.pos < Len(src)
      /\ r.clist \in {0, 1} /\ r.to \in {0, 1} /\ cur \in Seq(Nat) /\ Len(cur) \in Nat /\ Len(src) \in Nat
      /\ r.lists \in [{0, 1} -> Seq(Nat)]
  <2>1. /\ r.n \in Nat /\ r.pos \in Nat /\ r.clist \in {0, 1} /\ r.to \in {0, 1}
        /\ r.lists \in [{0, 1} -> Seq(Nat)]
    BY <1>1 DEF RexLocals
  <2>2. r.n # 0 /\ r.add = -1 /\ r.to = 1 - r.clist /\ r.pos < Len(src)
    BY <1>1 DEF RexShape
  <2>. QED
    BY <2>1, <2>2
<1>4. /\ lists \in [{0, 1} -> Seq(Nat)] /\ lists[r.clist] = <<>> /\ lists[r.to] = other
      /\ Len(lists[r.clist]) = 0
  <2>1. lists \in [{0, 1} -> Seq(Nat)]
    BY <1>1 DEF RexLocals
  <2>. QED
    BY <1>2, <2>1 DEF ListEnds
<1>5. /\ q.pc \in {"done", "char"} /\ (q.pc = "done" <=> other = <<>>) /\ q.states = S
      /\ q.lists = lists /\ q.clist = r.to /\ q.pos = r.pos + 1 /\ q.n = 0
      /\ q.add = -1 /\ q.to = r.to /\ r.n > Len(cur)
  BY <1>2 DEF ListEnds
<1> HIDE DEF lists
<1>6. 0 \in L[0] <=> AcceptedIn(P, src, at, S, other, 1, r.pos + 1)
  <2>1. Left(r) = r.n /\ Reached(r) = r.pos + 1
    BY <1>1, <1>2 DEF Left, Reached
  <2>2. ~AcceptedIn(P, src, at, S, cur, r.n, r.pos)
    BY <1>2, <1>5 DEF AcceptedIn
  <2> HIDE DEF L, S, cur, other
  <2>. QED
    BY <1>1, <1>2, <2>1, <2>2 DEF RexWords, L, S, cur, other
<1>7. CASE q.pc = "done"
  <2>1. other = <<>>
    BY <1>5, <1>7
  <2>. QED
    BY <1>5, <1>6, <1>7, <2>1 DEF AcceptedIn
<1>8. CASE q.pc # "done"
  <2>1. q.pc = "char"
    BY <1>5, <1>8
  <2>2. RexShape(src, q)
    <3>1. ASSUME NEW l \in {0, 1}, NEW k \in 1 .. Len(lists[l]) PROVE Listed(S, lists[l][k])
      <4>1. l # r.clist
        BY <1>4
      <4>2. l = r.to /\ lists[l] = r.lists[l]
        BY <1>2, <1>4, <4>1, SMTT(30)
      <4>. QED
        BY <1>1, <4>2 DEF RexShape
    <3>2. q.lists[1 - q.clist] = <<>>
      <4>1. 1 - r.to = r.clist
        BY <1>2
      <4>. QED
        BY <1>4, <1>5, <4>1
    <3>. QED
      BY <1>2, <1>5, <2>1, <3>1, <3>2 DEF RexShape
  <2>3. RexMarks(q)
    <3>1. ASSUME NEW x \in 0 .. Len(S) - 1, NEW l \in {0, 1}, S[x + 1].last_list = l
          PROVE  \E k \in 1 .. Len(lists[l]) : lists[l][k] = x /\ (l = r.to => k >= 0)
      <4>1. PICK k \in 1 .. Len(r.lists[l]) : r.lists[l][k] = x /\ (l = r.clist => k >= r.n)
        <5>1. MarksIn(S, r.lists, r.clist, r.n)
          BY <1>1 DEF RexMarks
        <5> HIDE DEF S
        <5>2. x \in 0 .. Len(S) - 1 /\ l \in {0, 1} /\ S[x + 1].last_list = l
          BY <3>1
        <5>. QED
          BY <5>1, <5>2, ZenonT(30) DEF MarksIn
      <4>2. l # r.clist
        BY <1>2, <1>5, <4>1, SMTT(30)
      <4>3. l = r.to
        BY <1>2, <4>2
      <4>. QED
        BY <1>4, <4>1, <4>3
    <3>2. MarksIn(S, lists, r.to, 0)
      BY <3>1 DEF MarksIn
    <3>. QED
      BY <1>5, <3>2 DEF RexMarks
  <2>4. RexWords(P, src, at, q)
    <3>1. Left(q) = 1 /\ Reached(q) = r.pos + 1
      BY <1>5, <2>1 DEF Left, Reached
    <3> HIDE DEF L, S
    <3>. QED
      BY <1>4, <1>5, <1>6, <3>1 DEF RexWords, L
  <2>. QED
    BY <1>1, <1>5, <1>8, <2>2, <2>3, <2>4 DEF Running
<1>. QED
  BY <1>5, <1>7, <1>8

LastListed(r) == \E n \in DOMAIN r.lists[r.clist] : r.lists[r.clist][n] = Len(r.states) - 1

\* At the end of src the word is one of the pattern if the last state is in the list.
LEMMA RexMatched ==
  ASSUME NEW P \in Seq(RexChars), NEW src \in Seq(RexChars), NEW at, NEW r, Running(P, src, at, r),
         r.pc = "char", r.pos = Len(src)
  PROVE  0 \in Language(P, src)[0] <=> LastListed(r)
<1> DEFINE S == r.states
           cur == r.lists[r.clist]
<1>1. /\ r \in RexLocals /\ Automaton(S, P, at) /\ RexShape(src, r)
      /\ RexWords(P, src, at, r)
  BY DEF Running
<1>2. r.n = 0 /\ r.add = -1 /\ r.to = r.clist /\ r.clist \in {0, 1} /\ cur \in Seq(Nat)
  BY <1>1, SMTT(30) DEF RexShape, RexLocals
<1>3. Left(r) = 1 /\ Reached(r) = Len(src)
  BY <1>2 DEF Left, Reached
<1>4. 0 \in Language(P, src)[0] <=> AcceptedIn(P, src, at, S, cur, 1, Len(src))
  BY <1>1, <1>2, <1>3 DEF RexWords
<1>5. ASSUME NEW m \in 1 .. Len(cur)
      PROVE  Accepts(S, P, src, at, cur[m], Len(src)) <=> cur[m] = Len(S) - 1
  <2>1. cur[m] \in 0 .. Len(S) - 1
    BY <1>1, <1>2 DEF RexShape, Listed
  <2>2. S[cur[m] + 1].c = Final <=> cur[m] = Len(S) - 1
    <3> HIDE DEF S, cur
    <3>. QED
      BY <1>1, <2>1, AutomatonStates
  <2>3. ~Reads(P, src, at[cur[m]], Len(src))
    BY DEF Reads
  <2>. QED
    BY <2>2, <2>3 DEF Accepts
<1>6. DOMAIN cur = 1 .. Len(cur) /\ \A m \in 1 .. Len(cur) : m >= 1
  BY <1>2
<1> HIDE DEF S, cur
<1>. QED
  BY <1>4, <1>5, <1>6 DEF AcceptedIn, LastListed, S, cur

\* The locals while the pattern is compiled, and while the automaton runs.
RexFresh == /\ st.lists = [l \in {0, 1} |-> <<>>] /\ st.clist = 0 /\ st.pos = 0 /\ st.n = 0
            /\ st.add = -1 /\ st.to = 0 /\ st.matched = FALSE

RexInv == job.prog = "rex" =>
  /\ job.ptn \in Seq(RexChars) /\ job.src \in Seq(RexChars) /\ st \in RexLocals
  /\ st.pc # "done" => st.matched = FALSE
  /\ st.pc = "compile" => RexFresh /\ \E at : Compiled(st.states, job.ptn, at, st.i, st.last)
  /\ st.pc \notin {"compile", "done"} => \E at : Running(job.ptn, job.src, at, st)
  /\ MatchesLanguage

LEMMA RexInit == Init => RexInv
<1>1. ASSUME NEW ptn \in Rexes, NEW src \in Words, IsMatched(ptn, src)
      PROVE  RexInv
  <2>1. job.ptn = ptn /\ job.src = src /\ ptn \in Seq(RexChars) /\ src \in Seq(RexChars)
    BY <1>1, RexAssumption DEF IsMatched
  <2>2. /\ st = [pc |-> "compile", i |-> 0, states |-> <<>>, last |-> -1,
                 lists |-> [l \in {0, 1} |-> <<>>], clist |-> 0, pos |-> 0, n |-> 0, add |-> -1, to |-> 0,
                 matched |-> FALSE]
    BY <1>1 DEF IsMatched
  <2>3. st \in RexLocals
    BY <2>2 DEF RexLocals
  <2>4. RexFresh
    BY <2>2 DEF RexFresh
  <2>5. Compiled(<<>>, ptn, [s \in 0 .. 0 |-> 0], 0, -1)
    <3>1. Len(ptn) \in Nat /\ Len(<<>>) = 0 /\ <<>> \in Seq(RexStates)
      BY <2>1
    <3>. QED
      BY <3>1 DEF Compiled
  <2>6. st.states = <<>> /\ st.i = 0 /\ st.last = -1 /\ st.pc = "compile" /\ st.matched = FALSE
    BY <2>2
  <2>. QED
    BY <2>1, <2>3, <2>4, <2>5, <2>6 DEF RexInv, MatchesLanguage, At
<1>. QED
  BY <1>1, OwnInputs DEF RexInv

LEMMA RexCompiles ==
  ASSUME RexInv, job.prog = "rex", CompileStar \/ CompileChar \/ CompileEnd
  PROVE  RexInv'
<1> DEFINE P == job.ptn
           S == st.states
<1>1. /\ job' = job /\ P \in Seq(RexChars) /\ job.src \in Seq(RexChars) /\ st \in RexLocals
      /\ st.pc = "compile" /\ st.matched = FALSE /\ RexFresh
  BY DEF RexInv, CompileStar, CompileChar, CompileEnd, At, Becomes
<1>2. PICK at : Compiled(S, P, at, st.i, st.last)
  BY <1>1 DEF RexInv
<1>3. /\ S \in Seq(RexStates) /\ Len(S) \in Nat /\ st.i \in Nat /\ st.i \in 0 .. Len(P) /\ Len(P) \in Nat
  <2>1. S \in Seq(RexStates) /\ at \in [0 .. Len(S) -> 0 .. Len(P)] /\ at[Len(S)] = st.i
    BY <1>2 DEF Compiled
  <2>2. Len(S) \in 0 .. Len(S)
    BY <2>1
  <2>3. S \in Seq(RexStates) /\ st.i \in Nat /\ Len(P) \in Nat
    BY <1>1 DEF RexLocals
  <2> HIDE DEF S, P
  <2>. QED
    BY <2>1, <2>2, <2>3
<1>4. CASE CompileStar
  <2>1. PICK T : T = Connect(S \o <<State(Split, Len(S) + 1), State(P[st.i + 1], Len(S))>>, st.last, Len(S))
    OBVIOUS
  <2>2. st' = [st EXCEPT !.states = T, !.last = Len(S), !.i = st.i + 2]
    BY <1>4, <2>1 DEF CompileStar, Becomes, Size
  <2>3. st.i < Len(P) /\ StarAt(P, st.i)
    BY <1>3, <1>4 DEF CompileStar, Starred, StarAt
  <2> HIDE DEF S, P
  <2>4. PICK at2 : Compiled(T, P, at2, st.i + 2, Len(S))
    BY <1>1, <1>2, <1>3, <2>1, <2>3, AddStar
  <2>5. T \in Seq(RexStates)
    BY <2>4 DEF Compiled
  <2>6. st' \in RexLocals
    <3>1. st.i + 2 \in Nat /\ Len(S) \in Int
      BY <1>3
    <3>. QED
      BY <1>1, <2>2, <2>5, <3>1 DEF RexLocals
  <2>7. /\ st'.pc = "compile" /\ st'.matched = FALSE /\ st'.states = T /\ st'.i = st.i + 2 /\ st'.last = Len(S)
        /\ st'.lists = st.lists /\ st'.clist = st.clist /\ st'.pos = st.pos /\ st'.n = st.n /\ st'.add = st.add
        /\ st'.to = st.to
    BY <1>1, <2>2 DEF RexLocals
  <2>. QED
    BY <1>1, <2>4, <2>6, <2>7 DEF RexInv, RexFresh, MatchesLanguage, At, P
<1>5. CASE CompileChar
  <2>1. PICK T : T = Connect(Append(S, State(P[st.i + 1], -1)), st.last, Len(S))
    OBVIOUS
  <2>2. st' = [st EXCEPT !.states = T, !.last = Len(S), !.i = st.i + 1]
    BY <1>5, <2>1 DEF CompileChar, Becomes, Size
  <2>3. st.i < Len(P) /\ ~StarAt(P, st.i)
    BY <1>3, <1>5 DEF CompileChar, Starred, StarAt
  <2> HIDE DEF S, P
  <2>4. PICK at2 : Compiled(T, P, at2, st.i + 1, Len(S))
    BY <1>1, <1>2, <1>3, <2>1, <2>3, AddChar
  <2>5. T \in Seq(RexStates)
    BY <2>4 DEF Compiled
  <2>6. st' \in RexLocals
    <3>1. st.i + 1 \in Nat /\ Len(S) \in Int
      BY <1>3
    <3>. QED
      BY <1>1, <2>2, <2>5, <3>1 DEF RexLocals
  <2>7. /\ st'.pc = "compile" /\ st'.matched = FALSE /\ st'.states = T /\ st'.i = st.i + 1 /\ st'.last = Len(S)
        /\ st'.lists = st.lists /\ st'.clist = st.clist /\ st'.pos = st.pos /\ st'.n = st.n /\ st'.add = st.add
        /\ st'.to = st.to
    BY <1>1, <2>2 DEF RexLocals
  <2>. QED
    BY <1>1, <2>4, <2>6, <2>7 DEF RexInv, RexFresh, MatchesLanguage, At, P
<1>6. CASE CompileEnd
  <2>1. PICK T : T = Connect(Append(S, State(Final, -1)), st.last, Len(S))
    OBVIOUS
  <2>2. st' = [st EXCEPT !.states = T, !.add = 0, !.pc = "add"]
    BY <1>6, <2>1 DEF CompileEnd, Becomes, Size
  <2>3. st.i = Len(P)
    BY <1>3, <1>6 DEF CompileEnd
  <2> HIDE DEF S, P
  <2>4. /\ \E at2 : Automaton(T, P, at2)
        /\ \A s \in 0 .. Len(T) - 1 : T[s + 1].last_list = -1
    BY <1>1, <1>2, <2>1, <2>3, AddFinal
  <2>5. PICK at2 : Automaton(T, P, at2)
    BY <2>4
  <2>6. T \in Seq(RexStates)
    BY <2>5 DEF Automaton
  <2>7. st' \in RexLocals
    <3>1. 0 \in Int
      OBVIOUS
    <3>. QED
      BY <1>1, <2>2, <2>6, <3>1 DEF RexLocals
  <2>8. /\ st'.pc = "add" /\ st'.matched = FALSE /\ st'.states = T /\ st'.add = 0
        /\ st'.lists = [l \in {0, 1} |-> <<>>] /\ st'.clist = 0 /\ st'.pos = 0 /\ st'.n = 0 /\ st'.to = 0
    BY <1>1, <2>2 DEF RexLocals, RexFresh
  <2>9. Running(P, job.src, at2, st')
    BY <1>1, <2>4, <2>5, <2>7, <2>8, RexStarts
  <2>. QED
    BY <1>1, <2>7, <2>8, <2>9 DEF RexInv, MatchesLanguage, At, P
<1>. QED
  BY <1>4, <1>5, <1>6

\* The steps of the run: what keeps it running keeps the invariant.
LEMMA RexRuns ==
  ASSUME RexInv, job.prog = "rex", NEW at, Running(job.ptn, job.src, at, st),
         AddSplit \/ AddState \/ Added \/ NextChar \/ StateReads \/ Unmark
  PROVE  Running(job.ptn, job.src, at, st') /\ st'.pc \notin {"compile", "done"} /\ st'.matched = st.matched
<1> DEFINE P == job.ptn
           src == job.src
           S == st.states
<1>1. /\ P \in Seq(RexChars) /\ src \in Seq(RexChars) /\ st \in RexLocals
      /\ Automaton(S, P, at) /\ RexShape(src, st) /\ S \in Seq(RexStates) /\ Len(S) \in Nat
  BY DEF RexInv, Running, RexLocals
<1>2. Len(src) \in Nat /\ Reached(st) \in 0 .. Len(src)
  <2>1. st.n \in Nat /\ st.pos \in Nat /\ Len(src) \in Nat
    BY <1>1 DEF RexLocals
  <2>2. IF st.n = 0 THEN st.pos <= Len(src) ELSE st.pos < Len(src)
    BY <1>1 DEF RexShape
  <2> HIDE DEF src
  <2>. QED
    BY <2>1, <2>2 DEF Reached
<1>3. CASE AddSplit \/ AddState
  <2>1. st.pc = "add" /\ st.add # -1 /\ Addable(S, st.add)
    BY <1>1, <1>3 DEF AddSplit, AddState, At, RexShape
  <2> DEFINE x == S[st.add + 1]
  <2>2. /\ x.c = Split => /\ Listed(S, x.out) /\ Addable(S, x.out1)
                          /\ Reached(st) \in Language(P, src)[at[st.add]] <=>
                               Accepts(S, P, src, at, x.out, Reached(st)) \/ Reached(st) \in Language(P, src)[at[x.out1]]
        /\ x.c # Split => /\ Listed(S, st.add)
                          /\ Reached(st) \in Language(P, src)[at[st.add]] <=>
                               Accepts(S, P, src, at, st.add, Reached(st))
    <3> HIDE DEF S, P, src
    <3>. QED
      BY <1>1, <1>2, <2>1, StartAccepts, SMTT(30)
  <2> DEFINE Includes(s, next) ==
        /\ Listed(S, s) /\ next \in Int /\ (next = -1 \/ Addable(S, next))
        /\ st' = [st EXCEPT !.lists[st.to] = IF S[s + 1].last_list # st.to THEN Append(@, s) ELSE @,
                            !.states[s + 1].last_list = st.to, !.add = next]
        /\ Reached(st) \in Language(P, src)[at[st.add]] <=>
             \/ Accepts(S, P, src, at, s, Reached(st))
             \/ next # -1 /\ Reached(st) \in Language(P, src)[at[next]]
  <2>3. PICK s, next : Includes(s, next)
    <3>1. CASE AddSplit
      <4>1. x.c = Split /\ Include(x.out, x.out1)
        BY <3>1 DEF AddSplit
      <4>2. x.out1 \in Int /\ x.out1 # -1
        BY <1>1, <2>2, <4>1, AddableIs DEF Addable
      <4>3. st' = [st EXCEPT !.lists[st.to] = IF S[x.out + 1].last_list # st.to THEN Append(@, x.out) ELSE @,
                             !.states[x.out + 1].last_list = st.to, !.add = x.out1]
        BY <4>1 DEF Include, Becomes
      <4>4. /\ Listed(S, x.out) /\ Addable(S, x.out1)
            /\ Reached(st) \in Language(P, src)[at[st.add]] <=>
                 \/ Accepts(S, P, src, at, x.out, Reached(st))
                 \/ x.out1 # -1 /\ Reached(st) \in Language(P, src)[at[x.out1]]
        BY <2>2, <4>1, <4>2, SMTT(30)
      <4>5. Includes(x.out, x.out1)
        BY <4>2, <4>3, <4>4
      <4> HIDE DEF Includes
      <4>. QED
        BY <4>5
    <3>2. CASE AddState
      <4>1. x.c # Split /\ Include(st.add, -1)
        BY <3>2 DEF AddState
      <4>3. st' = [st EXCEPT !.lists[st.to] = IF S[st.add + 1].last_list # st.to THEN Append(@, st.add) ELSE @,
                             !.states[st.add + 1].last_list = st.to, !.add = -1]
        BY <4>1 DEF Include, Becomes
      <4>4. /\ Listed(S, st.add)
            /\ Reached(st) \in Language(P, src)[at[st.add]] <=> Accepts(S, P, src, at, st.add, Reached(st))
        BY <2>2, <4>1
      <4>5. Includes(st.add, -1)
        BY <4>3, <4>4
      <4> HIDE DEF Includes
      <4>. QED
        BY <4>5
    <3>. QED
      BY <1>3, <3>1, <3>2, ZenonT(30)
  <2>4. Running(P, src, at, st')
    <3> HIDE DEF P, src
    <3>. QED
      BY <1>1, <2>1, <2>3, RexIncludes DEF P, src
  <2>5. st'.pc = "add" /\ st'.matched = st.matched
    <3>1. DOMAIN st = {"pc", "i", "states", "last", "lists", "clist", "pos", "n", "add", "to", "matched"}
      BY <1>1 DEF RexLocals
    <3>. QED
      BY <2>1, <2>3, <3>1
  <2>. QED
    BY <2>4, <2>5
<1>4. CASE Added
  <2>1. st.pc = "add" /\ st.add = -1 /\ st' = [st EXCEPT !.pc = IF st.n = 0 THEN "char" ELSE "unmark"]
    BY <1>4 DEF Added, At, Becomes
  <2>2. Running(P, src, at, st')
    BY <1>1, <2>1, RexAdded
  <2>3. st'.pc \in {"char", "unmark"} /\ st'.matched = st.matched
    BY <1>1, <2>1 DEF RexLocals
  <2>. QED
    BY <2>2, <2>3
<1>5. CASE NextChar
  <2>1. st.pc = "char" /\ st.pos < Len(src) /\ st' = [st EXCEPT !.n = 1, !.to = 1 - st.clist, !.pc = "state"]
    BY <1>5 DEF NextChar, At, Becomes
  <2>2. Running(P, src, at, st')
    BY <1>1, <2>1, RexNextChar
  <2>3. st'.pc = "state" /\ st'.matched = st.matched
    BY <1>1, <2>1 DEF RexLocals
  <2>. QED
    BY <2>2, <2>3
<1>6. CASE StateReads
  <2> DEFINE x == Ins
  <2>1. /\ st.pc = "state" /\ st.n <= Len(st.lists[st.clist]) /\ x = S[st.lists[st.clist][st.n] + 1]
    BY <1>6 DEF StateReads, AtState, At, Ins
  <2>2. /\ x.c \in {src[st.pos + 1], "."} => st' = [st EXCEPT !.add = x.out, !.pc = "add"]
        /\ x.c \notin {src[st.pos + 1], "."} => st' = [st EXCEPT !.pc = "unmark"]
    BY <1>6 DEF StateReads, Becomes
  <2>3. x.out \in Int
    <3>1. st.lists[st.clist][st.n] \in 0 .. Len(S) - 1
      <4>1. st.n # 0 /\ st.n \in Nat /\ st.clist \in {0, 1} /\ st.lists[st.clist] \in Seq(Nat)
        BY <1>1, <2>1 DEF RexShape, RexLocals
      <4>2. st.n \in 1 .. Len(st.lists[st.clist])
        BY <2>1, <4>1
      <4>. QED
        BY <1>1, <4>1, <4>2 DEF RexShape, Listed
    <3> HIDE DEF x
    <3>2. x \in RexStates
      BY <1>1, <2>1, <3>1
    <3>. QED
      BY <3>2 DEF RexStates
  <2> HIDE DEF x
  <2>4. /\ st' \in RexLocals /\ SameRun(st', st) /\ st'.n = st.n /\ st'.matched = st.matched
        /\ IF x.c \in {src[st.pos + 1], "."} THEN st'.pc = "add" /\ st'.add = x.out
           ELSE st'.pc = "unmark" /\ st'.add = st.add
    <3>1. CASE x.c \in {src[st.pos + 1], "."}
      <4>1. st' = [st EXCEPT !.add = x.out, !.pc = "add"]
        BY <2>2, <3>1
      <4>. QED
        BY <1>1, <2>3, <3>1, <4>1 DEF RexLocals, SameRun
    <3>2. CASE x.c \notin {src[st.pos + 1], "."}
      <4>1. st' = [st EXCEPT !.pc = "unmark"]
        BY <2>2, <3>2
      <4>. QED
        BY <1>1, <3>2, <4>1 DEF RexLocals, SameRun
    <3>. QED
      BY <3>1, <3>2
  <2>5. Running(P, src, at, st')
    <3> HIDE DEF P, src
    <3>. QED
      BY <1>1, <2>1, <2>4, RexReads DEF P, src
  <2>6. st'.pc \in {"add", "unmark"}
    BY <2>4
  <2>. QED
    BY <2>4, <2>5, <2>6, SMTT(30)
<1>7. CASE Unmark
  <2> DEFINE s == st.lists[st.clist][st.n]
  <2>0. PICK mark : mark = IF S[s + 1].last_list = st.to THEN S[s + 1].last_list ELSE -1
    BY SMTT(30)
  <2>1. PICK T : T = [S EXCEPT ![s + 1].last_list = mark]
    BY ZenonT(30)
  <2>2. st.pc = "unmark" /\ st' = [st EXCEPT !.states = T, !.n = st.n + 1, !.pc = "state"]
    BY <1>7, <2>0, <2>1, ZenonT(30) DEF Unmark, At, Becomes
  <2>3. s \in 0 .. Len(S) - 1 /\ st.n \in Nat /\ st.to \in {0, 1}
    <3>1. st.n # 0 /\ st.n \in Nat /\ st.clist \in {0, 1} /\ st.lists[st.clist] \in Seq(Nat) /\ st.to \in {0, 1}
      BY <1>1, <2>2 DEF RexShape, RexLocals
    <3>2. st.n <= Len(st.lists[st.clist])
      BY <1>1, <2>2, <3>1 DEF RexShape
    <3>3. st.n \in 1 .. Len(st.lists[st.clist])
      BY <3>1, <3>2, SMTT(30)
    <3>. QED
      BY <1>1, <3>1, <3>3 DEF RexShape, Listed
  <2>4. mark \in {-1, st.to} /\ (S[s + 1].last_list # st.to => mark = -1) /\ mark \in {-1, 0, 1}
    BY <2>0, <2>3
  <2>9. s = st.lists[st.clist][st.n]
    OBVIOUS
  <2> HIDE DEF s
  <2>5. Marked(S, s, mark, T)
    <3> HIDE DEF S
    <3>. QED
      BY <1>1, <2>1, <2>3, <2>4, MarkIs
  <2>6. T \in Seq(RexStates)
    BY <2>5 DEF Marked, SameLinks
  <2>7. /\ st' \in RexLocals /\ st'.states = T /\ st'.lists = st.lists /\ st'.clist = st.clist
        /\ st'.pos = st.pos /\ st'.to = st.to /\ st'.n = st.n + 1 /\ st'.pc = "state" /\ st'.add = st.add
        /\ st'.matched = st.matched
    <3>1. st.n + 1 \in Nat
      BY <2>3
    <3>. QED
      BY <1>1, <2>2, <2>6, <3>1 DEF RexLocals
  <2>x. Unmarks(st, s, mark, st')
    BY <2>2, <2>4, <2>5, <2>7, <2>9 DEF Unmarks
  <2>8. Running(P, src, at, st')
    <3> HIDE DEF P, src
    <3>. QED
      BY <1>1, <2>x, RexUnmarks DEF P, src
  <2>. QED
    BY <2>7, <2>8
<1>. QED
  BY <1>3, <1>4, <1>5, <1>6, <1>7

LEMMA RexNextKeeps == RexInv /\ [Next]_programVars => RexInv'
<1>. SUFFICES ASSUME RexInv, [Next]_programVars, job'.prog = "rex"
              PROVE  RexInv'
  BY DEF RexInv
<1>1. CASE UNCHANGED programVars
  BY <1>1 DEF programVars, RexInv, RexFresh, MatchesLanguage, At
<1>2. ASSUME RexNext PROVE RexInv'
  <2>1. job' = job /\ job.prog = "rex"
    BY <1>2, OwnSteps
  <2>2. CASE CompileStar \/ CompileChar \/ CompileEnd
    BY <2>1, <2>2, RexCompiles
  <2>3. st.pc \notin {"compile", "done"} => \E at : Running(job.ptn, job.src, at, st)
    BY <2>1 DEF RexInv
  <2>4. CASE AddSplit \/ AddState \/ Added \/ NextChar \/ StateReads \/ Unmark
    <3>1. st.pc \notin {"compile", "done"}
      BY <2>4 DEF AddSplit, AddState, Added, NextChar, StateReads, AtState, Unmark, At
    <3>2. PICK at : Running(job.ptn, job.src, at, st)
      BY <2>3, <3>1
    <3>3. Running(job.ptn, job.src, at, st') /\ st'.pc \notin {"compile", "done"} /\ st'.matched = st.matched
      BY <2>1, <2>4, <3>2, RexRuns
    <3>4. st' \in RexLocals
      BY <3>3 DEF Running
    <3>. QED
      BY <2>1, <3>1, <3>3, <3>4 DEF RexInv, MatchesLanguage, At
  <2>5. CASE EndOfList
    <3>1. PICK lists : lists = [st.lists EXCEPT ![st.clist] = <<>>]
      OBVIOUS
    <3>2. PICK pc : pc = IF st.lists[st.to] = <<>> THEN "done" ELSE "char"
      OBVIOUS
    <3>3. /\ st.pc = "state" /\ st.n > Len(st.lists[st.clist])
          /\ st' = [st EXCEPT !.lists = lists, !.clist = 1 - st.clist, !.pos = st.pos + 1, !.n = 0, !.pc = pc]
      BY <2>5, <3>1, <3>2 DEF EndOfList, At, Becomes
    <3>4. PICK at : Running(job.ptn, job.src, at, st)
      BY <2>3, <3>3
    <3>5. st \in RexLocals /\ job.src \in Seq(RexChars) /\ st.matched = FALSE
      BY <2>1, <3>3 DEF RexInv
    <3>6. lists \in [{0, 1} -> Seq(Nat)] /\ 1 - st.clist \in {0, 1} /\ st.pos + 1 \in Nat
          /\ pc \in {"done", "char"} /\ (pc = "done" <=> st.lists[st.to] = <<>>)
      BY <3>1, <3>2, <3>5 DEF RexLocals
    <3>7. /\ st' \in RexLocals /\ st'.pc = pc /\ st'.states = st.states /\ st'.lists = lists
          /\ st'.clist = 1 - st.clist /\ st'.pos = st.pos + 1 /\ st'.n = 0 /\ st'.add = st.add /\ st'.to = st.to
          /\ st'.matched = FALSE
      BY <3>3, <3>5, <3>6 DEF RexLocals
    <3>l. st'.lists[st.clist] = <<>> /\ st'.lists[1 - st.clist] = st.lists[1 - st.clist]
      <4>1. st.lists \in [{0, 1} -> Seq(Nat)] /\ st.clist \in {0, 1}
        BY <3>5 DEF RexLocals
      <4>. QED
        BY <3>1, <3>7, <4>1
    <3>e. ListEnds(job.src, st, st')
      BY <3>3, <3>6, <3>7, <3>l DEF ListEnds
    <3>8. /\ st'.pc = "done" => 0 \notin Language(job.ptn, job.src)[0]
          /\ st'.pc # "done" => Running(job.ptn, job.src, at, st')
      BY <3>4, <3>5, <3>e, RexEndsList
    <3>9. MatchesLanguage'
      <4>1. st'.pc = "done" => st'.matched = (0 \in Language(job.ptn, job.src)[0])
        <5>1. st'.matched = FALSE
          BY <3>7
        <5>2. st'.pc = "done" => (0 \in Language(job.ptn, job.src)[0]) = FALSE
          BY <3>8
        <5>. QED
          BY <5>1, <5>2
      <4>. QED
        BY <2>1, <4>1 DEF MatchesLanguage, At
    <3>. QED
      BY <2>1, <3>3, <3>6, <3>7, <3>8, <3>9 DEF RexInv
  <2>6. CASE Matched
    <3>1. PICK w : w = \E n \in DOMAIN st.lists[st.clist] : st.lists[st.clist][n] = Len(st.states) - 1
      OBVIOUS
    <3>2. st.pc = "char" /\ st.pos = Len(job.src) /\ st' = [st EXCEPT !.pc = "done", !.matched = w]
      BY <2>6, <3>1 DEF Matched, At, Becomes, Size
    <3>3. PICK at : Running(job.ptn, job.src, at, st)
      BY <2>3, <3>2
    <3>4. st \in RexLocals /\ job.src \in Seq(RexChars) /\ job.ptn \in Seq(RexChars)
      BY <2>1 DEF RexInv
    <3>5. w = (0 \in Language(job.ptn, job.src)[0])
      <4>1. 0 \in Language(job.ptn, job.src)[0] <=> LastListed(st)
        BY <3>2, <3>3, <3>4, RexMatched
      <4>2. w = LastListed(st)
        BY <3>1, Zenon DEF LastListed
      <4>3. CASE LastListed(st)
        <5>1. w = TRUE
          BY <3>1, <4>3 DEF LastListed
        <5>2. (0 \in Language(job.ptn, job.src)[0]) = TRUE
          BY <4>1, <4>3
        <5>. QED
          BY <5>1, <5>2
      <4>4. CASE ~LastListed(st)
        <5>1. w = FALSE
          BY <3>1, <4>4 DEF LastListed
        <5>2. (0 \in Language(job.ptn, job.src)[0]) = FALSE
          BY <4>1, <4>4
        <5>. QED
          BY <5>1, <5>2
      <4>. QED
        BY <4>3, <4>4
    <3>6. st' \in RexLocals /\ st'.pc = "done" /\ st'.matched = w
      <4>1. w \in BOOLEAN
        BY <3>5
      <4>. QED
        BY <3>2, <3>4, <4>1 DEF RexLocals
    <3>7. MatchesLanguage'
      BY <2>1, <3>5, <3>6 DEF MatchesLanguage, At
    <3>. QED
      BY <2>1, <3>4, <3>6, <3>7 DEF RexInv
  <2>. QED
    BY <1>2, <2>2, <2>4, <2>5, <2>6 DEF RexNext
<1>. QED
  BY <1>1, <1>2, OwnSteps DEF Next

\* The automaton accepts the words of the pattern and no others, for any pattern and word:
\* a state that is marked when it is not in the next list would be missed.
THEOREM MatchingIsRight == Spec => []MatchesLanguage
<1>1. RexInv => MatchesLanguage
  BY DEF RexInv, MatchesLanguage, At
<1>. QED
  BY <1>1, RexInit, RexNextKeeps, PTL DEF Spec

-------------------------------------------------------------------------------
(* Evaluating an expression.                                                *)

\* Terms that are one operator deeper.
NewTerms(T) == T \union {Term(op, l, r) : op \in Operators, l, r \in T}

\* The recursion has a solution: each level adds the operators over the one below.
LEMMA TermsUpToIs ==
  /\ TermsUpTo[0] = {Const(text) : text \in Numbers}
  /\ \A d \in 1 .. Depth : TermsUpTo[d] = NewTerms(TermsUpTo[d - 1])
<1> DEFINE Body(f, d) == IF d = 0 THEN {Const(text) : text \in Numbers} ELSE NewTerms(f[d - 1])
           Levels(f, k) == f = [d \in 0 .. k |-> Body(f, d)]
           S == {k \in 0 .. Depth : \E f : Levels(f, k)}
<1>0. Depth \in Nat
  BY PolishAssumption
<1>1. 0 \in S
  <2> DEFINE f == [d \in 0 .. 0 |-> {Const(text) : text \in Numbers}]
  <2>1. \A d \in 0 .. 0 : d = 0
    OBVIOUS
  <2>2. Levels(f, 0)
    BY <2>1
  <2> HIDE DEF f, Levels
  <2>. QED
    BY <1>0, <2>2
<1>2. ASSUME NEW k \in 0 .. Depth - 1, k \in S PROVE k + 1 \in S
  <2>1. PICK f : Levels(f, k)
    BY <1>2
  <2> DEFINE g == [d \in 0 .. k + 1 |-> IF d <= k THEN f[d] ELSE Body(f, k + 1)]
  <2> HIDE DEF Body
  <2>2. \A d \in 0 .. k : g[d] = f[d] /\ f[d] = Body(f, d)
    BY <2>1
  <2>3. g[k + 1] = Body(f, k + 1)
    OBVIOUS
  <2>4. ASSUME NEW d \in 0 .. k + 1 PROVE Body(g, d) = Body(f, d)
    <3>1. CASE d = 0
      BY <3>1 DEF Body
    <3>2. CASE d # 0
      <4>1. d - 1 \in 0 .. k
        BY <3>2
      <4> HIDE DEF g
      <4>. QED
        BY <2>2, <3>2, <4>1 DEF Body
    <3>. QED
      BY <3>1, <3>2
  <2>5. \A d \in 0 .. k + 1 : d \in 0 .. k \/ d = k + 1
    OBVIOUS
  <2>6. g = [d \in 0 .. k + 1 |-> g[d]]
    OBVIOUS
  <2>7. k + 1 \in 0 .. Depth
    BY <1>0
  <2> HIDE DEF g
  <2>8. \A d \in 0 .. k + 1 : g[d] = Body(g, d)
    BY <2>2, <2>3, <2>4, <2>5
  <2>9. Levels(g, k + 1)
    BY <2>6, <2>8
  <2> HIDE DEF Levels
  <2>. QED
    BY <2>7, <2>9
<1>3. Depth \in S
  <2>1. \A k \in 0 .. Depth - 1 : k \in S => k + 1 \in S
    BY <1>2
  <2>2. Depth \in 0 .. Depth
    BY <1>0
  <2> HIDE DEF S
  <2>. QED
    BY <1>0, <1>1, <2>1, <2>2, InductionUpTo
<1>4. PICK f : Levels(f, Depth)
  BY <1>3
<1>5. TermsUpTo = CHOOSE h : Levels(h, Depth)
  BY DEF TermsUpTo, NewTerms
<1>6. Levels(TermsUpTo, Depth)
  <2> HIDE DEF Levels
  <2>. QED
    BY <1>4, <1>5
<1>7. \A d \in 0 .. Depth : TermsUpTo[d] = Body(TermsUpTo, d)
  <2> HIDE DEF Body
  <2>. QED
    BY <1>6
<1>8. 0 \in 0 .. Depth /\ \A d \in 1 .. Depth : d \in 0 .. Depth /\ d # 0
  BY <1>0
<1>. QED
  BY <1>7, <1>8

\* Every level is part of the terms.
LEMMA TermsGrow == \A d \in 0 .. Depth : TermsUpTo[d] \subseteq Terms
<1> DEFINE S == {k \in 0 .. Depth : TermsUpTo[Depth - k] \subseteq Terms}
<1>0. Depth \in Nat
  BY PolishAssumption
<1>1. 0 \in S
  <2>1. Depth - 0 = Depth
    BY <1>0
  <2>. QED
    BY <1>0, <2>1 DEF Terms
<1>2. ASSUME NEW k \in 0 .. Depth - 1, k \in S PROVE k + 1 \in S
  <2> DEFINE d == Depth - k
  <2>1. d \in 1 .. Depth /\ Depth - (k + 1) = d - 1 /\ k + 1 \in 0 .. Depth
    BY <1>0
  <2>2. TermsUpTo[d] \subseteq Terms
    BY <1>2
  <2> HIDE DEF d
  <2>3. TermsUpTo[d - 1] \subseteq TermsUpTo[d]
    BY <2>1, TermsUpToIs DEF NewTerms
  <2>. QED
    BY <2>1, <2>2, <2>3
<1>3. \A k \in 0 .. Depth : k \in S
  <2>1. \A k \in 0 .. Depth - 1 : k \in S => k + 1 \in S
    BY <1>2
  <2> HIDE DEF S
  <2>. QED
    BY <1>0, <1>1, <2>1, InductionUpTo
<1>4. \A d \in 0 .. Depth : Depth - d \in 0 .. Depth /\ Depth - (Depth - d) = d
  BY <1>0
<1>. QED
  BY <1>3, <1>4

IsConst(t)      == \E text \in Numbers : t = Const(text)
IsTerm(t, op, l, r) == op \in Operators /\ l \in Terms /\ r \in Terms /\ t = Term(op, l, r)

\* The depth of a term, more than that of its operands.
DepthOf(t) == CHOOSE d \in 0 .. Depth : t \in TermsUpTo[d] /\ \A e \in 0 .. Depth : t \in TermsUpTo[e] => d <= e

\* A term is a number, or an operator over terms that are less deep.
LEMMA DepthOfTerms ==
  ASSUME NEW t \in Terms
  PROVE  /\ DepthOf(t) \in 0 .. Depth
         /\ \/ IsConst(t)
            \/ \E op, l, r : IsTerm(t, op, l, r) /\ DepthOf(l) < DepthOf(t) /\ DepthOf(r) < DepthOf(t)
<1>0. Depth \in Nat
  BY PolishAssumption
<1>1. ASSUME NEW u, NEW e \in 0 .. Depth, u \in TermsUpTo[e]
      PROVE  /\ DepthOf(u) \in 0 .. Depth /\ u \in TermsUpTo[DepthOf(u)]
             /\ \A f \in 0 .. Depth : u \in TermsUpTo[f] => DepthOf(u) <= f
  <2> DEFINE L == {d \in 0 .. Depth : u \in TermsUpTo[d]}
  <2>1. L \in SUBSET Nat /\ L # {}
    BY <1>1
  <2>2. PICK d \in L : \A f \in L : d <= f
    <3> HIDE DEF L
    <3>. QED
      BY <2>1, LeastNat
  <2>3. \E d1 \in 0 .. Depth : u \in TermsUpTo[d1] /\ \A f \in 0 .. Depth : u \in TermsUpTo[f] => d1 <= f
    BY <2>2
  <2>. QED
    BY <2>3 DEF DepthOf
<1> DEFINE d == DepthOf(t)
<1>2. d \in 0 .. Depth /\ t \in TermsUpTo[d] /\ \A f \in 0 .. Depth : t \in TermsUpTo[f] => d <= f
  BY <1>0, <1>1 DEF Terms
<1> HIDE DEF d
<1>3. CASE d = 0
  BY <1>2, <1>3, TermsUpToIs DEF IsConst, d
<1>4. CASE d # 0
  <2>1. d \in 1 .. Depth /\ d - 1 \in 0 .. Depth /\ ~(d <= d - 1)
    BY <1>0, <1>2, <1>4
  <2>2. t \in NewTerms(TermsUpTo[d - 1]) /\ t \notin TermsUpTo[d - 1]
    BY <1>2, <2>1, TermsUpToIs
  <2>3. PICK op \in Operators, l \in TermsUpTo[d - 1], r \in TermsUpTo[d - 1] : t = Term(op, l, r)
    BY <2>2 DEF NewTerms
  <2>4. DepthOf(l) <= d - 1 /\ DepthOf(r) <= d - 1 /\ DepthOf(l) \in Int /\ DepthOf(r) \in Int
    BY <1>1, <2>1, <2>3
  <2>5. DepthOf(l) < d /\ DepthOf(r) < d
    BY <1>2, <2>4
  <2>6. IsTerm(t, op, l, r)
    BY <2>1, <2>3, TermsGrow DEF IsTerm
  <2>. QED
    BY <1>2, <2>5, <2>6 DEF d
<1>. QED
  BY <1>3, <1>4

\* What holds of the numbers, and of an operator if of its operands, holds of all terms.
LEMMA TermInduction ==
  ASSUME NEW X,
         \A t \in Terms : IsConst(t) => t \in X,
         \A t \in Terms : \A op, l, r : IsTerm(t, op, l, r) /\ l \in X /\ r \in X => t \in X
  PROVE  Terms \subseteq X
<1> DEFINE S == {k \in 0 .. Depth : \A t \in Terms : DepthOf(t) <= k => t \in X}
<1>0. Depth \in Nat
  BY PolishAssumption
<1>1. ASSUME NEW t \in Terms, NEW k \in 0 .. Depth, DepthOf(t) <= k,
             \A u \in Terms : DepthOf(u) < k => u \in X
      PROVE  t \in X
  <2>1. CASE IsConst(t)
    BY <2>1
  <2>2. CASE \E op, l, r : IsTerm(t, op, l, r) /\ DepthOf(l) < DepthOf(t) /\ DepthOf(r) < DepthOf(t)
    <3>1. PICK op, l, r : IsTerm(t, op, l, r) /\ DepthOf(l) < DepthOf(t) /\ DepthOf(r) < DepthOf(t)
      BY <2>2
    <3>2. l \in Terms /\ r \in Terms
      BY <3>1 DEF IsTerm
    <3>3. DepthOf(l) \in Int /\ DepthOf(r) \in Int /\ DepthOf(t) \in Int
      BY <3>2, DepthOfTerms
    <3>4. DepthOf(l) < k /\ DepthOf(r) < k
      BY <1>1, <3>1, <3>3
    <3>. QED
      BY <1>1, <3>1, <3>2, <3>4
  <2>. QED
    BY <2>1, <2>2, DepthOfTerms
<1>2. \A u \in Terms : DepthOf(u) \in 0 .. Depth
  BY DepthOfTerms
<1>3. 0 \in S
  <2>1. \A u \in Terms : ~(DepthOf(u) < 0)
    BY <1>2
  <2>. QED
    BY <1>0, <1>1, <2>1
<1>4. ASSUME NEW k \in 0 .. Depth - 1, k \in S PROVE k + 1 \in S
  <2>1. \A u \in Terms : DepthOf(u) < k + 1 => u \in X
    BY <1>2, <1>4
  <2>2. k + 1 \in 0 .. Depth
    BY <1>0
  <2>. QED
    BY <1>1, <2>1, <2>2
<1>5. Depth \in S
  <2>1. \A k \in 0 .. Depth - 1 : k \in S => k + 1 \in S
    BY <1>4
  <2>2. Depth \in 0 .. Depth
    BY <1>0
  <2> HIDE DEF S
  <2>. QED
    BY <1>0, <1>3, <2>1, <2>2, InductionUpTo
<1>. QED
  BY <1>0, <1>2, <1>5
Symbols == Numbers \union Operators \union {"(", ")"}

\* What Written computes for a term from what it is for its operands.
WrittenFrom(all, f, t) ==
  IF t.tag = "const" THEN <<t.text>>
  ELSE Parens(f[t.args[1]], all \/ Strength(t.args[1]) <= Binds(t.text))
         \o <<t.text>>
         \o Parens(f[t.args[2]], all \/ Strength(t.args[2]) < Binds(t.text))

\* Parentheses are symbols too.
LEMMA ParensAreSymbols ==
  ASSUME NEW s \in Seq(Symbols), NEW needed
  PROVE  Parens(s, needed) \in Seq(Symbols)
<1>1. <<"(">> \in Seq(Symbols) /\ <<")">> \in Seq(Symbols)
  BY DEF Symbols
<1>. QED
  BY <1>1, ConcatProperties DEF Parens

\* The tag tells numbers from operators.
LEMMA TermTags ==
  ASSUME NEW t
  PROVE  /\ IsConst(t) => t.tag = "const" /\ t.text \in Numbers /\ t = Const(t.text)
         /\ \A op, l, r : IsTerm(t, op, l, r) =>
              t.tag = "term" /\ t.text = op /\ t.args[1] = l /\ t.args[2] = r
BY DEF IsConst, IsTerm, Const, Term

\* Every term is written in symbols, as its operator between what is written for its operands.
LEMMA WrittenIs ==
  ASSUME NEW all
  PROVE  /\ Written(all) \in [Terms -> Seq(Symbols)]
         /\ \A t \in Terms : Written(all)[t] = WrittenFrom(all, Written(all), t)
<1> DEFINE D == Terms
           Y == Seq(Symbols)
           G(f) == [t \in D |-> WrittenFrom(all, f, t)]
           F == [f \in [D -> Y] |-> G(f)]
           rank == [t \in D |-> DepthOf(t)]
           as == CHOOSE f : f = G(f)
<1>0. Depth \in Nat /\ <<>> \in Y
  BY PolishAssumption
<1>1. ASSUME NEW f, NEW t \in D, IsConst(t) \/ \E op, l, r : IsTerm(t, op, l, r) /\ f[l] \in Y /\ f[r] \in Y
      PROVE  WrittenFrom(all, f, t) \in Y
  <2>0. /\ \A e \in Symbols : <<e>> \in Y
        /\ \A op \in Operators : op \in Symbols
        /\ \A text \in Numbers : text \in Symbols
    BY DEF Symbols
  <2>1. CASE IsConst(t)
    <3>1. WrittenFrom(all, f, t) = <<t.text>> /\ t.text \in Numbers
      BY <2>1, TermTags DEF WrittenFrom
    <3> HIDE DEF Y
    <3>. QED
      BY <2>0, <3>1
  <2>2. CASE \E op, l, r : IsTerm(t, op, l, r) /\ f[l] \in Y /\ f[r] \in Y
    <3>1. PICK op, l, r : IsTerm(t, op, l, r) /\ f[l] \in Y /\ f[r] \in Y
      BY <2>2
    <3>2. t.tag = "term" /\ t.text = op /\ t.args[1] = l /\ t.args[2] = r /\ op \in Operators
      BY <3>1, TermTags DEF IsTerm
    <3> DEFINE pl == Parens(f[l], all \/ Strength(l) <= Binds(op))
               pr == Parens(f[r], all \/ Strength(r) < Binds(op))
    <3>3. WrittenFrom(all, f, t) = pl \o <<op>> \o pr
      BY <3>2 DEF WrittenFrom
    <3>4. pl \in Y /\ pr \in Y /\ <<op>> \in Y
      <4>1. <<op>> \in Y
        BY <2>0, <3>2
      <4>. QED
        BY <3>1, <4>1, ParensAreSymbols
    <3> HIDE DEF pl, pr
    <3>5. pl \o <<op>> \in Y
      BY <3>4, ConcatProperties
    <3>. QED
      BY <3>3, <3>4, <3>5, ConcatProperties
  <2>. QED
    BY <1>1, <2>1, <2>2
<1>2. F \in [[D -> Y] -> [D -> Y]]
  <2>1. ASSUME NEW f \in [D -> Y], NEW t \in D PROVE WrittenFrom(all, f, t) \in Y
    <3>1. IsConst(t) \/ \E op, l, r : IsTerm(t, op, l, r) /\ f[l] \in Y /\ f[r] \in Y
      BY DepthOfTerms DEF IsTerm
    <3> HIDE DEF D, Y
    <3>. QED
      BY <1>1, <3>1
  <2> HIDE DEF D, Y
  <2>. QED
    BY <2>1
<1>3. DependsBelow(D, Y, rank, F)
  <2>1. ASSUME NEW f \in [D -> Y], NEW g \in [D -> Y], NEW t \in D,
               \A u \in D : rank[u] < rank[t] => f[u] = g[u]
        PROVE  F[f][t] = F[g][t]
    <3>1. WrittenFrom(all, f, t) = WrittenFrom(all, g, t)
      <4>1. CASE IsConst(t)
        BY <4>1, TermTags DEF WrittenFrom
      <4>2. CASE \E op, l, r : IsTerm(t, op, l, r) /\ DepthOf(l) < DepthOf(t) /\ DepthOf(r) < DepthOf(t)
        <5>1. PICK op, l, r : IsTerm(t, op, l, r) /\ DepthOf(l) < DepthOf(t) /\ DepthOf(r) < DepthOf(t)
          BY <4>2
        <5>2. l \in D /\ r \in D
          BY <5>1 DEF IsTerm
        <5>3. f[l] = g[l] /\ f[r] = g[r]
          BY <2>1, <5>1, <5>2
        <5>4. t.args[1] = l /\ t.args[2] = r
          BY <5>1, TermTags
        <5>. QED
          BY <5>3, <5>4 DEF WrittenFrom
      <4>. QED
        BY <4>1, <4>2, DepthOfTerms
    <3>. QED
      BY <3>1
  <2> HIDE DEF D, Y, F, rank
  <2>. QED
    BY <2>1 DEF DependsBelow
<1>4. PICK f : f \in [D -> Y] /\ F[f] = f
  <2>1. rank \in [D -> 0 .. Depth]
    BY DepthOfTerms
  <2> HIDE DEF D, Y, F, rank
  <2>2. Ranked(D, Y, Depth, rank, F)
    BY <1>0, <1>2, <1>3, <2>1 DEF Ranked
  <2>. QED
    BY <2>2, RankedRecursion
<1>5. as = G(as)
  <2>1. f = G(f)
    BY <1>4
  <2> HIDE DEF G
  <2>. QED
    BY <2>1
<1>6. Written(all) = as
  BY DEF Written, WrittenFrom
<1> HIDE DEF as
<1>7. as = [t \in D |-> as[t]] /\ \A t \in D : as[t] = WrittenFrom(all, as, t)
  BY <1>5
<1> DEFINE X == {t \in Terms : as[t] \in Y}
<1>8. Terms \subseteq X
  <2>1. \A t \in Terms : IsConst(t) => t \in X
    BY <1>1, <1>7
  <2>2. ASSUME NEW t \in Terms, NEW op, NEW l, NEW r, IsTerm(t, op, l, r), l \in X, r \in X PROVE t \in X
    <3>1. IsConst(t) \/ \E op1, l1, r1 : IsTerm(t, op1, l1, r1) /\ as[l1] \in Y /\ as[r1] \in Y
      BY <2>2
    <3>. QED
      BY <1>1, <1>7, <3>1
  <2> HIDE DEF X
  <2>. QED
    BY <2>1, <2>2, TermInduction
<1>9. \A t \in D : as[t] \in Y
  BY <1>8
<1> HIDE DEF Y
<1>10. as \in [D -> Y]
  BY <1>7, <1>9
<1>. QED
  BY <1>6, <1>7, <1>10 DEF Y
\* A run, by the elements that are still to be read instead of their number.
Conf(pc, rest, exp, ops, stk) == [pc |-> pc, rest |-> rest, exp |-> exp, ops |-> ops, stk |-> stk]

Pushes(e, ops) ==
  /\ e \in Operators \union {"("}
  /\ e \in Additive /\ ops # <<>> => Last(ops) \notin Multiplicative
Pops(rest, op) ==
  \/ rest = <<>>
  \/ Head(rest) \in Additive /\ op \in Multiplicative
  \/ Head(rest) = ")" /\ op # "("

\* What the program does next, whatever it is at.
Turn(c) ==
  IF c.pc = "set"
  THEN IF c.rest # <<>> /\ IsNumber(Head(c.rest))
       THEN Conf("set", Tail(c.rest), Append(c.exp, Head(c.rest)), c.ops, c.stk)
       ELSE IF c.rest # <<>> /\ Pushes(Head(c.rest), c.ops)
       THEN Conf("set", Tail(c.rest), c.exp, Append(c.ops, Head(c.rest)), c.stk)
       ELSE IF c.ops # <<>> /\ Pops(c.rest, Last(c.ops))
       THEN Conf("set", c.rest, Append(c.exp, Last(c.ops)), Front(c.ops), c.stk)
       ELSE IF c.rest # <<>>
       THEN Conf("set", Tail(c.rest), c.exp, Front(c.ops), c.stk)
       ELSE Conf("calculate", c.exp, c.exp, c.ops, c.stk)
  ELSE IF c.pc = "calculate" /\ c.rest # <<>>
  THEN IF IsNumber(Head(c.rest))
       THEN Conf("calculate", Tail(c.rest), c.exp, c.ops, Append(c.stk, Const(Head(c.rest))))
       ELSE Conf("calculate", Tail(c.rest), c.exp, c.ops,
                 Append(SubSeq(c.stk, 1, Len(c.stk) - 2),
                        Term(Head(c.rest), c.stk[Len(c.stk) - 1], c.stk[Len(c.stk)])))
  ELSE Conf("done", c.rest, c.exp, c.ops, c.stk)

\* Turns lead from c to d: every set that has c and is closed under turns has d.
Leads(c, d) == \A S : c \in S /\ (\A x \in S : Turn(x) \in S) => d \in S

\* One turn, several turns, and an end.
LEMMA LeadsOnce == \A c : Leads(c, Turn(c))
BY DEF Leads

LEMMA LeadsOn == \A c, d, e : Leads(c, d) /\ Leads(d, e) => Leads(c, e)
BY DEF Leads

\* A turn on the way is not lost, because there is only one way.
LEMMA LeadsPast ==
  ASSUME NEW c, NEW d, Leads(c, d), c # d
  PROVE  Leads(Turn(c), d)
<1>1. ASSUME NEW S, Turn(c) \in S, \A x \in S : Turn(x) \in S PROVE d \in S
  <2> DEFINE T == S \union {c}
  <2>1. c \in T /\ \A x \in T : Turn(x) \in T
    BY <1>1
  <2> HIDE DEF T
  <2>2. d \in T
    BY <1>1, <2>1 DEF Leads
  <2>. QED
    BY <2>2 DEF T
<1>. QED
  BY <1>1 DEF Leads

LEMMA LeadsHome ==
  ASSUME NEW c, NEW d, Leads(c, d), Turn(c) = c
  PROVE  c = d
<1>1. c \in {c} /\ \A x \in {c} : Turn(x) \in {c}
  BY Turn(c) = c
<1>2. d \in {c}
  BY <1>1 DEF Leads
<1>. QED
  BY <1>2

\* Ends of sequences.
LEMMA HeadOfOne ==
  ASSUME NEW X, NEW e \in X, NEW r \in Seq(X)
  PROVE  /\ <<e>> \o r \in Seq(X) /\ <<e>> \o r # <<>>
         /\ Head(<<e>> \o r) = e /\ Tail(<<e>> \o r) = r
<1>1. <<e>> \in Seq(X) /\ Len(<<e>>) = 1 /\ <<e>>[1] = e
  OBVIOUS
<1> DEFINE s == <<e>> \o r
<1>2. s \in Seq(X) /\ Len(s) = 1 + Len(r) /\ \A i \in 1 .. 1 + Len(r) : s[i] = IF i <= 1 THEN e ELSE r[i - 1]
  BY <1>1, ConcatProperties
<1>3. Len(r) \in Nat
  BY LenProperties
<1> HIDE DEF s
<1>4. s # <<>> /\ s[1] = e /\ \A i \in 1 .. Len(r) : s[i + 1] = r[i]
  BY <1>2, <1>3
<1>5. Head(s) = e
  BY <1>2, <1>4
<1>6. Tail(s) = r
  <2>1. Tail(s) \in Seq(X) /\ Len(Tail(s)) = Len(s) - 1 /\ \A i \in 1 .. Len(Tail(s)) : Tail(s)[i] = s[i + 1]
    BY <1>2, <1>4, HeadTailProperties
  <2>2. Len(Tail(s)) = Len(r)
    BY <1>2, <1>3, <2>1
  <2>. QED
    BY <1>4, <2>1, <2>2, SeqEqual
<1>. QED
  BY <1>2, <1>4, <1>5, <1>6 DEF s

LEMMA LastOfAppend ==
  ASSUME NEW X, NEW s \in Seq(X), NEW e \in X
  PROVE  /\ Append(s, e) \in Seq(X) /\ Append(s, e) # <<>>
         /\ Last(Append(s, e)) = e /\ Front(Append(s, e)) = s
<1> DEFINE t == Append(s, e)
<1>1. t \in Seq(X) /\ t # <<>> /\ Len(t) = Len(s) + 1 /\ t[Len(s) + 1] = e /\ \A i \in 1 .. Len(s) : t[i] = s[i]
  BY AppendProperties
<1>2. Len(s) \in Nat
  BY LenProperties
<1> HIDE DEF t
<1>3. (Len(s) + 1) - 1 = Len(s)
  BY <1>2
<1>4. SubSeq(t, 1, Len(s)) = s
  <2> DEFINE u == SubSeq(t, 1, Len(s))
  <2>0. \A i \in 1 .. Len(s) : t[i] \in X
    BY <1>1, ElementOfSeq
  <2>1. u \in Seq(X) /\ Len(u) = (IF 1 <= Len(s) THEN Len(s) - 1 + 1 ELSE 0) /\ \A i \in 1 .. Len(s) - 1 + 1 : u[i] = t[1 + i - 1]
    BY <1>2, <2>0, SubSeqProperties
  <2>2. Len(u) = Len(s) /\ \A i \in 1 .. Len(s) : u[i] = t[i]
    BY <1>2, <2>1
  <2> HIDE DEF u
  <2>3. u = s
    BY <1>1, <2>1, <2>2, SeqEqual
  <2>. QED
    BY <2>3 DEF u
<1>. QED
  BY <1>1, <1>3, <1>4 DEF t, Last, Front

Str == Seq(Symbols)

\* Numbers are no operators, and parentheses are neither.
LEMMA SymbolKinds ==
  /\ \A e \in Numbers : e \in Symbols /\ IsNumber(e)
  /\ \A e \in Operators \union {"(", ")"} : e \in Symbols /\ ~IsNumber(e)
  /\ \A e \in Operators : e # "(" /\ e # ")"
BY PolishAssumption DEF Symbols, IsNumber, Operators, Additive, Multiplicative

\* The turns of set_exp.
LEMMA TurnOperand ==
  ASSUME NEW e \in Numbers, NEW r \in Str, NEW exp, NEW ops, NEW stk
  PROVE  Turn(Conf("set", <<e>> \o r, exp, ops, stk)) = Conf("set", r, Append(exp, e), ops, stk)
<1> DEFINE s == <<e>> \o r
<1>1. s # <<>> /\ Head(s) = e /\ Tail(s) = r /\ IsNumber(e)
  BY HeadOfOne, SymbolKinds DEF Str
<1> HIDE DEF s
<1>. QED
  BY <1>1 DEF Turn, Conf, s

\* An operator or an opening parenthesis that nothing waits for.
LEMMA TurnPush ==
  ASSUME NEW e, NEW r \in Str, NEW exp, NEW ops, NEW stk, Pushes(e, ops)
  PROVE  Turn(Conf("set", <<e>> \o r, exp, ops, stk)) = Conf("set", r, exp, Append(ops, e), stk)
<1> DEFINE s == <<e>> \o r
<1>0. e \in Symbols /\ ~IsNumber(e)
  BY SymbolKinds DEF Pushes
<1>1. s # <<>> /\ Head(s) = e /\ Tail(s) = r
  BY <1>0, HeadOfOne DEF Str
<1> HIDE DEF s
<1>. QED
  BY <1>0, <1>1 DEF Turn, Conf, s

\* An operator whose operands are complete.
LEMMA TurnPop ==
  ASSUME NEW rest \in Str, NEW op \in Operators, NEW exp, NEW ops \in Str, NEW stk, Pops(rest, op)
  PROVE  Turn(Conf("set", rest, exp, Append(ops, op), stk)) = Conf("set", rest, Append(exp, op), ops, stk)
<1> DEFINE t == Append(ops, op)
<1>1. t # <<>> /\ Last(t) = op /\ Front(t) = ops
  BY LastOfAppend, SymbolKinds DEF Str
<1> HIDE DEF t
<1>2. rest # <<>> => ~IsNumber(Head(rest)) /\ ~Pushes(Head(rest), t)
  <2>1. Multiplicative \intersect Additive = {} /\ "(" \notin Additive /\ ")" \notin Operators \union {"("}
    BY DEF Operators, Additive, Multiplicative
  <2>2. rest # <<>> => Head(rest) \in Additive \union {")"}
    BY DEF Pops
  <2>3. \A e \in Additive \union {")"} : ~IsNumber(e)
    BY SymbolKinds DEF Operators
  <2>4. CASE rest = <<>>
    BY <2>4
  <2>5. CASE rest # <<>> /\ Head(rest) = ")"
    BY <2>1, <2>3, <2>5 DEF Pushes
  <2>6. CASE rest # <<>> /\ Head(rest) # ")"
    BY <1>1, <2>1, <2>2, <2>3, <2>6 DEF Pushes, Pops
  <2>. QED
    BY <2>4, <2>5, <2>6
<1>. QED
  BY <1>1, <1>2 DEF Turn, Conf, t

\* Parentheses go.
LEMMA TurnClose ==
  ASSUME NEW r \in Str, NEW exp, NEW ops \in Str, NEW stk
  PROVE  Turn(Conf("set", <<")">> \o r, exp, Append(ops, "("), stk)) = Conf("set", r, exp, ops, stk)
<1> DEFINE t == Append(ops, "(")
           s == <<")">> \o r
<1>0. ")" \in Symbols /\ "(" \in Symbols /\ ~IsNumber(")") /\ ")" \notin Operators \union {"("} /\ ")" \notin Additive
  BY SymbolKinds DEF Operators, Additive, Multiplicative
<1>1. t # <<>> /\ Last(t) = "(" /\ Front(t) = ops
  BY <1>0, LastOfAppend DEF Str
<1>2. s # <<>> /\ Head(s) = ")" /\ Tail(s) = r
  BY <1>0, HeadOfOne DEF Str
<1> HIDE DEF t, s
<1>3. ~Pushes(Head(s), t) /\ ~Pops(s, Last(t))
  BY <1>0, <1>1, <1>2 DEF Pushes, Pops
<1>. QED
  BY <1>0, <1>1, <1>2, <1>3 DEF Turn, Conf, s, t

\* The turns of calculate.
LEMMA TurnNumber ==
  ASSUME NEW e \in Numbers, NEW r \in Str, NEW exp, NEW ops, NEW stk
  PROVE  Turn(Conf("calculate", <<e>> \o r, exp, ops, stk))
           = Conf("calculate", r, exp, ops, Append(stk, Const(e)))
<1> DEFINE s == <<e>> \o r
<1>1. s # <<>> /\ Head(s) = e /\ Tail(s) = r /\ IsNumber(e)
  BY HeadOfOne, SymbolKinds DEF Str
<1> HIDE DEF s
<1>. QED
  BY <1>1 DEF Turn, Conf, s

LEMMA TurnApply ==
  ASSUME NEW op \in Operators, NEW r \in Str, NEW exp, NEW ops, NEW stk \in Seq(Terms),
         NEW t1 \in Terms, NEW t2 \in Terms
  PROVE  Turn(Conf("calculate", <<op>> \o r, exp, ops, Append(Append(stk, t1), t2)))
           = Conf("calculate", r, exp, ops, Append(stk, Term(op, t1, t2)))
<1> DEFINE s == <<op>> \o r
           u == Append(stk, t1)
           k == Append(u, t2)
<1>1. s # <<>> /\ Head(s) = op /\ Tail(s) = r /\ ~IsNumber(op)
  BY HeadOfOne, SymbolKinds DEF Str
<1>2. Len(stk) \in Nat /\ u \in Seq(Terms) /\ Len(u) = Len(stk) + 1 /\ u[Len(stk) + 1] = t1
  BY AppendProperties, LenProperties
<1>3. Front(u) = stk
  BY LastOfAppend
<1> HIDE DEF u
<1>4. k \in Seq(Terms) /\ Len(k) = Len(u) + 1 /\ k[Len(u) + 1] = t2 /\ \A i \in 1 .. Len(u) : k[i] = u[i]
  BY <1>2, AppendProperties
<1>5. SubSeq(k, 1, Len(u)) = u
  <2>1. Front(k) = u
    BY <1>2, LastOfAppend
  <2> HIDE DEF k
  <2>2. Len(k) - 1 = Len(u)
    BY <1>2, <1>4
  <2>. QED
    BY <2>1, <2>2 DEF Front
<1> HIDE DEF s, k
<1>6. Len(k) - 1 = Len(u) /\ Len(k) = Len(u) + 1 /\ Len(k) - 2 = Len(u) - 1 /\ Len(u) \in 1 .. Len(u)
  BY <1>2, <1>4
<1>7. k[Len(k) - 1] = t1 /\ k[Len(k)] = t2
  BY <1>2, <1>4, <1>6
<1>8. SubSeq(k, 1, Len(k) - 2) = stk
  <2>1. SubSeq(u, 1, Len(u) - 1) = stk
    BY <1>3 DEF Front
  <2>2. SubSeq(k, 1, Len(u) - 1) = SubSeq(u, 1, Len(u) - 1)
    <3> DEFINE a == SubSeq(k, 1, Len(u) - 1)
               b == SubSeq(u, 1, Len(u) - 1)
    <3>0. \A i \in 1 .. Len(u) - 1 : u[i] \in Terms /\ k[i] = u[i]
      BY <1>2, <1>4, ElementOfSeq, SMTT(30)
    <3>1. Len(u) - 1 \in Int
      BY <1>2
    <3>2. /\ a \in Seq(Terms) /\ Len(a) = (IF 1 <= Len(u) - 1 THEN Len(u) - 1 - 1 + 1 ELSE 0)
          /\ \A i \in 1 .. Len(u) - 1 - 1 + 1 : a[i] = k[1 + i - 1]
      BY <3>0, <3>1, SubSeqProperties
    <3>3. /\ b \in Seq(Terms) /\ Len(b) = (IF 1 <= Len(u) - 1 THEN Len(u) - 1 - 1 + 1 ELSE 0)
          /\ \A i \in 1 .. Len(u) - 1 - 1 + 1 : b[i] = u[1 + i - 1]
      BY <3>0, <3>1, SubSeqProperties
    <3> HIDE DEF a, b
    <3>4. Len(a) = Len(b) /\ \A i \in 1 .. Len(a) : a[i] = b[i]
      BY <1>2, <3>0, <3>1, <3>2, <3>3
    <3>5. a = b
      BY <3>2, <3>3, <3>4, SeqEqual
    <3>. QED
      BY <3>5 DEF a, b
  <2>. QED
    BY <1>6, <2>1, <2>2
<1>9. Turn(Conf("calculate", s, exp, ops, k)) = Conf("calculate", r, exp, ops, Append(stk, Term(op, t1, t2)))
  BY <1>1, <1>7, <1>8 DEF Turn, Conf
<1>. QED
  BY <1>9 DEF s, k, u
\* What is written for a term can be read as it: no operator before or behind takes an
\* operand of it.
Fits(t, ops, rest) ==
  /\ Strength(t) = 1 /\ ops # <<>> => Last(ops) \notin Multiplicative
  /\ \/ rest = <<>>
     \/ Head(rest) = ")"
     \/ Head(rest) \in Operators /\ Binds(Head(rest)) < Strength(t)

\* Reading s appends p to the postfix expression, and that is the term t.
ReadsAs(t, s, p) ==
  \A exp, ops, rest \in Str : Fits(t, ops, rest) =>
    Leads(Conf("set", s \o rest, exp, ops, <<>>), Conf("set", rest, exp \o p, ops, <<>>))
Computes(t, p) ==
  \A rest, exp \in Str, stk \in Seq(Terms) :
    Leads(Conf("calculate", p \o rest, exp, <<>>, stk), Conf("calculate", rest, exp, <<>>, Append(stk, t)))

\* Precedences are 1 and 2; what is closed in itself has 3.
LEMMA Strengths ==
  /\ \A op \in Operators : Binds(op) \in {1, 2} /\ (Binds(op) = 1 <=> op \in Additive)
                           /\ (Binds(op) = 2 <=> op \in Multiplicative)
  /\ \A t \in Terms : Strength(t) \in {1, 2, 3}
<1>1. \A op \in Operators : Binds(op) \in {1, 2} /\ (Binds(op) = 1 <=> op \in Additive)
                            /\ (Binds(op) = 2 <=> op \in Multiplicative)
  BY DEF Operators, Additive, Multiplicative, Binds
<1>2. \A t : Strength(t) \in {1, 2, 3}
  BY DEF Strength, Binds
<1>. QED
  BY <1>1, <1>2

\* The same in parentheses, in any place.
LEMMA ReadsParens ==
  ASSUME NEW t \in Terms, NEW s \in Str, NEW p \in Str, ReadsAs(t, s, p),
         NEW needed \in BOOLEAN, NEW exp \in Str, NEW ops \in Str, NEW rest \in Str,
         needed \/ Fits(t, ops, rest)
  PROVE  Leads(Conf("set", Parens(s, needed) \o rest, exp, ops, <<>>),
               Conf("set", rest, exp \o p, ops, <<>>))
<1>1. CASE ~needed
  BY <1>1 DEF ReadsAs, Parens
<1>2. CASE needed
  <2> DEFINE r1 == <<")">> \o rest
             o1 == Append(ops, "(")
             c1 == Conf("set", <<"(">> \o (s \o r1), exp, ops, <<>>)
             c2 == Conf("set", s \o r1, exp, o1, <<>>)
             c3 == Conf("set", r1, exp \o p, o1, <<>>)
             c4 == Conf("set", rest, exp \o p, ops, <<>>)
  <2>0. /\ "(" \in Symbols /\ ")" \in Symbols /\ "(" \notin Additive \union Multiplicative
        /\ <<"(">> \in Str /\ <<")">> \in Str
    BY SymbolKinds DEF Str, Additive, Multiplicative
  <2>1. r1 \in Str /\ Head(r1) = ")" /\ o1 \in Str /\ o1 # <<>> /\ Last(o1) = "("
    BY <2>0, HeadOfOne, LastOfAppend DEF Str
  <2>2. s \o r1 \in Str /\ s \o <<")">> \in Str
    BY <2>0, <2>1, ConcatProperties DEF Str
  <2>3. Parens(s, needed) \o rest = <<"(">> \o (s \o r1)
    <3>1. Parens(s, needed) = <<"(">> \o (s \o <<")">>)
      <4>1. Parens(s, needed) = (<<"(">> \o s) \o <<")">>
        BY <1>2 DEF Parens
      <4>. QED
        BY <2>0, <4>1, ConcatAssociative DEF Str
    <3>2. (<<"(">> \o (s \o <<")">>)) \o rest = <<"(">> \o ((s \o <<")">>) \o rest)
      BY <2>0, <2>2, ConcatAssociative, SMTT(30) DEF Str
    <3>3. (s \o <<")">>) \o rest = s \o (<<")">> \o rest)
      BY <2>0, ConcatAssociative DEF Str
    <3>. QED
      BY <3>1, <3>2, <3>3
  <2>4. Pushes("(", ops)
    BY <2>0 DEF Pushes
  <2>5. Turn(c1) = c2
    BY <2>2, <2>4, TurnPush
  <2>6. Fits(t, o1, r1)
    BY <2>0, <2>1 DEF Fits
  <2>7. Leads(c2, c3)
    BY <2>1, <2>6 DEF ReadsAs
  <2>8. Turn(c3) = c4
    BY TurnClose
  <2> HIDE DEF c1, c2, c3, c4
  <2>9. Leads(c1, c4)
    BY <2>5, <2>7, <2>8, LeadsOnce, LeadsOn
  <2>. QED
    BY <2>3, <2>9 DEF c1, c4
<1>. QED
  BY <1>1, <1>2
\* Concatenation under a name that the provers do not compute with.
Cat(s, t) == s \o t

LEMMA CatAssociative ==
  /\ \A a, b \in Str : Cat(a, b) \in Str
  /\ \A a, b, c \in Str : Cat(Cat(a, b), c) = Cat(a, Cat(b, c))
<1>1. \A a, b \in Str : Cat(a, b) \in Str
  BY ConcatProperties DEF Str, Cat
<1>2. \A a, b, c \in Str : Cat(Cat(a, b), c) = Cat(a, Cat(b, c))
  BY ConcatAssociative DEF Str, Cat
<1>. QED
  BY <1>1, <1>2

\* An operator comes behind its operands, so it is applied to them.
LEMMA ReadsTerm ==
  ASSUME NEW t \in Terms, NEW op, NEW l, NEW r, IsTerm(t, op, l, r),
         NEW sl \in Str, NEW sr \in Str, NEW pl \in Str, NEW pr \in Str,
         ReadsAs(l, sl, pl), ReadsAs(r, sr, pr),
         NEW ml \in BOOLEAN, NEW mr \in BOOLEAN,
         ml \/ Strength(l) > Binds(op), mr \/ Strength(r) >= Binds(op)
  PROVE  ReadsAs(t, Parens(sl, ml) \o <<op>> \o Parens(sr, mr), (pl \o pr) \o <<op>>)
<1>0. op \in Operators /\ l \in Terms /\ r \in Terms /\ op \in Symbols /\ <<op>> \in Str /\ op # "(" /\ op # ")"
  BY SymbolKinds DEF IsTerm, Str
<1>1. Strength(t) = Binds(op)
  BY <1>0, TermTags DEF Strength
<1>2. /\ Strength(l) \in {1, 2, 3} /\ Strength(r) \in {1, 2, 3} /\ Binds(op) \in {1, 2}
      /\ (Binds(op) = 1 <=> op \in Additive) /\ (Binds(op) = 2 <=> op \in Multiplicative)
  BY <1>0, Strengths
<1> DEFINE ql == Parens(sl, ml)
           qr == Parens(sr, mr)
           p  == (pl \o pr) \o <<op>>
<1>3. ql \in Str /\ qr \in Str /\ pl \o pr \in Str
  BY ParensAreSymbols, ConcatProperties DEF Str
<1>4. ASSUME NEW exp \in Str, NEW ops \in Str, NEW rest \in Str, Fits(t, ops, rest)
      PROVE  Leads(Conf("set", (ql \o <<op>> \o qr) \o rest, exp, ops, <<>>), Conf("set", rest, exp \o p, ops, <<>>))
  <2> DEFINE r1 == qr \o rest
             r2 == <<op>> \o r1
             o1 == Append(ops, op)
             c1 == Conf("set", ql \o r2, exp, ops, <<>>)
             c2 == Conf("set", r2, exp \o pl, ops, <<>>)
             c3 == Conf("set", r1, exp \o pl, o1, <<>>)
             c4 == Conf("set", rest, (exp \o pl) \o pr, o1, <<>>)
             c5 == Conf("set", rest, Append((exp \o pl) \o pr, op), ops, <<>>)
  <2>1. r1 \in Str /\ exp \o pl \in Str
    BY <1>3, ConcatProperties DEF Str
  <2>2. r2 \in Str /\ Head(r2) = op /\ o1 \in Str /\ o1 # <<>> /\ Last(o1) = op
    BY <1>0, <2>1, HeadOfOne, LastOfAppend DEF Str
  <2>3. (exp \o pl) \o pr \in Str
    BY <2>1, ConcatProperties DEF Str
  <2>4. (ql \o <<op>> \o qr) \o rest = ql \o r2
    <3> HIDE DEF ql, qr
    <3> DEFINE o == <<op>>
    <3>1. o \in Str
      BY <1>0
    <3> HIDE DEF o
    <3>2. Cat(ql, o) \in Str
      BY <1>3, <3>1, CatAssociative
    <3>3. Cat(Cat(Cat(ql, o), qr), rest) = Cat(Cat(ql, o), Cat(qr, rest))
      BY <1>3, <3>2, CatAssociative
    <3>4. Cat(Cat(ql, o), Cat(qr, rest)) = Cat(ql, Cat(o, Cat(qr, rest)))
      BY <1>3, <3>1, CatAssociative
    <3>. QED
      BY <3>3, <3>4 DEF Cat, o
  <2>5. Append((exp \o pl) \o pr, op) = exp \o p
    <3>1. Append((exp \o pl) \o pr, op) = ((exp \o pl) \o pr) \o <<op>>
      BY <1>0, <2>3, AppendIsConcat DEF Str
    <3>2. Cat(Cat(Cat(exp, pl), pr), <<op>>) = Cat(exp, Cat(Cat(pl, pr), <<op>>))
      BY <1>0, CatAssociative
    <3>3. ((exp \o pl) \o pr) \o <<op>> = exp \o p
      BY <3>2 DEF Cat
    <3>. QED
      BY <3>1, <3>3
  <2> HIDE DEF ql, qr, p, r1, r2, o1
  <2>6. ml \/ Fits(l, ops, r2)
    BY <1>0, <1>2, <2>2 DEF Fits
  <2>7. Leads(c1, c2)
    BY <1>0, <2>2, <2>6, ReadsParens DEF ql
  <2>8. Pushes(op, ops)
    BY <1>0, <1>1, <1>2, <1>4 DEF Pushes, Fits
  <2>9. Turn(c2) = c3
    BY <2>1, <2>8, TurnPush DEF r2, o1
  <2>10. mr \/ Fits(r, o1, rest)
    <3>1. ASSUME ~mr PROVE Strength(r) = 1 => op \notin Multiplicative
      BY <1>2, <3>1
    <3>2. ASSUME ~mr, Head(rest) \in Operators, Binds(Head(rest)) < Strength(t) PROVE Binds(Head(rest)) < Strength(r)
      <4>1. Binds(Head(rest)) \in {1, 2}
        BY <3>2, Strengths
      <4>. QED
        BY <1>1, <1>2, <3>2, <4>1
    <3>. QED
      BY <1>4, <2>2, <3>1, <3>2 DEF Fits
  <2>11. Leads(c3, c4)
    BY <1>0, <2>1, <2>2, <2>10, ReadsParens DEF qr, r1
  <2>12. Pops(rest, op)
    <3>1. ASSUME Head(rest) \in Operators, Binds(Head(rest)) < Strength(t)
          PROVE  Head(rest) \in Additive /\ op \in Multiplicative
      <4>1. Binds(Head(rest)) \in {1, 2} /\ (Binds(Head(rest)) = 1 <=> Head(rest) \in Additive)
        BY <3>1, Strengths
      <4>. QED
        BY <1>1, <1>2, <3>1, <4>1
    <3>. QED
      BY <1>0, <1>4, <3>1 DEF Pops, Fits
  <2>13. Turn(c4) = c5
    BY <1>0, <2>12, TurnPop DEF o1
  <2> HIDE DEF c1, c2, c3, c4, c5
  <2>14. Leads(c1, c3)
    BY <2>7, <2>9, LeadsOnce, LeadsOn
  <2>15. Leads(c3, c5)
    BY <2>11, <2>13, LeadsOnce, LeadsOn
  <2>16. Leads(c1, c5)
    BY <2>14, <2>15, LeadsOn
  <2>. QED
    BY <2>4, <2>5, <2>16 DEF c1, c5
<1> HIDE DEF ql, qr, p
<1>5. ReadsAs(t, ql \o <<op>> \o qr, p)
  BY <1>4 DEF ReadsAs
<1>. QED
  BY <1>5 DEF ql, qr, p

\* Its operands are on the stack in their order when an operator is applied.
LEMMA ComputesTerm ==
  ASSUME NEW t \in Terms, NEW op, NEW l, NEW r, IsTerm(t, op, l, r),
         NEW pl \in Str, NEW pr \in Str, Computes(l, pl), Computes(r, pr)
  PROVE  Computes(t, (pl \o pr) \o <<op>>)
<1>0. op \in Operators /\ l \in Terms /\ r \in Terms /\ t = Term(op, l, r) /\ op \in Symbols /\ <<op>> \in Str
  BY SymbolKinds DEF IsTerm, Str
<1> DEFINE p == (pl \o pr) \o <<op>>
<1>1. ASSUME NEW rest \in Str, NEW exp \in Str, NEW stk \in Seq(Terms)
      PROVE  Leads(Conf("calculate", p \o rest, exp, <<>>, stk), Conf("calculate", rest, exp, <<>>, Append(stk, t)))
  <2> DEFINE r1 == <<op>> \o rest
             r2 == pr \o r1
             k1 == Append(stk, l)
             k2 == Append(k1, r)
             c1 == Conf("calculate", pl \o r2, exp, <<>>, stk)
             c2 == Conf("calculate", r2, exp, <<>>, k1)
             c3 == Conf("calculate", r1, exp, <<>>, k2)
             c4 == Conf("calculate", rest, exp, <<>>, Append(stk, t))
  <2>1. r1 \in Str /\ k1 \in Seq(Terms)
    BY <1>0, HeadOfOne, AppendProperties DEF Str
  <2>2. r2 \in Str
    BY <2>1, ConcatProperties DEF Str
  <2>3. p \o rest = pl \o r2
    <3>1. Cat(Cat(Cat(pl, pr), <<op>>), rest) = Cat(pl, Cat(pr, Cat(<<op>>, rest)))
      BY <1>0, CatAssociative
    <3>. QED
      BY <3>1 DEF Cat
  <2>4. Leads(c1, c2)
    BY <2>2 DEF Computes
  <2>5. Leads(c2, c3)
    BY <2>1 DEF Computes
  <2>6. Turn(c3) = c4
    BY <1>0, TurnApply
  <2> HIDE DEF c1, c2, c3, c4
  <2>7. Leads(c1, c4)
    BY <2>4, <2>5, <2>6, LeadsOnce, LeadsOn
  <2>. QED
    BY <2>3, <2>7 DEF c1, c4
<1> HIDE DEF p
<1>2. Computes(t, p)
  BY <1>1 DEF Computes
<1>. QED
  BY <1>2 DEF p

\* A number goes through as it is.
LEMMA NumberReads ==
  ASSUME NEW t \in Terms, IsConst(t)
  PROVE  ReadsAs(t, <<t.text>>, <<t.text>>) /\ Computes(t, <<t.text>>)
<1> DEFINE e == t.text
<1>1. e \in Numbers /\ e \in Symbols /\ t = Const(e)
  BY TermTags, SymbolKinds
<1> HIDE DEF e
<1>2. ASSUME NEW exp \in Str, NEW ops \in Str, NEW rest \in Str
      PROVE  Leads(Conf("set", <<e>> \o rest, exp, ops, <<>>), Conf("set", rest, exp \o <<e>>, ops, <<>>))
  <2>1. Append(exp, e) = exp \o <<e>>
    BY <1>1, AppendIsConcat DEF Str
  <2>2. Turn(Conf("set", <<e>> \o rest, exp, ops, <<>>)) = Conf("set", rest, Append(exp, e), ops, <<>>)
    BY <1>1, TurnOperand
  <2>. QED
    BY <2>1, <2>2, LeadsOnce
<1>3. ASSUME NEW rest \in Str, NEW exp \in Str, NEW stk \in Seq(Terms)
      PROVE  Leads(Conf("calculate", <<e>> \o rest, exp, <<>>, stk), Conf("calculate", rest, exp, <<>>, Append(stk, t)))
  <2>1. Turn(Conf("calculate", <<e>> \o rest, exp, <<>>, stk)) = Conf("calculate", rest, exp, <<>>, Append(stk, Const(e)))
    BY <1>1, TurnNumber
  <2>. QED
    BY <1>1, <2>1, LeadsOnce
<1>. QED
  BY <1>2, <1>3 DEF ReadsAs, Computes, e

\* By induction every term has a postfix expression that it is read as and computed from.
LEMMA TermsAreRead ==
  ASSUME NEW all \in BOOLEAN, NEW t \in Terms
  PROVE  \E p \in Str : ReadsAs(t, Written(all)[t], p) /\ Computes(t, p)
<1> DEFINE as == Written(all)
           X == {u \in Terms : \E p \in Str : ReadsAs(u, as[u], p) /\ Computes(u, p)}
<1>0. as \in [Terms -> Str] /\ \A u \in Terms : as[u] = WrittenFrom(all, as, u)
  BY WrittenIs DEF Str
<1> HIDE DEF as
<1>1. ASSUME NEW u \in Terms, IsConst(u) PROVE u \in X
  <2>1. as[u] = <<u.text>> /\ u.text \in Symbols
    BY <1>0, <1>1, TermTags, SymbolKinds DEF WrittenFrom
  <2>2. <<u.text>> \in Str
    BY <2>1 DEF Str
  <2>. QED
    BY <1>1, <2>1, <2>2, NumberReads
<1>2. ASSUME NEW u \in Terms, NEW op, NEW l, NEW r, IsTerm(u, op, l, r), l \in X, r \in X PROVE u \in X
  <2> DEFINE ml == all \/ Strength(l) <= Binds(op)
             mr == all \/ Strength(r) < Binds(op)
  <2>1. PICK pl \in Str : ReadsAs(l, as[l], pl) /\ Computes(l, pl)
    BY <1>2
  <2>2. PICK pr \in Str : ReadsAs(r, as[r], pr) /\ Computes(r, pr)
    BY <1>2
  <2>3. op \in Operators /\ l \in Terms /\ r \in Terms /\ <<op>> \in Str
    BY <1>2, SymbolKinds DEF IsTerm, Str
  <2>4. Strength(l) \in {1, 2, 3} /\ Strength(r) \in {1, 2, 3} /\ Binds(op) \in {1, 2}
    BY <2>3, Strengths
  <2>5. ml \in BOOLEAN /\ mr \in BOOLEAN
    OBVIOUS
  <2>6. (ml \/ Strength(l) > Binds(op)) /\ (mr \/ Strength(r) >= Binds(op))
    BY <2>4
  <2>7. as[u] = Parens(as[l], ml) \o <<op>> \o Parens(as[r], mr)
    <3>1. u.tag = "term" /\ u.text = op /\ u.args[1] = l /\ u.args[2] = r
      BY <1>2, TermTags
    <3>2. as[u] = WrittenFrom(all, as, u)
      BY <1>0
    <3>3. WrittenFrom(all, as, u) = Parens(as[l], ml) \o <<op>> \o Parens(as[r], mr)
      BY <3>1 DEF WrittenFrom
    <3>. QED
      BY <3>2, <3>3
  <2> HIDE DEF ml, mr
  <2>8. as[l] \in Str /\ as[r] \in Str /\ (pl \o pr) \o <<op>> \in Str
    <3>1. pl \o pr \in Str
      BY ConcatProperties DEF Str
    <3>. QED
      BY <1>0, <2>3, <3>1, ConcatProperties DEF Str
  <2>9. ReadsAs(u, as[u], (pl \o pr) \o <<op>>)
    <3> DEFINE sl == as[l]
               sr == as[r]
    <3>1. sl \in Str /\ sr \in Str /\ ReadsAs(l, sl, pl) /\ ReadsAs(r, sr, pr)
      BY <2>1, <2>2, <2>8
    <3> HIDE DEF sl, sr
    <3>2. ReadsAs(u, Parens(sl, ml) \o <<op>> \o Parens(sr, mr), (pl \o pr) \o <<op>>)
      BY <1>2, <2>5, <2>6, <3>1, ReadsTerm
    <3>. QED
      BY <2>7, <3>2 DEF sl, sr
  <2>10. Computes(u, (pl \o pr) \o <<op>>)
    BY <1>2, <2>1, <2>2, ComputesTerm
  <2>. QED
    BY <2>8, <2>9, <2>10
<1> HIDE DEF X
<1>3. Terms \subseteq X
  BY <1>1, <1>2, TermInduction
<1>4. t \in X
  BY <1>3
<1>. QED
  BY <1>4 DEF X, as

\* The program reads a term as it is written and computes it.
Ended(p, t) == Conf("done", <<>>, p, <<>>, <<t>>)

\* The program goes from what is written for a term to the term as the only result.
LEMMA TermsAreComputed ==
  ASSUME NEW all \in BOOLEAN, NEW t \in Terms
  PROVE  \E p : Leads(Conf("set", Written(all)[t], <<>>, <<>>, <<>>), Ended(p, t))
<1>1. PICK p \in Str : ReadsAs(t, Written(all)[t], p) /\ Computes(t, p)
  BY TermsAreRead
<1> DEFINE s == Written(all)[t]
<1>2. s \in Str /\ <<>> \in Str /\ <<>> \in Seq(Terms) /\ Append(<<>>, t) = <<t>>
  BY WrittenIs DEF Str
<1> HIDE DEF s
<1>3. s \o <<>> = s /\ p \o <<>> = p /\ <<>> \o p = p
  BY <1>2, ConcatEmptySeq DEF Str
<1> DEFINE c1 == Conf("set", s, <<>>, <<>>, <<>>)
           c2 == Conf("set", <<>>, p, <<>>, <<>>)
           c3 == Conf("calculate", p, p, <<>>, <<>>)
           c4 == Conf("calculate", <<>>, p, <<>>, <<t>>)
<1>4. Leads(c1, c2)
  <2>1. Fits(t, <<>>, <<>>)
    BY DEF Fits
  <2>2. Leads(Conf("set", s \o <<>>, <<>>, <<>>, <<>>), Conf("set", <<>>, <<>> \o p, <<>>, <<>>))
    BY <1>1, <1>2, <2>1 DEF ReadsAs, s
  <2>. QED
    BY <1>3, <2>2
<1>5. Turn(c2) = c3
  BY DEF Turn, Conf
<1>6. Leads(c3, c4)
  <2>1. Leads(Conf("calculate", p \o <<>>, p, <<>>, <<>>), Conf("calculate", <<>>, p, <<>>, Append(<<>>, t)))
    BY <1>1, <1>2 DEF Computes
  <2>. QED
    BY <1>2, <1>3, <2>1
<1>7. Turn(c4) = Ended(p, t)
  BY DEF Turn, Conf, Ended
<1> HIDE DEF c1, c2, c3, c4
<1>8. Leads(c1, c3)
  BY <1>4, <1>5, LeadsOnce, LeadsOn
<1>9. Leads(c3, Ended(p, t))
  BY <1>6, <1>7, LeadsOnce, LeadsOn
<1>10. Leads(c1, Ended(p, t))
  BY <1>8, <1>9, LeadsOn
<1>. QED
  BY <1>10 DEF c1, s

\* The elements behind the first n.
Unread(s, n) == SubSeq(s, n + 1, Len(s))

\* The next element, and what is behind it.
LEMMA UnreadIs ==
  ASSUME NEW s \in Str, NEW n \in 0 .. Len(s)
  PROVE  /\ n = 0 => Unread(s, n) = s
         /\ n = Len(s) => Unread(s, n) = <<>>
         /\ n < Len(s) => /\ n + 1 \in 0 .. Len(s) /\ s[n + 1] \in Symbols /\ Unread(s, n) # <<>>
                          /\ Head(Unread(s, n)) = s[n + 1] /\ Tail(Unread(s, n)) = Unread(s, n + 1)
<1>0. Len(s) \in Nat
  BY LenProperties DEF Str
<1>1. n = 0 => Unread(s, n) = s
  BY SubSeqFull DEF Unread, Str
<1>2. n = Len(s) => Unread(s, n) = <<>>
  BY <1>0, SubSeqEmpty DEF Unread
<1>3. ASSUME n < Len(s)
      PROVE  /\ n + 1 \in 0 .. Len(s) /\ s[n + 1] \in Symbols /\ Unread(s, n) # <<>>
             /\ Head(Unread(s, n)) = s[n + 1] /\ Tail(Unread(s, n)) = Unread(s, n + 1)
  <2>1. n + 1 \in 1 .. Len(s) /\ Len(s) \in n + 1 .. Len(s) /\ n + 1 \in 0 .. Len(s)
    BY <1>0, <1>3
  <2>2. Head(SubSeq(s, n + 1, Len(s))) = s[n + 1] /\ Tail(SubSeq(s, n + 1, Len(s))) = SubSeq(s, (n + 1) + 1, Len(s))
    BY <2>1, HeadTailOfSubSeq DEF Str
  <2>3. s[n + 1] \in Symbols
    BY <2>1, ElementOfSeq DEF Str
  <2>4. Unread(s, n) # <<>>
    <3>1. \A i \in n + 1 .. Len(s) : s[i] \in Symbols
      BY <1>0, ElementOfSeq DEF Str
    <3>2. Len(Unread(s, n)) = Len(s) - (n + 1) + 1
      BY <2>1, <3>1, <1>0, SubSeqProperties DEF Unread
    <3>3. Len(Unread(s, n)) # 0
      BY <1>0, <1>3, <3>2
    <3>. QED
      BY <3>3
  <2>. QED
    BY <2>1, <2>2, <2>3, <2>4 DEF Unread
<1>. QED
  BY <1>1, <1>2, <1>3
ConfOf(elems, r) ==
  Conf(r.pc, IF r.pc = "set" THEN Unread(elems, r.n) ELSE Unread(r.exp, r.n), r.exp, r.ops, r.stk)

PolishShape(elems, r) ==
  /\ r = [pc |-> r.pc, n |-> r.n, exp |-> r.exp, ops |-> r.ops, stk |-> r.stk]
  /\ elems \in Str /\ r.exp \in Str /\ r.ops \in Str
  /\ \/ r.pc = "set" /\ r.n \in 0 .. Len(elems) /\ r.stk = <<>>
     \/ r.pc = "calculate" /\ r.n \in 0 .. Len(r.exp)
     \/ r.pc = "done" /\ r.n = Len(r.exp)

\* What remains to be done leads to the term.
PolishInv == job.prog = "polish" =>
  /\ PolishShape(job.elems, st)
  /\ \E p : Leads(ConfOf(job.elems, st), Ended(p, job.term))

\* From the start everything leads to the term.
LEMMA PolishInit == Init => PolishInv
<1> SUFFICES ASSUME Init, job.prog = "polish"
             PROVE  PolishShape(job.elems, st) /\ \E p : Leads(ConfOf(job.elems, st), Ended(p, job.term))
  BY DEF PolishInv
<1>1. PICK t \in Terms, all \in BOOLEAN : Calculate(t, all)
  BY OwnInputs
<1>2. /\ job.elems = Written(all)[t] /\ job.term = t
      /\ st = [pc |-> "set", n |-> 0, exp |-> <<>>, ops |-> <<>>, stk |-> <<>>]
  BY <1>1 DEF Calculate
<1>3. job.elems \in Str /\ <<>> \in Str /\ Len(job.elems) \in Nat
  BY <1>2, WrittenIs DEF Str
<1>4. PolishShape(job.elems, st)
  BY <1>2, <1>3 DEF PolishShape
<1>5. Unread(job.elems, 0) = job.elems
  BY <1>3, UnreadIs
<1>6. ConfOf(job.elems, st) = Conf("set", Written(all)[t], <<>>, <<>>, <<>>)
  BY <1>2, <1>5 DEF ConfOf
<1>. QED
  BY <1>2, <1>4, <1>6, TermsAreComputed

\* Every step is a turn.
LEMMA SetTurns ==
  ASSUME PolishShape(job.elems, st), Operand \/ PushOp \/ PopOp \/ CloseParen \/ SetDone
  PROVE  PolishShape(job.elems, st') /\ ConfOf(job.elems, st') = Turn(ConfOf(job.elems, st))
<1> DEFINE s == job.elems
           n == st.n
           rest == Unread(s, n)
<1>0. /\ st.pc = "set" /\ s \in Str /\ n \in 0 .. Len(s) /\ st.stk = <<>> /\ st.exp \in Str /\ st.ops \in Str
      /\ st = [pc |-> "set", n |-> n, exp |-> st.exp, ops |-> st.ops, stk |-> <<>>]
  BY DEF PolishShape, Operand, PushOp, PopOp, CloseParen, SetDone, AtElem, At
<1>1. /\ n = Len(s) => rest = <<>>
      /\ n < Len(s) => /\ n + 1 \in 0 .. Len(s) /\ Elem \in Symbols /\ rest # <<>>
                       /\ Head(rest) = Elem /\ Tail(rest) = Unread(s, n + 1)
  BY <1>0, UnreadIs DEF Elem
<1>2. ConfOf(s, st) = Conf("set", rest, st.exp, st.ops, <<>>)
  BY <1>0 DEF ConfOf
<1>3. AtElem => n < Len(s)
  BY DEF AtElem
<1>4. /\ <<>> \in Str
      /\ st.ops # <<>> => Top \in Symbols /\ Front(st.ops) \in Str /\ Last(st.ops) = Top
  <2>1. ASSUME st.ops # <<>> PROVE Top \in Symbols /\ Front(st.ops) \in Str
    <3>1. PICK o \in Str, e \in Symbols : st.ops = Append(o, e)
      BY <1>0, <2>1, SequenceEmptyOrAppend DEF Str
    <3>. QED
      BY <3>1, LastOfAppend DEF Top, Str
  <2>. QED
    BY <2>1 DEF Str, Top
<1>5. \A e \in Symbols : Append(st.exp, e) \in Str /\ Append(st.ops, e) \in Str
  BY <1>0, AppendProperties DEF Str
<1> DEFINE Goes(m, e, o) == [pc |-> "set", n |-> m, exp |-> e, ops |-> o, stk |-> <<>>]
<1>6. ASSUME NEW m \in 0 .. Len(s), NEW e \in Str, NEW o \in Str, st' = Goes(m, e, o)
      PROVE  PolishShape(s, st') /\ ConfOf(s, st') = Conf("set", Unread(s, m), e, o, <<>>)
  BY <1>0, <1>6 DEF PolishShape, ConfOf
<1>7. CASE Operand
  <2>1. st' = Goes(n + 1, Append(st.exp, Elem), st.ops) /\ IsNumber(Elem) /\ n < Len(s)
    BY <1>0, <1>3, <1>7 DEF Operand, Becomes
  <2> HIDE DEF s, n, rest, Goes
  <2>2. Turn(Conf("set", rest, st.exp, st.ops, <<>>)) = Conf("set", Unread(s, n + 1), Append(st.exp, Elem), st.ops, <<>>)
    BY <1>1, <2>1 DEF Turn, Conf
  <2>. QED
    BY <1>0, <1>1, <1>2, <1>5, <1>6, <2>1, <2>2 DEF s
<1>8. CASE PushOp
  <2>1. st' = Goes(n + 1, st.exp, Append(st.ops, Elem)) /\ Pushes(Elem, st.ops) /\ n < Len(s)
    BY <1>0, <1>3, <1>8 DEF PushOp, Becomes, Pushes, Top
  <2>2. ~IsNumber(Elem)
    BY <2>1, SymbolKinds DEF Pushes
  <2> HIDE DEF s, n, rest, Goes
  <2>3. Turn(Conf("set", rest, st.exp, st.ops, <<>>)) = Conf("set", Unread(s, n + 1), st.exp, Append(st.ops, Elem), <<>>)
    BY <1>1, <2>1, <2>2 DEF Turn, Conf
  <2>. QED
    BY <1>0, <1>1, <1>2, <1>5, <1>6, <2>1, <2>3 DEF s
<1>9. CASE PopOp
  <2>1. st' = Goes(n, Append(st.exp, Top), Front(st.ops)) /\ st.ops # <<>>
    BY <1>0, <1>9 DEF PopOp, Becomes
  <2>2. /\ Pops(rest, Top)
        /\ rest # <<>> => ~IsNumber(Head(rest)) /\ ~Pushes(Head(rest), st.ops)
    <3>1. CASE AtElem /\ Elem \in Additive /\ Top \in Multiplicative
      BY <1>1, <1>3, <2>1, <3>1, SymbolKinds DEF Pops, Pushes, Top, Operators
    <3>2. CASE AtElem /\ Elem = ")" /\ Top # "("
      BY <1>1, <1>3, <2>1, <3>2, SymbolKinds DEF Pops, Pushes
    <3>3. CASE n = Len(s)
      BY <1>1, <3>3 DEF Pops
    <3>. QED
      BY <1>9, <3>1, <3>2, <3>3 DEF PopOp
  <2> HIDE DEF s, n, rest, Goes
  <2>3. Turn(Conf("set", rest, st.exp, st.ops, <<>>)) = Conf("set", rest, Append(st.exp, Top), Front(st.ops), <<>>)
    BY <1>4, <2>1, <2>2 DEF Turn, Conf
  <2>. QED
    BY <1>0, <1>2, <1>4, <1>5, <1>6, <2>1, <2>3 DEF s, rest
<1>10. CASE CloseParen
  <2>1. st' = Goes(n + 1, st.exp, Front(st.ops)) /\ st.ops # <<>> /\ Elem = ")" /\ Top = "(" /\ n < Len(s)
    BY <1>0, <1>3, <1>10 DEF CloseParen, Becomes
  <2>2. /\ rest # <<>> /\ Head(rest) = ")" /\ ~IsNumber(Head(rest)) /\ ~Pushes(Head(rest), st.ops)
        /\ ~Pops(rest, Last(st.ops))
    <3>1. ")" \notin Operators \union {"("} /\ ")" \notin Additive
      BY DEF Operators, Additive, Multiplicative
    <3>. QED
      BY <1>1, <1>4, <2>1, <3>1, SymbolKinds DEF Pops, Pushes
  <2> HIDE DEF s, n, rest, Goes
  <2>3. Turn(Conf("set", rest, st.exp, st.ops, <<>>)) = Conf("set", Unread(s, n + 1), st.exp, Front(st.ops), <<>>)
    BY <1>1, <2>1, <2>2 DEF Turn, Conf
  <2>. QED
    BY <1>0, <1>1, <1>2, <1>4, <1>6, <2>1, <2>3 DEF s
<1>11. CASE SetDone
  <2>1. st' = [pc |-> "calculate", n |-> 0, exp |-> st.exp, ops |-> <<>>, stk |-> <<>>] /\ st.ops = <<>> /\ n = Len(s)
    BY <1>0, <1>11 DEF SetDone, Becomes
  <2>2. Unread(st.exp, 0) = st.exp /\ Len(st.exp) \in Nat
    <3>1. Len(st.exp) \in Nat
      BY <1>0, LenProperties DEF Str
    <3>2. 0 \in 0 .. Len(st.exp)
      BY <3>1
    <3>. QED
      BY <1>0, <3>1, <3>2, UnreadIs
  <2>3. PolishShape(s, st') /\ ConfOf(s, st') = Conf("calculate", st.exp, st.exp, <<>>, <<>>)
    BY <1>0, <1>4, <2>1, <2>2 DEF PolishShape, ConfOf
  <2> HIDE DEF s, n, rest
  <2>4. Turn(Conf("set", rest, st.exp, st.ops, <<>>)) = Conf("calculate", st.exp, st.exp, <<>>, <<>>)
    BY <1>1, <2>1 DEF Turn, Conf
  <2>. QED
    BY <1>2, <2>3, <2>4 DEF s
<1>. QED
  BY <1>7, <1>8, <1>9, <1>10, <1>11

\* The same of calculate.
LEMMA CalculateTurns ==
  ASSUME PolishShape(job.elems, st), PushNumber \/ Apply \/ Calculated
  PROVE  PolishShape(job.elems, st') /\ ConfOf(job.elems, st') = Turn(ConfOf(job.elems, st))
<1> DEFINE s == st.exp
           n == st.n
           e == s[n + 1]
           rest == Unread(s, n)
<1>0. /\ st.pc = "calculate" /\ job.elems \in Str /\ n \in 0 .. Len(s) /\ s \in Str /\ st.ops \in Str
      /\ st = [pc |-> "calculate", n |-> n, exp |-> s, ops |-> st.ops, stk |-> st.stk]
  BY DEF PolishShape, PushNumber, Apply, Calculated, AtPostfix, At
<1>1. /\ n = Len(s) => rest = <<>>
      /\ n < Len(s) => /\ n + 1 \in 0 .. Len(s) /\ rest # <<>>
                       /\ Head(rest) = e /\ Tail(rest) = Unread(s, n + 1)
  BY <1>0, UnreadIs
<1>2. ConfOf(job.elems, st) = Conf("calculate", rest, s, st.ops, st.stk)
  BY <1>0 DEF ConfOf
<1>3. AtPostfix => n < Len(s)
  BY DEF AtPostfix
<1> DEFINE Goes(pc, m, k) == [pc |-> pc, n |-> m, exp |-> s, ops |-> st.ops, stk |-> k]
<1>4. ASSUME NEW m \in 0 .. Len(s), NEW k, st' = Goes("calculate", m, k)
      PROVE  PolishShape(job.elems, st') /\ ConfOf(job.elems, st') = Conf("calculate", Unread(s, m), s, st.ops, k)
  BY <1>0, <1>4 DEF PolishShape, ConfOf
<1>5. CASE PushNumber
  <2>1. st' = Goes("calculate", n + 1, Append(st.stk, Const(e))) /\ IsNumber(e) /\ n < Len(s)
    BY <1>0, <1>3, <1>5 DEF PushNumber, Becomes
  <2> HIDE DEF s, n, e, rest, Goes
  <2>2. Turn(Conf("calculate", rest, s, st.ops, st.stk)) = Conf("calculate", Unread(s, n + 1), s, st.ops, Append(st.stk, Const(e)))
    BY <1>1, <2>1 DEF Turn, Conf
  <2>. QED
    BY <1>1, <1>2, <1>4, <2>1, <2>2
<1>6. CASE Apply
  <2> DEFINE k == Append(SubSeq(st.stk, 1, Len(st.stk) - 2), Term(e, st.stk[Len(st.stk) - 1], st.stk[Len(st.stk)]))
  <2>1. st' = Goes("calculate", n + 1, k) /\ ~IsNumber(e) /\ n < Len(s)
    BY <1>0, <1>3, <1>6 DEF Apply, Becomes
  <2> HIDE DEF s, n, e, rest, Goes
  <2>2. Turn(Conf("calculate", rest, s, st.ops, st.stk)) = Conf("calculate", Unread(s, n + 1), s, st.ops, k)
    BY <1>1, <2>1 DEF Turn, Conf
  <2>. QED
    BY <1>1, <1>2, <1>4, <2>1, <2>2
<1>7. CASE Calculated
  <2>1. st' = Goes("done", n, st.stk) /\ n = Len(s)
    BY <1>0, <1>7 DEF Calculated, Becomes
  <2>2. PolishShape(job.elems, st') /\ ConfOf(job.elems, st') = Conf("done", rest, s, st.ops, st.stk)
    BY <1>0, <2>1 DEF PolishShape, ConfOf
  <2> HIDE DEF s, n, rest
  <2>3. Turn(Conf("calculate", rest, s, st.ops, st.stk)) = Conf("done", rest, s, st.ops, st.stk)
    BY <1>1, <2>1 DEF Turn, Conf
  <2>. QED
    BY <1>2, <2>2, <2>3
<1>. QED
  BY <1>5, <1>6, <1>7

\* What led to the term before a turn leads there after it.
LEMMA PolishNextKeeps == PolishInv /\ [Next]_programVars => PolishInv'
<1> SUFFICES ASSUME PolishInv, [Next]_programVars, job'.prog = "polish"
             PROVE  /\ PolishShape(job'.elems, st')
                    /\ \E p : Leads(ConfOf(job'.elems, st'), Ended(p, job'.term))
  BY DEF PolishInv
<1>1. CASE UNCHANGED programVars
  BY <1>1 DEF programVars, PolishInv
<1>2. CASE Next
  <2>1. job' = job /\ PolishNext
    BY <1>2, OwnSteps DEF Next
  <2>2. PolishShape(job.elems, st) /\ \E p : Leads(ConfOf(job.elems, st), Ended(p, job.term))
    BY <2>1 DEF PolishInv
  <2>3. st.pc # "done"
    BY <2>1 DEF PolishNext, Operand, PushOp, PopOp, CloseParen, SetDone, PushNumber, Apply, Calculated,
                AtElem, AtPostfix, At
  <2>4. PolishShape(job.elems, st') /\ ConfOf(job.elems, st') = Turn(ConfOf(job.elems, st))
    BY <2>1, <2>2, SetTurns, CalculateTurns DEF PolishNext
  <2>5. PICK p : Leads(ConfOf(job.elems, st), Ended(p, job.term))
    BY <2>2
  <2>6. ConfOf(job.elems, st) # Ended(p, job.term)
    BY <2>3 DEF ConfOf, Conf, Ended
  <2>7. Leads(ConfOf(job.elems, st'), Ended(p, job.term))
    BY <2>4, <2>5, <2>6, LeadsPast
  <2>. QED
    BY <2>1, <2>4, <2>7
<1>. QED
  BY <1>1, <1>2

\* Of any depth, with few or all parentheses: an expression is computed as it is written, if
\* operators of one precedence associate to the right.
THEOREM ExpressionsAreRead == Spec => []ReadsBackTerm
<1>1. PolishInv => ReadsBackTerm
  <2> SUFFICES ASSUME PolishInv, At("polish", "done") PROVE Last(st.stk) = job.term
    BY DEF ReadsBackTerm
  <2> DEFINE c == ConfOf(job.elems, st)
  <2>1. PICK p : Leads(c, Ended(p, job.term))
    BY DEF PolishInv, At
  <2>2. c.pc = "done" /\ c.stk = st.stk /\ Turn(c) = c
    BY DEF At, ConfOf, Conf, Turn
  <2> HIDE DEF c
  <2>3. c = Ended(p, job.term)
    BY <2>1, <2>2, LeadsHome
  <2>4. st.stk = <<job.term>>
    BY <2>2, <2>3 DEF Ended, Conf
  <2>. QED
    BY <2>4 DEF Last
<1>. QED
  BY <1>1, PolishInit, PolishNextKeeps, PTL DEF Spec
================================================================================
