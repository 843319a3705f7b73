------------------------------- MODULE Programs -------------------------------
(***************************************************************************)
(* The loading of models by proxy and single-node backend, and the small  *)
(* programs of the repository, each run once on an input: a behaviour     *)
(* picks a program and an input and takes its steps.                       *)
(***************************************************************************)
EXTENDS ModelLoading, KvNode, KMP, Qsort, StringMultiplication, MergeSortedLists,
        ReversePolishExpression, SimpleRexMatch

Init ==
  \/ \E files \in TextFileLists, load \in Loads : LoadModel(files, load)
  \/ \E node \in Directories, keys \in KeyStrings : LoadAndGet(node, keys)
  \/ \E src \in Texts, ptn \in Patterns : Search(src, ptn)
  \/ \E list \in Arrays : SortArray(list)
  \/ \E s1, s2 \in Decimals : Multiply(s1, s2)
  \/ \E l1, l2 \in SortedLists : MergeLists(l1, l2)
  \/ \E t \in Terms, all \in BOOLEAN : Calculate(t, all)
  \/ \E ptn \in Rexes, src \in Words : IsMatched(ptn, src)

Next == \/ LoadNext \/ NodeNext \/ KMPNext \/ QsortNext \/ MultiplyNext \/ MergeNext
        \/ PolishNext \/ RexNext

Spec == Init /\ [][Next]_programVars
===============================================================================
