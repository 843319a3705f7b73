--------------------------- MODULE MergeSortedLists ---------------------------
(***************************************************************************)
(* mergeSortedLists/main.cpp: two sorted linked lists are merged by       *)
(* relinking their nodes.  Nodes are numbers, those of the first list     *)
(* before those of the second; next maps nodes to nodes; Nil is nullptr.  *)
(***************************************************************************)
EXTENDS Integers, Sequences, ProgramRun

CONSTANT SortedLists   \* what the nodes hold

ASSUME ListAssumption ==
  SortedLists \subseteq Seq(Int) /\ \A l \in SortedLists : \A i \in 1 .. Len(l) - 1 : l[i] <= l[i + 1]

Nil   == 0
Dummy == -1   \* the node on the stack

\* constructList for both lists: the nodes 1 .. n1 and n1 + 1 .. n.
Links(n1, n) == [m \in {Dummy} \union (1 .. n) |-> IF m \in {Dummy, n1, n} THEN Nil ELSE m + 1]
HeadOf(first, last) == IF first <= last THEN first ELSE Nil

MergeLists(l1, l2) ==
  LET n1 == Len(l1)  n == Len(l1) + Len(l2) IN
  /\ job = [prog |-> "merge", data |-> l1 \o l2, n1 |-> n1]
  /\ st = [pc |-> "call", next |-> Links(n1, n), h1 |-> HeadOf(1, n1), h2 |-> HeadOf(n1 + 1, n),
           tail |-> Dummy, h |-> Nil, walk |-> <<>>]

\* The list that is not empty is returned as it is.
OneIsEmpty ==
  /\ At("merge", "call") /\ Nil \in {st.h1, st.h2}
  /\ Becomes([st EXCEPT !.h = IF st.h1 = Nil THEN st.h2 ELSE st.h1, !.pc = "walk"])

BothHaveNodes ==
  At("merge", "call") /\ Nil \notin {st.h1, st.h2} /\ Becomes([st EXCEPT !.pc = "loop"])

\* A round takes the lesser head, or that of the second list.
TakeFirst ==
  /\ At("merge", "loop") /\ Nil \notin {st.h1, st.h2}
  /\ job.data[st.h1] < job.data[st.h2]
  /\ Becomes([st EXCEPT !.next[st.tail] = st.h1, !.tail = st.h1, !.h1 = st.next[st.h1]])

TakeSecond ==
  /\ At("merge", "loop") /\ Nil \notin {st.h1, st.h2}
  /\ job.data[st.h1] >= job.data[st.h2]
  /\ Becomes([st EXCEPT !.next[st.tail] = st.h2, !.tail = st.h2, !.h2 = st.next[st.h2]])

\* Mutant: when the first list is used up, the second is not linked.
LinkRest_DropsIt ==
  /\ At("merge", "loop") /\ Nil \in {st.h1, st.h2}
  /\ LET links == [st.next EXCEPT ![st.tail] = st.h1] IN
     Becomes([st EXCEPT !.next = links, !.h = links[Dummy], !.pc = "walk"])

\* One list is used up, and the other becomes the rest.
LinkRest ==
  /\ At("merge", "loop") /\ Nil \in {st.h1, st.h2}
  /\ LET links == [st.next EXCEPT ![st.tail] = IF st.h1 = Nil THEN st.h2 ELSE st.h1] IN
     Becomes([st EXCEPT !.next = links, !.h = links[Dummy], !.pc = "walk"])

\* orderTest and printList follow the links of the result.
WalkOn == /\ At("merge", "walk") /\ st.h # Nil
          /\ Becomes([st EXCEPT !.walk = Append(@, st.h), !.h = st.next[st.h]])
WalkEnds == At("merge", "walk") /\ st.h = Nil /\ Becomes([st EXCEPT !.pc = "done"])

MergeNext == \/ OneIsEmpty \/ BothHaveNodes \/ TakeFirst \/ TakeSecond \/ LinkRest
             \/ WalkOn \/ WalkEnds

-------------------------------------------------------------------------------
(* Properties                                                               *)

\* The order of the result: data ascend, nodes of one list keep their order, and for
\* equal data those of the second list come first.
Before(m, n) ==
  LET dm == job.data[m]  dn == job.data[n]  first == 1 .. job.n1 IN
  \/ dm < dn
  \/ dm = dn /\ (m \in first <=> n \in first) /\ m < n
  \/ dm = dn /\ m \notin first /\ n \in first

\* Every node of both lists is in the merged one, once and in its place.
MergesAllNodes == At("merge", "done") =>
  /\ {st.walk[i] : i \in DOMAIN st.walk} = DOMAIN job.data
  /\ \A i, j \in DOMAIN st.walk : i < j => Before(st.walk[i], st.walk[j])
===============================================================================
