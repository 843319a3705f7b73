-------------------------------- MODULE Qsort --------------------------------
(***************************************************************************)
(* qsort/main.cpp: three-way partition around the greater of the middle   *)
(* and the last element (the "median" reads the last one twice).  Arrays  *)
(* are functions from 0.  The calls that are still to be made are a stack. *)
(***************************************************************************)
EXTENDS Integers, Sequences, FiniteSets, ProgramRun

CONSTANT Arrays   \* what is in them, as sequences

ASSUME ArrayAssumption == Arrays \subseteq Seq(Int)

Swapped(nums, i, j) == [nums EXCEPT ![i] = nums[j], ![j] = nums[i]]

MaxOf(a, b) == IF a > b THEN a ELSE b
MinOf(a, b) == IF a < b THEN a ELSE b

PivotOf(nums, s, e) ==
  LET a == nums[e]  b == nums[(e + s) \div 2]  c == nums[e]
  IN  MinOf(MaxOf(a, b), MaxOf(b, c))

Call(s, e) == [s |-> s, e |-> e]

SortArray(list) ==
  LET nums == [i \in 0 .. Len(list) - 1 |-> list[i + 1]] IN
  /\ job = [prog |-> "qsort", nums |-> nums]
  /\ st = [pc |-> "call", nums |-> nums, calls |-> <<Call(0, Len(list) - 1)>>,
           pivot |-> 0, i |-> 0, j |-> 0, k |-> 0]

\* The call that runs.
Cur == Head(st.calls)

\* A range of at most one element, or of two.
SortFew ==
  /\ At("qsort", "call") /\ st.calls # <<>> /\ Cur.s + 1 >= Cur.e
  /\ Becomes([st EXCEPT !.calls = Tail(@),
       !.nums = IF Cur.s + 1 = Cur.e /\ @[Cur.s] > @[Cur.e] THEN Swapped(@, Cur.s, Cur.e) ELSE @])

ChoosePivot ==
  /\ At("qsort", "call") /\ st.calls # <<>> /\ Cur.s + 1 < Cur.e
  /\ Becomes([st EXCEPT !.pivot = PivotOf(st.nums, Cur.s, Cur.e),
                        !.i = Cur.s, !.j = Cur.s, !.k = Cur.e, !.pc = "partition"])

PartitionLess ==
  /\ At("qsort", "partition") /\ st.j <= st.k /\ st.nums[st.j] < st.pivot
  /\ Becomes([st EXCEPT !.nums = Swapped(@, st.i, st.j), !.i = @ + 1, !.j = @ + 1])

\* Mutant: the element that comes from the end is taken for a small or equal one.
PartitionGreater_Skips ==
  /\ At("qsort", "partition") /\ st.j <= st.k /\ st.nums[st.j] > st.pivot
  /\ Becomes([st EXCEPT !.nums = Swapped(@, st.j, st.k), !.j = @ + 1, !.k = @ - 1])

PartitionGreater ==
  /\ At("qsort", "partition") /\ st.j <= st.k /\ st.nums[st.j] > st.pivot
  /\ Becomes([st EXCEPT !.nums = Swapped(@, st.j, st.k), !.k = @ - 1])

PartitionEqual ==
  /\ At("qsort", "partition") /\ st.j <= st.k /\ st.nums[st.j] = st.pivot
  /\ Becomes([st EXCEPT !.j = @ + 1])

\* The two calls at the end.
SortParts ==
  /\ At("qsort", "partition") /\ st.j > st.k
  /\ Becomes([st EXCEPT !.calls = <<Call(Cur.s, st.i - 1), Call(st.k + 1, Cur.e)>> \o Tail(@),
                        !.pc = "call"])

QsortReturns == At("qsort", "call") /\ st.calls = <<>> /\ Becomes([st EXCEPT !.pc = "done"])

QsortNext == \/ SortFew \/ ChoosePivot \/ PartitionLess \/ PartitionGreater \/ PartitionEqual
             \/ SortParts \/ QsortReturns

-------------------------------------------------------------------------------
(* Properties                                                               *)

\* qsort leaves the same elements, each as often as before, in ascending order; and while
\* it partitions a range, the pivot stays in the part that neither call at the end gets,
\* so that both are of fewer elements and the recursion ends.
QsortSorts ==
  /\ At("qsort", "done") =>
       /\ DOMAIN st.nums = DOMAIN job.nums
       /\ \A i, j \in DOMAIN st.nums : i < j => st.nums[i] <= st.nums[j]
       /\ \A n \in {st.nums[i] : i \in DOMAIN st.nums} :
            Cardinality({i \in DOMAIN st.nums : st.nums[i] = n})
              = Cardinality({i \in DOMAIN st.nums : job.nums[i] = n})
  /\ At("qsort", "partition") => \E m \in st.i .. st.k : st.nums[m] = st.pivot
===============================================================================
