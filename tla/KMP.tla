--------------------------------- MODULE KMP ---------------------------------
(***************************************************************************)
(* KMP/main.cpp: the search for a pattern with a table of its borders.    *)
(* Texts are sequences; positions are those of the code, from 0.          *)
(***************************************************************************)
EXTENDS Integers, Sequences, ProgramRun

CONSTANTS Alphabet, Texts, Patterns

ASSUME TextAssumption == Texts \subseteq Seq(Alphabet) /\ Patterns \subseteq Seq(Alphabet)

CharAt(text, i) == text[i + 1]

Search(src, ptn) ==
  /\ job = [prog |-> "kmp", src |-> src, ptn |-> ptn]
  /\ st = [pc |-> "call", i |-> 0, j |-> 0, next |-> <<>>, found |-> -1]

Found(p) == Becomes([st EXCEPT !.found = p, !.pc = "done"])

\* The early returns of KMP.
EmptyPattern == At("kmp", "call") /\ job.ptn = <<>> /\ Found(0)
ShortText    == At("kmp", "call") /\ Len(job.src) < Len(job.ptn) /\ Found(-1)

\* getNext, which makes a vector of as many cells as the pattern has characters.
GetNext ==
  /\ At("kmp", "call") /\ job.ptn # <<>> /\ Len(job.src) >= Len(job.ptn)
  /\ Becomes([st EXCEPT !.i = -1, !.j = 0, !.pc = "fill",
                        !.next = [k \in 0 .. Len(job.ptn) - 1 |-> IF k = 0 THEN -1 ELSE 0]])

Filling   == At("kmp", "fill") /\ st.j < Len(job.ptn)
Continued == st.i # -1 => CharAt(job.ptn, st.i) = CharAt(job.ptn, st.j)

Fill == /\ Filling /\ Continued /\ st.j + 1 < Len(job.ptn)
        /\ Becomes([st EXCEPT !.i = @ + 1, !.j = @ + 1, !.next[st.j + 1] = st.i + 1])

\* The last turn writes next[len], one cell past the vector, which is undefined: either
\* nobody uses the memory there, or nothing can be said of the run any more.
FillBehind ==
  /\ Filling /\ Continued /\ st.j + 1 = Len(job.ptn)
  /\ \/ Becomes([st EXCEPT !.i = @ + 1, !.j = @ + 1])
     \/ Becomes([st EXCEPT !.pc = "undefined"])

\* Mutant: after a mismatch the next candidate is the empty border.
FallBack_ToStart == Filling /\ ~Continued /\ Becomes([st EXCEPT !.i = -1])

FallBack == Filling /\ ~Continued /\ Becomes([st EXCEPT !.i = st.next[st.i]])

Filled == At("kmp", "fill") /\ st.j >= Len(job.ptn)
            /\ Becomes([st EXCEPT !.i = 0, !.j = 0, !.pc = "scan"])

Scan ==
  /\ At("kmp", "scan") /\ st.i < Len(job.ptn) /\ st.j < Len(job.src)
  /\ IF st.i = -1 \/ CharAt(job.ptn, st.i) = CharAt(job.src, st.j)
     THEN Becomes([st EXCEPT !.i = @ + 1, !.j = @ + 1])
     ELSE Becomes([st EXCEPT !.i = st.next[st.i]])

Scanned ==
  /\ At("kmp", "scan") /\ (st.i >= Len(job.ptn) \/ st.j >= Len(job.src))
  /\ Found(IF st.i = Len(job.ptn) THEN st.j - Len(job.ptn) ELSE -1)

KMPNext ==
  \/ EmptyPattern \/ ShortText
  \/ GetNext \/ Fill \/ FillBehind \/ FallBack \/ Filled
  \/ Scan \/ Scanned

-------------------------------------------------------------------------------
(* Properties                                                               *)

OccursAt(src, ptn, p) == p + Len(ptn) <= Len(src) /\ SubSeq(src, p + 1, p + Len(ptn)) = ptn

\* b is the length of the longest proper border of the first j characters.
IsBorder(ptn, j, b)      == b \in 0 .. j - 1 /\ SubSeq(ptn, 1, b) = SubSeq(ptn, j - b + 1, j)
LongestBorder(ptn, j, b) == IsBorder(ptn, j, b) /\ \A c \in 0 .. j - 1 : IsBorder(ptn, j, c) => c <= b

\* As long as the one write past the vector, which every search with a table makes, does
\* no harm, KMP finds the first occurrence or says that there is none: entry j of the
\* table is the longest border of the first j characters, whatever chain of fallbacks made
\* it, and no other access leaves the vector, the cell behind it is never read.
KmpFindsFirst ==
  /\ At("kmp", "done") =>
       LET found == {p \in 0 .. Len(job.src) : OccursAt(job.src, job.ptn, p)}
       IN  IF found = {} THEN st.found = -1
           ELSE st.found \in found /\ \A p \in found : st.found <= p
  /\ At("kmp", "scan") \/ At("kmp", "undefined") =>
       \A j \in 1 .. Len(job.ptn) - 1 : LongestBorder(job.ptn, j, st.next[j])
  /\ At("kmp", "fill") => st.i \in DOMAIN st.next \union {-1}
  /\ At("kmp", "scan") => st.i \in DOMAIN st.next \union {-1, Len(job.ptn)}
  /\ At("kmp", "undefined") => st.j = Len(job.ptn) - 1
===============================================================================
