------------------------- MODULE StringMultiplication -------------------------
(***************************************************************************)
(* StringMultiplication/main.cpp: the product of two decimal strings,     *)
(* here sequences of digits.  proInt is a function from 0, as in the code. *)
(***************************************************************************)
EXTENDS Integers, Sequences, ProgramRun

CONSTANT Decimals

\* As to_string writes a number.
Plain(digits) == digits \in Seq(0 .. 9) /\ digits # <<>> /\ (digits[1] = 0 => Len(digits) = 1)

ASSUME DecimalAssumption == \A s \in Decimals : s = <<>> \/ Plain(s)

Multiply(s1, s2) ==
  LET n == Len(s1) + Len(s2) IN
  /\ job = [prog |-> "multiply", s1 |-> s1, s2 |-> s2]
  /\ st = [pc |-> "call", i |-> Len(s1) - 1, j |-> Len(s2) - 1, c |-> 0,
           proInt |-> [k \in 0 .. n - 1 |-> 0], ret |-> <<>>]

IsZero == <<>> \notin {job.s1, job.s2} => 0 \in {job.s1[1], job.s2[1]}

ReturnZero == At("multiply", "call") /\ IsZero /\ Becomes([st EXCEPT !.ret = <<0>>, !.pc = "done"])
StartRows  == At("multiply", "call") /\ ~IsZero /\ Becomes([st EXCEPT !.pc = "row"])

\* A turn of the loop over j, with its carry.
MultiplyDigit ==
  LET product == st.proInt[st.i + st.j + 1] + job.s1[st.i + 1] * job.s2[st.j + 1] + st.c IN
  /\ At("multiply", "row") /\ st.i >= 0 /\ st.j >= 0
  /\ Becomes([st EXCEPT !.proInt[st.i + st.j + 1] = product % 10, !.c = product \div 10, !.j = @ - 1])

\* Mutant: the carry of a row is dropped.
EndRow_DropsCarry ==
  /\ At("multiply", "row") /\ st.i >= 0 /\ st.j < 0
  /\ Becomes([st EXCEPT !.c = 0, !.i = @ - 1, !.j = Len(job.s2) - 1])

\* The last carry goes to the cell before the row, and the next row starts.
EndRow ==
  /\ At("multiply", "row") /\ st.i >= 0 /\ st.j < 0
  /\ Becomes([st EXCEPT !.proInt[st.i] = st.c, !.c = 0, !.i = @ - 1, !.j = Len(job.s2) - 1])

\* A zero in front is not written.
ReturnProduct ==
  LET n == Len(job.s1) + Len(job.s2)
      s == IF st.proInt[0] # 0 THEN 0 ELSE 1
  IN  /\ At("multiply", "row") /\ st.i < 0
      /\ Becomes([st EXCEPT !.ret = [k \in 1 .. n - s |-> st.proInt[s + k - 1]], !.pc = "done"])

MultiplyNext == ReturnZero \/ StartRows \/ MultiplyDigit \/ EndRow \/ ReturnProduct

-------------------------------------------------------------------------------
(* Properties                                                               *)

\* What the first n digits stand for.
NumberOf(digits) ==
  LET upTo[n \in 0 .. Len(digits)] == IF n = 0 THEN 0 ELSE 10 * upTo[n - 1] + digits[n]
  IN  upTo
Number(digits) == NumberOf(digits)[Len(digits)]

\* The digits of the product, and no zero before them, with every carry.
MultipliesDecimals ==
  At("multiply", "done") => Plain(st.ret) /\ Number(st.ret) = Number(job.s1) * Number(job.s2)
===============================================================================
