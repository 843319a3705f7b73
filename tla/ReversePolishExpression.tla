----------------------- MODULE ReversePolishExpression ------------------------
(***************************************************************************)
(* ReversePolishExpression/main.cpp: set_exp turns an expression into     *)
(* postfix with a stack of operators, calculate evaluates it.  The        *)
(* elements of the expression are numbers and the characters; arithmetic  *)
(* is left uninterpreted, so the value of an expression is the term that  *)
(* says how it was computed.                                              *)
(***************************************************************************)
EXTENDS Integers, Sequences, SequencesExt, ProgramRun

CONSTANTS Numbers,   \* as they are written
          Depth      \* bound: how deep the operators of an expression are nested

Additive       == {"+", "-"}
Multiplicative == {"*", "/"}
Operators      == Additive \union Multiplicative

ASSUME PolishAssumption == Numbers \intersect (Operators \union {"(", ")"}) = {} /\ Depth \in Nat

Const(text)  == [tag |-> "const", text |-> text, args |-> <<>>]
Term(op, l, r) == [tag |-> "term", text |-> op, args |-> <<l, r>>]

\* What is written as expressions.
TermsUpTo[d \in 0 .. Depth] ==
  IF d = 0 THEN {Const(text) : text \in Numbers}
  ELSE TermsUpTo[d - 1] \union {Term(op, l, r) : op \in Operators, l, r \in TermsUpTo[d - 1]}
Terms == TermsUpTo[Depth]

\* How a term is written: with as few parentheses as operators that associate to the right
\* need, or with all.
Binds(op) == IF op \in Multiplicative THEN 2 ELSE 1
Strength(t) == IF t.tag = "const" THEN 3 ELSE Binds(t.text)
Parens(elems, needed) == IF needed THEN <<"(">> \o elems \o <<")">> ELSE elems
Written(all) ==
  LET as[t \in Terms] ==
        IF t.tag = "const" THEN <<t.text>>
        ELSE LET l == t.args[1]  r == t.args[2] IN
             Parens(as[l], all \/ Strength(l) <= Binds(t.text))
               \o <<t.text>>
               \o Parens(as[r], all \/ Strength(r) < Binds(t.text))
  IN  as

\* exp: _exp_stk; ops: the stack of operators, top at the end; n: elements done; stk: res_stk.
Calculate(t, all) ==
  /\ job = [prog |-> "polish", elems |-> Written(all)[t], term |-> t]
  /\ st = [pc |-> "set", n |-> 0, exp |-> <<>>, ops |-> <<>>, stk |-> <<>>]

AtElem == At("polish", "set") /\ st.n < Len(job.elems)
Elem   == job.elems[st.n + 1]
Top    == Last(st.ops)

IsNumber(elem) == elem \notin Operators \union {"(", ")"}

Operand == AtElem /\ IsNumber(Elem) /\ Becomes([st EXCEPT !.exp = Append(@, Elem), !.n = @ + 1])

\* Mutant: an addition does not wait for the products before it.
PushOp_NoPrecedence ==
  /\ AtElem /\ Elem \in Operators \union {"("}
  /\ Becomes([st EXCEPT !.ops = Append(@, Elem), !.n = @ + 1])

PushOp ==
  /\ AtElem /\ Elem \in Operators \union {"("}
  /\ Elem \in Additive /\ st.ops # <<>> => Top \notin Multiplicative
  /\ Becomes([st EXCEPT !.ops = Append(@, Elem), !.n = @ + 1])

\* An operator goes to the postfix expression when a weaker one, the parenthesis around
\* it or the end has come.
PopOp ==
  /\ At("polish", "set") /\ st.ops # <<>>
  /\ \/ AtElem /\ Elem \in Additive /\ Top \in Multiplicative
     \/ AtElem /\ Elem = ")" /\ Top # "("
     \/ st.n = Len(job.elems)
  /\ Becomes([st EXCEPT !.exp = Append(@, Top), !.ops = Front(@)])

CloseParen ==
  /\ AtElem /\ Elem = ")" /\ st.ops # <<>> /\ Top = "("
  /\ Becomes([st EXCEPT !.ops = Front(@), !.n = @ + 1])

SetDone ==
  /\ At("polish", "set") /\ st.n = Len(job.elems) /\ st.ops = <<>>
  /\ Becomes([st EXCEPT !.n = 0, !.pc = "calculate"])

AtPostfix == At("polish", "calculate") /\ st.n < Len(st.exp)

PushNumber ==
  /\ AtPostfix /\ IsNumber(st.exp[st.n + 1])
  /\ Becomes([st EXCEPT !.stk = Append(@, Const(st.exp[st.n + 1])), !.n = @ + 1])

Apply ==
  LET k == Len(st.stk) IN
  /\ AtPostfix /\ ~IsNumber(st.exp[st.n + 1])
  /\ Becomes([st EXCEPT
       !.stk = Append(SubSeq(@, 1, k - 2), Term(st.exp[st.n + 1], @[k - 1], @[k])), !.n = @ + 1])

Calculated ==
  At("polish", "calculate") /\ st.n = Len(st.exp) /\ Becomes([st EXCEPT !.pc = "done"])

PolishNext == \/ Operand \/ PushOp \/ PopOp \/ CloseParen \/ SetDone
              \/ PushNumber \/ Apply \/ Calculated

-------------------------------------------------------------------------------
(* Properties                                                               *)

\* An expression is computed as it is written, if operators of one precedence associate
\* to the right: postfix, its evaluation and the stack of operators lose and swap nothing.
ReadsBackTerm == At("polish", "done") => Last(st.stk) = job.term
===============================================================================
