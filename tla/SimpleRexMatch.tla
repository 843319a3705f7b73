---------------------------- MODULE SimpleRexMatch ----------------------------
(***************************************************************************)
(* SimpleRexMatch/Source.cpp: a pattern of characters, "." and "x*" is    *)
(* compiled to an automaton, which is run with two lists of states.       *)
(* last_list of a state says in which list it is: it saves a search.      *)
(***************************************************************************)
EXTENDS Integers, Sequences, ProgramRun

CONSTANTS RexChars, Rexes, Words

Split == "split"
Final == "final"   \* the state that nothing leads out of

ASSUME RexAssumption == /\ Rexes \subseteq Seq(RexChars) /\ Words \subseteq Seq(RexChars)
                        /\ Split \notin RexChars /\ Final \notin RexChars

State(c, out) == [c |-> c, out |-> out, out1 |-> -1, last_list |-> -1]

\* Links state number s to the next one to be made.
Connect(states, s, to) ==
  IF s = -1 THEN states
  ELSE IF states[s + 1].c = Split THEN [states EXCEPT ![s + 1].out1 = to]
  ELSE [states EXCEPT ![s + 1].out = to]

\* i: characters compiled; last: last_state; pos: characters of src done; n: place in the
\* current list; add: the state to be added to list to.
IsMatched(ptn, src) ==
  /\ job = [prog |-> "rex", ptn |-> ptn, src |-> src]
  /\ st = [pc |-> "compile", i |-> 0, states |-> <<>>, last |-> -1,
           lists |-> [l \in {0, 1} |-> <<>>], clist |-> 0, pos |-> 0, n |-> 0, add |-> -1, to |-> 0,
           matched |-> FALSE]

Size    == Len(st.states)
Starred == st.i + 1 < Len(job.ptn) /\ job.ptn[st.i + 2] = "*"

CompileStar ==
  /\ At("rex", "compile") /\ Starred
  /\ Becomes([st EXCEPT
       !.states = Connect(@ \o <<State(Split, Size + 1), State(job.ptn[st.i + 1], Size)>>, st.last, Size),
       !.last = Size, !.i = @ + 2])

CompileChar ==
  /\ At("rex", "compile") /\ st.i < Len(job.ptn) /\ ~Starred
  /\ Becomes([st EXCEPT
       !.states = Connect(Append(@, State(job.ptn[st.i + 1], -1)), st.last, Size),
       !.last = Size, !.i = @ + 1])

\* The last state, and the start of is_matched.
CompileEnd ==
  /\ At("rex", "compile") /\ st.i >= Len(job.ptn)
  /\ Becomes([st EXCEPT !.states = Connect(Append(@, State(Final, -1)), st.last, Size),
                        !.add = 0, !.pc = "add"])

\* A state once per list.
Include(state, next) ==
  LET new == st.states[state + 1].last_list # st.to IN
  Becomes([st EXCEPT
    !.lists[st.to] = IF new THEN Append(@, state) ELSE @,
    !.states[state + 1].last_list = st.to, !.add = next])

\* _add_state: one turn of its recursion, which is a loop along the splits.
AddSplit ==
  LET ins == st.states[st.add + 1] IN
  /\ At("rex", "add") /\ st.add # -1 /\ ins.c = Split
  /\ Include(ins.out, ins.out1)

AddState ==
  /\ At("rex", "add") /\ st.add # -1 /\ st.states[st.add + 1].c # Split
  /\ Include(st.add, -1)

\* The first state is added before the first character.
Added ==
  /\ At("rex", "add") /\ st.add = -1
  /\ Becomes([st EXCEPT !.pc = IF st.n = 0 THEN "char" ELSE "unmark"])

NextChar ==
  /\ At("rex", "char") /\ st.pos < Len(job.src)
  /\ Becomes([st EXCEPT !.n = 1, !.to = 1 - st.clist, !.pc = "state"])

AtState == At("rex", "state") /\ st.n <= Len(st.lists[st.clist])
Ins     == st.states[st.lists[st.clist][st.n] + 1]

\* A state of the current list reads the character, or not.
StateReads ==
  /\ AtState
  /\ IF Ins.c \in {job.src[st.pos + 1], "."}
     THEN Becomes([st EXCEPT !.add = Ins.out, !.pc = "add"])
     ELSE Becomes([st EXCEPT !.pc = "unmark"])

\* Mutant: the mark of a state stays when its list is done.
Unmark_Keeps == At("rex", "unmark") /\ Becomes([st EXCEPT !.n = @ + 1, !.pc = "state"])

Unmark ==
  LET state == st.lists[st.clist][st.n] IN
  /\ At("rex", "unmark")
  /\ Becomes([st EXCEPT !.states[state + 1].last_list = IF @ = st.to THEN @ ELSE -1,
                        !.n = @ + 1, !.pc = "state"])

\* The list is done, and the other one is the current one.
EndOfList ==
  /\ At("rex", "state") /\ st.n > Len(st.lists[st.clist])
  /\ Becomes([st EXCEPT !.lists[st.clist] = <<>>, !.clist = 1 - @, !.pos = @ + 1, !.n = 0,
                        !.pc = IF st.lists[st.to] = <<>> THEN "done" ELSE "char"])

Matched ==
  /\ At("rex", "char") /\ st.pos = Len(job.src)
  /\ Becomes([st EXCEPT !.pc = "done", !.matched =
       \E n \in DOMAIN st.lists[st.clist] : st.lists[st.clist][n] = Size - 1])

RexNext == \/ CompileStar \/ CompileChar \/ CompileEnd \/ AddSplit \/ AddState \/ Added
           \/ NextChar \/ StateReads \/ Unmark \/ EndOfList \/ Matched

-------------------------------------------------------------------------------
(* Properties                                                               *)

\* Where in src the words begin that end with it and belong to what is left of the pattern
\* behind i characters.
Language(ptn, src) ==
  LET reads(i, j) == ptn[i + 1] \in {src[j + 1], "."}
      from[i \in 0 .. Len(ptn)] ==
        IF i = Len(ptn) THEN {Len(src)}
        ELSE IF i + 1 < Len(ptn) /\ ptn[i + 2] = "*"
        THEN {j \in 0 .. Len(src) : \E k \in from[i + 2] : j <= k /\ \A l \in j .. k - 1 : reads(i, l)}
        ELSE {j \in 0 .. Len(src) - 1 : reads(i, j) /\ j + 1 \in from[i + 1]}
  IN  from

\* The automaton accepts the words of the pattern and no others, although a state stays
\* marked from one list to the next.
MatchesLanguage == At("rex", "done") => st.matched = (0 \in Language(job.ptn, job.src)[0])
===============================================================================
