----------------------------- MODULE TaskExecutor -----------------------------
(***************************************************************************)
(* What a thread pool promises its users, without its mutex and condition: *)
(* submitted tasks start in the order of submission, at most Width at a    *)
(* time, each runs once, and closing the executor loses none of them.      *)
(***************************************************************************)
EXTENDS Naturals, Sequences, FiniteSets

CONSTANTS
  Tasks,   \* tasks that may be submitted
  Width    \* tasks that may run at the same time

VARIABLES
  queue,    \* submitted, in order
  running,  \* started and not complete
  done,     \* complete: the future is set
  closed    \* no more submissions

vars == <<queue, running, done, closed>>

Queued == {queue[i] : i \in DOMAIN queue}

Init == queue = << >> /\ running = {} /\ done = {} /\ closed = FALSE

Submit(t) ==
  /\ ~closed /\ t \notin Queued \union running \union done
  /\ queue' = Append(queue, t)
  /\ UNCHANGED <<running, done, closed>>

Start ==
  /\ queue # << >> /\ Cardinality(running) < Width
  /\ running' = running \union {Head(queue)}
  /\ queue' = Tail(queue)
  /\ UNCHANGED <<done, closed>>

Complete(t) ==
  /\ t \in running
  /\ running' = running \ {t}
  /\ done' = done \union {t}
  /\ UNCHANGED <<queue, closed>>

Close ==
  /\ ~closed /\ closed' = TRUE
  /\ UNCHANGED <<queue, running, done>>

Next == \/ \E t \in Tasks : Submit(t) \/ Complete(t)
        \/ Start \/ Close

Spec == Init /\ [][Next]_vars

\* What is submitted starts, and what started completes.
Fairness == WF_vars(Start) /\ \A t \in Tasks : WF_vars(Complete(t))

FairSpec == Spec /\ Fairness
===============================================================================
