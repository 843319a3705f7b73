------------------------------ MODULE ThreadPool ------------------------------
(***************************************************************************)
(* thread_pool/ThreadPool.h: workers that wait on one condition variable,  *)
(* enqueue from any number of threads, and the destructor.                 *)
(*                                                                         *)
(* The mutex is explicit, so that what happens between the evaluation of   *)
(* the wait predicate and the blocking of the worker can be told apart     *)
(* from what cannot.  enqueue is called by one thread per task; a task is  *)
(* its id, and running it sets its future.                                 *)
(***************************************************************************)
EXTENDS Naturals, Sequences, FiniteSets

CONSTANTS
  Workers,      \* worker threads
  Tasks,        \* tasks, each enqueued by a thread of its own
  Owner,        \* the thread that destroys the pool
  Nobody,       \* no thread holds the mutex
  NoTask,       \* a worker that runs nothing
  MaxSpurious   \* bound on spurious wake-ups

ASSUME WorkersAssumption == Workers # {} /\ IsFiniteSet(Workers)
ASSUME ThreadsAssumption == /\ Workers \intersect Tasks = {}
                            /\ Owner \notin Workers \union Tasks
                            /\ Nobody \notin Workers \union Tasks \union {Owner}
                            /\ NoTask \notin Tasks
ASSUME SpuriousAssumption == MaxSpurious \in Nat

VARIABLES
  tasks,        \* tasks
  stop,         \* stop
  queueMutex,   \* who holds queue_mutex
  wpc,          \* where each worker is
  current,      \* current[w]: the local task of worker w
  epc,          \* where the enqueue of each task is
  dpc,          \* where the destructor is
  ready,        \* tasks whose future is set
  spurious      \* spurious wake-ups so far

vars == <<tasks, stop, queueMutex, wpc, current, epc, dpc, ready, spurious>>

WorkerPcs    == {"lock", "check", "block", "waiting", "run", "exit"}
EnqueuePcs   == {"idle", "lock", "push", "notify", "returned", "threw"}
DestructPcs  == {"idle", "lock", "stop", "notify", "join", "done"}

Init ==
  /\ tasks = << >> /\ stop = FALSE /\ queueMutex = Nobody
  /\ wpc     = [w \in Workers |-> "lock"]
  /\ current = [w \in Workers |-> NoTask]
  /\ epc     = [t \in Tasks |-> "idle"]
  /\ dpc = "idle" /\ ready = {} /\ spurious = 0

-------------------------------------------------------------------------------
(* Worker loop                                                              *)

WorkerLock(w) ==
  /\ wpc[w] = "lock" /\ queueMutex = Nobody
  /\ queueMutex' = w
  /\ wpc' = [wpc EXCEPT ![w] = "check"]
  /\ UNCHANGED <<tasks, stop, current, epc, dpc, ready, spurious>>

\* The predicate of wait is false; the worker still holds the mutex ...
WorkerFindsNothing(w) ==
  /\ wpc[w] = "check" /\ ~stop /\ tasks = << >>
  /\ wpc' = [wpc EXCEPT ![w] = "block"]
  /\ UNCHANGED <<tasks, stop, queueMutex, current, epc, dpc, ready, spurious>>

\* ... which wait releases in the step that makes it a waiter.
WorkerBlock(w) ==
  /\ wpc[w] = "block"
  /\ queueMutex' = Nobody
  /\ wpc' = [wpc EXCEPT ![w] = "waiting"]
  /\ UNCHANGED <<tasks, stop, current, epc, dpc, ready, spurious>>

\* Mutant: a stopped pool exits with tasks in the queue.
WorkerExit_Undrained(w) ==
  /\ wpc[w] = "check" /\ stop
  /\ queueMutex' = Nobody
  /\ wpc' = [wpc EXCEPT ![w] = "exit"]
  /\ UNCHANGED <<tasks, stop, current, epc, dpc, ready, spurious>>

WorkerExit(w) ==
  /\ wpc[w] = "check" /\ stop /\ tasks = << >>
  /\ queueMutex' = Nobody
  /\ wpc' = [wpc EXCEPT ![w] = "exit"]
  /\ UNCHANGED <<tasks, stop, current, epc, dpc, ready, spurious>>

\* Mutant: the front is copied and not popped.
WorkerTake_NoPop(w) ==
  /\ wpc[w] = "check" /\ tasks # << >>
  /\ current' = [current EXCEPT ![w] = Head(tasks)]
  /\ queueMutex' = Nobody
  /\ wpc' = [wpc EXCEPT ![w] = "run"]
  /\ UNCHANGED <<tasks, stop, epc, dpc, ready, spurious>>

WorkerTake(w) ==
  /\ wpc[w] = "check" /\ tasks # << >>
  /\ current' = [current EXCEPT ![w] = Head(tasks)]
  /\ tasks' = Tail(tasks)
  /\ queueMutex' = Nobody
  /\ wpc' = [wpc EXCEPT ![w] = "run"]
  /\ UNCHANGED <<stop, epc, dpc, ready, spurious>>

WorkerRun(w) ==
  /\ wpc[w] = "run"
  /\ ready' = ready \union {current[w]}
  /\ current' = [current EXCEPT ![w] = NoTask]
  /\ wpc' = [wpc EXCEPT ![w] = "lock"]
  /\ UNCHANGED <<tasks, stop, queueMutex, epc, dpc, spurious>>

SpuriousWake(w) ==
  /\ wpc[w] = "waiting" /\ spurious < MaxSpurious
  /\ spurious' = spurious + 1
  /\ wpc' = [wpc EXCEPT ![w] = "lock"]
  /\ UNCHANGED <<tasks, stop, queueMutex, current, epc, dpc, ready>>

-------------------------------------------------------------------------------
(* enqueue                                                                  *)

EnqueueCall(t) ==
  /\ epc[t] = "idle" /\ dpc # "done"
  /\ epc' = [epc EXCEPT ![t] = "lock"]
  /\ UNCHANGED <<tasks, stop, queueMutex, wpc, current, dpc, ready, spurious>>

EnqueueLock(t) ==
  /\ epc[t] = "lock" /\ queueMutex = Nobody
  /\ queueMutex' = t
  /\ epc' = [epc EXCEPT ![t] = "push"]
  /\ UNCHANGED <<tasks, stop, wpc, current, dpc, ready, spurious>>

\* Mutant: nobody is notified.
EnqueuePush_NoNotify(t) ==
  /\ epc[t] = "push"
  /\ IF stop THEN /\ epc' = [epc EXCEPT ![t] = "threw"]
                  /\ UNCHANGED tasks
             ELSE /\ epc' = [epc EXCEPT ![t] = "returned"]
                  /\ tasks' = Append(tasks, t)
  /\ queueMutex' = Nobody
  /\ UNCHANGED <<stop, wpc, current, dpc, ready, spurious>>

\* Mutant: a stopped pool still accepts tasks.
EnqueuePush_NoThrow(t) ==
  /\ epc[t] = "push"
  /\ epc' = [epc EXCEPT ![t] = "notify"]
  /\ tasks' = Append(tasks, t)
  /\ queueMutex' = Nobody
  /\ UNCHANGED <<stop, wpc, current, dpc, ready, spurious>>

\* Pushes, or throws when the pool is stopped; either way unlocks.
EnqueuePush(t) ==
  /\ epc[t] = "push"
  /\ IF stop THEN /\ epc' = [epc EXCEPT ![t] = "threw"]
                  /\ UNCHANGED tasks
             ELSE /\ epc' = [epc EXCEPT ![t] = "notify"]
                  /\ tasks' = Append(tasks, t)
  /\ queueMutex' = Nobody
  /\ UNCHANGED <<stop, wpc, current, dpc, ready, spurious>>

Waiting == {w \in Workers : wpc[w] = "waiting"}

\* notify_one, after the unlock: some waiter, if there is one.
EnqueueNotify(t) ==
  /\ epc[t] = "notify"
  /\ epc' = [epc EXCEPT ![t] = "returned"]
  /\ IF Waiting = {} THEN UNCHANGED wpc
     ELSE \E w \in Waiting : wpc' = [wpc EXCEPT ![w] = "lock"]
  /\ UNCHANGED <<tasks, stop, queueMutex, current, dpc, ready, spurious>>

-------------------------------------------------------------------------------
(* Destructor                                                               *)

DestructCall ==
  /\ dpc = "idle" /\ dpc' = "lock"
  /\ UNCHANGED <<tasks, stop, queueMutex, wpc, current, epc, ready, spurious>>

\* Mutant: stop is set without the mutex.
DestructLock_Skipped ==
  /\ dpc = "lock" /\ dpc' = "stop"
  /\ UNCHANGED <<tasks, stop, queueMutex, wpc, current, epc, ready, spurious>>

DestructLock ==
  /\ dpc = "lock" /\ queueMutex = Nobody
  /\ queueMutex' = Owner /\ dpc' = "stop"
  /\ UNCHANGED <<tasks, stop, wpc, current, epc, ready, spurious>>

DestructStop ==
  /\ dpc = "stop" /\ dpc' = "notify"
  /\ stop' = TRUE
  /\ queueMutex' = IF queueMutex = Owner THEN Nobody ELSE queueMutex
  /\ UNCHANGED <<tasks, wpc, current, epc, ready, spurious>>

\* Mutant: notify_one instead of notify_all.
DestructNotify_One ==
  /\ dpc = "notify" /\ dpc' = "join"
  /\ IF Waiting = {} THEN UNCHANGED wpc
     ELSE \E w \in Waiting : wpc' = [wpc EXCEPT ![w] = "lock"]
  /\ UNCHANGED <<tasks, stop, queueMutex, current, epc, ready, spurious>>

DestructNotify ==
  /\ dpc = "notify" /\ dpc' = "join"
  /\ wpc' = [w \in Workers |-> IF wpc[w] = "waiting" THEN "lock" ELSE wpc[w]]
  /\ UNCHANGED <<tasks, stop, queueMutex, current, epc, ready, spurious>>

DestructJoin ==
  /\ dpc = "join" /\ \A w \in Workers : wpc[w] = "exit"
  /\ dpc' = "done"
  /\ UNCHANGED <<tasks, stop, queueMutex, wpc, current, epc, ready, spurious>>

-------------------------------------------------------------------------------
WorkerStep(w) == \/ WorkerLock(w) \/ WorkerFindsNothing(w) \/ WorkerBlock(w)
                 \/ WorkerExit(w) \/ WorkerTake(w) \/ WorkerRun(w)

EnqueueStep(t) == EnqueueLock(t) \/ EnqueuePush(t) \/ EnqueueNotify(t)

DestructStep == DestructLock \/ DestructStop \/ DestructNotify \/ DestructJoin

Next == \/ \E w \in Workers : WorkerStep(w) \/ SpuriousWake(w)
        \/ \E t \in Tasks : EnqueueCall(t) \/ EnqueueStep(t)
        \/ DestructCall \/ DestructStep

Spec == Init /\ [][Next]_vars

\* Every thread that can run does; a task, once started, returns.  Nothing
\* obliges anybody to call enqueue or to destroy the pool, and a waiter wakes
\* only when it is notified.
Fairness == /\ \A w \in Workers : WF_vars(WorkerStep(w))
            /\ \A t \in Tasks : WF_vars(EnqueueStep(t))
            /\ WF_vars(DestructStep)

FairSpec == Spec /\ Fairness

-------------------------------------------------------------------------------
(* Properties                                                               *)

\* Type invariant of the members of ThreadPool and of the threads' places.
TypeOK ==
  /\ tasks \in Seq(Tasks)
  /\ stop \in BOOLEAN
  /\ queueMutex \in Workers \union Tasks \union {Owner, Nobody}
  /\ wpc \in [Workers -> WorkerPcs]
  /\ current \in [Workers -> Tasks \union {NoTask}]
  /\ \A w \in Workers : wpc[w] = "run" => current[w] \in Tasks
  /\ epc \in [Tasks -> EnqueuePcs]
  /\ dpc \in DestructPcs
  /\ ready \subseteq Tasks
  /\ spurious \in 0 .. MaxSpurious

\* A thread is between lock and unlock exactly when it holds the mutex.
MutexHeld ==
  /\ \A w \in Workers : queueMutex = w <=> wpc[w] \in {"check", "block"}
  /\ \A t \in Tasks   : queueMutex = t <=> epc[t] = "push"
  /\ queueMutex = Owner <=> dpc = "stop"

Awake == {w \in Workers : wpc[w] \in {"lock", "check", "run"}}

\* No wake-up is lost: while a task is queued some worker is awake and will
\* look at the queue, or a notify that can wake one is still to come.  It
\* rests on the worker holding the mutex from the predicate to the wait.
NoLostWakeup ==
  tasks # << >> =>
    Awake # {} \/ dpc = "notify" \/ \E t \in Tasks : epc[t] = "notify"

\* Once stop was announced nobody waits, or starts to: the destructor joins
\* workers that will all see stop.
StopReachesAll ==
  stop /\ dpc # "notify" => \A w \in Workers : wpc[w] \notin {"block", "waiting"}

\* Workers leave only an empty, stopped queue behind, and it stays empty: the
\* destructor drains the pool.
ExitDrained == (\E w \in Workers : wpc[w] = "exit") => stop /\ tasks = << >>

\* A blocking worker saw an empty queue of a running pool, and still does.
BlockIsCurrent ==
  \A w \in Workers : wpc[w] = "block" => ~stop /\ tasks = << >>

StopStage == stop <=> dpc \in {"notify", "join", "done"}

\* The tasks that are queued, and those that the workers are running.
Queued  == {tasks[i] : i \in DOMAIN tasks}
Running == {current[w] : w \in {v \in Workers : wpc[v] = "run"}}

\* An accepted task is at exactly one place: once in the queue, with one
\* worker, or finished.  It is neither lost nor run twice.
AcceptedOnce ==
  /\ \A t \in Tasks : epc[t] \in {"notify", "returned"}
                        <=> t \in Queued \union Running \union ready
  /\ Queued \intersect Running = {}
  /\ (Queued \union Running) \intersect ready = {}
  /\ \A i, j \in DOMAIN tasks : tasks[i] = tasks[j] => i = j
  /\ \A v, w \in Workers :
       wpc[v] = "run" /\ wpc[w] = "run" /\ current[v] = current[w] => v = w

\* The inductive invariant behind NoLostWakeup, StopReachesAll, ExitDrained.
PoolInv == /\ TypeOK /\ MutexHeld /\ NoLostWakeup /\ StopReachesAll
           /\ ExitDrained /\ BlockIsCurrent /\ StopStage

Executor == INSTANCE TaskExecutor
              WITH queue <- tasks, running <- Running, done <- ready,
                   closed <- stop, Width <- Cardinality(Workers)

\* The pool, behind enqueue and its destructor, is a TaskExecutor: tasks start
\* in the order of submission, each once, none after the pool was stopped.
ImplementsExecutor == Executor!Spec

\* And it is one that runs every task that was accepted, also those that the
\* destructor finds in the queue.
ExecutorRunsTasks == Executor!FairSpec

\* The destructor returns, whatever is queued and whoever still enqueues.
DestructorReturns == dpc = "lock" ~> dpc = "done"
===============================================================================
