--------------------------- MODULE ThreadPool_proofs ---------------------------
(***************************************************************************)
(* Proofs about ThreadPool, for any number of workers and tasks.           *)
(***************************************************************************)
EXTENDS ThreadPool, FiniteSetTheorems, TLAPS

LEMMA InitPool ==
  ASSUME Init
  PROVE  PoolInv
<1>1. TypeOK
  <2>1. tasks \in Seq(Tasks) /\ spurious \in 0 .. MaxSpurious
    BY SpuriousAssumption DEF Init
  <2>2. wpc \in [Workers -> WorkerPcs] /\ epc \in [Tasks -> EnqueuePcs]
    BY DEF Init, WorkerPcs, EnqueuePcs
  <2>. QED
    BY <2>1, <2>2 DEF Init, TypeOK, DestructPcs
<1>2. MutexHeld
  BY ThreadsAssumption DEF Init, MutexHeld
<1>3. NoLostWakeup /\ StopReachesAll /\ ExitDrained /\ BlockIsCurrent /\ StopStage
  BY DEF Init, NoLostWakeup, StopReachesAll, ExitDrained, BlockIsCurrent, StopStage
<1>. QED
  BY <1>1, <1>2, <1>3 DEF PoolInv

-------------------------------------------------------------------------------
(* One lemma per conjunct, one step per action.                             *)

LEMMA NextType ==
  ASSUME TypeOK, [Next]_vars
  PROVE  TypeOK'
<1>1. ASSUME NEW w \in Workers, WorkerTake(w)
      PROVE  TypeOK'
  <2>1. Head(tasks) \in Tasks /\ Tail(tasks) \in Seq(Tasks)
    BY <1>1 DEF WorkerTake, TypeOK
  <2>. QED
    BY <1>1, <2>1 DEF WorkerTake, TypeOK, WorkerPcs
<1>2. ASSUME NEW w \in Workers, WorkerRun(w)
      PROVE  TypeOK'
  <2>1. wpc' \in [Workers -> WorkerPcs]
    BY <1>2 DEF WorkerRun, TypeOK, WorkerPcs
  <2>2. ready' \subseteq Tasks
    BY <1>2 DEF WorkerRun, TypeOK
  <2>. QED
    BY <1>2, <2>1, <2>2 DEF WorkerRun, TypeOK
<1>3. ASSUME NEW w \in Workers,
             \/ WorkerLock(w) \/ WorkerFindsNothing(w)
             \/ WorkerBlock(w) \/ WorkerExit(w)
      PROVE  TypeOK'
  BY <1>3 DEF WorkerLock, WorkerFindsNothing, WorkerBlock, WorkerExit, TypeOK,
              WorkerPcs
<1>4. ASSUME NEW w \in Workers, SpuriousWake(w)
      PROVE  TypeOK'
  BY <1>4, SpuriousAssumption DEF SpuriousWake, TypeOK, WorkerPcs
<1>5. ASSUME NEW t \in Tasks, EnqueueCall(t) \/ EnqueueLock(t)
      PROVE  TypeOK'
  BY <1>5 DEF EnqueueCall, EnqueueLock, TypeOK, EnqueuePcs
<1>6. ASSUME NEW t \in Tasks, EnqueuePush(t)
      PROVE  TypeOK'
  <2>1. tasks' \in Seq(Tasks) /\ epc' \in [Tasks -> EnqueuePcs]
    BY <1>6, SMTT(30) DEF EnqueuePush, TypeOK, EnqueuePcs
  <2>. QED
    BY <1>6, <2>1 DEF EnqueuePush, TypeOK
<1>7. ASSUME NEW t \in Tasks, EnqueueNotify(t)
      PROVE  TypeOK'
  <2>1. epc' \in [Tasks -> EnqueuePcs]
    BY <1>7 DEF EnqueueNotify, TypeOK, EnqueuePcs
  <2>2. \/ wpc' = wpc
        \/ \E w \in Workers : wpc[w] = "waiting" /\ wpc' = [wpc EXCEPT ![w] = "lock"]
    BY <1>7 DEF EnqueueNotify, Waiting
  <2>. QED
    BY <1>7, <2>1, <2>2 DEF EnqueueNotify, TypeOK, WorkerPcs
<1>8. CASE DestructCall \/ DestructLock \/ DestructStop \/ DestructJoin
  BY <1>8 DEF DestructCall, DestructLock, DestructStop, DestructJoin, TypeOK,
              DestructPcs
<1>9. CASE DestructNotify
  <2>1. wpc' \in [Workers -> WorkerPcs]
    BY <1>9 DEF DestructNotify, TypeOK, WorkerPcs
  <2>. QED
    BY <1>9, <2>1 DEF DestructNotify, TypeOK, DestructPcs
<1>10. CASE UNCHANGED vars
  BY <1>10 DEF vars, TypeOK
<1>. QED
  BY <1>1, <1>2, <1>3, <1>4, <1>5, <1>6, <1>7, <1>8, <1>9, <1>10
     DEF Next, WorkerStep, EnqueueStep, DestructStep

LEMMA NextMutex ==
  ASSUME TypeOK, MutexHeld, [Next]_vars
  PROVE  MutexHeld'
<1>. USE ThreadsAssumption DEF TypeOK, MutexHeld
<1>1. ASSUME NEW w \in Workers, WorkerStep(w) \/ SpuriousWake(w)
      PROVE  MutexHeld'
  BY <1>1 DEF WorkerStep, WorkerLock, WorkerFindsNothing, WorkerBlock, WorkerExit,
              WorkerTake, WorkerRun, SpuriousWake
<1>2. ASSUME NEW t \in Tasks, EnqueueCall(t) \/ EnqueueLock(t) \/ EnqueuePush(t)
      PROVE  MutexHeld'
  BY <1>2 DEF EnqueueCall, EnqueueLock, EnqueuePush
<1>3. ASSUME NEW t \in Tasks, EnqueueNotify(t)
      PROVE  MutexHeld'
  BY <1>3 DEF EnqueueNotify, Waiting
<1>4. CASE DestructCall \/ DestructStep
  BY <1>4 DEF DestructCall, DestructStep, DestructLock, DestructStop, DestructNotify,
              DestructJoin
<1>5. CASE UNCHANGED vars
  BY <1>5 DEF vars
<1>. QED
  BY <1>1, <1>2, <1>3, <1>4, <1>5 DEF Next, EnqueueStep

LEMMA NextStopStage ==
  ASSUME TypeOK, StopStage, [Next]_vars
  PROVE  StopStage'
BY DEF TypeOK, StopStage, Next, vars, WorkerStep, WorkerLock, WorkerFindsNothing,
       WorkerBlock, WorkerExit, WorkerTake, WorkerRun, SpuriousWake, EnqueueCall,
       EnqueueStep, EnqueueLock, EnqueuePush, EnqueueNotify, DestructCall,
       DestructStep, DestructLock, DestructStop, DestructNotify, DestructJoin

\* The mutex keeps enqueue and the destructor out while a worker goes from the
\* predicate to the wait.
LEMMA NextBlock ==
  ASSUME PoolInv, [Next]_vars
  PROVE  BlockIsCurrent'
<1>. USE DEF PoolInv, TypeOK, BlockIsCurrent
<1>1. ASSUME NEW w \in Workers, WorkerStep(w) \/ SpuriousWake(w)
      PROVE  BlockIsCurrent'
  BY <1>1 DEF WorkerStep, WorkerLock, WorkerFindsNothing, WorkerBlock, WorkerExit,
              WorkerTake, WorkerRun, SpuriousWake
<1>2. ASSUME NEW t \in Tasks, EnqueueCall(t) \/ EnqueueLock(t)
      PROVE  BlockIsCurrent'
  BY <1>2 DEF EnqueueCall, EnqueueLock
<1>3. ASSUME NEW t \in Tasks, EnqueuePush(t)
      PROVE  BlockIsCurrent'
  <2>1. \A w \in Workers : wpc[w] # "block"
    BY <1>3, ThreadsAssumption DEF EnqueuePush, MutexHeld
  <2>. QED
    BY <1>3, <2>1 DEF EnqueuePush
<1>4. ASSUME NEW t \in Tasks, EnqueueNotify(t)
      PROVE  BlockIsCurrent'
  BY <1>4 DEF EnqueueNotify, Waiting
<1>5. CASE DestructStop
  <2>1. \A w \in Workers : wpc[w] # "block"
    BY <1>5, ThreadsAssumption DEF DestructStop, MutexHeld
  <2>. QED
    BY <1>5, <2>1 DEF DestructStop
<1>6. CASE DestructCall \/ DestructLock \/ DestructNotify \/ DestructJoin
  BY <1>6 DEF DestructCall, DestructLock, DestructNotify, DestructJoin
<1>7. CASE UNCHANGED vars
  BY <1>7 DEF vars
<1>. QED
  BY <1>1, <1>2, <1>3, <1>4, <1>5, <1>6, <1>7
     DEF Next, EnqueueStep, DestructStep

LEMMA NextStopReaches ==
  ASSUME PoolInv, [Next]_vars
  PROVE  StopReachesAll'
<1>. USE DEF PoolInv, TypeOK, StopReachesAll
<1>1. ASSUME NEW w \in Workers, WorkerStep(w) \/ SpuriousWake(w)
      PROVE  StopReachesAll'
  BY <1>1 DEF WorkerStep, WorkerLock, WorkerFindsNothing, WorkerBlock, WorkerExit,
              WorkerTake, WorkerRun, SpuriousWake
<1>2. ASSUME NEW t \in Tasks, EnqueueCall(t) \/ EnqueueLock(t) \/ EnqueuePush(t)
      PROVE  StopReachesAll'
  BY <1>2 DEF EnqueueCall, EnqueueLock, EnqueuePush
<1>3. ASSUME NEW t \in Tasks, EnqueueNotify(t)
      PROVE  StopReachesAll'
  BY <1>3 DEF EnqueueNotify, Waiting
<1>4. CASE DestructNotify
  BY <1>4 DEF DestructNotify, BlockIsCurrent, StopStage
<1>5. CASE DestructCall \/ DestructLock \/ DestructStop \/ DestructJoin
  BY <1>5 DEF DestructCall, DestructLock, DestructStop, DestructJoin, StopStage
<1>6. CASE UNCHANGED vars
  BY <1>6 DEF vars
<1>. QED
  BY <1>1, <1>2, <1>3, <1>4, <1>5, <1>6
     DEF Next, EnqueueStep, DestructStep

LEMMA NextExit ==
  ASSUME PoolInv, [Next]_vars
  PROVE  ExitDrained'
<1>. USE DEF PoolInv, TypeOK, ExitDrained
<1>1. ASSUME NEW w \in Workers, WorkerStep(w) \/ SpuriousWake(w)
      PROVE  ExitDrained'
  BY <1>1 DEF WorkerStep, WorkerLock, WorkerFindsNothing, WorkerBlock, WorkerExit,
              WorkerTake, WorkerRun, SpuriousWake
<1>2. ASSUME NEW t \in Tasks, EnqueueCall(t) \/ EnqueueLock(t) \/ EnqueuePush(t)
      PROVE  ExitDrained'
  BY <1>2 DEF EnqueueCall, EnqueueLock, EnqueuePush
<1>3. ASSUME NEW t \in Tasks, EnqueueNotify(t)
      PROVE  ExitDrained'
  BY <1>3 DEF EnqueueNotify, Waiting
<1>4. CASE DestructCall \/ DestructStep
  BY <1>4 DEF DestructCall, DestructStep, DestructLock, DestructStop, DestructNotify,
              DestructJoin
<1>5. CASE UNCHANGED vars
  BY <1>5 DEF vars
<1>. QED
  BY <1>1, <1>2, <1>3, <1>4, <1>5 DEF Next, EnqueueStep

LEMMA NextWakeup ==
  ASSUME PoolInv, TypeOK', [Next]_vars
  PROVE  NoLostWakeup'
<1>. USE DEF PoolInv, TypeOK, NoLostWakeup, Awake
<1>1. ASSUME NEW w \in Workers, WorkerLock(w) \/ WorkerTake(w) \/ WorkerRun(w)
                                \/ SpuriousWake(w)
      PROVE  NoLostWakeup'
  <2>1. w \in Awake'
    BY <1>1 DEF WorkerLock, WorkerTake, WorkerRun, SpuriousWake
  <2>. QED
    BY <2>1
<1>2. ASSUME NEW w \in Workers, WorkerFindsNothing(w) \/ WorkerBlock(w) \/ WorkerExit(w)
      PROVE  NoLostWakeup'
  BY <1>2 DEF WorkerFindsNothing, WorkerBlock, WorkerExit, BlockIsCurrent
<1>3. ASSUME NEW t \in Tasks, EnqueueCall(t) \/ EnqueueLock(t) \/ EnqueuePush(t)
      PROVE  NoLostWakeup'
  <2>1. tasks' # << >> => tasks # << >> \/ epc'[t] = "notify"
    BY <1>3 DEF EnqueueCall, EnqueueLock, EnqueuePush
  <2>2. \A u \in Tasks : epc[u] = "notify" => epc'[u] = "notify"
    BY <1>3 DEF EnqueueCall, EnqueueLock, EnqueuePush
  <2>. QED
    BY <1>3, <2>1, <2>2 DEF EnqueueCall, EnqueueLock, EnqueuePush
<1>4. ASSUME NEW t \in Tasks, EnqueueNotify(t)
      PROVE  NoLostWakeup'
  <2>1. CASE Waiting # {}
    <3>1. PICK w \in Workers : wpc' = [wpc EXCEPT ![w] = "lock"]
      BY <1>4, <2>1 DEF EnqueueNotify, Waiting
    <3>2. w \in Awake'
      BY <3>1
    <3>. QED
      BY <3>2
  <2>2. CASE Waiting = {}
    <3>1. SUFFICES ASSUME tasks # << >>
                   PROVE  Awake' # {}
      BY <1>4 DEF EnqueueNotify
    <3>2. PICK w \in Workers : TRUE
      BY WorkersAssumption
    <3>3. wpc[w] \notin {"waiting", "block", "exit"}
      BY <2>2, <3>1 DEF Waiting, BlockIsCurrent, ExitDrained
    <3>4. wpc[w] \in {"lock", "check", "run"} /\ wpc' = wpc
      BY <1>4, <2>2, <3>3 DEF EnqueueNotify, WorkerPcs
    <3>. QED
      BY <3>4
  <2>. QED
    BY <2>1, <2>2
<1>5. CASE DestructNotify
  <2>1. SUFFICES ASSUME tasks # << >>
                 PROVE  Awake' # {}
    BY <1>5 DEF DestructNotify
  <2>2. PICK w \in Workers : TRUE
    BY WorkersAssumption
  <2>3. wpc[w] \in {"lock", "check", "run", "waiting"}
    BY <2>1, <2>2 DEF BlockIsCurrent, ExitDrained, WorkerPcs
  <2>4. w \in Awake'
    BY <1>5, <2>3 DEF DestructNotify
  <2>. QED
    BY <2>4
<1>6. CASE DestructCall \/ DestructLock \/ DestructStop \/ DestructJoin
  BY <1>6 DEF DestructCall, DestructLock, DestructStop, DestructJoin
<1>7. CASE UNCHANGED vars
  BY <1>7 DEF vars
<1>. QED
  BY <1>1, <1>2, <1>3, <1>4, <1>5, <1>6, <1>7
     DEF Next, WorkerStep, EnqueueStep, DestructStep

THEOREM PoolInvariant == Spec => []PoolInv
<1>1. Init => PoolInv
  BY InitPool
<1>2. ASSUME PoolInv, [Next]_vars
      PROVE  PoolInv'
  <2>1. TypeOK' /\ MutexHeld' /\ StopStage'
    BY <1>2, NextType, NextMutex, NextStopStage DEF PoolInv
  <2>. QED
    BY <1>2, <2>1, NextBlock, NextStopReaches, NextExit, NextWakeup DEF PoolInv
<1>3. PoolInv /\ [Next]_vars => PoolInv'
  BY <1>2
<1>. QED
  BY <1>1, <1>3, PTL DEF Spec

\* A queued task always has a worker coming for it.
THEOREM NoWakeupIsLost == Spec => []NoLostWakeup
<1>1. PoolInv => NoLostWakeup
  BY DEF PoolInv
<1>. QED
  BY <1>1, PoolInvariant, PTL

\* Workers only leave an empty queue behind.
THEOREM DestructorDrains == Spec => []ExitDrained
<1>1. PoolInv => ExitDrained
  BY DEF PoolInv
<1>. QED
  BY <1>1, PoolInvariant, PTL

-------------------------------------------------------------------------------
(* Where an accepted task is                                                *)

\* Steps that leave the queue, the running tasks and the futures alone.
LEMMA PlacesUnchanged ==
  ASSUME TypeOK, AcceptedOnce, tasks' = tasks, current' = current, ready' = ready,
         \A w \in Workers : wpc'[w] = "run" <=> wpc[w] = "run",
         \A t \in Tasks : epc'[t] \in {"notify", "returned"}
                            <=> epc[t] \in {"notify", "returned"}
  PROVE  AcceptedOnce' /\ Running' = Running
<1>1. Queued' = Queued /\ Running' = Running
  BY DEF Queued, Running
<1>. QED
  BY <1>1 DEF AcceptedOnce

\* What append and tail do to the queued tasks.
LEMMA QueueSteps ==
  ASSUME tasks \in Seq(Tasks)
  PROVE  /\ Queued \subseteq Tasks
         /\ \A t : tasks' = Append(tasks, t) => Queued' = Queued \union {t}
         /\ tasks # << >> /\ tasks' = Tail(tasks) => Queued = Queued' \union {Head(tasks)}
<1>1. Queued \subseteq Tasks
  BY DEF Queued
<1>2. ASSUME NEW t, tasks' = Append(tasks, t)
      PROVE  Queued' = Queued \union {t}
  <2>1. /\ DOMAIN tasks = 1 .. Len(tasks)
        /\ DOMAIN tasks' = 1 .. Len(tasks) + 1
        /\ \A i \in 1 .. Len(tasks) : tasks'[i] = tasks[i]
        /\ tasks'[Len(tasks) + 1] = t
        /\ Len(tasks) \in Nat
    BY <1>2
  <2>2. 1 .. Len(tasks) + 1 = 1 .. Len(tasks) \union {Len(tasks) + 1}
    BY <2>1
  <2>. QED
    BY <2>1, <2>2 DEF Queued
<1>3. ASSUME tasks # << >>, tasks' = Tail(tasks)
      PROVE  Queued = Queued' \union {Head(tasks)}
  <2>1. /\ Len(tasks) \in Nat \ {0}
        /\ DOMAIN tasks = 1 .. Len(tasks)
        /\ DOMAIN tasks' = 1 .. Len(tasks) - 1
        /\ \A i \in 1 .. Len(tasks) - 1 : tasks'[i] = tasks[i + 1]
        /\ Head(tasks) = tasks[1]
    BY <1>3
  <2>2. \A i \in 1 .. Len(tasks) : i = 1 \/ i - 1 \in 1 .. Len(tasks) - 1
    BY <2>1
  <2>3. \A i \in 1 .. Len(tasks) - 1 : i + 1 \in 1 .. Len(tasks)
    BY <2>1
  <2>4. Queued \subseteq Queued' \union {Head(tasks)}
    <3>1. ASSUME NEW i \in 1 .. Len(tasks), i # 1
          PROVE  i - 1 \in DOMAIN tasks' /\ tasks[i] = tasks'[i - 1]
      BY <2>1, <2>2, <3>1
    <3>. QED
      BY <2>1, <3>1 DEF Queued
  <2>5. Queued' \union {Head(tasks)} \subseteq Queued
    BY <2>1, <2>3 DEF Queued
  <2>. QED
    BY <2>4, <2>5
<1>. QED
  BY <1>1, <1>2, <1>3

LEMMA PushPlaces ==
  ASSUME PoolInv, AcceptedOnce, NEW t \in Tasks, EnqueuePush(t), ~stop
  PROVE  /\ AcceptedOnce'
         /\ Running' = Running
         /\ t \notin Queued \union Running \union ready
<1>. USE DEF PoolInv
<1>1. /\ epc[t] = "push" /\ epc' = [epc EXCEPT ![t] = "notify"]
      /\ tasks' = Append(tasks, t)
      /\ UNCHANGED <<wpc, current, ready>>
  BY DEF EnqueuePush
<1>2. t \notin Queued \union Running \union ready
  BY <1>1 DEF AcceptedOnce
<1>3. Queued' = Queued \union {t}
  BY <1>1, QueueSteps DEF TypeOK
<1>4. Running' = Running /\ ready' = ready
  BY <1>1 DEF Running
<1>5. \A i, j \in DOMAIN tasks' : tasks'[i] = tasks'[j] => i = j
  <2>1. \A i \in DOMAIN tasks : tasks[i] # t
    BY <1>2 DEF Queued
  <2>2. /\ DOMAIN tasks = 1 .. Len(tasks)
        /\ DOMAIN tasks' = 1 .. Len(tasks) + 1
        /\ \A i \in 1 .. Len(tasks) : tasks'[i] = tasks[i]
        /\ tasks'[Len(tasks) + 1] = t
        /\ Len(tasks) \in Nat
    BY <1>1 DEF TypeOK
  <2>3. \A i \in 1 .. Len(tasks) + 1 : i \in 1 .. Len(tasks) \/ i = Len(tasks) + 1
    BY <2>2
  <2>. QED
    BY <2>1, <2>2, <2>3 DEF AcceptedOnce
<1>6. \A u \in Tasks : epc'[u] = IF u = t THEN "notify" ELSE epc[u]
  BY <1>1 DEF TypeOK
<1>. QED
  BY <1>1, <1>2, <1>3, <1>4, <1>5, <1>6 DEF AcceptedOnce

LEMMA TakePlaces ==
  ASSUME PoolInv, AcceptedOnce, NEW w \in Workers, WorkerTake(w)
  PROVE  /\ AcceptedOnce'
         /\ Running' = Running \union {Head(tasks)}
<1>. USE DEF PoolInv
<1>1. /\ tasks # << >> /\ wpc[w] = "check"
      /\ tasks' = Tail(tasks)
      /\ \A v \in Workers : /\ wpc'[v] = IF v = w THEN "run" ELSE wpc[v]
                            /\ current'[v] = IF v = w THEN Head(tasks) ELSE current[v]
      /\ UNCHANGED <<epc, ready>>
  BY DEF WorkerTake, TypeOK
<1>2. Queued = Queued' \union {Head(tasks)}
  BY <1>1, QueueSteps DEF TypeOK
<1>3. Running' = Running \union {Head(tasks)}
  BY <1>1 DEF Running
<1>4. /\ Head(tasks) \notin Queued'
      /\ \A i, j \in DOMAIN tasks' : tasks'[i] = tasks'[j] => i = j
  <2>1. /\ Len(tasks) \in Nat \ {0}
        /\ DOMAIN tasks = 1 .. Len(tasks)
        /\ DOMAIN tasks' = 1 .. Len(tasks) - 1
        /\ \A i \in 1 .. Len(tasks) - 1 : tasks'[i] = tasks[i + 1]
        /\ Head(tasks) = tasks[1]
    BY <1>1 DEF TypeOK
  <2>2. \A i \in 1 .. Len(tasks) - 1 : i + 1 \in 1 .. Len(tasks) /\ i + 1 # 1
    BY <2>1
  <2>3. \A i, j \in 1 .. Len(tasks) : tasks[i] = tasks[j] => i = j
    BY <2>1 DEF AcceptedOnce
  <2>4. \A i \in 1 .. Len(tasks) - 1 : tasks'[i] # Head(tasks)
    BY <2>1, <2>2, <2>3
  <2>5. \A i, j \in 1 .. Len(tasks) - 1 : tasks'[i] = tasks'[j] => i = j
    BY <2>1, <2>2, <2>3
  <2>. QED
    BY <2>1, <2>4, <2>5 DEF Queued
<1>5. \A u, v \in Workers :
        wpc'[u] = "run" /\ wpc'[v] = "run" /\ current'[u] = current'[v] => u = v
  <2>1. Head(tasks) \notin Running
    BY <1>2 DEF AcceptedOnce
  <2>2. \A v \in Workers : wpc[v] = "run" => current[v] # Head(tasks)
    BY <2>1 DEF Running
  <2>. QED
    BY <1>1, <2>2 DEF AcceptedOnce
<1>. QED
  BY <1>1, <1>2, <1>3, <1>4, <1>5 DEF AcceptedOnce

LEMMA RunPlaces ==
  ASSUME PoolInv, AcceptedOnce, NEW w \in Workers, WorkerRun(w)
  PROVE  /\ AcceptedOnce'
         /\ current[w] \in Running
         /\ Running' = Running \ {current[w]}
<1>. USE DEF PoolInv
<1>1. /\ wpc[w] = "run" /\ ready' = ready \union {current[w]}
      /\ \A v \in Workers : /\ wpc'[v] = IF v = w THEN "lock" ELSE wpc[v]
                            /\ current'[v] = IF v = w THEN NoTask ELSE current[v]
      /\ UNCHANGED <<tasks, epc>>
  BY DEF WorkerRun, TypeOK
<1>2. current[w] \in Running /\ Queued' = Queued
  BY <1>1 DEF Running, Queued
<1>3. Running' = Running \ {current[w]}
  <2>1. \A v \in Workers : v # w /\ wpc[v] = "run" => current[v] # current[w]
    BY <1>1 DEF AcceptedOnce
  <2>. QED
    BY <1>1, <2>1 DEF Running
<1>4. \A u, v \in Workers :
        wpc'[u] = "run" /\ wpc'[v] = "run" /\ current'[u] = current'[v] => u = v
  BY <1>1 DEF AcceptedOnce
<1>. QED
  BY <1>1, <1>2, <1>3, <1>4 DEF AcceptedOnce

\* The steps that are none of the three above.
Quiet ==
  \/ \E w \in Workers : \/ WorkerLock(w) \/ WorkerFindsNothing(w)
                        \/ WorkerBlock(w) \/ WorkerExit(w) \/ SpuriousWake(w)
  \/ \E t \in Tasks : \/ EnqueueCall(t) \/ EnqueueLock(t)
                      \/ (EnqueuePush(t) /\ stop) \/ EnqueueNotify(t)
  \/ DestructCall \/ DestructLock \/ DestructNotify \/ DestructJoin
  \/ UNCHANGED vars

LEMMA QuietPlaces ==
  ASSUME PoolInv, AcceptedOnce, Quiet \/ DestructStop
  PROVE  AcceptedOnce' /\ Running' = Running
<1>. USE DEF PoolInv, TypeOK
<1>1. tasks' = tasks /\ current' = current /\ ready' = ready
  BY DEF Quiet, WorkerLock, WorkerFindsNothing, WorkerBlock, WorkerExit,
         SpuriousWake, EnqueueCall, EnqueueLock, EnqueuePush, EnqueueNotify,
         DestructCall, DestructLock, DestructStop, DestructNotify, DestructJoin, vars
<1>2. \A w \in Workers : wpc'[w] = "run" <=> wpc[w] = "run"
  BY DEF Quiet, WorkerLock, WorkerFindsNothing, WorkerBlock, WorkerExit,
         SpuriousWake, EnqueueCall, EnqueueLock, EnqueuePush, EnqueueNotify, Waiting,
         DestructCall, DestructLock, DestructStop, DestructNotify, DestructJoin, vars
<1>3. \A t \in Tasks : epc'[t] \in {"notify", "returned"}
                         <=> epc[t] \in {"notify", "returned"}
  BY DEF Quiet, WorkerLock, WorkerFindsNothing, WorkerBlock, WorkerExit,
         SpuriousWake, EnqueueCall, EnqueueLock, EnqueuePush, EnqueueNotify,
         DestructCall, DestructLock, DestructStop, DestructNotify, DestructJoin, vars
<1>. QED
  BY <1>1, <1>2, <1>3, PlacesUnchanged

\* A worker that looks at the queue is not one of those that run a task.
LEMMA WorkerFree ==
  ASSUME TypeOK, NEW w \in Workers, wpc[w] # "run"
  PROVE  Cardinality(Running) < Cardinality(Workers)
<1> DEFINE R == {v \in Workers : wpc[v] = "run"}
           f == [v \in R |-> current[v]]
<1>1. R \in SUBSET (Workers \ {w})
  OBVIOUS
<1>2. /\ IsFiniteSet(Workers \ {w})
      /\ Cardinality(Workers \ {w}) = Cardinality(Workers) - 1
      /\ Cardinality(Workers) \in Nat
  BY WorkersAssumption, FS_RemoveElement, FS_CardinalityType
<1>3. IsFiniteSet(R) /\ Cardinality(R) <= Cardinality(Workers \ {w})
  BY <1>1, <1>2, FS_Subset
<1>4. f \in Surjection(R, Running)
  BY DEF Surjection, Running
<1>5. IsFiniteSet(Running) /\ Cardinality(Running) <= Cardinality(R)
  <2> HIDE DEF R, f
  <2>. QED
    BY <1>3, <1>4, FS_Surjection
<1>6. Cardinality(Running) \in Nat /\ Cardinality(R) \in Nat
  BY <1>3, <1>5, FS_CardinalityType
<1>. QED
  BY <1>2, <1>3, <1>5, <1>6

\* Every step of the pool is a step of the executor, or none.
LEMMA StepImplements ==
  ASSUME PoolInv, AcceptedOnce, [Next]_vars
  PROVE  AcceptedOnce' /\ [Executor!Next]_(Executor!vars)
<1>1. ASSUME NEW t \in Tasks, EnqueuePush(t), ~stop
      PROVE  AcceptedOnce' /\ Executor!Submit(t)
  <2>1. /\ AcceptedOnce' /\ Running' = Running
        /\ t \notin Queued \union Running \union ready
    BY <1>1, PushPlaces
  <2>. QED
    BY <1>1, <2>1 DEF EnqueuePush, Executor!Submit, Executor!Queued, Queued
<1>2. ASSUME NEW w \in Workers, WorkerTake(w)
      PROVE  AcceptedOnce' /\ Executor!Start
  <2>1. AcceptedOnce' /\ Running' = Running \union {Head(tasks)}
    BY <1>2, TakePlaces
  <2>2. Cardinality(Running) < Cardinality(Workers)
    BY <1>2, WorkerFree DEF WorkerTake, PoolInv
  <2>3. /\ tasks # << >> /\ tasks' = Tail(tasks)
        /\ ready' = ready /\ stop' = stop
    BY <1>2 DEF WorkerTake
  <2>4. Executor!Start
    BY <2>1, <2>2, <2>3 DEF Executor!Start, Executor!Cardinality, Cardinality
  <2>. QED
    BY <2>1, <2>4
<1>3. ASSUME NEW w \in Workers, WorkerRun(w)
      PROVE  AcceptedOnce' /\ \E t \in Tasks : Executor!Complete(t)
  <2>1. /\ AcceptedOnce' /\ current[w] \in Running
        /\ Running' = Running \ {current[w]}
    BY <1>3, RunPlaces
  <2>2. current[w] \in Tasks
    BY <1>3 DEF WorkerRun, PoolInv, TypeOK
  <2>3. Executor!Complete(current[w])
    BY <1>3, <2>1 DEF WorkerRun, Executor!Complete
  <2>. QED
    BY <2>1, <2>2, <2>3
<1>4. ASSUME DestructStop
      PROVE  AcceptedOnce' /\ Executor!Close
  <2>1. AcceptedOnce' /\ Running' = Running
    BY <1>4, QuietPlaces
  <2>2. ~stop
    BY <1>4 DEF DestructStop, PoolInv, StopStage
  <2>. QED
    BY <1>4, <2>1, <2>2 DEF DestructStop, Executor!Close
<1>5. ASSUME Quiet
      PROVE  AcceptedOnce' /\ UNCHANGED Executor!vars
  <2>1. AcceptedOnce' /\ Running' = Running
    BY <1>5, QuietPlaces
  <2>2. tasks' = tasks /\ ready' = ready /\ stop' = stop
    BY <1>5 DEF Quiet, WorkerLock, WorkerFindsNothing, WorkerBlock, WorkerExit,
         SpuriousWake, EnqueueCall, EnqueueLock, EnqueuePush, EnqueueNotify,
         DestructCall, DestructLock, DestructNotify, DestructJoin, vars
  <2>. QED
    BY <2>1, <2>2 DEF Executor!vars
<1>6. \/ \E t \in Tasks : EnqueuePush(t) /\ ~stop
      \/ \E w \in Workers : WorkerTake(w) \/ WorkerRun(w)
      \/ DestructStop
      \/ Quiet
  BY DEF Next, WorkerStep, EnqueueStep, DestructStep, Quiet
<1>. QED
  BY <1>1, <1>2, <1>3, <1>4, <1>5, <1>6 DEF Executor!Next

LEMMA InitImplements ==
  ASSUME Init
  PROVE  AcceptedOnce /\ Executor!Init
<1>1. Queued = {} /\ Running = {} /\ ready = {}
  BY DEF Init, Queued, Running
<1>. QED
  BY <1>1 DEF Init, AcceptedOnce, Executor!Init

LEMMA AcceptedOnceInvariant == Spec => [](PoolInv /\ AcceptedOnce)
<1>1. Init => AcceptedOnce
  BY InitImplements
<1>2. PoolInv /\ AcceptedOnce /\ [Next]_vars => AcceptedOnce'
  BY StepImplements
<1>. QED
  BY <1>1, <1>2, PoolInvariant, PTL DEF Spec

\* An accepted task is never lost and never run twice.
THEOREM TasksAreAcceptedOnce == Spec => []AcceptedOnce
BY AcceptedOnceInvariant, PTL

\* The pool, whatever its threads do, behaves like a TaskExecutor.
THEOREM PoolImplementsExecutor == Spec => ImplementsExecutor
<1>1. Init => Executor!Init
  BY InitImplements
<1>2. PoolInv /\ AcceptedOnce /\ [Next]_vars => [Executor!Next]_(Executor!vars)
  BY StepImplements
<1>. QED
  BY <1>1, <1>2, AcceptedOnceInvariant, PTL
  DEF Spec, ImplementsExecutor, Executor!Spec
===============================================================================
