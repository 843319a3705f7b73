-------------------------- MODULE CannonProxy_proofs --------------------------
(***************************************************************************)
(* Proofs about CannonProxy, for any number of backends, calls, keys and   *)
(* faults: the shape of its state, who writes where (StagingInv), and what *)
(* the maps hold (ContentInv); and about CannonRestarts, for any number of *)
(* restarts at any moment.                                                 *)
(***************************************************************************)
EXTENDS CannonRestarts, TLAPS

\* The two versions a reload touches, the next and the previous one, share a
\* map with each other and never with the version that is served.
LEMMA IndexFlips ==
  ASSUME NEW v \in Nat
  PROVE  /\ GetIndex(v) \in Slots
         /\ GetIndex(v + 1) # GetIndex(v)
BY DEF GetIndex, Slots

\* What a backend holds after a request has the shape of a pair of maps.
LEMMA StorageTypes ==
  ASSUME NEW Values, NEW st \in [Slots -> [Keys -> Values \union {None}]],
         NEW batch, NEW value \in Values, NEW v \in Nat
  PROVE  /\ Insert(st, batch, value, v) \in [Slots -> [Keys -> Values \union {None}]]
         /\ ClearData(st, v) \in [Slots -> [Keys -> Values \union {None}]]
         /\ \A k \in Keys : Seek(st, k, v) \in Values \union {None}
<1>1. GetIndex(v) \in Slots
  BY IndexFlips
<1>. QED
  BY <1>1 DEF Insert, ClearData, Seek

-------------------------------------------------------------------------------
(* Type correctness                                                         *)

\* The variables that rounds and RPCs share, as one formula.
Assumptions ==
  /\ NumServers \in Nat \ {0}
  /\ Gets \intersect Reloads = {}
  /\ Shard \in [Keys -> Servers]
  /\ Requests \subseteq Seq(Keys) /\ Files \subseteq Seq(Keys)
  /\ BlockSize \in Nat \ {0}
  /\ MaxFaults \in Nat

LEMMA AssumptionsHold == Assumptions
BY ServersAssumption, CallsAssumption, ShardAssumption, InputAssumption,
   BlockAssumption, FaultsAssumption DEF Assumptions

\* The input of a call is a sequence of keys.
LEMMA InputSeq ==
  ASSUME TypeOK, NEW c \in Calls
  PROVE  input[c] \in Seq(Keys)
<1>1. input[c] \in Requests \union Files \union {<< >>}
  BY DEF TypeOK
<1>2. << >> \in Seq(Keys)
  OBVIOUS
<1>. QED
  BY <1>1, <1>2, AssumptionsHold DEF Assumptions

\* The keys of a request or of a file are keys.
LEMMA InputKeys ==
  ASSUME TypeOK, NEW c \in Calls, NEW i \in DOMAIN input[c]
  PROVE  input[c][i] \in Keys
BY InputSeq

LEMMA InitType ==
  ASSUME Init
  PROVE  TypeOK
<1>1. pool \in [Servers -> [Lanes -> Seq(Calls)]]
  BY DEF Init
<1>2. stores \in [Servers -> [Slots -> [Keys -> Reloads \union {None}]]]
  BY DEF Init, EmptyStores
<1>3. \A g \in Gets : result[g] \in [DOMAIN input[g] -> Items]
  <2>1. << >> \in [DOMAIN << >> -> Items]
    OBVIOUS
  <2>2. \A g \in Gets : input[g] = << >> /\ result[g] = << >>
    BY DEF Init, Calls
  <2>. QED
    BY <2>1, <2>2
<1>4. /\ input \in [Calls -> Requests \union Files \union {<< >>}]
      /\ faults \in 0 .. MaxFaults
      /\ busy \in [Servers -> [Lanes -> BOOLEAN]]
      /\ garbled \subseteq Servers
  BY AssumptionsHold DEF Init, Assumptions
<1>5. /\ pc \in [Calls -> Pcs]
      /\ op \in [Calls -> Ops]
      /\ fut \in [Calls -> [Servers -> Futs]]
      /\ items \in [Calls -> SUBSET Nat]
      /\ todo \in [Calls -> SUBSET Servers]
  BY DEF Init, Pcs, Ops, Futs
<1>. QED
  BY <1>1, <1>2, <1>3, <1>4, <1>5 DEF Init, TypeOK, Calls

LEMMA EnqueueType ==
  ASSUME TypeOK, NEW c \in Calls, NEW s \in Servers, Enqueue(c, s)
  PROVE  TypeOK'
<1>1. LaneOf(op[c]) \in Lanes
  BY DEF LaneOf, Lanes
<1>2. pool' \in [Servers -> [Lanes -> Seq(Calls)]]
  BY <1>1 DEF TypeOK, Enqueue
<1>3. fut' \in [Calls -> [Servers -> Futs]]
  BY DEF TypeOK, Enqueue, Futs
<1>4. todo' \in [Calls -> SUBSET Servers]
  <2>1. todo \in [Calls -> SUBSET Servers]
    BY DEF TypeOK
  <2>2. Targets(c) \in SUBSET Servers
    BY DEF Targets
  <2>3. \/ todo' = [todo EXCEPT ![c] = Targets(c)]
        \/ todo' = [todo EXCEPT ![c] = todo[c] \ {s}]
    BY DEF Enqueue
  <2>. QED
    BY <2>1, <2>2, <2>3
<1>5. pc' \in [Calls -> Pcs]
  <2>1. pc \in [Calls -> Pcs] /\ "collect" \in Pcs
    BY DEF TypeOK, Pcs
  <2>2. pc' = pc \/ pc' = [pc EXCEPT ![c] = "collect"]
    BY DEF Enqueue
  <2>. QED
    BY <2>1, <2>2
<1>. QED
  BY <1>2, <1>3, <1>4, <1>5 DEF TypeOK, Enqueue

LEMMA CollectType ==
  ASSUME TypeOK, NEW c \in Calls, NEW s \in Servers, NEW after \in Pcs,
         Collect(c, s, after), ret' \in [Reloads -> BOOLEAN]
  PROVE  TypeOK'
<1>1. pc' \in [Calls -> Pcs]
  BY DEF TypeOK, Collect, Pcs
<1>2. todo' \in [Calls -> SUBSET Servers]
  BY DEF TypeOK, Collect
<1>. QED
  BY <1>1, <1>2 DEF TypeOK, Collect, serverVars

\* What StartRound assigns.
LEMMA StartRoundType ==
  ASSUME TypeOK, NEW c \in Calls, NEW o \in Ops, NEW positions \in SUBSET Nat,
         NEW v \in Nat, NEW servers \in SUBSET Servers,
         o = "get" <=> c \in Gets,
         StartRound(c, o, positions, v, servers)
  PROVE  /\ op' \in [Calls -> Ops]
         /\ \A g \in Gets : op'[g] \in {"none", "get"}
         /\ \A r \in Reloads : op'[r] # "get"
         /\ items' \in [Calls -> SUBSET Nat]
         /\ ver' \in [Calls -> Nat]
         /\ todo' \in [Calls -> SUBSET Servers]
         /\ fut' \in [Calls -> [Servers -> Futs]]
BY AssumptionsHold DEF Assumptions, TypeOK, StartRound, Futs, Calls, Ops

LEMMA FinishType ==
  ASSUME TypeOK, NEW c \in Calls, NEW s \in Servers,
         NEW answer \in {"true", "false", "exception"},
         Running(c, s), Finish(c, s, answer)
  PROVE  /\ pool' \in [Servers -> [Lanes -> Seq(Calls)]]
         /\ busy' \in [Servers -> [Lanes -> BOOLEAN]]
         /\ fut' \in [Calls -> [Servers -> Futs]]
<1>1. LaneOf(op[c]) \in Lanes
  BY DEF LaneOf, Lanes
<1>2. Tail(pool[s][LaneOf(op[c])]) \in Seq(Calls)
  BY <1>1 DEF TypeOK, Running
<1>. QED
  BY <1>1, <1>2 DEF TypeOK, Finish, Futs

\* Executing a request, whatever version it is read with.
LEMMA ExecutedType ==
  ASSUME TypeOK, NEW c \in Calls, NEW s \in Servers, NEW v \in Nat
  PROVE  Executed(c, s, v) \in [Slots -> [Keys -> Reloads \union {None}]]
<1>1. stores[s] \in [Slots -> [Keys -> Reloads \union {None}]]
  BY DEF TypeOK
<1>2. CASE op[c] = "insert"
  <2>1. c \in Reloads
    BY <1>2 DEF TypeOK, Calls
  <2>. QED
    BY <1>1, <1>2, <2>1, StorageTypes DEF Executed
<1>3. CASE op[c] = "clear"
  <2>1. ClearData(stores[s], v) \in [Slots -> [Keys -> Reloads \union {None}]]
    BY <1>1, IndexFlips DEF ClearData
  <2>. QED
    BY <1>3, <2>1 DEF Executed
<1>4. CASE op[c] \notin {"insert", "clear"}
  BY <1>1, <1>4 DEF Executed
<1>. QED
  BY <1>2, <1>3, <1>4

\* Type correctness is preserved by every step.
LEMMA NextType ==
  ASSUME TypeOK, [Next]_vars
  PROVE  TypeOK'
<1>1. ASSUME NEW g \in Gets, GetBegin(g)
      PROVE  TypeOK'
  <2>1. PICK keys \in Requests :
           /\ input'  = [input EXCEPT ![g] = keys]
           /\ result' = [result EXCEPT ![g] = [i \in DOMAIN keys |-> Default]]
           /\ StartRound(g, "get", DOMAIN keys, dataVersion,
                         {Shard[keys[i]] : i \in DOMAIN keys})
           /\ pc' = [pc EXCEPT ![g] = IF keys = << >> THEN "returned" ELSE "enqueue"]
    BY <1>1 DEF GetBegin
  <2>2. g \in Calls /\ keys \in Seq(Keys) /\ DOMAIN keys \in SUBSET Nat
    BY AssumptionsHold DEF Calls, Assumptions
  <2>3. {Shard[keys[i]] : i \in DOMAIN keys} \in SUBSET Servers
    BY <2>2, AssumptionsHold DEF Assumptions
  <2>4. dataVersion \in Nat /\ "get" \in Ops
    BY DEF TypeOK, Ops
  <2>5. /\ op' \in [Calls -> Ops]
        /\ \A h \in Gets : op'[h] \in {"none", "get"}
        /\ \A r \in Reloads : op'[r] # "get"
        /\ items' \in [Calls -> SUBSET Nat]
        /\ ver' \in [Calls -> Nat]
        /\ todo' \in [Calls -> SUBSET Servers]
        /\ fut' \in [Calls -> [Servers -> Futs]]
    BY <2>1, <2>2, <2>3, <2>4, StartRoundType
  <2>6. pc' \in [Calls -> Pcs]
    BY <2>1, <2>2 DEF TypeOK, Pcs
  <2>7. input' \in [Calls -> Requests \union Files \union {<< >>}]
    BY <2>1, <2>2 DEF TypeOK
  <2>8. /\ DOMAIN result' = Gets
        /\ \A h \in Gets : result'[h] \in [DOMAIN input'[h] -> Items]
    BY <2>1, <2>2 DEF TypeOK, Items, Calls
  <2>. QED
    BY <1>1, <2>5, <2>6, <2>7, <2>8 DEF TypeOK, GetBegin, serverVars
<1>2. ASSUME NEW g \in Gets, NEW s \in Servers, CollectQuery(g, s)
      PROVE  TypeOK'
  <2>1. g \in Calls /\ "returned" \in Pcs
    BY DEF Calls, Pcs
  <2>2. Collect(g, s, "returned") /\ ret' \in [Reloads -> BOOLEAN]
    BY <1>2 DEF CollectQuery, TypeOK
  <2>. QED
    BY <2>1, <2>2, CollectType
<1>3. ASSUME NEW c \in Calls, NEW s \in Servers, Enqueue(c, s)
      PROVE  TypeOK'
  BY <1>3, EnqueueType
<1>4. ASSUME NEW r \in Reloads,
             ReloadRefused(r) \/ ReloadNoPaths(r) \/ ReloadReturn(r)
      PROVE  TypeOK'
  <2>1. pc' \in [Calls -> Pcs] /\ ret' \in [Reloads -> BOOLEAN] /\ isLoading' \in BOOLEAN
    BY <1>4 DEF ReloadRefused, ReloadNoPaths, ReloadReturn, TypeOK, Pcs, Calls
  <2>. QED
    BY <1>4, <2>1
       DEF ReloadRefused, ReloadNoPaths, ReloadReturn, TypeOK, serverVars
<1>5. ASSUME NEW r \in Reloads, ReloadBegin(r)
      PROVE  TypeOK'
  <2>1. PICK lines \in Files : input' = [input EXCEPT ![r] = lines]
    BY <1>5 DEF ReloadBegin
  <2>2. input' \in [Calls -> Requests \union Files \union {<< >>}]
    BY <2>1 DEF TypeOK
  <2>3. \A g \in Gets : input'[g] = input[g]
    BY <2>1, AssumptionsHold DEF Assumptions, TypeOK, Calls
  <2>4. pc' \in [Calls -> Pcs] /\ isLoading' \in BOOLEAN
    BY <1>5 DEF ReloadBegin, TypeOK, Pcs, Calls
  <2>. QED
    BY <1>5, <2>2, <2>3, <2>4 DEF ReloadBegin, TypeOK, serverVars
<1>6. ASSUME NEW r \in Reloads, ReloadNextBlock(r)
      PROVE  TypeOK'
  <2>1. r \in Calls /\ r \notin Gets
    BY AssumptionsHold DEF Calls, Assumptions
  <2>2. input[r] \in Seq(Keys)
    BY <2>1, InputSeq
  <2>3. Block(r) \in SUBSET Nat
    BY <2>2 DEF Block
  <2>4. {Shard[input[r][i]] : i \in Block(r)} \in SUBSET Servers
    BY <2>1, InputKeys, AssumptionsHold DEF Assumptions, Block
  <2>5. dataVersion + 1 \in Nat /\ "insert" \in Ops
    BY DEF TypeOK, Ops
  <2>6. StartRound(r, "insert", Block(r), dataVersion + 1,
                   {Shard[input[r][i]] : i \in Block(r)})
    BY <1>6 DEF ReloadNextBlock
  <2>7. /\ op' \in [Calls -> Ops]
        /\ \A g \in Gets : op'[g] \in {"none", "get"}
        /\ \A q \in Reloads : op'[q] # "get"
        /\ items' \in [Calls -> SUBSET Nat]
        /\ ver' \in [Calls -> Nat]
        /\ todo' \in [Calls -> SUBSET Servers]
        /\ fut' \in [Calls -> [Servers -> Futs]]
    BY <2>1, <2>3, <2>4, <2>5, <2>6, StartRoundType
  <2>8. pc' \in [Calls -> Pcs] /\ read' \in [Reloads -> Nat]
    BY <1>6, <2>1, AssumptionsHold DEF ReloadNextBlock, TypeOK, Pcs, Assumptions
  <2>. QED
    BY <1>6, <2>7, <2>8 DEF ReloadNextBlock, TypeOK, serverVars
<1>7. ASSUME NEW r \in Reloads, ReloadInstall(r)
      PROVE  TypeOK'
  <2>1. r \in Calls /\ r \notin Gets
    BY AssumptionsHold DEF Calls, Assumptions
  <2>2. dataVersion \in Nat /\ dataVersion' \in Nat /\ "clear" \in Ops
    BY <1>7 DEF TypeOK, Ops, ReloadInstall
  <2>3. StartRound(r, "clear", {}, dataVersion, Servers)
    BY <1>7 DEF ReloadInstall
  <2>4. /\ op' \in [Calls -> Ops]
        /\ \A g \in Gets : op'[g] \in {"none", "get"}
        /\ \A q \in Reloads : op'[q] # "get"
        /\ items' \in [Calls -> SUBSET Nat]
        /\ ver' \in [Calls -> Nat]
        /\ todo' \in [Calls -> SUBSET Servers]
        /\ fut' \in [Calls -> [Servers -> Futs]]
    BY <2>1, <2>2, <2>3, StartRoundType
  <2>5. pc' \in [Calls -> Pcs]
    BY <1>7, <2>1 DEF ReloadInstall, TypeOK, Pcs
  <2>. QED
    BY <1>7, <2>2, <2>4, <2>5 DEF ReloadInstall, TypeOK, serverVars
<1>8. ASSUME NEW r \in Reloads, NEW s \in Servers,
             CollectInsert(r, s) \/ CollectClear(r, s)
      PROVE  TypeOK'
  <2>1. r \in Calls /\ "load" \in Pcs /\ "release" \in Pcs
    BY DEF Calls, Pcs
  <2>2. ret' \in [Reloads -> BOOLEAN]
    BY <1>8 DEF CollectInsert, CollectClear, TypeOK
  <2>. QED
    BY <1>8, <2>1, <2>2, CollectType DEF CollectInsert, CollectClear
<1>9. ASSUME NEW s \in Servers, NEW l \in Lanes, WorkerTake(s, l)
      PROVE  TypeOK'
  <2>1. busy' \in [Servers -> [Lanes -> BOOLEAN]] /\ garbled' \subseteq Servers
    BY <1>9 DEF WorkerTake, TypeOK
  <2>. QED
    BY <1>9, <2>1 DEF WorkerTake, TypeOK
<1>10. ASSUME NEW r \in Reloads, NEW s \in Servers, RpcInsert(r, s) \/ RpcClear(r, s)
       PROVE  TypeOK'
  <2>1. r \in Calls
    BY DEF Calls
  <2>2. PICK answer \in {"true", "false", "exception"} :
          Running(r, s) /\ Finish(r, s, answer)
    BY <1>10 DEF RpcInsert, RpcClear
  <2>3. /\ pool' \in [Servers -> [Lanes -> Seq(Calls)]]
        /\ busy' \in [Servers -> [Lanes -> BOOLEAN]]
        /\ fut' \in [Calls -> [Servers -> Futs]]
    BY <2>1, <2>2, FinishType
  <2>4. stores' \in [Servers -> [Slots -> [Keys -> Reloads \union {None}]]]
    <3>1. ver[r] \in Nat
      BY <2>1 DEF TypeOK
    <3>2. Executed(r, s, ver[r]) \in [Slots -> [Keys -> Reloads \union {None}]]
      BY <2>1, <3>1, ExecutedType
    <3>. QED
      BY <1>10, <3>2, ZenonT(30) DEF RpcInsert, RpcClear, TypeOK
  <2>. QED
    BY <1>10, <2>2, <2>3, <2>4 DEF RpcInsert, RpcClear, Finish, TypeOK
<1>11. ASSUME NEW g \in Gets, NEW s \in Servers, RpcQuery(g, s)
       PROVE  TypeOK'
  <2>1. g \in Calls
    BY DEF Calls
  <2>2. /\ pool' \in [Servers -> [Lanes -> Seq(Calls)]]
        /\ busy' \in [Servers -> [Lanes -> BOOLEAN]]
        /\ fut' \in [Calls -> [Servers -> Futs]]
    BY <1>11, <2>1, FinishType DEF RpcQuery
  <2>3. \A i \in DOMAIN input[g] : Seek(stores[s], input[g][i], ver[g]) \in Items
    <3>1. /\ ver[g] \in Nat
          /\ stores[s] \in [Slots -> [Keys -> Reloads \union {None}]]
      BY <2>1 DEF TypeOK
    <3>2. GetIndex(ver[g]) \in Slots
      BY <3>1, IndexFlips
    <3>3. \A i \in DOMAIN input[g] : input[g][i] \in Keys
      BY <2>1, InputKeys
    <3>. QED
      BY <3>1, <3>2, <3>3 DEF Seek, Items
  <2>4. /\ DOMAIN result' = Gets
        /\ \A h \in Gets : result'[h] \in [DOMAIN input[h] -> Items]
    BY <1>11, <2>3 DEF RpcQuery, TypeOK
  <2>. QED
    BY <1>11, <2>2, <2>4 DEF RpcQuery, Finish, TypeOK
<1>12. ASSUME NEW c \in Calls, NEW s \in Servers, RpcThrows(c, s)
       PROVE  TypeOK'
  <2>1. /\ pool' \in [Servers -> [Lanes -> Seq(Calls)]]
        /\ busy' \in [Servers -> [Lanes -> BOOLEAN]]
        /\ fut' \in [Calls -> [Servers -> Futs]]
    BY <1>12, FinishType DEF RpcThrows
  <2>2. stores' \in [Servers -> [Slots -> [Keys -> Reloads \union {None}]]]
    <3>1. ver[c] \in Nat
      BY DEF TypeOK
    <3>2. Executed(c, s, ver[c]) \in [Slots -> [Keys -> Reloads \union {None}]]
      BY <3>1, ExecutedType
    <3>3. stores' = stores \/ stores' = [stores EXCEPT ![s] = Executed(c, s, ver[c])]
      BY <1>12 DEF RpcThrows
    <3>4. stores \in [Servers -> [Slots -> [Keys -> Reloads \union {None}]]]
      BY DEF TypeOK
    <3>. QED
      BY <3>2, <3>3, <3>4
  <2>3. faults' \in 0 .. MaxFaults
    BY <1>12, AssumptionsHold DEF RpcThrows, TypeOK, Assumptions
  <2>. QED
    BY <1>12, <2>1, <2>2, <2>3 DEF RpcThrows, Finish, TypeOK
<1>13. ASSUME NEW c \in Calls, NEW s \in Servers, RpcGarbled(c, s)
       PROVE  TypeOK'
  <2>1. PICK answer \in {"true", "false", "exception"} : Finish(c, s, answer)
    BY <1>13 DEF RpcGarbled
  <2>2. /\ pool' \in [Servers -> [Lanes -> Seq(Calls)]]
        /\ busy' \in [Servers -> [Lanes -> BOOLEAN]]
        /\ fut' \in [Calls -> [Servers -> Futs]]
    BY <1>13, <2>1, FinishType DEF RpcGarbled
  <2>3. stores' \in [Servers -> [Slots -> [Keys -> Reloads \union {None}]]]
    <3>1. \A v \in Slots :
            Executed(c, s, v) \in [Slots -> [Keys -> Reloads \union {None}]]
      BY ExecutedType DEF Slots
    <3>2. stores' = stores \/ \E v \in Slots :
            stores' = [stores EXCEPT ![s] = Executed(c, s, v)]
      BY <1>13 DEF RpcGarbled
    <3>3. stores \in [Servers -> [Slots -> [Keys -> Reloads \union {None}]]]
      BY DEF TypeOK
    <3>4. \A v \in Slots : [stores EXCEPT ![s] = Executed(c, s, v)]
            \in [Servers -> [Slots -> [Keys -> Reloads \union {None}]]]
      BY <3>1, <3>3
    <3>. QED
      BY <3>2, <3>3, <3>4
  <2>4. /\ DOMAIN result' = Gets
        /\ \A h \in Gets : result'[h] \in [DOMAIN input[h] -> Items]
    BY <1>13 DEF RpcGarbled, TypeOK, Items
  <2>. QED
    BY <1>13, <2>1, <2>2, <2>3, <2>4 DEF RpcGarbled, Finish, TypeOK
<1>14. CASE UNCHANGED vars
  BY <1>14 DEF TypeOK, vars, serverVars
<1>15. Gets \subseteq Calls /\ Reloads \subseteq Calls
  BY DEF Calls
<1>. QED
  BY <1>1, <1>2, <1>3, <1>4, <1>5, <1>6, <1>7, <1>8, <1>9, <1>10, <1>11, <1>12,
     <1>13, <1>14, <1>15
     DEF Next, GetStep, ReloadStep, RpcEnds, EnqueueQueryKeys, EnqueueInsertKvs,
         EnqueueClearData

\* The fields of the handler, the pools, the backends and the locals of the
\* calls keep their shapes, with any number of concurrent calls and faults.
THEOREM TypeCorrect == Spec => []TypeOK
<1>1. Init => TypeOK
  BY InitType
<1>2. TypeOK /\ [Next]_vars => TypeOK'
  BY NextType
<1>. QED
  BY <1>1, <1>2, PTL DEF Spec

-------------------------------------------------------------------------------
(* The staging protocol                                                     *)

LEMMA InitStaging ==
  ASSUME Init
  PROVE  StagingInv
<1>1. TypeOK
  BY InitType
<1>2. LoadingMutex /\ RoundsOrderly /\ RoundsAimed
  BY DEF Init, LoadingMutex, RoundsOrderly, RoundsAimed, Holds, Pending, Calls
<1>3. QueryLane
  BY DEF Init, QueryLane, Lanes
<1>. QED
  BY <1>1, <1>2, <1>3 DEF StagingInv

\* A step that leaves the reloads and their lanes alone keeps the invariant.
LEMMA ReloadsUntouched ==
  ASSUME StagingInv, TypeOK',
         dataVersion' = dataVersion, isLoading' = isLoading,
         \A r \in Reloads : /\ pc'[r] = pc[r] /\ op'[r] = op[r]
                            /\ items'[r] = items[r] /\ input'[r] = input[r]
                            /\ ver'[r] = ver[r] /\ todo'[r] = todo[r]
                            /\ fut'[r] = fut[r],
         \A s \in Servers : pool'[s]["query"] = pool[s]["query"]
  PROVE  StagingInv'
<1>1. LoadingMutex'
  BY DEF StagingInv, LoadingMutex, Holds
<1>2. RoundsOrderly'
  BY DEF StagingInv, RoundsOrderly, Pending, Targets, Share
<1>3. RoundsAimed'
  BY DEF StagingInv, RoundsAimed, Aimed
<1>4. QueryLane'
  BY DEF StagingInv, QueryLane, Pending
<1>. QED
  BY <1>1, <1>2, <1>3, <1>4 DEF StagingInv

\* A task of a get is never in the lane of the reloads.
LEMMA GetTask ==
  ASSUME StagingInv, NEW g \in Gets, NEW s \in Servers, Running(g, s)
  PROVE  LaneOf(op[g]) = "insert"
<1>1. g \in Calls /\ g \notin Reloads
  BY AssumptionsHold DEF Calls, Assumptions
<1>2. CASE LaneOf(op[g]) = "query"
  <2>1. pool[s]["query"] # << >> /\ g = Head(pool[s]["query"])
    BY <1>2 DEF Running
  <2>2. PICK r \in Reloads : pool[s]["query"] = <<r>>
    BY <2>1 DEF StagingInv, QueryLane
  <2>. QED
    BY <1>1, <2>1, <2>2
<1>. QED
  BY <1>2 DEF LaneOf

\* A running task of a reload is alone in its lane and its future is pending.
LEMMA ReloadTask ==
  ASSUME StagingInv, NEW r \in Reloads, NEW s \in Servers, Running(r, s)
  PROVE  /\ LaneOf(op[r]) = "query"
         /\ pool[s]["query"] = <<r>>
         /\ Pending(r, s)
         /\ Aimed(r)
<1>1. LaneOf(op[r]) = "query"
  BY DEF StagingInv, TypeOK, LaneOf
<1>2. pool[s]["query"] # << >> /\ r = Head(pool[s]["query"])
  BY <1>1 DEF Running
<1>3. PICK q \in Reloads : pool[s]["query"] = <<q>> /\ Pending(q, s)
  BY <1>2 DEF StagingInv, QueryLane
<1>4. r = q
  BY <1>2, <1>3
<1>5. Aimed(r)
  BY <1>3, <1>4 DEF StagingInv, RoundsOrderly, RoundsAimed
<1>. QED
  BY <1>1, <1>3, <1>4, <1>5

\* A task ends, whatever its answer.
LEMMA FinishStaging ==
  ASSUME StagingInv, TypeOK', NEW c \in Calls, NEW s \in Servers,
         NEW answer \in {"true", "false", "exception"},
         Running(c, s), Finish(c, s, answer)
  PROVE  StagingInv'
<1>1. CASE c \in Gets
  <2>1. LaneOf(op[c]) = "insert"
    BY <1>1, GetTask
  <2>2. c \notin Reloads
    BY <1>1, AssumptionsHold DEF Assumptions
  <2>3. \A t \in Servers : pool'[t]["query"] = pool[t]["query"]
    BY <2>1 DEF Finish, StagingInv, TypeOK, Lanes
  <2>4. \A r \in Reloads : fut'[r] = fut[r]
    BY <2>2 DEF Finish, StagingInv, TypeOK, Calls
  <2>. QED
    BY <2>3, <2>4, ReloadsUntouched DEF Finish
<1>2. CASE c \in Reloads
  <2>1. /\ LaneOf(op[c]) = "query"
        /\ pool[s]["query"] = <<c>>
        /\ Pending(c, s)
    BY <1>2, ReloadTask
  <2>2. \A r \in Reloads, t \in Servers :
          fut'[r][t] = IF r = c /\ t = s THEN answer ELSE fut[r][t]
    BY DEF Finish, StagingInv, TypeOK, Calls
  <2>3. \A t \in Servers :
          pool'[t]["query"] = IF t = s THEN << >> ELSE pool[t]["query"]
    BY <2>1 DEF Finish, StagingInv, TypeOK, Lanes
  <2>4. LoadingMutex'
    BY DEF Finish, StagingInv, LoadingMutex, Holds
  <2>5. RoundsOrderly'
    BY <2>2 DEF Finish, StagingInv, RoundsOrderly, Pending, Targets, Share
  <2>6. RoundsAimed'
    BY DEF Finish, StagingInv, RoundsAimed, Aimed
  <2>7. QueryLane'
    BY <2>2, <2>3 DEF StagingInv, QueryLane, Pending
  <2>. QED
    BY <2>4, <2>5, <2>6, <2>7 DEF StagingInv
<1>. QED
  BY <1>1, <1>2 DEF Calls

\* A reload that queues a task finds its lane empty.
LEMMA EnqueueStaging ==
  ASSUME StagingInv, TypeOK', NEW r \in Reloads, NEW s \in Servers, Enqueue(r, s)
  PROVE  StagingInv'
<1>1. r \in Calls /\ LaneOf(op[r]) = "query"
  BY DEF StagingInv, TypeOK, LaneOf, Calls
<1>2. /\ pc[r] = "enqueue" /\ s \in todo[r]
      /\ ~Pending(r, s)
  BY DEF Enqueue, IsNext, StagingInv, RoundsOrderly
<1>3. pool[s]["query"] = << >>
  <2>1. SUFFICES ASSUME NEW q \in Reloads, Pending(q, s)
                 PROVE  FALSE
    BY DEF StagingInv, QueryLane
  <2>2. Holds(q) /\ Holds(r)
    BY <1>2, <2>1 DEF StagingInv, RoundsOrderly, Holds
  <2>. QED
    BY <1>2, <2>1, <2>2 DEF StagingInv, LoadingMutex
<1>4. \A q \in Reloads, t \in Servers :
        fut'[q][t] = IF q = r /\ t = s THEN "pending" ELSE fut[q][t]
  BY <1>1 DEF Enqueue, StagingInv, TypeOK, Calls
<1>5. \A t \in Servers :
        pool'[t]["query"] = IF t = s THEN <<r>> ELSE pool[t]["query"]
  BY <1>1, <1>3 DEF Enqueue, StagingInv, TypeOK, Lanes
<1>6. pc \in [Calls -> Pcs] /\ todo \in [Calls -> SUBSET Servers]
  BY DEF StagingInv, TypeOK
<1>7. \A q \in Reloads : q # r => pc'[q] = pc[q] /\ todo'[q] = todo[q]
  BY <1>1, <1>6 DEF Enqueue, Calls
<1>8. \/ /\ todo[r] = {s} /\ pc'[r] = "collect" /\ todo'[r] = Targets(r)
      \/ /\ todo[r] # {s} /\ pc'[r] = "enqueue" /\ todo'[r] = todo[r] \ {s}
  BY <1>1, <1>2, <1>6 DEF Enqueue
<1>9. \A q \in Reloads : Targets(q)' = Targets(q)
  BY DEF Enqueue, Targets, Share
<1>10. LoadingMutex'
  BY <1>2, <1>7, <1>8 DEF Enqueue, StagingInv, LoadingMutex, Holds
<1>11. RoundsOrderly'
  <2>1. \A q \in Reloads, t \in Servers :
          Pending(q, t)' <=> (q = r /\ t = s) \/ Pending(q, t)
    BY <1>4 DEF Pending
  <2>. QED
    BY <1>2, <1>7, <1>8, <1>9, <2>1 DEF StagingInv, RoundsOrderly
<1>12. RoundsAimed'
  BY <1>2, <1>7, <1>8 DEF Enqueue, StagingInv, RoundsAimed, Aimed
<1>13. QueryLane'
  BY <1>4, <1>5 DEF StagingInv, QueryLane, Pending
<1>. QED
  BY <1>10, <1>11, <1>12, <1>13 DEF StagingInv

\* A reload that waits for the futures of a round in order leaves the round
\* with none outstanding, or by the exception one of them holds.
LEMMA CollectStaging ==
  ASSUME StagingInv, TypeOK', NEW r \in Reloads, NEW s \in Servers,
         NEW after \in {"load", "release"}, Collect(r, s, after)
  PROVE  StagingInv'
<1>1. r \in Calls
  BY DEF Calls
<1>2. pc \in [Calls -> Pcs] /\ todo \in [Calls -> SUBSET Servers]
  BY DEF StagingInv, TypeOK
<1>3. pc[r] = "collect" /\ ~Pending(r, s)
  BY DEF Collect, Pending
<1>4. \A q \in Reloads : q # r => pc'[q] = pc[q] /\ todo'[q] = todo[q]
  BY <1>1, <1>2 DEF Collect, Calls
<1>5. /\ todo'[r] = todo[r] \ {s}
      /\ \/ pc'[r] \in {"threw", "collect"}
         \/ pc'[r] = after /\ todo[r] = {s}
  BY <1>1, <1>2 DEF Collect
<1>6. LoadingMutex'
  BY <1>3, <1>4, <1>5 DEF Collect, StagingInv, LoadingMutex, Holds
<1>7. RoundsOrderly'
  <2>1. \A q \in Reloads, t \in Servers : Pending(q, t)' = Pending(q, t)
    BY DEF Collect, Pending
  <2>2. \A q \in Reloads : Targets(q)' = Targets(q)
    BY DEF Collect, Targets, Share
  <2>. QED
    BY <1>3, <1>4, <1>5, <2>1, <2>2 DEF StagingInv, RoundsOrderly
<1>8. RoundsAimed'
  BY <1>3, <1>4, <1>5 DEF Collect, StagingInv, RoundsAimed, Aimed
<1>9. QueryLane'
  BY DEF Collect, serverVars, StagingInv, QueryLane, Pending
<1>. QED
  BY <1>6, <1>7, <1>8, <1>9 DEF StagingInv

\* The reload that holds the flag starts a round on a version next to the
\* served one.
LEMMA StartRoundStaging ==
  ASSUME StagingInv, TypeOK', NEW r \in Reloads, pc[r] = "load",
         NEW o \in {"insert", "clear"}, NEW positions, NEW v, NEW servers,
         StartRound(r, o, positions, v, servers),
         pc' = [pc EXCEPT ![r] = "enqueue"],
         v = IF o = "insert" THEN dataVersion' + 1 ELSE dataVersion' - 1,
         \A s \in servers : s \in Targets(r)',
         isLoading' = isLoading, pool' = pool
  PROVE  StagingInv'
<1>1. r \in Calls
  BY DEF Calls
<1>2. \A q \in Reloads : q # r =>
        /\ pc'[q] = pc[q] /\ op'[q] = op[q] /\ items'[q] = items[q]
        /\ ver'[q] = ver[q] /\ todo'[q] = todo[q] /\ fut'[q] = fut[q]
  BY <1>1 DEF StartRound, StagingInv, TypeOK, Calls
<1>3. /\ pc'[r] = "enqueue" /\ op'[r] = o /\ ver'[r] = v /\ todo'[r] = servers
      /\ \A s \in Servers : fut'[r][s] = "none"
  BY <1>1 DEF StartRound, StagingInv, TypeOK
<1>4. \A q \in Reloads : Holds(q) => q = r
  BY DEF StagingInv, LoadingMutex, Holds
<1>5. \A s \in Servers : ~Pending(r, s)
  BY DEF StagingInv, RoundsOrderly
<1>6. LoadingMutex'
  BY <1>2, <1>3 DEF StagingInv, LoadingMutex, Holds
<1>7. RoundsOrderly'
  <2>1. \A q \in Reloads, s \in Servers : Pending(q, s)' <=> Pending(q, s)
    BY <1>2, <1>3, <1>5 DEF Pending
  <2>2. \A q \in Reloads, s \in Servers : ~Pending(q, s)
    BY <1>4, <1>5 DEF StagingInv, RoundsOrderly, Holds
  <2>3. \A q \in Reloads : pc'[q] \in {"enqueue", "collect"} => q = r
    BY <1>2, <1>4 DEF Holds
  <2>. QED
    BY <1>3, <2>1, <2>2, <2>3 DEF RoundsOrderly
<1>8. RoundsAimed'
  BY <1>2, <1>3, <1>4 DEF RoundsAimed, Aimed, Holds
<1>9. QueryLane'
  BY <1>2, <1>3, <1>5 DEF StagingInv, QueryLane, Pending
<1>. QED
  BY <1>6, <1>7, <1>8, <1>9 DEF StagingInv

\* Taking, refusing and releasing the flag.
LEMMA FlagStaging ==
  ASSUME StagingInv, TypeOK', NEW r \in Reloads,
         \/ ReloadRefused(r) \/ ReloadNoPaths(r) \/ ReloadBegin(r) \/ ReloadReturn(r)
  PROVE  StagingInv'
<1>1. r \in Calls
  BY DEF Calls
<1>2. \A q \in Reloads : q # r => pc'[q] = pc[q]
  BY <1>1 DEF ReloadRefused, ReloadNoPaths, ReloadBegin, ReloadReturn,
              StagingInv, TypeOK, Calls
<1>3. pc[r] \in {"idle", "load", "release"} /\ pc'[r] \in {"load", "returned"}
  BY <1>1 DEF ReloadRefused, ReloadNoPaths, ReloadBegin, ReloadReturn,
              StagingInv, TypeOK
<1>4. /\ dataVersion' = dataVersion /\ pool' = pool
      /\ op' = op /\ ver' = ver /\ todo' = todo /\ fut' = fut
  BY DEF ReloadRefused, ReloadNoPaths, ReloadBegin, ReloadReturn, serverVars
<1>5. LoadingMutex'
  <2>1. CASE pc[r] = "idle"
    <3>1. isLoading'
      BY <2>1 DEF ReloadRefused, ReloadNoPaths, ReloadBegin, ReloadReturn
    <3>2. pc'[r] = "load" => ~isLoading
      BY <1>1, <2>1 DEF ReloadRefused, ReloadNoPaths, ReloadBegin, ReloadReturn,
                        StagingInv, TypeOK
    <3>. QED
      BY <1>2, <1>3, <3>1, <3>2 DEF StagingInv, LoadingMutex, Holds
  <2>2. CASE pc[r] # "idle"
    <3>1. pc'[r] = "returned"
      BY <1>1, <2>2 DEF ReloadRefused, ReloadNoPaths, ReloadBegin, ReloadReturn,
                        StagingInv, TypeOK
    <3>. QED
      BY <1>2, <1>3, <2>2, <3>1 DEF StagingInv, LoadingMutex, Holds
  <2>. QED
    BY <2>1, <2>2
<1>6. RoundsOrderly'
  <2>1. \A s \in Servers : ~Pending(r, s)
    BY <1>3 DEF StagingInv, RoundsOrderly
  <2>2. \A q \in Reloads, s \in Servers : Pending(q, s)' = Pending(q, s)
    BY <1>4 DEF Pending
  <2>3. \A q \in Reloads : pc'[q] \in {"enqueue", "collect"} =>
          Targets(q)' = Targets(q)
    <3>1. input' = input \/ \E lines : input' = [input EXCEPT ![r] = lines]
      BY DEF ReloadRefused, ReloadNoPaths, ReloadBegin, ReloadReturn
    <3>2. \A q \in Reloads : q # r => input'[q] = input[q]
      BY <3>1 DEF StagingInv, TypeOK, Calls
    <3>3. items' = items
      BY DEF ReloadRefused, ReloadNoPaths, ReloadBegin, ReloadReturn
    <3>. QED
      BY <1>3, <1>4, <3>2, <3>3 DEF Targets, Share
  <2>. QED
    BY <1>2, <1>3, <1>4, <2>1, <2>2, <2>3 DEF StagingInv, RoundsOrderly
<1>7. RoundsAimed'
  BY <1>2, <1>3, <1>4 DEF StagingInv, RoundsAimed, Aimed
<1>8. QueryLane'
  BY <1>4 DEF StagingInv, QueryLane, Pending
<1>. QED
  BY <1>5, <1>6, <1>7, <1>8 DEF StagingInv

\* Every step keeps the staging protocol.
LEMMA NextStaging ==
  ASSUME StagingInv, [Next]_vars
  PROVE  StagingInv'
<1>1. TypeOK'
  BY NextType DEF StagingInv
<1>2. /\ Gets \subseteq Calls /\ Reloads \subseteq Calls
      /\ \A g \in Gets : g \notin Reloads
  BY AssumptionsHold DEF Calls, Assumptions
<1>3. ASSUME NEW g \in Gets, GetBegin(g)
      PROVE  StagingInv'
  <2>1. \A r \in Reloads : /\ pc'[r] = pc[r] /\ op'[r] = op[r]
                           /\ items'[r] = items[r] /\ input'[r] = input[r]
                           /\ ver'[r] = ver[r] /\ todo'[r] = todo[r]
                           /\ fut'[r] = fut[r]
    BY <1>2, <1>3 DEF GetBegin, StartRound, StagingInv, TypeOK
  <2>. QED
    BY <1>1, <1>3, <2>1, ReloadsUntouched DEF GetBegin, serverVars
<1>4. ASSUME NEW g \in Gets, NEW s \in Servers, EnqueueQueryKeys(g, s)
      PROVE  StagingInv'
  <2>1. LaneOf(op[g]) = "insert" /\ "query" \in Lanes /\ "query" # "insert"
    BY <1>4 DEF EnqueueQueryKeys, LaneOf, Lanes
  <2>2. \A t \in Servers : pool'[t]["query"] = pool[t]["query"]
    BY <1>4, <2>1 DEF EnqueueQueryKeys, Enqueue, StagingInv, TypeOK
  <2>3. \A r \in Reloads : /\ pc'[r] = pc[r] /\ todo'[r] = todo[r]
                           /\ fut'[r] = fut[r]
    BY <1>2, <1>4 DEF EnqueueQueryKeys, Enqueue, StagingInv, TypeOK
  <2>. QED
    BY <1>1, <1>4, <2>2, <2>3, ReloadsUntouched DEF EnqueueQueryKeys, Enqueue
<1>5. ASSUME NEW g \in Gets, NEW s \in Servers, CollectQuery(g, s)
      PROVE  StagingInv'
  <2>1. \A r \in Reloads : pc'[r] = pc[r] /\ todo'[r] = todo[r]
    BY <1>2, <1>5 DEF CollectQuery, Collect, StagingInv, TypeOK
  <2>. QED
    BY <1>1, <1>5, <2>1, ReloadsUntouched DEF CollectQuery, Collect, serverVars
<1>6. ASSUME NEW r \in Reloads,
             \/ ReloadRefused(r) \/ ReloadNoPaths(r) \/ ReloadBegin(r) \/ ReloadReturn(r)
      PROVE  StagingInv'
  BY <1>1, <1>6, FlagStaging
<1>7. ASSUME NEW r \in Reloads, ReloadNextBlock(r)
      PROVE  StagingInv'
  <2>1. StartRound(r, "insert", Block(r), dataVersion + 1,
                   {Shard[input[r][i]] : i \in Block(r)})
    BY <1>7 DEF ReloadNextBlock
  <2>2. /\ op'[r] = "insert" /\ items'[r] = Block(r) /\ input' = input
    BY <1>2, <1>7, <2>1 DEF StartRound, ReloadNextBlock, StagingInv, TypeOK
  <2>3. \A i \in Block(r) : Shard[input[r][i]] \in Servers
    BY <1>2, InputKeys, AssumptionsHold DEF StagingInv, Assumptions, Block
  <2>4. \A s \in {Shard[input[r][i]] : i \in Block(r)} : s \in Targets(r)'
    BY <2>2, <2>3 DEF Targets, Share
  <2>. QED
    BY <1>1, <1>7, <2>1, <2>4, StartRoundStaging DEF ReloadNextBlock, serverVars
<1>8. ASSUME NEW r \in Reloads, ReloadInstall(r)
      PROVE  StagingInv'
  <2>1. StartRound(r, "clear", {}, dataVersion, Servers)
    BY <1>8 DEF ReloadInstall
  <2>2. op'[r] = "clear"
    BY <1>2, <2>1 DEF StartRound, StagingInv, TypeOK
  <2>3. \A s \in Servers : s \in Targets(r)'
    BY <2>2 DEF Targets
  <2>4. dataVersion = dataVersion' - 1
    BY <1>8 DEF ReloadInstall, StagingInv, TypeOK
  <2>. QED
    BY <1>1, <1>8, <2>1, <2>3, <2>4, StartRoundStaging DEF ReloadInstall, serverVars
<1>9. ASSUME NEW r \in Reloads, NEW s \in Servers,
             EnqueueInsertKvs(r, s) \/ EnqueueClearData(r, s)
      PROVE  StagingInv'
  BY <1>1, <1>9, EnqueueStaging DEF EnqueueInsertKvs, EnqueueClearData
<1>10. ASSUME NEW r \in Reloads, NEW s \in Servers,
              CollectInsert(r, s) \/ CollectClear(r, s)
       PROVE  StagingInv'
  BY <1>1, <1>10, CollectStaging DEF CollectInsert, CollectClear
<1>11. ASSUME NEW s \in Servers, NEW l \in Lanes, WorkerTake(s, l)
       PROVE  StagingInv'
  BY <1>1, <1>11, ReloadsUntouched DEF WorkerTake
<1>12. ASSUME NEW c \in Calls, NEW s \in Servers,
              \/ c \in Reloads /\ (RpcInsert(c, s) \/ RpcClear(c, s))
              \/ c \in Gets /\ RpcQuery(c, s)
              \/ RpcThrows(c, s) \/ RpcGarbled(c, s)
       PROVE  StagingInv'
  <2>1. PICK answer \in {"true", "false", "exception"} :
          Running(c, s) /\ Finish(c, s, answer)
    BY <1>12 DEF RpcInsert, RpcClear, RpcQuery, RpcThrows, RpcGarbled
  <2>. QED
    BY <1>1, <2>1, FinishStaging
<1>13. CASE UNCHANGED vars
  BY <1>1, <1>13, ReloadsUntouched DEF vars, serverVars
<1>. QED
  BY <1>2, <1>3, <1>4, <1>5, <1>6, <1>7, <1>8, <1>9, <1>10, <1>11, <1>12, <1>13
     DEF Next, GetStep, ReloadStep, RpcEnds

\* The inductive invariant of the staging: see StagingInv.
THEOREM StagingInvariant == Spec => []StagingInv
<1>1. Init => StagingInv
  BY InitStaging
<1>2. StagingInv /\ [Next]_vars => StagingInv'
  BY NextStaging
<1>. QED
  BY <1>1, <1>2, PTL DEF Spec

\* The flag admits one reload at a time, also past the ones that threw.
THEOREM OneReloadAtATime == Spec => []LoadingMutex
<1>1. StagingInv => LoadingMutex
  BY DEF StagingInv
<1>. QED
  BY <1>1, StagingInvariant, PTL

\* No queued or running insert or clear addresses the version being served.
THEOREM ReloadsStageElsewhere == Spec => []StagingTargets
<1>1. StagingInv => StagingTargets
  BY DEF StagingInv, RoundsOrderly, RoundsAimed, StagingTargets
<1>. QED
  BY <1>1, StagingInvariant, PTL

-------------------------------------------------------------------------------
(* The served maps                                                          *)

\* A request of a reload on an intact connection leaves the served map alone.
LEMMA ExecutedElsewhere ==
  ASSUME StagingInv, NEW c \in Calls, NEW s \in Servers, Running(c, s)
  PROVE  Executed(c, s, ver[c])[GetIndex(dataVersion)]
           = stores[s][GetIndex(dataVersion)]
<1>1. /\ dataVersion \in Nat /\ ver[c] \in Nat
      /\ stores[s] \in [Slots -> [Keys -> Reloads \union {None}]]
  BY DEF StagingInv, TypeOK
<1>2. CASE c \in Gets
  BY <1>2 DEF StagingInv, TypeOK, Executed
<1>3. CASE c \in Reloads
  <2>1. Aimed(c)
    BY <1>3, ReloadTask
  <2>2. GetIndex(ver[c]) # GetIndex(dataVersion)
    <3>1. CASE op[c] = "insert"
      BY <1>1, <2>1, <3>1, IndexFlips DEF Aimed
    <3>2. CASE op[c] = "clear"
      <4>1. ver[c] = dataVersion - 1
        BY <2>1, <3>2 DEF Aimed
      <4>2. dataVersion = ver[c] + 1
        BY <1>1, <4>1
      <4>. QED
        BY <1>1, <4>2, IndexFlips
    <3>. QED
      BY <2>1, <3>1, <3>2 DEF Aimed
  <2>3. GetIndex(dataVersion) \in Slots
    BY <1>1, IndexFlips
  <2>. QED
    BY <1>1, <2>2, <2>3 DEF Executed, Insert, ClearData
<1>. QED
  BY <1>2, <1>3 DEF Calls

\* Loading, installing, clearing, failing RPCs: no step of the proxy changes
\* the map that get reads for the current version of an intact backend.
THEOREM ServedStoresStay == Spec => ServedStoreFrozen
<1> DEFINE Frozen == \A s \in Servers \ garbled :
             stores'[s][GetIndex(dataVersion)] = stores[s][GetIndex(dataVersion)]
<1>1. StagingInv /\ [Next]_vars => [Frozen]_vars
  <2> SUFFICES ASSUME StagingInv, Next, NEW t \in Servers \ garbled
               PROVE  stores'[t][GetIndex(dataVersion)] = stores[t][GetIndex(dataVersion)]
    BY DEF vars, serverVars
  <2>1. stores' = stores \/ \E c \in Calls, s \in Servers :
          \/ s \in garbled /\ \E maps : stores' = [stores EXCEPT ![s] = maps]
          \/ Running(c, s) /\ stores' = [stores EXCEPT ![s] = Executed(c, s, ver[c])]
    <3>1. ASSUME NEW g \in Gets, GetBegin(g) \/ GetStep(g)
          PROVE  stores' = stores
      BY <3>1 DEF GetBegin, GetStep, EnqueueQueryKeys, Enqueue, CollectQuery,
                  Collect, serverVars
    <3>2. ASSUME NEW r \in Reloads,
                 \/ ReloadRefused(r) \/ ReloadNoPaths(r) \/ ReloadBegin(r)
                 \/ ReloadStep(r)
          PROVE  stores' = stores
      BY <3>2 DEF ReloadRefused, ReloadNoPaths, ReloadBegin, ReloadStep,
                  ReloadNextBlock, ReloadInstall, ReloadReturn, EnqueueInsertKvs,
                  EnqueueClearData, Enqueue, CollectInsert, CollectClear, Collect,
                  serverVars
    <3>3. ASSUME NEW s \in Servers, NEW l \in Lanes, WorkerTake(s, l)
          PROVE  stores' = stores
      BY <3>3 DEF WorkerTake
    <3>4. ASSUME NEW s \in Servers, RpcEnds(s)
          PROVE  stores' = stores \/ \E c \in Calls :
            Running(c, s) /\ stores' = [stores EXCEPT ![s] = Executed(c, s, ver[c])]
      BY <3>4 DEF RpcEnds, RpcInsert, RpcClear, RpcQuery, RpcThrows, Calls
    <3>5. ASSUME NEW s \in Servers, NEW c \in Calls, RpcGarbled(c, s)
          PROVE  stores' = stores \/
            (s \in garbled /\ \E maps : stores' = [stores EXCEPT ![s] = maps])
      BY <3>5 DEF RpcGarbled
    <3>. QED
      BY <3>1, <3>2, <3>3, <3>4, <3>5 DEF Next, Calls
  <2>2. ASSUME NEW c \in Calls, NEW s \in Servers, Running(c, s),
               stores' = [stores EXCEPT ![s] = Executed(c, s, ver[c])]
        PROVE  stores'[t][GetIndex(dataVersion)] = stores[t][GetIndex(dataVersion)]
    BY <2>2, ExecutedElsewhere DEF StagingInv, TypeOK
  <2>3. ASSUME NEW s \in garbled, NEW maps, stores' = [stores EXCEPT ![s] = maps]
        PROVE  stores'[t][GetIndex(dataVersion)] = stores[t][GetIndex(dataVersion)]
    BY <2>3 DEF StagingInv, TypeOK
  <2>. QED
    BY <2>1, <2>2, <2>3
<1>. QED
  BY <1>1, StagingInvariant, PTL DEF Spec, ServedStoreFrozen

-------------------------------------------------------------------------------
(* What the maps hold: an installed version has every line, a cleared one   *)
(* none, and a get answers from one version.  ContentInv is inductive;      *)
(* StagingInv, which says who writes where, carries it.                     *)

\* StagedLines and ReloadInstallsAll where a backend may hold, for a line, a value of V
\* instead of the line's: with {} they are those two, and with {None} what is left of them
\* when backends forget.
StagedAs(V) ==
  \A r \in Reloads :
    pc[r] \in {"load", "enqueue", "collect"} /\ op[r] # "clear" /\ ret[r] =>
      \A i \in DOMAIN input[r] :
        LET s == Shard[input[r][i]] IN
        /\ i <= read[r] /\ s \notin garbled
        /\ pc[r] = "load" \/ i \notin items[r] \/ fut[r][s] = "true"
        => Seek(stores[s], input[r][i], dataVersion + 1) \in {r} \union V

InstalledAs(V) ==
  \A r \in Reloads : Installed(r) =>
    \A i \in DOMAIN input[r] :
      LET k == input[r][i] IN
      Shard[k] \notin garbled => Seek(stores[Shard[k]], k, dataVersion) \in {r} \union V

\* The parts of ContentInv that speak of reloads and maps.
LoadPart(V) == RoundsCounted /\ StagedAs(V) /\ InstalledAs(V)
ClearPart   == Cleared /\ StagingClean
ReloadPart  == LoadPart({}) /\ ClearPart

LEMMA ContentParts ==
  /\ ContentInv <=> StagingInv /\ ReloadPart /\ GetsBehind /\ AnswersKept
  /\ ContentInv' <=> (StagingInv /\ ReloadPart /\ GetsBehind /\ AnswersKept)'
<1>1. StagedAs({}) <=> StagedLines
  BY DEF StagedAs, StagedLines
<1>2. InstalledAs({}) <=> ReloadInstallsAll
  BY DEF InstalledAs, ReloadInstallsAll
<1>3. StagedAs({})' <=> StagedLines'
  BY DEF StagedAs, StagedLines
<1>4. InstalledAs({})' <=> ReloadInstallsAll'
  BY DEF InstalledAs, ReloadInstallsAll
<1>. QED
  BY <1>1, <1>2, <1>3, <1>4 DEF ContentInv, ReloadPart, LoadPart, ClearPart

\* The next version and the previous one share a map.
LEMMA IndexReturns ==
  ASSUME NEW v \in Nat
  PROVE  GetIndex(v + 2) = GetIndex(v)
BY DEF GetIndex

\* Two calls that are inside reload are one.
LEMMA OneHolder ==
  ASSUME StagingInv, NEW r \in Reloads, NEW q \in Reloads, Holds(r), Holds(q)
  PROVE  r = q
BY DEF StagingInv, LoadingMutex

\* A step that leaves reloads alone, and the maps of intact backends, or empties some of
\* them where backends may forget.
LEMMA LoadPartKept ==
  ASSUME NEW V \in SUBSET {None}, LoadPart(V),
         dataVersion' = dataVersion, garbled \subseteq garbled',
         \A r \in Reloads : /\ pc'[r] = pc[r] /\ op'[r] = op[r]
                            /\ items'[r] = items[r] /\ input'[r] = input[r]
                            /\ ver'[r] = ver[r] /\ todo'[r] = todo[r]
                            /\ fut'[r] = fut[r] /\ read'[r] = read[r] /\ ret'[r] = ret[r],
         \A s \in Servers : s \notin garbled' =>
           stores'[s] = stores[s] \/ (None \in V /\ stores'[s] = EmptyStores),
         dataVersion \in Nat, \A r \in Reloads : ver[r] \in Nat,
         Shard \in [Keys -> Servers],
         \A r \in Reloads : input[r] \in Seq(Keys)
  PROVE  LoadPart(V)' /\ (ClearPart => ClearPart')
<1>1. RoundsCounted'
  BY DEF LoadPart, RoundsCounted, RoundCounted, Targets, Share
<1>2. \A r \in Reloads : \A i \in DOMAIN input[r] : Shard[input[r][i]] \in Servers
  OBVIOUS
<1>8. \A v \in Nat, k \in Keys, s \in Servers : s \notin garbled' =>
        \/ Seek(stores'[s], k, v) = Seek(stores[s], k, v)
        \/ None \in V /\ Seek(stores'[s], k, v) = None
  BY IndexFlips, SMTT(30) DEF EmptyStores, Seek
<1>7. \A r \in Reloads : \A i \in DOMAIN input[r] : input[r][i] \in Keys
  OBVIOUS
<1>3. StagedAs(V)'
  <2> SUFFICES ASSUME NEW r \in Reloads,
                      (pc[r] \in {"load", "enqueue", "collect"} /\ op[r] # "clear" /\ ret[r])',
                      NEW i \in DOMAIN input[r],
                      (i <= read[r])', Shard[input[r][i]] \notin garbled',
                      (pc[r] = "load" \/ i \notin items[r] \/ fut[r][Shard[input[r][i]]] = "true")'
               PROVE  Seek(stores'[Shard[input[r][i]]], input[r][i], dataVersion + 1) \in {r} \union V
    BY DEF StagedAs, Seek
  <2>1. Seek(stores[Shard[input[r][i]]], input[r][i], dataVersion + 1) \in {r} \union V
    BY ZenonT(30) DEF LoadPart, StagedAs
  <2>2. dataVersion + 1 \in Nat /\ Shard[input[r][i]] \in Servers /\ input[r][i] \in Keys
    BY <1>2, <1>7
  <2>. QED
    BY <1>8, <2>1, <2>2
<1>4. InstalledAs(V)'
  <2> SUFFICES ASSUME NEW r \in Reloads, Installed(r), NEW i \in DOMAIN input[r],
                      Shard[input[r][i]] \notin garbled'
               PROVE  Seek(stores'[Shard[input[r][i]]], input[r][i], dataVersion) \in {r} \union V
    BY ZenonT(30) DEF InstalledAs, Installed, Seek
  <2>1. Seek(stores[Shard[input[r][i]]], input[r][i], dataVersion) \in {r} \union V
    BY DEF LoadPart, InstalledAs
  <2>. QED
    BY <1>8, <1>7, <1>2, <2>1
<1>5. ClearPart => Cleared'
  <2> SUFFICES ASSUME ClearPart, NEW r \in Reloads, NEW s \in Servers, s \notin garbled',
                      pc[r] \in {"enqueue", "collect", "release"}, op[r] = "clear",
                      fut[r][s] = "true", NEW k \in Keys
               PROVE  Seek(stores'[s], k, ver[r]) = None
    BY DEF Cleared, Seek
  <2>. QED
    BY <1>8 DEF ClearPart, Cleared
<1>6. ClearPart => StagingClean'
  <2> SUFFICES ASSUME ClearPart, NoReloadFailed', (\A r \in Reloads : ~Holds(r))',
                      NEW s \in Servers, s \notin garbled', NEW k \in Keys
               PROVE  Seek(stores'[s], k, dataVersion + 1) = None
    BY DEF StagingClean, Seek
  <2>1. Seek(stores[s], k, dataVersion + 1) = None
    BY DEF ClearPart, StagingClean, NoReloadFailed, Holds
  <2>. QED
    BY <1>8, <2>1
<1>. QED
  BY <1>1, <1>3, <1>4, <1>5, <1>6 DEF LoadPart, ClearPart

\* The backend of a line of a reload.
LEMMA LineServers ==
  ASSUME StagingInv
  PROVE  /\ Shard \in [Keys -> Servers]
         /\ \A c \in Calls : input[c] \in Seq(Keys)
         /\ \A r \in Reloads : input[r] \in Seq(Keys)
         /\ \A c \in Calls : \A i \in DOMAIN input[c] :
              input[c][i] \in Keys /\ Shard[input[c][i]] \in Servers /\ i \in Nat /\ i > 0
<1>1. Shard \in [Keys -> Servers]
  BY AssumptionsHold DEF Assumptions
<1>2. \A c \in Calls : input[c] \in Seq(Keys)
  BY InputSeq DEF StagingInv
<1>. QED
  BY <1>1, <1>2 DEF Calls

\* A reload that is refused or begins says nothing of the maps yet.
LEMMA BeginContent ==
  ASSUME StagingInv, NEW V \in SUBSET {None}, LoadPart(V), NEW r \in Reloads,
         ReloadRefused(r) \/ ReloadNoPaths(r) \/ ReloadBegin(r)
  PROVE  LoadPart(V)' /\ (ClearPart => ClearPart')
<1>1. r \in Calls /\ Reloads \subseteq Calls
  BY DEF Calls
<1>2. /\ dataVersion' = dataVersion /\ stores' = stores /\ garbled' = garbled
      /\ op' = op /\ items' = items /\ ver' = ver /\ todo' = todo /\ fut' = fut
      /\ read' = read
  BY DEF ReloadRefused, ReloadNoPaths, ReloadBegin, serverVars
<1>3. \A q \in Reloads : q # r => pc'[q] = pc[q] /\ input'[q] = input[q] /\ ret'[q] = ret[q]
  BY <1>1 DEF ReloadRefused, ReloadNoPaths, ReloadBegin, StagingInv, TypeOK
<1>4. /\ pc[r] = "idle" /\ op[r] = "none" /\ read[r] = 0 /\ ret[r]
      /\ \/ pc'[r] = "returned"
         \/ pc'[r] = "load" /\ ret'[r] = ret[r]
  BY <1>1 DEF ReloadRefused, ReloadNoPaths, ReloadBegin, StagingInv, TypeOK,
              LoadPart, RoundsCounted, RoundCounted
<1>5. \A i \in DOMAIN input'[r] : i \in Nat /\ i > 0
  <2>1. input' = input \/ \E lines \in Files : input' = [input EXCEPT ![r] = lines]
    BY DEF ReloadRefused, ReloadNoPaths, ReloadBegin
  <2>2. input'[r] \in Seq(Keys)
    BY <1>1, <2>1, LineServers, AssumptionsHold DEF Assumptions, StagingInv, TypeOK
  <2>. QED
    BY <2>2
<1>6. RoundsCounted'
  <2>1. \A q \in Reloads : q # r => Targets(q)' = Targets(q)
    <3>1. \A q \in Reloads : q # r => op'[q] = op[q] /\ \A s \in Servers : Share(q, s)' = Share(q, s)
      BY <1>2, <1>3 DEF Share
    <3>. QED
      BY <3>1 DEF Targets
  <2> SUFFICES ASSUME NEW q \in Reloads
               PROVE  RoundCounted(q)'
    BY DEF RoundsCounted
  <2>2. CASE q = r
    BY <1>2, <1>4, <2>2 DEF RoundCounted
  <2>3. CASE q # r
    <3>1. RoundCounted(q)
      BY DEF LoadPart, RoundsCounted
    <3>. QED
      BY <1>2, <1>3, <2>1, <2>3, <3>1 DEF RoundCounted
  <2>. QED
    BY <2>2, <2>3
<1>7. StagedAs(V)'
  <2> SUFFICES ASSUME NEW q \in Reloads,
                      (pc[q] \in {"load", "enqueue", "collect"} /\ op[q] # "clear" /\ ret[q])',
                      NEW i \in DOMAIN input'[q],
                      (i <= read[q] /\ Shard[input[q][i]] \notin garbled)',
                      (pc[q] = "load" \/ i \notin items[q] \/ fut[q][Shard[input[q][i]]] = "true")'
               PROVE  (Seek(stores[Shard[input[q][i]]], input[q][i], dataVersion + 1) \in {q} \union V)'
    BY DEF StagedAs
  <2>1. q # r
    BY <1>2, <1>4, <1>5
  <2>. QED
    BY <1>2, <1>3, <2>1 DEF LoadPart, StagedAs
<1>8. InstalledAs(V)'
  <2>1. ~Installed(r)'
    BY <1>2, <1>4 DEF Installed
  <2>. QED
    BY <1>2, <1>3, <2>1 DEF LoadPart, InstalledAs, Installed
<1>9. ClearPart => Cleared'
  BY <1>2, <1>3, <1>4 DEF ClearPart, Cleared
<1>10. ClearPart => StagingClean'
  BY <1>2, <1>3, <1>4 DEF ClearPart, StagingClean, NoReloadFailed, Holds
<1>. QED
  BY <1>6, <1>7, <1>8, <1>9, <1>10 DEF LoadPart, ClearPart

\* When the flag is released after a clear that every backend acknowledged, the maps of
\* the next version are empty.
LEMMA ReturnContent ==
  ASSUME StagingInv, NEW V \in SUBSET {None}, LoadPart(V), NEW r \in Reloads, ReloadReturn(r)
  PROVE  LoadPart(V)' /\ (ClearPart => ClearPart')
<1>1. r \in Calls /\ Reloads \subseteq Calls /\ dataVersion \in Nat /\ ver[r] \in Nat
  BY DEF Calls, StagingInv, TypeOK
<1>2. /\ dataVersion' = dataVersion /\ stores' = stores /\ garbled' = garbled
      /\ op' = op /\ items' = items /\ ver' = ver /\ todo' = todo /\ fut' = fut
      /\ read' = read /\ input' = input /\ ret' = ret
  BY DEF ReloadReturn, serverVars
<1>3. /\ \A q \in Reloads : q # r => pc'[q] = pc[q]
      /\ pc'[r] = "returned"
      /\ pc[r] \in {"load", "release"}
      /\ pc[r] = "load" => ~ret[r]
  BY <1>1 DEF ReloadReturn, StagingInv, TypeOK
<1>4. RoundsCounted'
  BY <1>2, <1>3 DEF LoadPart, RoundsCounted, RoundCounted, Targets, Share
<1>5. StagedAs(V)'
  BY <1>2, <1>3 DEF LoadPart, StagedAs
<1>6. InstalledAs(V)'
  BY <1>2 DEF LoadPart, InstalledAs, Installed
<1>7. ClearPart => Cleared'
  BY <1>2, <1>3 DEF ClearPart, Cleared
<1>8. ClearPart => StagingClean'
  <2> SUFFICES ASSUME ClearPart, NoReloadFailed', NEW s \in Servers, s \notin garbled, NEW k \in Keys
               PROVE  Seek(stores[s], k, dataVersion + 1) = None
    BY <1>2 DEF StagingClean
  <2>1. op[r] # "none" => ret[r]
    BY <1>2, <1>3 DEF NoReloadFailed
  <2>2. pc[r] = "release" /\ ret[r]
    BY <1>3, <2>1 DEF LoadPart, RoundsCounted, RoundCounted
  <2>3. op[r] = "clear" /\ ver[r] = dataVersion - 1 /\ fut[r][s] = "true"
    BY <2>2 DEF LoadPart, RoundsCounted, RoundCounted
  <2>4. Seek(stores[s], k, ver[r]) = None
    BY <2>2, <2>3 DEF ClearPart, Cleared
  <2>5. dataVersion + 1 = ver[r] + 2
    BY <1>1, <2>3
  <2>. QED
    BY <1>1, <2>4, <2>5, IndexReturns DEF Seek
<1>. QED
  BY <1>4, <1>5, <1>6, <1>7, <1>8 DEF LoadPart, ClearPart

\* A new round of inserts: what was acknowledged before is staged, and the lines of the
\* round are not yet.
LEMMA NextBlockContent ==
  ASSUME StagingInv, NEW V \in SUBSET {None}, LoadPart(V), NEW r \in Reloads, ReloadNextBlock(r)
  PROVE  LoadPart(V)' /\ (ClearPart => ClearPart')
<1>1. r \in Calls /\ Reloads \subseteq Calls /\ dataVersion \in Nat /\ BlockSize \in Nat
  BY AssumptionsHold DEF Calls, StagingInv, TypeOK, Assumptions
<1>2. /\ dataVersion' = dataVersion /\ stores' = stores /\ garbled' = garbled
      /\ input' = input /\ ret' = ret
  BY DEF ReloadNextBlock, serverVars
<1>3. \A q \in Reloads : q # r =>
        /\ pc'[q] = pc[q] /\ op'[q] = op[q] /\ items'[q] = items[q] /\ read'[q] = read[q]
        /\ ver'[q] = ver[q] /\ todo'[q] = todo[q] /\ fut'[q] = fut[q]
  BY <1>1 DEF ReloadNextBlock, StartRound, StagingInv, TypeOK
<1>4. /\ pc[r] = "load" /\ pc'[r] = "enqueue" /\ op'[r] = "insert"
      /\ items'[r] = Block(r) /\ read'[r] = read[r] + BlockSize
      /\ \A s \in Servers : fut'[r][s] = "none"
      /\ todo'[r] \subseteq Servers
  <2>1. \A i \in Block(r) : Shard[input[r][i]] \in Servers
    BY <1>1, LineServers DEF Block
  <2>. QED
    BY <1>1, <2>1 DEF ReloadNextBlock, StartRound, StagingInv, TypeOK
<1>5. \A q \in Reloads : q # r => ~Holds(q)
  BY <1>4, OneHolder DEF Holds
<1>6. RoundsCounted'
  BY <1>2, <1>3, <1>4 DEF LoadPart, RoundsCounted, RoundCounted, Targets, Share
<1>7. StagedAs(V)'
  <2> SUFFICES ASSUME NEW q \in Reloads,
                      (pc[q] \in {"load", "enqueue", "collect"} /\ op[q] # "clear" /\ ret[q])',
                      NEW i \in DOMAIN input[q],
                      (i <= read[q])', Shard[input[q][i]] \notin garbled,
                      (pc[q] = "load" \/ i \notin items[q] \/ fut[q][Shard[input[q][i]]] = "true")'
               PROVE  Seek(stores[Shard[input[q][i]]], input[q][i], dataVersion + 1) \in {q} \union V
    BY <1>2 DEF StagedAs
  <2>1. q = r
    BY <1>3, <1>5 DEF Holds
  <2>2. i \notin Block(r) /\ i <= read[r] + BlockSize
    BY <1>1, <1>2, <1>4, <2>1, LineServers
  <2>3. i <= read[r]
    BY <1>1, <2>1, <2>2, LineServers DEF Block, StagingInv, TypeOK
  <2>4. op[r] # "clear" /\ ret[r]
    BY <1>2, <1>4, <2>1 DEF LoadPart, RoundsCounted, RoundCounted
  <2>. QED
    BY <1>4, <2>1, <2>3, <2>4 DEF LoadPart, StagedAs
<1>8. InstalledAs(V)'
  BY <1>2, <1>3, <1>4 DEF LoadPart, InstalledAs, Installed
<1>9. ClearPart => Cleared'
  BY <1>2, <1>3, <1>4 DEF ClearPart, Cleared
<1>10. ClearPart => StagingClean'
  BY <1>4 DEF StagingClean, Holds
<1>. QED
  BY <1>6, <1>7, <1>8, <1>9, <1>10 DEF LoadPart, ClearPart

\* A version is installed when every line is staged, and what is staged is then served.
LEMMA InstallContent ==
  ASSUME StagingInv, NEW V \in SUBSET {None}, LoadPart(V), NEW r \in Reloads, ReloadInstall(r)
  PROVE  LoadPart(V)' /\ (ClearPart => ClearPart')
<1>1. r \in Calls /\ Reloads \subseteq Calls /\ dataVersion \in Nat /\ read[r] \in Nat
      /\ \A q \in Reloads : ver[q] \in Nat
  BY DEF Calls, StagingInv, TypeOK
<1>2. /\ dataVersion' = dataVersion + 1 /\ stores' = stores /\ garbled' = garbled
      /\ input' = input /\ ret' = ret /\ read' = read
  BY DEF ReloadInstall, serverVars
<1>3. \A q \in Reloads : q # r =>
        /\ pc'[q] = pc[q] /\ op'[q] = op[q] /\ items'[q] = items[q]
        /\ ver'[q] = ver[q] /\ todo'[q] = todo[q] /\ fut'[q] = fut[q]
  BY <1>1 DEF ReloadInstall, StartRound, StagingInv, TypeOK
<1>4. /\ pc[r] = "load" /\ Block(r) = {} /\ ret[r]
      /\ pc'[r] = "enqueue" /\ op'[r] = "clear" /\ ver'[r] = dataVersion
      /\ \A s \in Servers : fut'[r][s] = "none"
      /\ todo'[r] = Servers
  BY <1>1 DEF ReloadInstall, StartRound, StagingInv, TypeOK
<1>5. \A q \in Reloads : q # r => ~Holds(q)
  BY <1>4, OneHolder DEF Holds
<1>6. RoundsCounted'
  BY <1>1, <1>2, <1>3, <1>4, <1>5 DEF LoadPart, RoundsCounted, RoundCounted, Targets, Share, Holds
<1>7. StagedAs(V)'
  BY <1>3, <1>4, <1>5 DEF StagedAs, Holds
<1>8. InstalledAs(V)'
  <2> SUFFICES ASSUME NEW q \in Reloads, Installed(q)', NEW i \in DOMAIN input[q],
                      Shard[input[q][i]] \notin garbled
               PROVE  Seek(stores[Shard[input[q][i]]], input[q][i], dataVersion + 1) \in {q} \union V
    BY <1>2 DEF InstalledAs
  <2>1. q = r
    BY <1>1, <1>2, <1>3 DEF Installed, LoadPart, RoundsCounted, RoundCounted
  <2>2. i <= read[r]
    <3>1. SUFFICES ASSUME i > read[r]
                   PROVE  FALSE
      BY <1>1, <2>1, LineServers
    <3>2. input[r] \in Seq(Keys)
      BY LineServers
    <3>3. read[r] + 1 \in DOMAIN input[r]
      BY <1>1, <2>1, <3>1, <3>2
    <3>4. read[r] + 1 \in Block(r)
      BY <1>1, <3>3, AssumptionsHold DEF Block, Assumptions
    <3>. QED
      BY <1>4, <3>4
  <2>3. op[r] # "clear"
    BY <1>4 DEF LoadPart, RoundsCounted, RoundCounted
  <2>. QED
    BY <1>4, <2>1, <2>2, <2>3 DEF LoadPart, StagedAs
<1>9. ClearPart => Cleared'
  BY <1>3, <1>4, <1>5 DEF Cleared, Holds
<1>10. ClearPart => StagingClean'
  BY <1>4 DEF StagingClean, Holds
<1>. QED
  BY <1>6, <1>7, <1>8, <1>9, <1>10 DEF LoadPart, ClearPart

\* Queuing a task changes a future that was fresh.
LEMMA EnqueueContent ==
  ASSUME StagingInv, NEW V \in SUBSET {None}, LoadPart(V), NEW r \in Reloads, NEW s \in Servers, Enqueue(r, s)
  PROVE  LoadPart(V)' /\ (ClearPart => ClearPart')
<1>1. r \in Calls /\ Reloads \subseteq Calls
  BY DEF Calls
<1>2. /\ dataVersion' = dataVersion /\ stores' = stores /\ garbled' = garbled
      /\ input' = input /\ ret' = ret /\ read' = read
      /\ op' = op /\ items' = items /\ ver' = ver
  BY DEF Enqueue
<1>3. \A q \in Reloads : /\ q # r => pc'[q] = pc[q] /\ todo'[q] = todo[q]
                         /\ \A t \in Servers :
                              fut'[q][t] = IF q = r /\ t = s THEN "pending" ELSE fut[q][t]
  BY <1>1 DEF Enqueue, StagingInv, TypeOK
<1>4. /\ pc[r] = "enqueue" /\ todo[r] \subseteq Servers
      /\ \/ pc'[r] = "collect" /\ todo'[r] = Targets(r)
         \/ pc'[r] = "enqueue" /\ todo'[r] = todo[r] \ {s}
  BY <1>1 DEF Enqueue, StagingInv, TypeOK
<1>5. RoundsCounted'
  <2>1. \A q \in Reloads : Targets(q)' = Targets(q) /\ Targets(q) \subseteq Servers
    BY <1>2 DEF Targets, Share
  <2> SUFFICES ASSUME NEW q \in Reloads
               PROVE  RoundCounted(q)'
    BY DEF RoundsCounted
  <2>2. RoundCounted(q)
    BY DEF LoadPart, RoundsCounted
  <2>3. CASE q = r
    BY <1>2, <1>3, <1>4, <2>1, <2>2, <2>3 DEF RoundCounted
  <2>4. CASE q # r
    <3>1. \A t \in Servers : fut'[q][t] = fut[q][t]
      BY <1>3, <2>4
    <3>2. todo[q] \subseteq Servers
      BY <1>1 DEF StagingInv, TypeOK
    <3>. QED
      BY <1>2, <1>3, <2>1, <2>2, <2>4, <3>1, <3>2 DEF RoundCounted
  <2>. QED
    BY <2>3, <2>4
<1>6. StagedAs(V)'
  <2>1. \A q \in Reloads : pc'[q] \in {"load", "enqueue", "collect"}
          => /\ pc[q] \in {"load", "enqueue", "collect"}
             /\ pc'[q] = "load" => pc[q] = "load"
    BY <1>3, <1>4
  <2>2. \A q \in Reloads : \A t \in Servers : fut'[q][t] = "true" => fut[q][t] = "true"
    BY <1>3
  <2>. QED
    BY <1>1, <1>2, <2>1, <2>2, LineServers DEF LoadPart, StagedAs
<1>7. InstalledAs(V)'
  BY <1>2 DEF LoadPart, InstalledAs, Installed
<1>8. ClearPart => Cleared'
  BY <1>2, <1>3, <1>4 DEF ClearPart, Cleared
<1>9. ClearPart => StagingClean'
  BY <1>4 DEF StagingClean, Holds
<1>. QED
  BY <1>5, <1>6, <1>7, <1>8, <1>9 DEF LoadPart, ClearPart

\* The last future of a round is collected: if ret is still true, all backends said so.
LEMMA CollectContent ==
  ASSUME StagingInv, NEW V \in SUBSET {None}, LoadPart(V), NEW r \in Reloads, NEW s \in Servers,
         CollectInsert(r, s) \/ CollectClear(r, s)
  PROVE  LoadPart(V)' /\ (ClearPart => ClearPart')
<1>1. r \in Calls /\ Reloads \subseteq Calls
  BY DEF Calls
<1>2. /\ dataVersion' = dataVersion /\ stores' = stores /\ garbled' = garbled
      /\ input' = input /\ read' = read /\ fut' = fut
      /\ op' = op /\ items' = items /\ ver' = ver
  BY DEF CollectInsert, CollectClear, Collect, serverVars
<1>3. \A q \in Reloads : q # r => pc'[q] = pc[q] /\ todo'[q] = todo[q] /\ ret'[q] = ret[q]
  BY <1>1 DEF CollectInsert, CollectClear, Collect, StagingInv, TypeOK
<1>4. /\ pc[r] = "collect" /\ todo'[r] = todo[r] \ {s}
      /\ ret'[r] => ret[r] /\ fut[r][s] = "true"
      /\ \/ pc'[r] \in {"threw", "collect"}
         \/ pc'[r] = "load" /\ op[r] = "insert" /\ todo[r] = {s}
         \/ pc'[r] = "release" /\ op[r] = "clear" /\ todo[r] = {s}
  BY <1>1 DEF CollectInsert, CollectClear, Collect, StagingInv, TypeOK
<1>5. RoundsCounted'
  <2>1. \A q \in Reloads : Targets(q)' = Targets(q)
    BY <1>2 DEF Targets, Share
  <2>2. op[r] = "clear" => Targets(r) = Servers /\ ver[r] = dataVersion - 1
    BY <1>4 DEF Targets, StagingInv, RoundsAimed, Aimed
  <2> SUFFICES ASSUME NEW q \in Reloads
               PROVE  RoundCounted(q)'
    BY DEF RoundsCounted
  <2>3. RoundCounted(q)
    BY DEF LoadPart, RoundsCounted
  <2>4. CASE q = r
    BY <1>2, <1>4, <2>1, <2>2, <2>3, <2>4 DEF RoundCounted
  <2>5. CASE q # r
    BY <1>2, <1>3, <2>1, <2>3, <2>5 DEF RoundCounted
  <2>. QED
    BY <2>4, <2>5
<1>6. StagedAs(V)'
  <2> SUFFICES ASSUME NEW q \in Reloads,
                      (pc[q] \in {"load", "enqueue", "collect"} /\ op[q] # "clear" /\ ret[q])',
                      NEW i \in DOMAIN input[q],
                      i <= read[q], Shard[input[q][i]] \notin garbled,
                      (pc[q] = "load" \/ i \notin items[q] \/ fut[q][Shard[input[q][i]]] = "true")'
               PROVE  Seek(stores[Shard[input[q][i]]], input[q][i], dataVersion + 1) \in {q} \union V
    BY <1>2 DEF StagedAs
  <2>1. CASE q # r
    BY <1>2, <1>3, <2>1 DEF LoadPart, StagedAs
  <2>2. CASE q = r /\ (i \notin items[r] \/ fut[r][Shard[input[r][i]]] = "true")
    BY <1>2, <1>4, <2>2 DEF LoadPart, StagedAs
  <2>3. CASE q = r /\ i \in items[r] /\ fut[r][Shard[input[r][i]]] # "true"
    <3>1. todo[r] = {s} /\ op[r] # "clear"
      BY <1>2, <1>4, <2>3
    <3>2. Shard[input[r][i]] \in Targets(r)
      BY <1>1, <2>3, <3>1, LineServers DEF Targets, Share
    <3>3. fut[r][Shard[input[r][i]]] = "true"
      BY <1>4, <2>3, <3>1, <3>2 DEF LoadPart, RoundsCounted, RoundCounted
    <3>. QED
      BY <2>3, <3>3
  <2>. QED
    BY <2>1, <2>2, <2>3
<1>7. InstalledAs(V)'
  BY <1>2 DEF LoadPart, InstalledAs, Installed
<1>8. ClearPart => Cleared'
  BY <1>2, <1>3, <1>4 DEF ClearPart, Cleared
<1>9. ClearPart => StagingClean'
  BY <1>4 DEF StagingClean, Holds
<1>. QED
  BY <1>5, <1>6, <1>7, <1>8, <1>9 DEF LoadPart, ClearPart

\* A request of a reload ends.  What its backend acknowledges is done; what it does
\* without saying so takes nothing away from the lines that are staged.
LEMMA RpcContent ==
  ASSUME StagingInv, NEW V \in SUBSET {None}, LoadPart(V), NEW r \in Reloads, NEW s \in Servers,
         NEW answer \in {"true", "false", "exception"},
         Running(r, s), Finish(r, s, answer), UNCHANGED <<read>>,
         \A t \in Servers : t # s => stores'[t] = stores[t],
         s \notin garbled =>
           /\ stores'[s] = stores[s] \/ stores'[s] = Executed(r, s, ver[r])
           /\ answer = "true" => /\ stores'[s] = Executed(r, s, ver[r])
                                 /\ op[r] = "insert" =>
                                      InsertOk(stores[s], input[r], Share(r, s), ver[r])
  PROVE  LoadPart(V)' /\ (ClearPart => ClearPart')
<1>1. /\ r \in Calls /\ Reloads \subseteq Calls /\ dataVersion \in Nat
      /\ \A q \in Reloads : ver[q] \in Nat /\ todo[q] \subseteq Servers
      /\ stores[s] \in [Slots -> [Keys -> Reloads \union {None}]]
  BY DEF Calls, StagingInv, TypeOK
<1>2. /\ dataVersion' = dataVersion /\ garbled' = garbled
      /\ input' = input /\ read' = read /\ ret' = ret /\ pc' = pc /\ todo' = todo
      /\ op' = op /\ items' = items /\ ver' = ver
  BY DEF Finish
<1>3. Pending(r, s) /\ Aimed(r)
  BY ReloadTask
<1>4. /\ pc[r] \in {"enqueue", "collect", "threw"}
      /\ pc[r] = "enqueue" => s \notin todo[r]
      /\ pc[r] = "collect" => s \in todo[r]
  BY <1>3 DEF StagingInv, RoundsOrderly
<1>5. \A q \in Reloads, t \in Servers :
        fut'[q][t] = IF q = r /\ t = s THEN answer ELSE fut[q][t]
  BY <1>1 DEF Finish, StagingInv, TypeOK
<1>6. \A q \in Reloads : Holds(q) => q = r
  BY <1>4, OneHolder DEF Holds
<1>7. GetIndex(dataVersion) \in Slots /\ GetIndex(ver[r]) \in Slots
  BY <1>1, IndexFlips
<1>8. s \notin garbled => stores'[s][GetIndex(dataVersion)] = stores[s][GetIndex(dataVersion)]
  BY <1>1, ExecutedElsewhere
<1>9. RoundsCounted'
  <2>1. \A q \in Reloads : Targets(q)' = Targets(q) /\ Targets(q) \subseteq Servers
    BY <1>2 DEF Targets, Share
  <2> SUFFICES ASSUME NEW q \in Reloads
               PROVE  RoundCounted(q)'
    BY DEF RoundsCounted
  <2>2. RoundCounted(q)
    BY DEF LoadPart, RoundsCounted
  <2>3. CASE q = r
    BY <1>1, <1>2, <1>4, <1>5, <2>1, <2>2, <2>3 DEF RoundCounted
  <2>4. CASE q # r
    <3>1. \A t \in Servers : fut'[q][t] = fut[q][t]
      BY <1>5, <2>4
    <3>. QED
      BY <1>1, <1>2, <2>1, <2>2, <2>4, <3>1 DEF RoundCounted
  <2>. QED
    BY <2>3, <2>4
<1>10. StagedAs(V)'
  <2> SUFFICES ASSUME NEW q \in Reloads,
                      pc[q] \in {"load", "enqueue", "collect"}, op[q] # "clear", ret[q],
                      NEW i \in DOMAIN input[q],
                      i <= read[q], Shard[input[q][i]] \notin garbled,
                      (pc[q] = "load" \/ i \notin items[q] \/ fut[q][Shard[input[q][i]]] = "true")'
               PROVE  Seek(stores'[Shard[input[q][i]]], input[q][i], dataVersion + 1) \in {q} \union V
    BY <1>2 DEF StagedAs, Seek
  <2> DEFINE k == input[r][i]  t == Shard[k]
  <2>1. q = r
    BY <1>6 DEF Holds
  <2>2. k \in Keys /\ t \in Servers
    BY <1>1, <2>1, LineServers
  <2>3. op[r] = "insert" /\ ver[r] = dataVersion + 1
    BY <1>3, <2>1 DEF Aimed
  <2>4. CASE t # s
    BY <1>2, <1>5, <2>1, <2>2, <2>4 DEF LoadPart, StagedAs
  <2>5. CASE t = s /\ i \notin items[r]
    <3>1. Seek(stores[s], k, ver[r]) \in {r} \union V
      BY <2>1, <2>3, <2>5 DEF LoadPart, StagedAs
    <3>2. Seek(Insert(stores[s], KeysOf(r, Share(r, s)), r, ver[r]), k, ver[r]) \in {r} \union V
      BY <1>1, <1>7, <2>2, <3>1, ItemsAssumption DEF Insert, Seek
    <3>. QED
      BY <2>1, <2>3, <2>5, <3>1, <3>2 DEF Executed
  <2>6. CASE t = s /\ i \in items[r]
    <3>1. answer = "true"
      BY <1>2, <1>4, <1>5, <2>1, <2>6
    <3>2. i \in Share(r, s) /\ k \in KeysOf(r, Share(r, s))
      BY <2>6 DEF Share, KeysOf
    <3>3. Seek(stores[s], k, ver[r]) = None
      BY <2>1, <2>3, <2>6, <3>1, <3>2 DEF InsertOk
    <3>4. Seek(Insert(stores[s], KeysOf(r, Share(r, s)), r, ver[r]), k, ver[r]) = r
      BY <1>1, <1>7, <2>2, <3>2, <3>3 DEF Insert, Seek
    <3>. QED
      BY <2>1, <2>3, <2>6, <3>1, <3>4 DEF Executed
  <2>. QED
    BY <2>4, <2>5, <2>6
<1>11. InstalledAs(V)'
  <2> SUFFICES ASSUME NEW q \in Reloads, Installed(q), NEW i \in DOMAIN input[q],
                      Shard[input[q][i]] \notin garbled
               PROVE  Seek(stores'[Shard[input[q][i]]], input[q][i], dataVersion) \in {q} \union V
    BY <1>2 DEF InstalledAs, Installed, Seek
  <2>1. Seek(stores[Shard[input[q][i]]], input[q][i], dataVersion) \in {q} \union V
    BY DEF LoadPart, InstalledAs
  <2>2. Shard[input[q][i]] \in Servers
    BY <1>1, LineServers
  <2>. QED
    BY <1>8, <2>1, <2>2 DEF Seek
<1>12. ClearPart => Cleared'
  <2> SUFFICES ASSUME ClearPart, NEW q \in Reloads, NEW t \in Servers, t \notin garbled,
                      pc[q] \in {"enqueue", "collect", "release"}, op[q] = "clear",
                      fut'[q][t] = "true", NEW k \in Keys
               PROVE  Seek(stores'[t], k, ver[q]) = None
    BY <1>2 DEF Cleared, Seek
  <2>1. q = r
    BY <1>6 DEF Holds
  <2>2. CASE t # s
    BY <1>5, <2>2 DEF ClearPart, Cleared
  <2>3. CASE t = s
    <3>1. stores'[s] = ClearData(stores[s], ver[r])
      BY <1>5, <2>1, <2>3 DEF Executed
    <3>. QED
      BY <1>1, <1>7, <2>1, <2>3, <3>1 DEF ClearData, Seek
  <2>. QED
    BY <2>2, <2>3
<1>13. ClearPart => StagingClean'
  BY <1>2, <1>4 DEF StagingClean, Holds
<1>. QED
  BY <1>9, <1>10, <1>11, <1>12, <1>13 DEF LoadPart, ClearPart

\* The same of the request of any call; a get's changes no map of an intact backend.
LEMMA FinishContent ==
  ASSUME StagingInv, NEW V \in SUBSET {None}, LoadPart(V), NEW c \in Calls, NEW s \in Servers,
         NEW answer \in {"true", "false", "exception"},
         Running(c, s), Finish(c, s, answer),
         \A t \in Servers : t # s => stores'[t] = stores[t],
         s \notin garbled => stores'[s] = stores[s] \/ stores'[s] = Executed(c, s, ver[c]),
         s \notin garbled /\ c \in Reloads /\ answer = "true" =>
           /\ stores'[s] = Executed(c, s, ver[c])
           /\ op[c] = "insert" => InsertOk(stores[s], input[c], Share(c, s), ver[c])
  PROVE  LoadPart(V)' /\ (ClearPart => ClearPart')
<1>1. /\ Reloads \subseteq Calls /\ \A r \in Reloads : r \notin Gets
      /\ dataVersion \in Nat /\ \A r \in Reloads : ver[r] \in Nat
  BY AssumptionsHold DEF Assumptions, Calls, StagingInv, TypeOK
<1>2. /\ dataVersion' = dataVersion /\ garbled' = garbled /\ input' = input
      /\ pc' = pc /\ op' = op /\ items' = items /\ ver' = ver /\ todo' = todo
      /\ read' = read /\ ret' = ret
  BY DEF Finish
<1>3. CASE c \in Reloads
  BY <1>2, <1>3, RpcContent
<1>4. CASE c \in Gets
  <2>1. \A r \in Reloads : fut'[r] = fut[r]
    BY <1>1, <1>4 DEF Finish, StagingInv, TypeOK
  <2>2. op[c] \notin {"insert", "clear"}
    BY <1>4 DEF StagingInv, TypeOK
  <2>3. \A t \in Servers : t \notin garbled' => stores'[t] = stores[t]
    BY <1>2, <2>2 DEF Executed
  <2>. QED
    BY <1>1, <1>2, <2>1, <2>3, LineServers, LoadPartKept
<1>. QED
  BY <1>3, <1>4 DEF Calls

\* Steps of gets, and steps of the pools that end no request.
LEMMA OthersContent ==
  ASSUME StagingInv, NEW V \in SUBSET {None}, LoadPart(V),
         \/ \E g \in Gets : GetBegin(g) \/ GetStep(g)
         \/ \E s \in Servers, l \in Lanes : WorkerTake(s, l)
         \/ UNCHANGED vars
  PROVE  /\ LoadPart(V)' /\ (ClearPart => ClearPart')
         /\ dataVersion' = dataVersion /\ garbled \subseteq garbled' /\ stores' = stores
         /\ \A r \in Reloads : /\ pc'[r] = pc[r] /\ op'[r] = op[r]
                               /\ ver'[r] = ver[r] /\ fut'[r] = fut[r]
<1>1. /\ Gets \subseteq Calls /\ Reloads \subseteq Calls
      /\ \A r \in Reloads : r \notin Gets
      /\ dataVersion \in Nat /\ \A r \in Reloads : ver[r] \in Nat
  BY AssumptionsHold DEF Assumptions, Calls, StagingInv, TypeOK
<1>2. /\ dataVersion' = dataVersion /\ garbled \subseteq garbled' /\ stores' = stores
      /\ read' = read /\ ret' = ret
  BY DEF GetBegin, GetStep, EnqueueQueryKeys, Enqueue, CollectQuery, Collect, WorkerTake,
         vars, serverVars
<1>3. \A r \in Reloads : /\ pc'[r] = pc[r] /\ op'[r] = op[r]
                         /\ items'[r] = items[r] /\ input'[r] = input[r]
                         /\ ver'[r] = ver[r] /\ todo'[r] = todo[r]
                         /\ fut'[r] = fut[r] /\ read'[r] = read[r] /\ ret'[r] = ret[r]
  <2>1. CASE \E g \in Gets : GetBegin(g) \/ GetStep(g)
    BY <1>1, <1>2, <2>1 DEF GetBegin, StartRound, GetStep, EnqueueQueryKeys, Enqueue,
                            CollectQuery, Collect, StagingInv, TypeOK
  <2>2. CASE \/ \E s \in Servers, l \in Lanes : WorkerTake(s, l)
             \/ UNCHANGED vars
    BY <1>2, <2>2 DEF WorkerTake, vars
  <2>. QED
    BY <2>1, <2>2, SMTT(30)
<1>4. LoadPart(V)' /\ (ClearPart => ClearPart')
  BY <1>1, <1>2, <1>3, LineServers, LoadPartKept
<1>. QED
  BY <1>2, <1>3, <1>4

\* All steps of a reload.
LEMMA ReloadContent ==
  ASSUME StagingInv, NEW V \in SUBSET {None}, LoadPart(V), NEW r \in Reloads,
         ReloadRefused(r) \/ ReloadNoPaths(r) \/ ReloadBegin(r) \/ ReloadStep(r)
  PROVE  LoadPart(V)' /\ (ClearPart => ClearPart')
<1>1. CASE ReloadRefused(r) \/ ReloadNoPaths(r) \/ ReloadBegin(r)
  BY <1>1, BeginContent
<1>2. CASE ReloadNextBlock(r)
  BY <1>2, NextBlockContent
<1>3. CASE ReloadInstall(r)
  BY <1>3, InstallContent
<1>4. CASE ReloadReturn(r)
  BY <1>4, ReturnContent
<1>5. ASSUME NEW s \in Servers, Enqueue(r, s)
      PROVE  LoadPart(V)' /\ (ClearPart => ClearPart')
  BY <1>5, EnqueueContent
<1>6. ASSUME NEW s \in Servers, CollectInsert(r, s) \/ CollectClear(r, s)
      PROVE  LoadPart(V)' /\ (ClearPart => ClearPart')
  BY <1>6, CollectContent
<1>. QED
  BY <1>1, <1>2, <1>3, <1>4, <1>5, <1>6 DEF ReloadStep, EnqueueInsertKvs, EnqueueClearData

\* The requests that end on their own, or on a corrupted connection.
LEMMA EndedRequest ==
  ASSUME StagingInv, NEW s \in Servers, RpcEnds(s) \/ \E c \in Calls : RpcGarbled(c, s)
  PROVE  \E c \in Calls, answer \in {"true", "false", "exception"} :
           /\ Running(c, s) /\ Finish(c, s, answer)
           /\ \A t \in Servers : t # s => stores'[t] = stores[t]
           /\ s \notin garbled => stores'[s] = stores[s] \/ stores'[s] = Executed(c, s, ver[c])
           /\ s \notin garbled /\ c \in Reloads /\ answer = "true" =>
                /\ stores'[s] = Executed(c, s, ver[c])
                /\ op[c] = "insert" => InsertOk(stores[s], input[c], Share(c, s), ver[c])
           /\ \A g \in Gets : \A i \in DOMAIN input[g] :
                (g = c /\ i \in Share(g, s)) \/ result'[g][i] = result[g][i]
           /\ s \notin garbled /\ c \in Gets /\ answer = "true" =>
                \A i \in Share(c, s) \intersect DOMAIN input[c] :
                  result'[c][i] = Seek(stores[s], input[c][i], ver[c])
<1>1. /\ Gets \subseteq Calls /\ Reloads \subseteq Calls
      /\ \A r \in Reloads : r \notin Gets
  BY AssumptionsHold DEF Assumptions, Calls
<1>2. stores \in [Servers -> [Slots -> [Keys -> Reloads \union {None}]]]
      /\ DOMAIN result = Gets
  BY DEF StagingInv, TypeOK
<1>3. ASSUME NEW r \in Reloads, RpcInsert(r, s)
      PROVE  \E answer \in {"true", "false", "exception"} :
               /\ Running(r, s) /\ Finish(r, s, answer) /\ result' = result
               /\ stores' = [stores EXCEPT ![s] = Executed(r, s, ver[r])]
               /\ answer = "true" => InsertOk(stores[s], input[r], Share(r, s), ver[r])
  BY <1>3 DEF RpcInsert
<1>4. ASSUME NEW r \in Reloads, RpcClear(r, s)
      PROVE  /\ Running(r, s) /\ Finish(r, s, "true") /\ result' = result
             /\ stores' = [stores EXCEPT ![s] = Executed(r, s, ver[r])]
             /\ op[r] # "insert"
  BY <1>4 DEF RpcClear
<1>5. ASSUME NEW g \in Gets, RpcQuery(g, s)
      PROVE  /\ Running(g, s) /\ Finish(g, s, "true") /\ stores' = stores
             /\ \A h \in Gets : \A i \in DOMAIN input[h] :
                  result'[h][i] = IF h = g /\ i \in Share(g, s)
                                  THEN Seek(stores[s], input[g][i], ver[g])
                                  ELSE result[h][i]
  BY <1>1, <1>2, <1>5 DEF RpcQuery, Share
<1>6. ASSUME NEW c \in Calls, RpcThrows(c, s)
      PROVE  /\ Running(c, s) /\ Finish(c, s, "exception") /\ result' = result
             /\ stores' \in {stores, [stores EXCEPT ![s] = Executed(c, s, ver[c])]}
  BY <1>6 DEF RpcThrows
<1>7. ASSUME NEW c \in Calls, RpcGarbled(c, s)
      PROVE  /\ Running(c, s) /\ s \in garbled
             /\ \E answer \in {"true", "false", "exception"} : Finish(c, s, answer)
             /\ \A t \in Servers : t # s => stores'[t] = stores[t]
             /\ \A h \in Gets : \A i \in DOMAIN input[h] :
                  (h = c /\ i \in Share(h, s)) \/ result'[h][i] = result[h][i]
  <2>1. stores' = stores \/ \E v \in Slots :
          stores' = [stores EXCEPT ![s] = Executed(c, s, v)]
    BY <1>7 DEF RpcGarbled
  <2>2. \A t \in Servers : t # s => stores'[t] = stores[t]
    BY <1>2, <2>1
  <2>3. \A h \in Gets : \A i \in DOMAIN input[h] :
          (h = c /\ i \in Share(h, s)) \/ result'[h][i] = result[h][i]
    BY <1>2, <1>7 DEF RpcGarbled
  <2>. QED
    BY <1>7, <2>2, <2>3 DEF RpcGarbled
<1>8. CASE \E r \in Reloads : RpcInsert(r, s)
  <2>1. PICK r \in Reloads : RpcInsert(r, s)
    BY <1>8
  <2>2. PICK answer \in {"true", "false", "exception"} :
          /\ Running(r, s) /\ Finish(r, s, answer) /\ result' = result
          /\ stores' = [stores EXCEPT ![s] = Executed(r, s, ver[r])]
          /\ answer = "true" => InsertOk(stores[s], input[r], Share(r, s), ver[r])
    BY <1>3, <2>1
  <2>. QED
    BY <1>1, <1>2, <2>2
<1>9. CASE \E r \in Reloads : RpcClear(r, s)
  BY <1>1, <1>2, <1>4, <1>9
<1>10. CASE \E g \in Gets : RpcQuery(g, s)
  BY <1>1, <1>2, <1>5, <1>10
<1>11. CASE \E c \in Calls : RpcThrows(c, s)
  BY <1>1, <1>2, <1>6, <1>11
<1>12. CASE \E c \in Calls : RpcGarbled(c, s)
  BY <1>1, <1>2, <1>7, <1>12
<1>. QED
  BY <1>8, <1>9, <1>10, <1>11, <1>12 DEF RpcEnds

-------------------------------------------------------------------------------
(* What a get reads                                                         *)

\* The clears that still have to reach backend s.
ClearAwaits(r, s) ==
  /\ op[r] = "clear" /\ pc[r] \in {"enqueue", "collect", "threw"}
  /\ fut[r][s] \in {"none", "pending"}

\* A version that is intact after a step that installs none was intact before.
LEMMA IntactBack ==
  ASSUME dataVersion' = dataVersion, garbled \subseteq garbled',
         \A r \in Reloads, s \in Servers :
           ClearAwaits(r, s)' => ClearAwaits(r, s) /\ ver'[r] = ver[r],
         NEW v, NEW s \in Servers, Intact(v, s)'
  PROVE  Intact(v, s)
BY DEF Intact, ClearAwaits

\* A step that adds no answer and leaves the maps that gets have read alone.
LEMMA GetPartKept ==
  ASSUME GetsBehind, AnswersKept,
         dataVersion' = dataVersion, garbled \subseteq garbled',
         \A r \in Reloads, s \in Servers :
           ClearAwaits(r, s)' => ClearAwaits(r, s) /\ ver'[r] = ver[r],
         \A g \in Gets : /\ ver'[g] = ver[g] /\ items'[g] = items[g]
                         /\ input'[g] = input[g] /\ result'[g] = result[g]
                         /\ \A s \in Servers : fut'[g][s] = "true" => fut[g][s] = "true",
         \A s \in Servers : s \notin garbled' => stores'[s] = stores[s]
  PROVE  GetsBehind' /\ AnswersKept'
<1>1. GetsBehind'
  BY DEF GetsBehind
<1>2. AnswersKept'
  <2> SUFFICES ASSUME NEW g \in Gets, NEW s \in Servers,
                      fut'[g][s] = "true", Intact(ver[g], s)', NEW i \in Share(g, s)'
               PROVE  (result[g][i] = Seek(stores[s], input[g][i], ver[g]))'
    BY DEF AnswersKept
  <2>1. ver'[g] = ver[g] /\ input'[g] = input[g] /\ result'[g] = result[g]
        /\ fut[g][s] = "true"
    OBVIOUS
  <2>2. Intact(ver'[g], s)
    BY IntactBack DEF Intact, ClearAwaits
  <2>3. i \in Share(g, s)
    BY <2>1 DEF Share
  <2>4. stores'[s] = stores[s]
    BY DEF Intact
  <2>. QED
    BY <2>1, <2>2, <2>3, <2>4 DEF AnswersKept, Seek
<1>. QED
  BY <1>1, <1>2

\* A request ends.  What a reload changes on an intact backend is neither the served
\* version nor one that waits for its clear; what a get brings is of its own version.
LEMMA RpcGets ==
  ASSUME StagingInv, GetsBehind, AnswersKept,
         NEW c \in Calls, NEW s \in Servers, NEW answer \in {"true", "false", "exception"},
         Running(c, s), Finish(c, s, answer),
         \A t \in Servers : t # s => stores'[t] = stores[t],
         s \notin garbled => stores'[s] = stores[s] \/ stores'[s] = Executed(c, s, ver[c]),
         \A g \in Gets : \A i \in DOMAIN input[g] :
           (g = c /\ i \in Share(g, s)) \/ result'[g][i] = result[g][i],
         s \notin garbled /\ c \in Gets /\ answer = "true" =>
           \A i \in Share(c, s) : result'[c][i] = Seek(stores[s], input[c][i], ver[c])
  PROVE  GetsBehind' /\ AnswersKept'
<1>1. /\ Gets \subseteq Calls /\ Reloads \subseteq Calls
      /\ dataVersion \in Nat /\ \A d \in Calls : ver[d] \in Nat
  BY DEF Calls, StagingInv, TypeOK
<1>2. /\ dataVersion' = dataVersion /\ garbled' = garbled /\ input' = input
      /\ pc' = pc /\ op' = op /\ items' = items /\ ver' = ver /\ todo' = todo
  BY DEF Finish
<1>3. \A d \in Calls, t \in Servers :
        fut'[d][t] = IF d = c /\ t = s THEN answer ELSE fut[d][t]
  BY DEF Finish, StagingInv, TypeOK
<1>4. \A r \in Reloads, t \in Servers :
        ClearAwaits(r, t)' => ClearAwaits(r, t) /\ ~(r = c /\ t = s) /\ ver'[r] = ver[r]
  BY <1>1, <1>2, <1>3 DEF ClearAwaits
<1>5. GetsBehind'
  BY <1>2 DEF GetsBehind
<1>6. \A v \in Nat, t \in Servers : Intact(v, t)' =>
        Intact(v, t) /\ stores'[t][GetIndex(v)] = stores[t][GetIndex(v)]
  <2> SUFFICES ASSUME NEW v \in Nat, NEW t \in Servers, Intact(v, t)'
               PROVE  Intact(v, t) /\ stores'[t][GetIndex(v)] = stores[t][GetIndex(v)]
    OBVIOUS
  <2>1. Intact(v, t)
    BY <1>2, <1>4, IntactBack
  <2>2. CASE t # s \/ stores'[s] = stores[s]
    BY <2>1, <2>2
  <2>3. CASE t = s /\ stores'[s] = Executed(c, s, ver[c]) /\ v = dataVersion
    BY <2>1, <2>3, ExecutedElsewhere
  <2>4. CASE t = s /\ stores'[s] = Executed(c, s, ver[c]) /\ v # dataVersion
    <3>1. CASE c \in Gets
      BY <2>1, <2>4, <3>1 DEF Executed, StagingInv, TypeOK
    <3>2. CASE c \in Reloads
      <4>1. PICK r \in Reloads : ClearAwaits(r, s)'
        BY <1>2, <2>4 DEF Intact, ClearAwaits
      <4>2. ClearAwaits(r, s) /\ r # c
        BY <1>4, <4>1
      <4>3. Holds(c)
        BY <3>2, ReloadTask DEF StagingInv, RoundsOrderly, Holds
      <4>. QED
        BY <3>2, <4>2, <4>3, OneHolder DEF ClearAwaits, Holds
    <3>. QED
      BY <3>1, <3>2 DEF Calls
  <2>. QED
    BY <1>2, <2>1, <2>2, <2>3, <2>4 DEF Intact
<1>7. AnswersKept'
  <2> SUFFICES ASSUME NEW g \in Gets, NEW t \in Servers,
                      fut'[g][t] = "true", Intact(ver[g], t)', NEW i \in Share(g, t)'
               PROVE  (result[g][i] = Seek(stores[t], input[g][i], ver[g]))'
    BY DEF AnswersKept
  <2>1. /\ i \in Share(g, t) /\ i \in DOMAIN input[g] /\ g \in Calls /\ ver[g] \in Nat
        /\ Shard[input[g][i]] = t
    BY <1>1, <1>2 DEF Share, GetsBehind
  <2>2. Intact(ver[g], t)' /\ ver'[g] = ver[g]
    BY <1>2
  <2>3. Intact(ver[g], t) /\ stores'[t][GetIndex(ver[g])] = stores[t][GetIndex(ver[g])]
    <3>1. Intact(ver'[g], t) /\ stores'[t][GetIndex(ver'[g])] = stores[t][GetIndex(ver'[g])]
      BY <1>6, <2>1, <2>2 DEF Intact
    <3>. QED
      BY <2>2, <3>1
  <2>4. CASE g = c /\ t = s
    <3>1. answer = "true" /\ s \notin garbled
      BY <1>3, <2>1, <2>3, <2>4 DEF Intact
    <3>2. result'[g][i] = Seek(stores[s], input[g][i], ver[g])
      BY <2>1, <2>4, <3>1
    <3>. QED
      BY <1>2, <2>3, <2>4, <3>2 DEF Seek
  <2>5. CASE ~(g = c /\ t = s)
    <3>1. fut[g][t] = "true"
      BY <1>3, <2>1, <2>5
    <3>2. result'[g][i] = result[g][i]
      BY <2>1, <2>5 DEF Share
    <3>3. result[g][i] = Seek(stores[t], input[g][i], ver[g])
      BY <2>1, <2>3, <3>1 DEF AnswersKept
    <3>. QED
      BY <1>2, <2>3, <3>2, <3>3 DEF Seek
  <2>. QED
    BY <2>4, <2>5
<1>. QED
  BY <1>5, <1>7

-------------------------------------------------------------------------------
(* The invariant                                                            *)

LEMMA InitContent ==
  ASSUME Init
  PROVE  ContentInv
<1>1. StagingInv
  BY InitStaging
<1>2. /\ dataVersion = 0 /\ \A s \in Servers : stores[s] = EmptyStores
      /\ \A c \in Calls : /\ pc[c] = "idle" /\ op[c] = "none" /\ items[c] = {} /\ ver[c] = 0
                          /\ \A s \in Servers : fut[c][s] = "none"
      /\ \A r \in Reloads : read[r] = 0 /\ ret[r]
      /\ Gets \subseteq Calls /\ Reloads \subseteq Calls
  BY DEF Init, Calls
<1>3. RoundsCounted /\ StagedLines /\ ReloadInstallsAll /\ Cleared
  BY <1>2 DEF RoundsCounted, RoundCounted, StagedLines, ReloadInstallsAll, Installed, Cleared
<1>4. StagingClean
  BY <1>2, IndexFlips DEF StagingClean, EmptyStores, Seek
<1>5. GetsBehind /\ AnswersKept
  BY <1>2 DEF GetsBehind, AnswersKept
<1>. QED
  BY <1>1, <1>3, <1>4, <1>5 DEF ContentInv

\* Steps of gets, and steps of the pools that end no request.
LEMMA GetContent ==
  ASSUME ContentInv,
         \/ \E g \in Gets : GetBegin(g) \/ GetStep(g)
         \/ \E s \in Servers, l \in Lanes : WorkerTake(s, l)
         \/ UNCHANGED vars
  PROVE  ReloadPart' /\ GetsBehind' /\ AnswersKept'
<1>1. /\ Gets \subseteq Calls /\ Reloads \subseteq Calls
      /\ \A r \in Reloads : r \notin Gets
      /\ dataVersion \in Nat
  BY AssumptionsHold DEF Assumptions, Calls, ContentInv, StagingInv, TypeOK
<1>2. StagingInv /\ ReloadPart /\ GetsBehind /\ AnswersKept
  BY ContentParts
<1>3. dataVersion' = dataVersion /\ garbled \subseteq garbled' /\ stores' = stores
  BY <1>2, OthersContent DEF ReloadPart
<1>4. \A r \in Reloads : pc'[r] = pc[r] /\ op'[r] = op[r] /\ ver'[r] = ver[r] /\ fut'[r] = fut[r]
  BY <1>2, OthersContent DEF ReloadPart
<1>5. ReloadPart'
  BY <1>2, OthersContent DEF ReloadPart
<1>6. \A r \in Reloads, s \in Servers :
        ClearAwaits(r, s)' => ClearAwaits(r, s) /\ ver'[r] = ver[r]
  BY <1>4 DEF ClearAwaits
<1>7. ASSUME NEW g \in Gets, GetBegin(g)
      PROVE  GetsBehind' /\ AnswersKept'
  <2>1. \A h \in Gets : h # g =>
          /\ ver'[h] = ver[h] /\ items'[h] = items[h] /\ input'[h] = input[h]
          /\ result'[h] = result[h] /\ fut'[h] = fut[h]
    BY <1>1, <1>7 DEF GetBegin, StartRound, ContentInv, StagingInv, TypeOK
  <2>2. /\ ver'[g] = dataVersion /\ items'[g] = DOMAIN input'[g]
        /\ \A s \in Servers : fut'[g][s] = "none"
    BY <1>1, <1>7 DEF GetBegin, StartRound, ContentInv, StagingInv, TypeOK
  <2>3. GetsBehind'
    BY <1>1, <1>2, <1>3, <2>1, <2>2 DEF GetsBehind
  <2>4. AnswersKept'
    <3> SUFFICES ASSUME NEW h \in Gets, NEW s \in Servers,
                        fut'[h][s] = "true", Intact(ver[h], s)', NEW i \in Share(h, s)'
                 PROVE  (result[h][i] = Seek(stores[s], input[h][i], ver[h]))'
      BY DEF AnswersKept
    <3>1. h # g
      BY <2>2
    <3>2. /\ ver'[h] = ver[h] /\ items'[h] = items[h] /\ input'[h] = input[h]
          /\ result'[h] = result[h] /\ fut[h][s] = "true"
      BY <2>1, <3>1
    <3>3. Intact(ver'[h], s)
      BY <1>3, <1>6, IntactBack DEF Intact, ClearAwaits
    <3>4. i \in Share(h, s)
      BY <3>2 DEF Share
    <3>. QED
      BY <1>2, <1>3, <3>2, <3>3, <3>4 DEF AnswersKept, Seek
  <2>. QED
    BY <2>3, <2>4
<1>8. CASE \/ \E g \in Gets : GetStep(g)
           \/ \E s \in Servers, l \in Lanes : WorkerTake(s, l)
           \/ UNCHANGED vars
  <2>1. \A g \in Gets : /\ ver'[g] = ver[g] /\ items'[g] = items[g]
                        /\ input'[g] = input[g] /\ result'[g] = result[g]
                        /\ \A s \in Servers : fut'[g][s] = "true" => fut[g][s] = "true"
    <3>1. ASSUME NEW h \in Gets, NEW t \in Servers, Enqueue(h, t)
          PROVE  \A g \in Gets, s \in Servers : fut'[g][s] = "true" => fut[g][s] = "true"
      BY <1>1, <3>1, SMTT(30) DEF Enqueue, ContentInv, StagingInv, TypeOK
    <3>2. /\ ver' = ver /\ items' = items /\ input' = input /\ result' = result
          /\ fut' = fut \/ \E h \in Gets, t \in Servers : Enqueue(h, t)
      BY <1>8 DEF GetStep, EnqueueQueryKeys, Enqueue, CollectQuery, Collect, WorkerTake, vars
    <3>. QED
      BY <3>1, <3>2
  <2>. QED
    BY <1>2, <1>3, <1>5, <1>6, <2>1, GetPartKept
<1>9. \/ \E g \in Gets : GetBegin(g)
      \/ \E g \in Gets : GetStep(g)
      \/ \E s \in Servers, l \in Lanes : WorkerTake(s, l)
      \/ UNCHANGED vars
  OBVIOUS
<1>. QED
  BY <1>5, <1>7, <1>8, <1>9

\* Steps of a reload, as gets see them.
LEMMA ReloadKeepsGets ==
  ASSUME ContentInv, NEW r \in Reloads,
         ReloadRefused(r) \/ ReloadNoPaths(r) \/ ReloadBegin(r) \/ ReloadStep(r)
  PROVE  GetsBehind' /\ AnswersKept'
<1>1. /\ Gets \subseteq Calls /\ Reloads \subseteq Calls /\ r \in Calls
      /\ \A g \in Gets : g # r
      /\ dataVersion \in Nat /\ \A c \in Calls : ver[c] \in Nat
  BY AssumptionsHold DEF Assumptions, Calls, ContentInv, StagingInv, TypeOK
<1>2. RoundCounted(r) /\ GetsBehind /\ AnswersKept
  BY DEF ContentInv, RoundsCounted
<1>3. garbled' = garbled /\ stores' = stores /\ result' = result
  BY DEF ReloadRefused, ReloadNoPaths, ReloadBegin, ReloadStep, ReloadNextBlock,
         ReloadInstall, ReloadReturn, EnqueueInsertKvs, EnqueueClearData, Enqueue,
         CollectInsert, CollectClear, Collect, serverVars
<1>4. \A c \in Calls : c # r =>
        /\ pc'[c] = pc[c] /\ op'[c] = op[c] /\ ver'[c] = ver[c] /\ items'[c] = items[c]
        /\ input'[c] = input[c] /\ fut'[c] = fut[c]
  BY <1>1 DEF ReloadRefused, ReloadNoPaths, ReloadBegin, ReloadStep, ReloadNextBlock,
         ReloadInstall, ReloadReturn, EnqueueInsertKvs, EnqueueClearData, Enqueue,
         CollectInsert, CollectClear, Collect, StartRound, ContentInv, StagingInv, TypeOK
<1>5. CASE ReloadInstall(r)
  <2>1. dataVersion' = dataVersion + 1
    BY <1>5 DEF ReloadInstall
  <2>2. GetsBehind'
    BY <1>1, <1>2, <1>4, <2>1 DEF GetsBehind
  <2>3. AnswersKept'
    <3> SUFFICES ASSUME NEW g \in Gets, NEW s \in Servers,
                        fut'[g][s] = "true", Intact(ver[g], s)', NEW i \in Share(g, s)'
                 PROVE  (result[g][i] = Seek(stores[s], input[g][i], ver[g]))'
      BY DEF AnswersKept
    <3>1. /\ ver'[g] = ver[g] /\ input'[g] = input[g] /\ fut[g][s] = "true"
          /\ i \in Share(g, s)
      BY <1>1, <1>4 DEF Share
    <3>2. ver[g] \in Nat /\ ver[g] <= dataVersion
      BY <1>1, <1>2 DEF GetsBehind
    <3>3. s \notin garbled /\ (ver[g] = dataVersion + 1 \/ ver[g] = dataVersion)
      BY <1>1, <1>3, <2>1, <3>1 DEF Intact
    <3>4. Intact(ver[g], s)
      BY <1>1, <3>2, <3>3 DEF Intact
    <3>. QED
      BY <1>2, <1>3, <3>1, <3>4 DEF AnswersKept, Seek
  <2>. QED
    BY <2>2, <2>3
<1>6. CASE ~ReloadInstall(r)
  <2>1. dataVersion' = dataVersion
    BY <1>6 DEF ReloadRefused, ReloadNoPaths, ReloadBegin, ReloadStep, ReloadNextBlock,
         ReloadReturn, EnqueueInsertKvs, EnqueueClearData, Enqueue,
         CollectInsert, CollectClear, Collect, serverVars
  <2>2. \A s \in Servers : ClearAwaits(r, s)' => ClearAwaits(r, s) /\ ver'[r] = ver[r]
    <3> SUFFICES ASSUME NEW s \in Servers, ClearAwaits(r, s)'
                 PROVE  ClearAwaits(r, s) /\ ver'[r] = ver[r]
      OBVIOUS
    <3>1. CASE ReloadRefused(r) \/ ReloadNoPaths(r) \/ ReloadBegin(r) \/ ReloadReturn(r)
      BY <1>1, <3>1 DEF ReloadRefused, ReloadNoPaths, ReloadBegin, ReloadReturn, ClearAwaits,
                        ContentInv, StagingInv, TypeOK
    <3>2. CASE ReloadNextBlock(r)
      BY <1>1, <3>2 DEF ReloadNextBlock, StartRound, ClearAwaits, ContentInv, StagingInv, TypeOK
    <3>3. ASSUME NEW t \in Servers, Enqueue(r, t)
          PROVE  ClearAwaits(r, s) /\ ver'[r] = ver[r]
      <4>1. op' = op /\ ver' = ver /\ pc[r] = "enqueue" /\ t \in todo[r]
        BY <3>3 DEF Enqueue, IsNext
      <4>2. fut[r][t] = "none" /\ (s # t => fut'[r][s] = fut[r][s])
        BY <1>1, <1>2, <3>3, <4>1 DEF RoundCounted, Enqueue, ContentInv, StagingInv, TypeOK
      <4>. QED
        BY <4>1, <4>2 DEF ClearAwaits
    <3>4. ASSUME NEW t \in Servers, CollectInsert(r, t) \/ CollectClear(r, t)
          PROVE  ClearAwaits(r, s) /\ ver'[r] = ver[r]
      BY <1>1, <3>4 DEF CollectInsert, CollectClear, Collect, ClearAwaits
    <3>. QED
      BY <1>6, <3>1, <3>2, <3>3, <3>4 DEF ReloadStep, EnqueueInsertKvs, EnqueueClearData
  <2>3. \A q \in Reloads, s \in Servers :
          ClearAwaits(q, s)' => ClearAwaits(q, s) /\ ver'[q] = ver[q]
    BY <1>1, <1>4, <2>2 DEF ClearAwaits
  <2>. QED
    BY <1>1, <1>2, <1>3, <1>4, <2>1, <2>3, GetPartKept
<1>. QED
  BY <1>5, <1>6

\* Requests that end.
LEMMA RpcEndsContent ==
  ASSUME ContentInv, NEW s \in Servers,
         RpcEnds(s) \/ \E c \in Calls : RpcGarbled(c, s)
  PROVE  ReloadPart' /\ GetsBehind' /\ AnswersKept'
<1>1. StagingInv /\ ReloadPart /\ GetsBehind /\ AnswersKept
  BY ContentParts
<1>2. PICK c \in Calls, answer \in {"true", "false", "exception"} :
        /\ Running(c, s) /\ Finish(c, s, answer)
        /\ \A t \in Servers : t # s => stores'[t] = stores[t]
        /\ s \notin garbled => stores'[s] = stores[s] \/ stores'[s] = Executed(c, s, ver[c])
        /\ s \notin garbled /\ c \in Reloads /\ answer = "true" =>
             /\ stores'[s] = Executed(c, s, ver[c])
             /\ op[c] = "insert" => InsertOk(stores[s], input[c], Share(c, s), ver[c])
        /\ \A g \in Gets : \A i \in DOMAIN input[g] :
             (g = c /\ i \in Share(g, s)) \/ result'[g][i] = result[g][i]
        /\ s \notin garbled /\ c \in Gets /\ answer = "true" =>
             \A i \in Share(c, s) \intersect DOMAIN input[c] :
               result'[c][i] = Seek(stores[s], input[c][i], ver[c])
  BY <1>1, EndedRequest
<1>3. c \in Gets => Share(c, s) \subseteq DOMAIN input[c]
  BY <1>1 DEF Share, GetsBehind
<1>4. GetsBehind' /\ AnswersKept'
  BY <1>1, <1>2, <1>3, RpcGets
<1>5. ReloadPart'
  BY <1>1, <1>2, FinishContent DEF ReloadPart
<1>. QED
  BY <1>4, <1>5

LEMMA NextContent ==
  ASSUME ContentInv, [Next]_vars
  PROVE  ContentInv'
<1>1. StagingInv /\ ReloadPart
  BY ContentParts
<1>2. StagingInv'
  BY <1>1, NextStaging
<1>3. SUFFICES ReloadPart' /\ GetsBehind' /\ AnswersKept'
  BY <1>2, ContentParts
<1>4. ASSUME NEW r \in Reloads,
             ReloadRefused(r) \/ ReloadNoPaths(r) \/ ReloadBegin(r) \/ ReloadStep(r)
      PROVE  ReloadPart'
  BY <1>1, <1>4, ReloadContent DEF ReloadPart
<1>5. CASE \E r \in Reloads : \/ ReloadRefused(r) \/ ReloadNoPaths(r) \/ ReloadBegin(r)
                              \/ ReloadStep(r)
  BY <1>4, <1>5, ReloadKeepsGets
<1>6. CASE \/ \E g \in Gets : GetBegin(g) \/ GetStep(g)
           \/ \E s \in Servers, l \in Lanes : WorkerTake(s, l)
           \/ UNCHANGED vars
  BY <1>6, GetContent
<1>7. CASE \E s \in Servers : RpcEnds(s) \/ \E c \in Calls : RpcGarbled(c, s)
  BY <1>7, RpcEndsContent
<1>. QED
  BY <1>5, <1>6, <1>7 DEF Next

-------------------------------------------------------------------------------
(* Theorems                                                                 *)

\* What the maps hold, and what gets have read of them, in every behaviour: any number of
\* backends, gets, reloads, keys, lines and blocks, with RPCs that fail before or after
\* they were executed and with clients that two calls have corrupted.
THEOREM ContentInvariant == Spec => []ContentInv
<1>1. Init => ContentInv
  BY InitContent
<1>2. ContentInv /\ [Next]_vars => ContentInv'
  BY NextContent
<1>. QED
  BY <1>1, <1>2, PTL DEF Spec

\* reload increments _data_version only when every line of all its files, of every block
\* and on every intact backend, is stored with the value this reload gave it.
THEOREM InstalledVersionsAreComplete == Spec => []ReloadInstallsAll
<1>1. ContentInv => ReloadInstallsAll
  BY DEF ContentInv
<1>. QED
  BY <1>1, ContentInvariant, PTL

\* As long as no reload has failed, a reload finds the map it is going to fill empty.
THEOREM StagingIsCleared == Spec => []StagingClean
<1>1. ContentInv => StagingClean
  BY DEF ContentInv
<1>. QED
  BY <1>1, ContentInvariant, PTL

\* get reads _data_version once; until the clear of that version has run on a backend,
\* what get holds from the backend is what the version contains, and the status of its
\* response says whether that is all of the keys.
THEOREM GetsSeeOneVersion == Spec => []GetSnapshot
<1>1. ASSUME ContentInv, NEW g \in Gets,
             \A s \in Targets(g) : fut[g][s] = "true" /\ Intact(ver[g], s)
      PROVE  ResponseStatuses(g) =
               {IF \A i \in items[g] : Seek(stores[Shard[input[g][i]]], input[g][i], ver[g]) # None
                THEN "OK" ELSE "PARTIAL_OK"}
  <2>1. TypeOK /\ AnswersKept /\ g \in Calls /\ items[g] \subseteq DOMAIN input[g]
    BY <1>1 DEF ContentInv, StagingInv, GetsBehind, Calls
  <2>2. op[g] # "clear" /\ ver[g] \in Nat /\ stores \in [Servers -> [Slots -> [Keys -> Reloads \union {None}]]]
    BY <2>1 DEF TypeOK
  <2>3. ASSUME NEW i \in items[g]
        PROVE  /\ result[g][i] = Seek(stores[Shard[input[g][i]]], input[g][i], ver[g])
               /\ result[g][i] # Garbage
    <3> DEFINE s == Shard[input[g][i]]
    <3>1. input[g][i] \in Keys
      BY <2>1, InputKeys
    <3>2. s \in Servers
      BY <3>1, AssumptionsHold DEF Assumptions
    <3>3. i \in Share(g, s) /\ s \in Targets(g)
      BY <2>2, <3>2 DEF Share, Targets
    <3>4. result[g][i] = Seek(stores[s], input[g][i], ver[g])
      BY <1>1, <2>1, <3>2, <3>3 DEF AnswersKept
    <3>5. Seek(stores[s], input[g][i], ver[g]) \in Reloads \union {None}
      BY <2>2, <3>1, <3>2, IndexFlips DEF Seek
    <3>. QED
      BY <3>4, <3>5, ItemsAssumption
  <2>4. Garbage \notin {result[g][i] : i \in items[g]}
    BY <2>3
  <2>5. None \in {result[g][i] : i \in items[g]} <=>
          ~ \A i \in items[g] : Seek(stores[Shard[input[g][i]]], input[g][i], ver[g]) # None
    BY <2>3
  <2>. QED
    BY <2>4, <2>5 DEF ResponseStatuses
<1>2. ContentInv => GetSnapshot
  BY <1>1 DEF ContentInv, GetSnapshot
<1>. QED
  BY <1>2, ContentInvariant, PTL

-------------------------------------------------------------------------------
(* Restarts: what the served version has for a line is of the reload that *)
(* installed it, or forgotten.  The lemmas above, with {None} for what a   *)
(* backend may hold instead of a line, carry every step but the restarts   *)
(* and the calls on broken connections.                                    *)

\* OwnInv in the terms of those lemmas.
LEMMA OwnParts ==
  /\ OwnInv <=> StagingInv /\ LoadPart({None})
  /\ OwnInv' <=> (StagingInv /\ LoadPart({None}))'
<1>1. StagedAs({None}) <=> StagedOwn
  BY DEF StagedAs, StagedOwn
<1>2. InstalledAs({None}) <=> OwnLinesOrNone
  BY DEF InstalledAs, OwnLinesOrNone
<1>3. StagedAs({None})' <=> StagedOwn'
  BY DEF StagedAs, StagedOwn
<1>4. InstalledAs({None})' <=> OwnLinesOrNone'
  BY DEF InstalledAs, OwnLinesOrNone
<1>. QED
  BY <1>1, <1>2, <1>3, <1>4 DEF OwnInv, LoadPart

LEMMA InitOwn ==
  ASSUME InitWithRestarts
  PROVE  OwnInv
<1>1. ContentInv
  BY InitContent DEF InitWithRestarts
<1>. QED
  BY <1>1 DEF ContentInv, OwnInv, StagedLines, StagedOwn, ReloadInstallsAll, OwnLinesOrNone

\* A backend that restarts empties its maps: what was staged or served there is forgotten.
LEMMA BackendRestartOwn ==
  ASSUME StagingInv, LoadPart({None}), NEW s \in Servers, BackendRestart(s)
  PROVE  StagingInv' /\ LoadPart({None})'
<1>1. /\ dataVersion' = dataVersion /\ isLoading' = isLoading /\ pool' = pool
      /\ busy' = busy /\ garbled' = garbled /\ faults' = faults
      /\ pc' = pc /\ op' = op /\ input' = input /\ items' = items /\ read' = read
      /\ ver' = ver /\ todo' = todo /\ fut' = fut /\ ret' = ret /\ result' = result
      /\ stores' = [stores EXCEPT ![s] = EmptyStores]
  BY DEF BackendRestart
<1>2. TypeOK'
  <2>1. EmptyStores \in [Slots -> [Keys -> Reloads \union {None}]]
    BY DEF EmptyStores
  <2>2. stores' \in [Servers -> [Slots -> [Keys -> Reloads \union {None}]]]
    BY <1>1, <2>1 DEF StagingInv, TypeOK
  <2>. QED
    BY <1>1, <2>2 DEF StagingInv, TypeOK
<1>3. StagingInv'
  BY <1>1, <1>2, ReloadsUntouched
<1>4. \A t \in Servers : stores'[t] = stores[t] \/ stores'[t] = EmptyStores
  BY <1>1 DEF StagingInv, TypeOK
<1>5. dataVersion \in Nat /\ \A r \in Reloads : ver[r] \in Nat
  BY DEF StagingInv, TypeOK, Calls
<1>6. LoadPart({None})'
  BY <1>1, <1>4, <1>5, LineServers, LoadPartKept
<1>. QED
  BY <1>3, <1>6

\* A proxy that restarts has issued no call, queued no task and installed no version.
LEMMA ProxyRestartOwn ==
  ASSUME StagingInv, LoadPart({None}), ProxyRestart
  PROVE  StagingInv' /\ LoadPart({None})'
<1>1. /\ dataVersion' = 0 /\ isLoading' = FALSE /\ garbled' = {}
      /\ faults' = faults /\ input' = input /\ items' = items /\ read' = read
      /\ ver' = ver /\ todo' = todo /\ ret' = ret /\ result' = result
      /\ pool' = [s \in Servers |-> [l \in Lanes |-> << >>]]
      /\ busy' = [s \in Servers |-> [l \in Lanes |-> FALSE]]
      /\ pc'  = [c \in Calls |-> IF CutOff(c) THEN "cut" ELSE pc[c]]
      /\ op'  = [c \in Calls |-> "none"]
      /\ fut' = [c \in Calls |-> [s \in Servers |-> "none"]]
  BY DEF ProxyRestart
<1>2. \A c \in Calls : /\ pc'[c] \in {"idle", "returned", "cut"}
                       /\ pc'[c] = "idle" => pc[c] = "idle"
                       /\ op'[c] = "none"
                       /\ \A s \in Servers : fut'[c][s] = "none"
  BY <1>1 DEF CutOff
<1>3. Reloads \subseteq Calls /\ Gets \subseteq Calls
  BY DEF Calls
<1>4. stores' \in [Servers -> [Slots -> [Keys -> Reloads \union {None}]]]
  <2>1. PICK reached \in SUBSET {s \in Servers : \E r \in Reloads : Running(r, s)} :
          stores' = [s \in Servers |->
            IF s \in reached
            THEN LET r == CHOOSE q \in Reloads : Running(q, s) IN Executed(r, s, ver[r])
            ELSE stores[s]]
    BY DEF ProxyRestart
  <2>2. ASSUME NEW s \in Servers, s \in reached
        PROVE  LET r == CHOOSE q \in Reloads : Running(q, s) IN
               Executed(r, s, ver[r]) \in [Slots -> [Keys -> Reloads \union {None}]]
    <3> DEFINE r == CHOOSE q \in Reloads : Running(q, s)
    <3>1. r \in Calls
      BY <1>3, <2>2
    <3>2. ver[r] \in Nat
      BY <3>1 DEF StagingInv, TypeOK
    <3> HIDE DEF r
    <3>3. Executed(r, s, ver[r]) \in [Slots -> [Keys -> Reloads \union {None}]]
      BY <3>1, <3>2, ExecutedType DEF StagingInv
    <3>. QED
      BY <3>3 DEF r
  <2>3. \A s \in Servers : stores[s] \in [Slots -> [Keys -> Reloads \union {None}]]
    BY DEF StagingInv, TypeOK
  <2>. QED
    BY <2>1, <2>2, <2>3
<1>5. TypeOK'
  <2>1. pool' \in [Servers -> [Lanes -> Seq(Calls)]]
    BY <1>1
  <2>2. pc' \in [Calls -> Pcs]
    BY <1>1 DEF StagingInv, TypeOK, Pcs
  <2>3. op' \in [Calls -> Ops] /\ fut' \in [Calls -> [Servers -> Futs]]
    BY <1>1 DEF Ops, Futs
  <2>4. /\ \A g \in Gets : op'[g] \in {"none", "get"}
        /\ \A r \in Reloads : op'[r] # "get"
    BY <1>2, <1>3
  <2>. QED
    BY <1>1, <1>4, <2>1, <2>2, <2>3, <2>4 DEF StagingInv, TypeOK
<1>6. StagingInv'
  <2>1. LoadingMutex' /\ RoundsAimed' /\ RoundsOrderly'
    BY <1>2, <1>3 DEF LoadingMutex, Holds, RoundsAimed, RoundsOrderly, Pending
  <2>2. QueryLane'
    BY <1>1 DEF QueryLane, Lanes
  <2>. QED
    BY <1>5, <2>1, <2>2 DEF StagingInv
<1>7. RoundsCounted'
  <2> SUFFICES ASSUME NEW r \in Reloads
               PROVE  RoundCounted(r)'
    BY DEF RoundsCounted
  <2>1. /\ pc'[r] \in {"idle", "returned", "cut"} /\ op'[r] = "none"
        /\ pc'[r] = "idle" => pc[r] = "idle"
        /\ read'[r] = read[r] /\ ret'[r] = ret[r]
    BY <1>1, <1>2, <1>3
  <2>2. pc[r] = "idle" => read[r] = 0 /\ ret[r]
    BY DEF LoadPart, RoundsCounted, RoundCounted
  <2>. QED
    BY <2>1, <2>2 DEF RoundCounted
<1>8. StagedAs({None})' /\ InstalledAs({None})'
  BY <1>2, <1>3 DEF StagedAs, InstalledAs, Installed
<1>. QED
  BY <1>6, <1>7, <1>8 DEF LoadPart

\* A call on a broken connection ends with an exception and reaches no backend.
LEMMA RpcBrokenOwn ==
  ASSUME StagingInv, LoadPart({None}),
         NEW c \in Calls, NEW s \in Servers, RpcBroken(c, s)
  PROVE  StagingInv' /\ LoadPart({None})'
<1>1. /\ Running(c, s) /\ Finish(c, s, "exception")
      /\ stores' = stores /\ faults' = faults /\ result' = result
  BY DEF RpcBroken
<1>2. TypeOK'
  <2>1. /\ pool' \in [Servers -> [Lanes -> Seq(Calls)]]
        /\ busy' \in [Servers -> [Lanes -> BOOLEAN]]
        /\ fut' \in [Calls -> [Servers -> Futs]]
    BY <1>1, FinishType DEF StagingInv
  <2>. QED
    BY <1>1, <2>1 DEF Finish, StagingInv, TypeOK
<1>3. StagingInv'
  BY <1>1, <1>2, FinishStaging
<1>4. LoadPart({None})'
  BY <1>1, FinishContent
<1>. QED
  BY <1>3, <1>4

\* The steps that CannonProxy has too.
LEMMA ProxyStepOwn ==
  ASSUME StagingInv, LoadPart({None}),
         \/ HandlerStep \/ UNCHANGED restartVars
         \/ \E s \in Servers : RpcConnected(s) \/ \E c \in Calls : RpcCorrupted(c, s)
  PROVE  StagingInv' /\ LoadPart({None})'
<1>1. [Next]_vars
  BY DEF HandlerStep, RpcConnected, RpcCorrupted, restartVars, Next
<1>2. StagingInv'
  BY <1>1, NextStaging
<1>3. CASE \E r \in Reloads : \/ ReloadRefused(r) \/ ReloadNoPaths(r) \/ ReloadBegin(r)
                              \/ ReloadStep(r)
  BY <1>2, <1>3, ReloadContent
<1>4. CASE \/ \E g \in Gets : GetBegin(g) \/ GetStep(g)
           \/ \E s \in Servers, l \in Lanes : WorkerTake(s, l)
           \/ UNCHANGED vars
  BY <1>2, <1>4, OthersContent
<1>5. CASE \E s \in Servers : RpcConnected(s) \/ \E c \in Calls : RpcCorrupted(c, s)
  <2>1. PICK s \in Servers : RpcEnds(s) \/ \E c \in Calls : RpcGarbled(c, s)
    BY <1>5 DEF RpcConnected, RpcCorrupted
  <2>2. PICK c \in Calls, answer \in {"true", "false", "exception"} :
          /\ Running(c, s) /\ Finish(c, s, answer)
          /\ \A t \in Servers : t # s => stores'[t] = stores[t]
          /\ s \notin garbled => stores'[s] = stores[s] \/ stores'[s] = Executed(c, s, ver[c])
          /\ s \notin garbled /\ c \in Reloads /\ answer = "true" =>
               /\ stores'[s] = Executed(c, s, ver[c])
               /\ op[c] = "insert" => InsertOk(stores[s], input[c], Share(c, s), ver[c])
    BY <2>1, EndedRequest
  <2>. QED
    BY <1>2, <2>2, FinishContent
<1>. QED
  BY <1>2, <1>3, <1>4, <1>5 DEF HandlerStep, restartVars

LEMMA NextOwn ==
  ASSUME OwnInv, [NextWithRestarts]_restartVars
  PROVE  OwnInv'
<1>1. StagingInv /\ LoadPart({None})
  BY OwnParts
<1>2. CASE \/ HandlerStep \/ UNCHANGED restartVars
           \/ \E s \in Servers : RpcConnected(s) \/ \E c \in Calls : RpcCorrupted(c, s)
  BY <1>1, <1>2, ProxyStepOwn, OwnParts
<1>3. ASSUME NEW s \in Servers, BackendRestart(s)
      PROVE  OwnInv'
  BY <1>1, <1>3, BackendRestartOwn, OwnParts
<1>4. ASSUME NEW s \in Servers, NEW c \in Calls, RpcBroken(c, s)
      PROVE  OwnInv'
  BY <1>1, <1>4, RpcBrokenOwn, OwnParts
<1>5. CASE ProxyRestart
  BY <1>1, <1>5, ProxyRestartOwn, OwnParts
<1>. QED
  BY <1>2, <1>3, <1>4, <1>5 DEF NextWithRestarts

\* Whatever restarts, and how often: reloads still exclude each other and aim past the
\* served version, and what their acknowledged rounds have staged is theirs or forgotten.
THEOREM OwnInvariant == SpecWithRestarts => []OwnInv
<1>1. InitWithRestarts => OwnInv
  BY InitOwn
<1>2. OwnInv /\ [NextWithRestarts]_restartVars => OwnInv'
  BY NextOwn
<1>. QED
  BY <1>1, <1>2, PTL DEF SpecWithRestarts

\* A version that a reload has installed answers a key of that reload's files with its
\* line or with NOT_FOUND, although insert never overwrites what a backend still holds of
\* reloads from before the proxy restarted.
THEOREM ServedLinesAreOwn == SpecWithRestarts => []OwnLinesOrNone
<1>1. OwnInv => OwnLinesOrNone
  BY DEF OwnInv
<1>. QED
  BY <1>1, OwnInvariant, PTL

-------------------------------------------------------------------------------
(* A backend that forgets is noticed                                        *)

\* The lane of queries and the futures of gets, under steps that end or queue no query.
LEMMA GetsUntouched ==
  ASSUME GetLane, GetsOrderly,
         \A s \in Servers : pool'[s]["insert"] = pool[s]["insert"],
         \A g \in Gets, s \in Servers : fut'[g][s] = fut[g][s],
         \A g \in Gets : pc'[g] = "idle" => pc[g] = "idle" /\ op'[g] = op[g],
         \A g \in Gets, s \in Servers : pc'[g] = "enqueue" /\ s \in todo'[g] => fut[g][s] = "none"
  PROVE  GetLane' /\ GetsOrderly'
<1>1. GetLane'
  BY DEF GetLane
<1>2. GetsOrderly'
  BY DEF GetsOrderly
<1>. QED
  BY <1>1, <1>2

\* A query is queued behind others, of gets that are not this one.
LEMMA EnqueueGets ==
  ASSUME StagingInv, GetLane, GetsOrderly, NEW c \in Calls, NEW s \in Servers, Enqueue(c, s)
  PROVE  GetLane' /\ GetsOrderly'
<1>1. /\ Gets \subseteq Calls /\ \A r \in Reloads : r \notin Gets
      /\ \A r \in Reloads : LaneOf(op[r]) = "query"
  BY AssumptionsHold DEF Assumptions, Calls, StagingInv, TypeOK, LaneOf
<1>2. /\ pool' = [pool EXCEPT ![s][LaneOf(op[c])] = Append(@, c)]
      /\ fut'  = [fut EXCEPT ![c][s] = "pending"]
      /\ pc[c] = "enqueue" /\ s \in todo[c] /\ op' = op
  BY DEF Enqueue, IsNext
<1>3. /\ pool \in [Servers -> [Lanes -> Seq(Calls)]] /\ fut \in [Calls -> [Servers -> Futs]]
      /\ pc \in [Calls -> Pcs] /\ todo \in [Calls -> SUBSET Servers]
  BY DEF StagingInv, TypeOK
<1>4. \A d \in Calls, t \in Servers :
        fut'[d][t] = IF d = c /\ t = s THEN "pending" ELSE fut[d][t]
  BY <1>2, <1>3
<1>5. \A d \in Calls : d # c => pc'[d] = pc[d] /\ todo'[d] = todo[d]
  BY <1>3 DEF Enqueue
<1>6. pc'[c] = "collect" \/ (pc'[c] = "enqueue" /\ todo'[c] = todo[c] \ {s})
  BY <1>3 DEF Enqueue
<1>7. GetsOrderly'
  BY <1>1, <1>2, <1>4, <1>5, <1>6 DEF GetsOrderly
<1>8. ASSUME NEW t \in Servers
      PROVE  LET queue == pool'[t]["insert"] IN
             /\ \A i \in DOMAIN queue : queue[i] \in Gets /\ fut'[queue[i]][t] = "pending"
             /\ \A i, j \in DOMAIN queue : queue[i] = queue[j] => i = j
  <2> DEFINE q == pool[t]["insert"]
  <2>1. /\ \A i \in DOMAIN q : q[i] \in Gets /\ fut[q[i]][t] = "pending"
        /\ \A i, j \in DOMAIN q : q[i] = q[j] => i = j
    BY DEF GetLane
  <2>2. q \in Seq(Calls)
    BY <1>3 DEF Lanes
  <2>3. CASE pool'[t]["insert"] = q
    BY <1>1, <1>4, <2>1, <2>3
  <2>4. CASE t = s /\ LaneOf(op[c]) = "insert"
    <3>1. c \in Gets
      BY <1>1, <2>4 DEF Calls
    <3>2. pool'[t]["insert"] = Append(q, c)
      BY <1>2, <1>3, <2>4 DEF Lanes
    <3>3. fut[c][t] = "none"
      BY <1>2, <2>4, <3>1 DEF GetsOrderly
    <3> HIDE DEF q
    <3>4. \A i \in DOMAIN q : q[i] # c
      BY <2>1, <3>3
    <3>5. \A i \in DOMAIN Append(q, c) :
            \/ i \in DOMAIN q /\ Append(q, c)[i] = q[i]
            \/ i = Len(q) + 1 /\ Append(q, c)[i] = c
      BY <2>2
    <3>6. \A i \in DOMAIN q : i # Len(q) + 1
      BY <2>2
    <3>. QED
      BY <1>1, <1>4, <2>1, <2>4, <3>1, <3>2, <3>4, <3>5, <3>6
  <2>5. (t = s /\ LaneOf(op[c]) = "insert") \/ pool'[t]["insert"] = q
    BY <1>2, <1>3 DEF Lanes, LaneOf
  <2>. QED
    BY <2>3, <2>4, <2>5
<1>9. GetLane'
  BY <1>8 DEF GetLane
<1>. QED
  BY <1>7, <1>9

\* A call that runs is waiting for its answer.
LEMMA RunningIsPending ==
  ASSUME StagingInv, GetLane, NEW c \in Calls, NEW s \in Servers, Running(c, s)
  PROVE  fut[c][s] = "pending"
<1>1. CASE c \in Gets
  <2>1. LaneOf(op[c]) = "insert"
    BY <1>1, GetTask
  <2>2. pool[s]["insert"] # << >> /\ c = Head(pool[s]["insert"])
    BY <2>1 DEF Running
  <2>3. pool[s]["insert"] \in Seq(Calls)
    BY DEF StagingInv, TypeOK, Lanes
  <2>4. 1 \in DOMAIN pool[s]["insert"] /\ c = pool[s]["insert"][1]
    BY <2>2, <2>3
  <2>. QED
    BY <2>4 DEF GetLane
<1>2. CASE c \in Reloads
  BY <1>2, ReloadTask DEF Pending
<1>. QED
  BY <1>1, <1>2 DEF Calls

\* The call that ends leaves its lane.
LEMMA FinishGets ==
  ASSUME StagingInv, GetLane, GetsOrderly, NEW c \in Calls, NEW s \in Servers,
         NEW answer \in {"true", "false", "exception"},
         Running(c, s), Finish(c, s, answer)
  PROVE  GetLane' /\ GetsOrderly'
<1>1. /\ Gets \subseteq Calls /\ \A r \in Reloads : r \notin Gets
      /\ \A r \in Reloads : LaneOf(op[r]) = "query"
  BY AssumptionsHold DEF Assumptions, Calls, StagingInv, TypeOK, LaneOf
<1>2. /\ pool' = [pool EXCEPT ![s][LaneOf(op[c])] = Tail(@)]
      /\ fut'  = [fut EXCEPT ![c][s] = answer]
      /\ op' = op /\ pc' = pc /\ todo' = todo
  BY DEF Finish
<1>3. pool \in [Servers -> [Lanes -> Seq(Calls)]] /\ fut \in [Calls -> [Servers -> Futs]]
  BY DEF StagingInv, TypeOK
<1>4. \A d \in Calls, t \in Servers :
        fut'[d][t] = IF d = c /\ t = s THEN answer ELSE fut[d][t]
  BY <1>2, <1>3
<1>5. fut[c][s] = "pending"
  BY RunningIsPending
<1>6. GetsOrderly'
  BY <1>1, <1>2, <1>4, <1>5 DEF GetsOrderly
<1>7. ASSUME NEW t \in Servers
      PROVE  LET queue == pool'[t]["insert"] IN
             /\ \A i \in DOMAIN queue : queue[i] \in Gets /\ fut'[queue[i]][t] = "pending"
             /\ \A i, j \in DOMAIN queue : queue[i] = queue[j] => i = j
  <2> DEFINE q == pool[t]["insert"]
  <2>1. /\ \A i \in DOMAIN q : q[i] \in Gets /\ fut[q[i]][t] = "pending"
        /\ \A i, j \in DOMAIN q : q[i] = q[j] => i = j
    BY DEF GetLane
  <2>2. q \in Seq(Calls)
    BY <1>3 DEF Lanes
  <2>3. CASE t = s /\ c \in Gets
    <3>1. LaneOf(op[c]) = "insert"
      BY <2>3, GetTask
    <3>2. pool'[t]["insert"] = Tail(q)
      BY <1>2, <1>3, <2>3, <3>1 DEF Lanes
    <3>3. q # << >> /\ c = Head(q)
      BY <2>3, <3>1 DEF Running
    <3> HIDE DEF q
    <3>4. /\ 1 \in DOMAIN q /\ c = q[1]
          /\ \A i \in DOMAIN Tail(q) : i + 1 \in DOMAIN q /\ i + 1 # 1 /\ Tail(q)[i] = q[i + 1]
          /\ \A i, j \in DOMAIN Tail(q) : i + 1 = j + 1 => i = j
      BY <2>2, <3>3
    <3>5. \A i \in DOMAIN Tail(q) : Tail(q)[i] \in Gets /\ fut'[Tail(q)[i]][t] = "pending"
      BY <1>1, <1>4, <2>1, <3>4
    <3>6. \A i, j \in DOMAIN Tail(q) : Tail(q)[i] = Tail(q)[j] => i = j
      BY <2>1, <3>4
    <3>. QED
      BY <3>2, <3>5, <3>6
  <2>4. CASE ~(t = s /\ c \in Gets)
    <3>1. pool'[t]["insert"] = q
      BY <1>1, <1>2, <1>3, <2>4 DEF Lanes, Calls
    <3>. QED
      BY <1>1, <1>4, <2>1, <2>4, <3>1
  <2>. QED
    BY <2>3, <2>4
<1>8. GetLane'
  BY <1>7 DEF GetLane
<1>. QED
  BY <1>6, <1>8

\* The parts of ToldInv that speak of reloads and maps.
ToldPart == TargetsAsked /\ StagedOrTold /\ InstalledOrTold

\* Steps that leave reloads alone: what was going to be noticed still is, and a backend
\* that had a line has it or is going to be noticed.
LEMMA ToldKept ==
  ASSUME StagingInv, ToldPart, dataVersion' = dataVersion, garbled \subseteq garbled',
         \A r \in Reloads : /\ pc'[r] = pc[r] /\ op'[r] = op[r]
                            /\ items'[r] = items[r] /\ input'[r] = input[r]
                            /\ fut'[r] = fut[r] /\ read'[r] = read[r] /\ ret'[r] = ret[r],
         \A s \in Servers : s \notin garbled' => (Told(s) => Told(s)'),
         \A s \in Servers : s \notin garbled' /\ conn[s] = "open" =>
           Told(s)' \/ (conn'[s] = "open" /\ stores'[s] = stores[s])
  PROVE  ToldPart'
<1>1. \A r \in Reloads : \A i \in DOMAIN input[r] : Shard[input[r][i]] \in Servers
  BY LineServers DEF Calls
<1>2. ASSUME NEW r \in Reloads, NEW i \in DOMAIN input[r], NEW v,
             Shard[input[r][i]] \notin garbled',
             Told(Shard[input[r][i]]) \/ HasLine(r, i, v)
      PROVE  \/ Told(Shard[input[r][i]])'
             \/ /\ conn'[Shard[input[r][i]]] = "open"
                /\ Seek(stores'[Shard[input[r][i]]], input[r][i], v) = r
  <2> DEFINE s == Shard[input[r][i]]
  <2>1. s \in Servers /\ s \notin garbled'
    BY <1>1, <1>2
  <2>2. CASE Told(s)
    BY <2>1, <2>2
  <2>3. CASE HasLine(r, i, v)
    <3>1. conn[s] = "open" /\ Seek(stores[s], input[r][i], v) = r
      BY <2>3 DEF HasLine
    <3>. QED
      BY <2>1, <3>1
  <2>. QED
    BY <1>2, <2>2, <2>3
<1>3. TargetsAsked'
  BY DEF ToldPart, TargetsAsked, Targets, Share
<1>4. StagedOrTold'
  <2> SUFFICES ASSUME NEW r \in Reloads,
                      pc[r] \in {"load", "enqueue", "collect"}, op[r] # "clear", ret[r],
                      NEW i \in DOMAIN input[r],
                      i <= read[r], Shard[input[r][i]] \notin garbled',
                      \/ pc[r] = "load"
                      \/ i \notin items[r] /\ fut[r][Shard[input[r][i]]] # "exception"
                      \/ fut[r][Shard[input[r][i]]] = "true"
               PROVE  \/ Told(Shard[input[r][i]])'
                      \/ /\ conn'[Shard[input[r][i]]] = "open"
                         /\ Seek(stores'[Shard[input[r][i]]], input[r][i], dataVersion + 1) = r
    BY DEF StagedOrTold, HasLine, Told, Seek
  <2>1. Told(Shard[input[r][i]]) \/ HasLine(r, i, dataVersion + 1)
    BY DEF ToldPart, StagedOrTold
  <2>. QED
    BY <1>2, <2>1
<1>5. InstalledOrTold'
  <2> SUFFICES ASSUME NEW r \in Reloads,
                      op[r] = "clear", pc[r] \in {"enqueue", "collect", "threw"},
                      NEW i \in DOMAIN input[r], Shard[input[r][i]] \notin garbled',
                      fut[r][Shard[input[r][i]]] \in {"none", "pending"}
               PROVE  \/ Told(Shard[input[r][i]])'
                      \/ /\ conn'[Shard[input[r][i]]] = "open"
                         /\ Seek(stores'[Shard[input[r][i]]], input[r][i], dataVersion) = r
    BY DEF InstalledOrTold, HasLine, Told, Seek
  <2>1. Told(Shard[input[r][i]]) \/ HasLine(r, i, dataVersion)
    BY DEF ToldPart, InstalledOrTold
  <2>. QED
    BY <1>2, <2>1
<1>. QED
  BY <1>3, <1>4, <1>5 DEF ToldPart

\* Steps of a reload, in its own thread: connections, maps and gets stay as they are.
LEMMA ReloadTells ==
  ASSUME StagingInv, NEW r \in Reloads, UNCHANGED conn,
         ReloadRefused(r) \/ ReloadNoPaths(r) \/ ReloadBegin(r) \/ ReloadStep(r)
  PROVE  /\ stores' = stores /\ garbled' = garbled /\ conn' = conn
         /\ \A g \in Gets : /\ pc'[g] = pc[g] /\ op'[g] = op[g] /\ todo'[g] = todo[g]
                            /\ \A s \in Servers : fut'[g][s] = fut[g][s]
         /\ \A s \in Servers : Told(s)' <=> Told(s)
         /\ \A q \in Reloads : q # r =>
              /\ pc'[q] = pc[q] /\ op'[q] = op[q] /\ items'[q] = items[q]
              /\ input'[q] = input[q] /\ fut'[q] = fut[q] /\ read'[q] = read[q]
              /\ ret'[q] = ret[q]
<1>1. /\ Gets \subseteq Calls /\ Reloads \subseteq Calls /\ r \in Calls
      /\ \A g \in Gets : g # r
  BY AssumptionsHold DEF Assumptions, Calls
<1>2. stores' = stores /\ garbled' = garbled
  BY DEF ReloadRefused, ReloadNoPaths, ReloadBegin, ReloadStep, ReloadNextBlock,
         ReloadInstall, ReloadReturn, EnqueueInsertKvs, EnqueueClearData, Enqueue,
         CollectInsert, CollectClear, Collect, serverVars
<1>3. \A c \in Calls : c # r =>
        /\ pc'[c] = pc[c] /\ op'[c] = op[c] /\ items'[c] = items[c]
        /\ input'[c] = input[c] /\ fut'[c] = fut[c] /\ todo'[c] = todo[c]
  BY <1>1 DEF ReloadRefused, ReloadNoPaths, ReloadBegin, ReloadStep, ReloadNextBlock,
         ReloadInstall, ReloadReturn, EnqueueInsertKvs, EnqueueClearData, Enqueue,
         CollectInsert, CollectClear, Collect, StartRound, StagingInv, TypeOK
<1>4. \A q \in Reloads : q # r => read'[q] = read[q] /\ ret'[q] = ret[q]
  BY <1>1 DEF ReloadRefused, ReloadNoPaths, ReloadBegin, ReloadStep, ReloadNextBlock,
         ReloadInstall, ReloadReturn, EnqueueInsertKvs, EnqueueClearData, Enqueue,
         CollectInsert, CollectClear, Collect, StartRound, StagingInv, TypeOK
<1>5. \A s \in Servers : Told(s)' <=> Told(s)
  BY <1>1, <1>3 DEF Told
<1>. QED
  BY <1>1, <1>2, <1>3, <1>4, <1>5

\* Of the reload that steps: the lines it counts on, in the terms of what was before.
LEMMA ToldAfter ==
  ASSUME StagingInv, ToldPart, NEW r \in Reloads, UNCHANGED conn,
         ReloadRefused(r) \/ ReloadNoPaths(r) \/ ReloadBegin(r) \/ ReloadStep(r),
         (\A q \in Reloads : q # r => ~Holds(q)) \/ dataVersion' = dataVersion,
         \A s \in Servers : (pc[r] \in {"enqueue", "collect"} /\ fut[r][s] # "none" => s \in Targets(r))',
         (pc[r] \in {"load", "enqueue", "collect"} /\ op[r] # "clear" /\ ret[r])' =>
           \A i \in DOMAIN input'[r] :
             LET s == Shard[input'[r][i]] IN
             /\ i <= read'[r] /\ s \notin garbled
             /\ \/ pc'[r] = "load" \/ (i \notin items'[r] /\ fut'[r][s] # "exception")
                \/ fut'[r][s] = "true"
             => /\ input' = input /\ dataVersion' = dataVersion
                /\ Told(s) \/ HasLine(r, i, dataVersion + 1),
         (op[r] = "clear" /\ pc[r] \in {"enqueue", "collect", "threw"})' =>
           \A i \in DOMAIN input'[r] :
             LET s == Shard[input'[r][i]] IN
             s \notin garbled /\ fut'[r][s] \in {"none", "pending"}
             => input' = input /\ (Told(s) \/ HasLine(r, i, dataVersion'))
  PROVE  ToldPart'
<1>1. stores' = stores /\ garbled' = garbled /\ conn' = conn
  BY ReloadTells
<1>2. \A s \in Servers : Told(s)' <=> Told(s)
  BY ReloadTells
<1>3. \A q \in Reloads : q # r =>
        /\ pc'[q] = pc[q] /\ op'[q] = op[q] /\ items'[q] = items[q]
        /\ input'[q] = input[q] /\ fut'[q] = fut[q] /\ read'[q] = read[q]
        /\ ret'[q] = ret[q]
  BY ReloadTells
<1>4. \A q \in Reloads : \A i \in DOMAIN input[q] : Shard[input[q][i]] \in Servers
  BY LineServers DEF Calls
<1>5. \A q \in Reloads : \A i, v : HasLine(q, i, v) /\ input'[q] = input[q] => HasLine(q, i, v)'
  BY <1>1 DEF HasLine, Seek
<1>6. TargetsAsked'
  <2> SUFFICES ASSUME NEW q \in Reloads, NEW s \in Servers,
                      (pc[q] \in {"enqueue", "collect"} /\ fut[q][s] # "none")'
               PROVE  s \in Targets(q)'
    BY DEF TargetsAsked
  <2>1. CASE q # r
    <3>1. s \in Targets(q)
      BY <1>3, <2>1 DEF ToldPart, TargetsAsked
    <3>2. op'[q] = op[q] /\ items'[q] = items[q] /\ input'[q] = input[q]
      BY <1>3, <2>1
    <3>. QED
      BY <3>1, <3>2 DEF Targets, Share
  <2>. QED
    BY <2>1
<1>7. StagedOrTold'
  <2> SUFFICES ASSUME NEW q \in Reloads,
                      (pc[q] \in {"load", "enqueue", "collect"} /\ op[q] # "clear" /\ ret[q])',
                      NEW i \in DOMAIN input'[q],
                      i <= read'[q], Shard[input'[q][i]] \notin garbled,
                      \/ pc'[q] = "load"
                      \/ i \notin items'[q] /\ fut'[q][Shard[input'[q][i]]] # "exception"
                      \/ fut'[q][Shard[input'[q][i]]] = "true"
               PROVE  (Told(Shard[input[q][i]]) \/ HasLine(q, i, dataVersion + 1))'
    BY <1>1, SMTT(30) DEF StagedOrTold
  <2>1. CASE q = r
    <3>1. input' = input /\ dataVersion' = dataVersion
          /\ (Told(Shard[input[r][i]]) \/ HasLine(r, i, dataVersion + 1))
      BY <2>1, SMTT(30)
    <3>. QED
      BY <1>2, <1>4, <1>5, <2>1, <3>1 DEF HasLine
  <2>2. CASE q # r
    <3>1. Holds(q)
      BY <1>3, <2>2 DEF Holds
    <3>2. Told(Shard[input[q][i]]) \/ HasLine(q, i, dataVersion + 1)
      BY <1>3, <2>2 DEF ToldPart, StagedOrTold
    <3>3. dataVersion' = dataVersion /\ input'[q] = input[q]
      BY <1>3, <2>2, <3>1
    <3>. QED
      BY <1>2, <1>4, <1>5, <3>2, <3>3 DEF HasLine
  <2>. QED
    BY <2>1, <2>2
<1>8. InstalledOrTold'
  <2> SUFFICES ASSUME NEW q \in Reloads,
                      (op[q] = "clear" /\ pc[q] \in {"enqueue", "collect", "threw"})',
                      NEW i \in DOMAIN input'[q], Shard[input'[q][i]] \notin garbled,
                      fut'[q][Shard[input'[q][i]]] \in {"none", "pending"}
               PROVE  (Told(Shard[input[q][i]]) \/ HasLine(q, i, dataVersion))'
    BY <1>1, SMTT(30) DEF InstalledOrTold
  <2>1. CASE q = r
    <3>1. input' = input /\ (Told(Shard[input[r][i]]) \/ HasLine(r, i, dataVersion'))
      BY <2>1, SMTT(30)
    <3>. QED
      BY <1>1, <1>2, <1>4, <2>1, <3>1 DEF HasLine, Seek
  <2>2. CASE q # r
    <3>1. Holds(q)
      BY <1>3, <2>2 DEF Holds
    <3>2. Told(Shard[input[q][i]]) \/ HasLine(q, i, dataVersion)
      BY <1>3, <2>2 DEF ToldPart, InstalledOrTold
    <3>3. dataVersion' = dataVersion /\ input'[q] = input[q]
      BY <1>3, <2>2, <3>1
    <3>. QED
      BY <1>1, <1>2, <1>4, <3>2, <3>3 DEF HasLine, Seek
  <2>. QED
    BY <2>1, <2>2
<1>. QED
  BY <1>6, <1>7, <1>8 DEF ToldPart

\* The steps of a reload between its rounds.
LEMMA BetweenRoundsTold ==
  ASSUME StagingInv, LoadPart({None}), ToldPart, NEW r \in Reloads, UNCHANGED conn,
         ReloadRefused(r) \/ ReloadNoPaths(r) \/ ReloadBegin(r) \/ ReloadReturn(r) \/ ReloadNextBlock(r)
  PROVE  ToldPart'
<1>1. /\ r \in Calls /\ Reloads \subseteq Calls /\ dataVersion \in Nat /\ BlockSize \in Nat
      /\ read[r] \in Nat
  BY AssumptionsHold DEF Calls, StagingInv, TypeOK, Assumptions
<1>2. dataVersion' = dataVersion
  BY DEF ReloadRefused, ReloadNoPaths, ReloadBegin, ReloadReturn, ReloadNextBlock
<1>3. RoundCounted(r)
  BY DEF LoadPart, RoundsCounted
<1>4. CASE ReloadRefused(r) \/ ReloadNoPaths(r) \/ ReloadReturn(r)
  <2>1. pc'[r] = "returned"
    BY <1>1, <1>4 DEF ReloadRefused, ReloadNoPaths, ReloadReturn, StagingInv, TypeOK
  <2>. QED
    BY <1>2, <1>4, <2>1, ToldAfter DEF ReloadStep
<1>5. CASE ReloadBegin(r)
  <2>1. /\ pc'[r] = "load" /\ op'[r] = "none" /\ read'[r] = 0
        /\ \E lines \in Files : input' = [input EXCEPT ![r] = lines]
    BY <1>1, <1>3, <1>5 DEF ReloadBegin, StagingInv, TypeOK, RoundCounted
  <2>2. input'[r] \in Seq(Keys)
    BY <1>1, <2>1, LineServers, AssumptionsHold DEF Assumptions, StagingInv, TypeOK
  <2>3. \A i \in DOMAIN input'[r] : ~(i <= read'[r])
    BY <2>1, <2>2
  <2>. QED
    BY <1>2, <1>5, <2>1, <2>3, ToldAfter
<1>6. CASE ReloadNextBlock(r)
  <2>1. /\ pc[r] = "load" /\ pc'[r] = "enqueue" /\ op'[r] = "insert"
        /\ items'[r] = Block(r) /\ read'[r] = read[r] + BlockSize
        /\ \A s \in Servers : fut'[r][s] = "none"
        /\ input' = input /\ ret' = ret
    BY <1>1, <1>6 DEF ReloadNextBlock, StartRound, StagingInv, TypeOK
  <2>2. op[r] # "clear"
    BY <1>3, <2>1 DEF RoundCounted
  <2>3. ASSUME ret[r], NEW i \in DOMAIN input[r], i <= read'[r], i \notin items'[r],
               Shard[input[r][i]] \notin garbled
        PROVE  Told(Shard[input[r][i]]) \/ HasLine(r, i, dataVersion + 1)
    <3>1. i <= read[r]
      BY <1>1, <2>1, <2>3, LineServers DEF Block
    <3>. QED
      BY <2>1, <2>2, <2>3, <3>1 DEF ToldPart, StagedOrTold
  <2>4. \A i \in DOMAIN input[r] : fut'[r][Shard[input[r][i]]] = "none"
    BY <1>1, <2>1, LineServers
  <2>. QED
    BY <1>2, <1>6, <2>1, <2>3, <2>4, ToldAfter DEF ReloadStep
<1>. QED
  BY <1>4, <1>5, <1>6

\* A version is installed: what was said of the lines that are staged is said of them now
\* that they are served.
LEMMA InstallTold ==
  ASSUME StagingInv, LoadPart({None}), ToldPart, NEW r \in Reloads, UNCHANGED conn,
         ReloadInstall(r)
  PROVE  ToldPart'
<1>1. r \in Calls /\ Reloads \subseteq Calls /\ dataVersion \in Nat /\ read[r] \in Nat
  BY DEF Calls, StagingInv, TypeOK
<1>2. /\ pc[r] = "load" /\ Block(r) = {} /\ ret[r]
      /\ pc'[r] = "enqueue" /\ op'[r] = "clear"
      /\ \A s \in Servers : fut'[r][s] = "none"
      /\ dataVersion' = dataVersion + 1 /\ input' = input
  BY <1>1 DEF ReloadInstall, StartRound, StagingInv, TypeOK
<1>3. \A q \in Reloads : q # r => ~Holds(q)
  BY <1>2, OneHolder DEF Holds
<1>4. op[r] # "clear"
  BY <1>2 DEF LoadPart, RoundsCounted, RoundCounted
<1>5. ASSUME NEW i \in DOMAIN input[r]
      PROVE  i <= read[r]
  <2>1. SUFFICES ASSUME i > read[r]
                 PROVE  FALSE
    BY <1>1, LineServers
  <2>2. input[r] \in Seq(Keys)
    BY LineServers
  <2>3. read[r] + 1 \in DOMAIN input[r]
    BY <1>1, <2>1, <2>2
  <2>4. read[r] + 1 \in Block(r)
    BY <1>1, <2>3, AssumptionsHold DEF Block, Assumptions
  <2>. QED
    BY <1>2, <2>4
<1>6. \A i \in DOMAIN input[r] : Shard[input[r][i]] \notin garbled =>
        Told(Shard[input[r][i]]) \/ HasLine(r, i, dataVersion + 1)
  BY <1>2, <1>4, <1>5 DEF ToldPart, StagedOrTold
<1>. QED
  BY <1>2, <1>3, <1>6, ToldAfter DEF ReloadStep

\* A round queues its tasks and collects its answers.
LEMMA RoundTold ==
  ASSUME StagingInv, LoadPart({None}), ToldPart, NEW r \in Reloads, NEW s \in Servers,
         UNCHANGED conn,
         \/ EnqueueInsertKvs(r, s) \/ EnqueueClearData(r, s)
         \/ CollectInsert(r, s) \/ CollectClear(r, s)
  PROVE  ToldPart'
<1>1. r \in Calls /\ Reloads \subseteq Calls /\ todo[r] \subseteq Servers
  BY DEF Calls, StagingInv, TypeOK
<1>2. /\ dataVersion' = dataVersion /\ input' = input /\ read' = read
      /\ op' = op /\ items' = items /\ garbled' = garbled
  BY DEF EnqueueInsertKvs, EnqueueClearData, Enqueue, CollectInsert, CollectClear, Collect,
         serverVars
<1>3. ReloadStep(r)
  BY DEF ReloadStep
<1>4. \A i \in DOMAIN input[r] : Shard[input[r][i]] \in Servers
  BY <1>1, LineServers
<1>5. Targets(r)' = Targets(r)
  BY <1>2 DEF Targets, Share
<1>6. RoundCounted(r)
  BY DEF LoadPart, RoundsCounted
<1>7. CASE EnqueueInsertKvs(r, s) \/ EnqueueClearData(r, s)
  <2>1. Enqueue(r, s)
    BY <1>7 DEF EnqueueInsertKvs, EnqueueClearData
  <2>2. /\ pc[r] = "enqueue" /\ s \in todo[r] /\ pc'[r] \in {"enqueue", "collect"}
        /\ \A t \in Servers : fut'[r][t] = IF t = s THEN "pending" ELSE fut[r][t]
        /\ ret' = ret
    BY <1>1, <2>1 DEF Enqueue, IsNext, StagingInv, TypeOK
  <2>3. fut[r][s] = "none" /\ s \in Targets(r)
    BY <1>6, <2>2 DEF RoundCounted, StagingInv, RoundsOrderly
  <2>4. \A t \in Servers : fut'[r][t] # "none" => t \in Targets(r)'
    BY <1>5, <2>2, <2>3 DEF ToldPart, TargetsAsked
  <2>5. \A i \in DOMAIN input[r] :
          /\ fut'[r][Shard[input[r][i]]] # "exception" => fut[r][Shard[input[r][i]]] # "exception"
          /\ fut'[r][Shard[input[r][i]]] = "true" => fut[r][Shard[input[r][i]]] = "true"
          /\ fut'[r][Shard[input[r][i]]] \in {"none", "pending"} =>
               fut[r][Shard[input[r][i]]] \in {"none", "pending"}
    BY <1>4, <2>2, <2>3, SMTT(30)
  <2>6. op[r] # "clear" /\ ret[r] =>
          \A i \in DOMAIN input[r] :
            /\ i <= read[r] /\ Shard[input[r][i]] \notin garbled
            /\ \/ i \notin items[r] /\ fut'[r][Shard[input[r][i]]] # "exception"
               \/ fut'[r][Shard[input[r][i]]] = "true"
            => Told(Shard[input[r][i]]) \/ HasLine(r, i, dataVersion + 1)
    BY <2>2, <2>5 DEF ToldPart, StagedOrTold
  <2>7. op[r] = "clear" =>
          \A i \in DOMAIN input[r] :
            Shard[input[r][i]] \notin garbled /\ fut'[r][Shard[input[r][i]]] \in {"none", "pending"}
            => Told(Shard[input[r][i]]) \/ HasLine(r, i, dataVersion)
    BY <2>2, <2>5 DEF ToldPart, InstalledOrTold
  <2>. QED
    BY <1>2, <1>3, <2>2, <2>4, <2>6, <2>7, ToldAfter
<1>8. CASE CollectInsert(r, s) \/ CollectClear(r, s)
  <2>1. /\ pc[r] = "collect" /\ todo'[r] = todo[r] \ {s} /\ fut' = fut
        /\ ret'[r] => ret[r] /\ fut[r][s] = "true"
        /\ \/ pc'[r] \in {"threw", "collect"}
           \/ pc'[r] = "load" /\ op[r] = "insert" /\ todo[r] = {s}
           \/ pc'[r] = "release" /\ op[r] = "clear" /\ todo[r] = {s}
    BY <1>1, <1>8 DEF CollectInsert, CollectClear, Collect, StagingInv, TypeOK
  <2>2. \A t \in Servers : fut[r][t] # "none" => t \in Targets(r)'
    BY <1>5, <2>1 DEF ToldPart, TargetsAsked
  <2>3. ASSUME ret'[r], op[r] # "clear", pc'[r] \in {"load", "collect"},
               NEW i \in DOMAIN input[r], i <= read[r], Shard[input[r][i]] \notin garbled,
               \/ pc'[r] = "load"
               \/ i \notin items[r] /\ fut[r][Shard[input[r][i]]] # "exception"
               \/ fut[r][Shard[input[r][i]]] = "true"
        PROVE  Told(Shard[input[r][i]]) \/ HasLine(r, i, dataVersion + 1)
    <3> DEFINE t == Shard[input[r][i]]
    <3>1. t \in Servers
      BY <1>4
    <3>2. CASE pc'[r] = "load"
      <4>1. todo[r] = {s}
        BY <2>1, <3>2
      <4>2. \A u \in Targets(r) : fut[r][u] = "true"
        BY <1>6, <2>1, <2>3, <4>1 DEF RoundCounted
      <4>3. fut[r][t] # "none" => t \in Targets(r)
        BY <1>5, <2>2, <3>1
      <4>4. i \in items[r] => t \in Targets(r)
        BY <2>3, <3>1 DEF Targets, Share
      <4>5. fut[r][t] = "true" \/ (i \notin items[r] /\ fut[r][t] # "exception")
        BY <4>2, <4>3, <4>4
      <4>. QED
        BY <2>1, <2>3, <4>5 DEF ToldPart, StagedOrTold
    <3>3. CASE pc'[r] # "load"
      BY <2>1, <2>3, <3>3 DEF ToldPart, StagedOrTold
    <3>. QED
      BY <3>2, <3>3
  <2>4. op[r] = "clear" =>
          \A i \in DOMAIN input[r] :
            Shard[input[r][i]] \notin garbled /\ fut[r][Shard[input[r][i]]] \in {"none", "pending"}
            => Told(Shard[input[r][i]]) \/ HasLine(r, i, dataVersion)
    BY <2>1 DEF ToldPart, InstalledOrTold
  <2>5. pc'[r] \in {"threw", "collect", "load", "release"}
    BY <2>1
  <2>. QED
    BY <1>2, <1>3, <2>1, <2>2, <2>3, <2>4, <2>5, ToldAfter
<1>. QED
  BY <1>7, <1>8

\* A request of the reload ends, after its connection was found open or opened, or with an
\* exception when it was broken; on a corrupted connection it ends in any way.
LEMMA AnswerTold ==
  ASSUME StagingInv, LoadPart({None}), ToldPart, NEW r \in Reloads, NEW s \in Servers,
         NEW answer \in {"true", "false", "exception"},
         Running(r, s), Finish(r, s, answer),
         \A t \in Servers : t # s => conn'[t] = conn[t] /\ stores'[t] = stores[t],
         s \notin garbled /\ answer # "exception" => conn[s] # "broken" /\ conn'[s] = "open",
         s \notin garbled /\ answer # "exception" =>
           stores'[s] = stores[s] \/ stores'[s] = Executed(r, s, ver[r]),
         s \notin garbled /\ answer = "true" =>
           /\ stores'[s] = Executed(r, s, ver[r])
           /\ op[r] = "insert" => InsertOk(stores[s], input[r], Share(r, s), ver[r])
  PROVE  ToldPart'
<1>1. /\ r \in Calls /\ Reloads \subseteq Calls /\ Gets \subseteq Calls
      /\ \A g \in Gets : g # r
      /\ dataVersion \in Nat /\ ver[r] \in Nat
      /\ stores[s] \in [Slots -> [Keys -> Reloads \union {None}]]
  BY AssumptionsHold DEF Assumptions, Calls, StagingInv, TypeOK
<1>2. /\ dataVersion' = dataVersion /\ garbled' = garbled
      /\ input' = input /\ read' = read /\ ret' = ret /\ pc' = pc /\ todo' = todo
      /\ op' = op /\ items' = items /\ ver' = ver
  BY DEF Finish
<1>3. Pending(r, s) /\ Aimed(r)
  BY ReloadTask
<1>4. pc[r] \in {"enqueue", "collect", "threw"}
  BY <1>3 DEF StagingInv, RoundsOrderly
<1>5. \A c \in Calls, t \in Servers :
        fut'[c][t] = IF c = r /\ t = s THEN answer ELSE fut[c][t]
  BY <1>1 DEF Finish, StagingInv, TypeOK
<1>6. \A q \in Reloads : Holds(q) => q = r
  BY <1>4, OneHolder DEF Holds
<1>7. GetIndex(dataVersion) \in Slots /\ GetIndex(ver[r]) \in Slots
  BY <1>1, IndexFlips
<1>8. \A i \in DOMAIN input[r] : input[r][i] \in Keys /\ Shard[input[r][i]] \in Servers
  BY <1>1, LineServers
<1>9. \A t \in Servers : t # s => (Told(t)' <=> Told(t))
  BY <1>1, <1>5 DEF Told
<1>10. s \notin garbled /\ answer # "exception" /\ Told(s) => Told(s)'
  BY <1>1, <1>5 DEF Told
<1>11. TargetsAsked'
  <2>1. \A q \in Reloads : Targets(q)' = Targets(q)
    BY <1>2 DEF Targets, Share
  <2>2. \A q \in Reloads, t \in Servers : fut'[q][t] # "none" => fut[q][t] # "none"
    BY <1>1, <1>3, <1>5 DEF Pending
  <2>. QED
    BY <1>2, <2>1, <2>2 DEF ToldPart, TargetsAsked
<1>12. StagedOrTold'
  <2> SUFFICES ASSUME NEW q \in Reloads,
                      pc[q] \in {"load", "enqueue", "collect"}, op[q] # "clear", ret[q],
                      NEW i \in DOMAIN input[q],
                      i <= read[q], Shard[input[q][i]] \notin garbled,
                      \/ pc[q] = "load"
                      \/ i \notin items[q] /\ fut'[q][Shard[input[q][i]]] # "exception"
                      \/ fut'[q][Shard[input[q][i]]] = "true"
               PROVE  (Told(Shard[input[q][i]]) \/ HasLine(q, i, dataVersion + 1))'
    BY <1>2 DEF StagedOrTold
  <2> DEFINE k == input[r][i]  t == Shard[k]
  <2>1. q = r
    BY <1>6 DEF Holds
  <2>2. k \in Keys /\ t \in Servers
    BY <1>8, <2>1
  <2>3. op[r] = "insert" /\ ver[r] = dataVersion + 1
    BY <1>3, <2>1 DEF Aimed
  <2>4. CASE t # s
    <3>1. Told(t) \/ HasLine(r, i, dataVersion + 1)
      BY <1>1, <1>5, <2>1, <2>2, <2>4 DEF ToldPart, StagedOrTold
    <3>. QED
      BY <1>2, <1>9, <2>1, <2>2, <2>4, <3>1 DEF HasLine, Seek
  <2>5. CASE t = s /\ i \notin items[r]
    <3>1. answer # "exception"
      BY <1>1, <1>4, <1>5, <2>1, <2>2, <2>5
    <3>2. fut[r][s] # "exception"
      BY <1>3 DEF Pending
    <3>3. Told(s) \/ HasLine(r, i, dataVersion + 1)
      BY <2>1, <2>5, <3>2 DEF ToldPart, StagedOrTold
    <3>4. CASE Told(s)
      BY <1>2, <1>10, <2>1, <2>5, <3>1, <3>4
    <3>5. CASE HasLine(r, i, dataVersion + 1)
      <4>1. Seek(stores[s], k, ver[r]) = r
        BY <2>3, <2>5, <3>5 DEF HasLine
      <4>2. Seek(Insert(stores[s], KeysOf(r, Share(r, s)), r, ver[r]), k, ver[r]) = r
        BY <1>1, <1>7, <2>2, <4>1, ItemsAssumption DEF Insert, Seek
      <4>3. Seek(stores'[s], k, ver[r]) = r
        BY <2>1, <2>3, <2>5, <3>1, <4>1, <4>2 DEF Executed
      <4>. QED
        BY <1>2, <2>1, <2>3, <2>5, <3>1, <4>3 DEF HasLine, Seek
    <3>. QED
      BY <3>3, <3>4, <3>5
  <2>6. CASE t = s /\ i \in items[r]
    <3>1. answer = "true"
      BY <1>1, <1>4, <1>5, <2>1, <2>2, <2>6
    <3>2. i \in Share(r, s) /\ k \in KeysOf(r, Share(r, s))
      BY <2>6 DEF Share, KeysOf
    <3>3. Seek(stores[s], k, ver[r]) = None
      BY <2>1, <2>3, <2>6, <3>1, <3>2 DEF InsertOk
    <3>4. Seek(Insert(stores[s], KeysOf(r, Share(r, s)), r, ver[r]), k, ver[r]) = r
      BY <1>1, <1>7, <2>2, <3>2, <3>3 DEF Insert, Seek
    <3>5. Seek(stores'[s], k, ver[r]) = r
      BY <2>1, <2>3, <2>6, <3>1, <3>4 DEF Executed
    <3>. QED
      BY <1>2, <2>1, <2>3, <2>6, <3>1, <3>5 DEF HasLine, Seek
  <2>. QED
    BY <2>4, <2>5, <2>6
<1>13. InstalledOrTold'
  <2> SUFFICES ASSUME NEW q \in Reloads,
                      op[q] = "clear", pc[q] \in {"enqueue", "collect", "threw"},
                      NEW i \in DOMAIN input[q], Shard[input[q][i]] \notin garbled,
                      fut'[q][Shard[input[q][i]]] \in {"none", "pending"}
               PROVE  (Told(Shard[input[q][i]]) \/ HasLine(q, i, dataVersion))'
    BY <1>2 DEF InstalledOrTold
  <2>1. q = r
    BY <1>6 DEF Holds
  <2>2. Shard[input[r][i]] \in Servers /\ Shard[input[r][i]] # s
    BY <1>1, <1>5, <1>8, <2>1
  <2>3. Told(Shard[input[r][i]]) \/ HasLine(r, i, dataVersion)
    BY <1>1, <1>5, <2>1, <2>2 DEF ToldPart, InstalledOrTold
  <2>. QED
    BY <1>2, <1>9, <2>1, <2>2, <2>3 DEF HasLine, Seek
<1>. QED
  BY <1>11, <1>12, <1>13 DEF ToldPart

\* The same of any call: a get that finds the connection broken has noticed the restart.
LEMMA EndTold ==
  ASSUME StagingInv, LoadPart({None}), ConnOK, GetLane, GetsOrderly, ToldPart,
         NEW s \in Servers,
         RpcConnected(s) \/ \E c \in Calls : RpcBroken(c, s) \/ RpcCorrupted(c, s)
  PROVE  ConnOK' /\ GetLane' /\ GetsOrderly' /\ ToldPart'
<1>1. /\ Reloads \subseteq Calls /\ Gets \subseteq Calls /\ \A r \in Reloads : r \notin Gets
  BY AssumptionsHold DEF Assumptions, Calls
<1>2. fut \in [Calls -> [Servers -> Futs]]
  BY DEF StagingInv, TypeOK
<1>3. PICK c \in Calls, answer \in {"true", "false", "exception"} :
        /\ Running(c, s) /\ Finish(c, s, answer)
        /\ \A t \in Servers : t # s => conn'[t] = conn[t] /\ stores'[t] = stores[t]
        /\ s \notin garbled /\ answer # "exception" => conn[s] # "broken" /\ conn'[s] = "open"
        /\ conn[s] = "open" => conn'[s] = "open"
        /\ s \notin garbled => stores'[s] = stores[s] \/ stores'[s] = Executed(c, s, ver[c])
        /\ s \notin garbled /\ c \in Reloads /\ answer = "true" =>
             /\ stores'[s] = Executed(c, s, ver[c])
             /\ op[c] = "insert" => InsertOk(stores[s], input[c], Share(c, s), ver[c])
        /\ ConnOK'
  <2>1. CASE RpcConnected(s)
    <3>1. /\ conn[s] # "broken" /\ conn'[s] = "open"
          /\ \A t \in Servers : t # s => conn'[t] = conn[t]
          /\ ConnOK'
      BY <2>1 DEF RpcConnected, SetConn, ConnOK
    <3>2. RpcEnds(s)
      BY <2>1 DEF RpcConnected
    <3>3. PICK c \in Calls, answer \in {"true", "false", "exception"} :
            /\ Running(c, s) /\ Finish(c, s, answer)
            /\ \A t \in Servers : t # s => stores'[t] = stores[t]
            /\ s \notin garbled => stores'[s] = stores[s] \/ stores'[s] = Executed(c, s, ver[c])
            /\ s \notin garbled /\ c \in Reloads /\ answer = "true" =>
                 /\ stores'[s] = Executed(c, s, ver[c])
                 /\ op[c] = "insert" => InsertOk(stores[s], input[c], Share(c, s), ver[c])
      BY <3>2, EndedRequest
    <3>. QED
      BY <3>1, <3>3
  <2>2. CASE \E c \in Calls : RpcBroken(c, s)
    <3>1. PICK c \in Calls : RpcBroken(c, s)
      BY <2>2
    <3>2. /\ Running(c, s) /\ Finish(c, s, "exception") /\ stores' = stores
          /\ conn[s] = "broken" /\ conn' \in {conn, [conn EXCEPT ![s] = "closed"]}
      BY <3>1 DEF RpcBroken
    <3>3. (\A t \in Servers : t # s => conn'[t] = conn[t]) /\ ConnOK'
      BY <3>2 DEF ConnOK
    <3>4. \E answer \in {"true", "false", "exception"} :
            answer = "exception" /\ Finish(c, s, answer)
      BY <3>2
    <3>. QED
      BY <3>2, <3>3, <3>4
  <2>3. CASE \E c \in Calls : RpcCorrupted(c, s)
    <3>1. /\ conn' = conn /\ ConnOK' /\ s \in garbled
          /\ \E c \in Calls : RpcGarbled(c, s)
      BY <2>3 DEF RpcCorrupted, RpcGarbled, ConnOK
    <3>2. PICK c \in Calls, answer \in {"true", "false", "exception"} :
            /\ Running(c, s) /\ Finish(c, s, answer)
            /\ \A t \in Servers : t # s => stores'[t] = stores[t]
      BY <3>1, EndedRequest
    <3>. QED
      BY <3>1, <3>2
  <2>. QED
    BY <2>1, <2>2, <2>3
<1>4. GetLane' /\ GetsOrderly'
  BY <1>3, FinishGets
<1>5. CASE c \in Reloads
  <2>1. /\ Running(c, s) /\ Finish(c, s, answer)
        /\ \A t \in Servers : t # s => conn'[t] = conn[t] /\ stores'[t] = stores[t]
        /\ s \notin garbled /\ answer # "exception" => conn[s] # "broken" /\ conn'[s] = "open"
        /\ s \notin garbled /\ answer # "exception" =>
             stores'[s] = stores[s] \/ stores'[s] = Executed(c, s, ver[c])
        /\ s \notin garbled /\ answer = "true" =>
             /\ stores'[s] = Executed(c, s, ver[c])
             /\ op[c] = "insert" => InsertOk(stores[s], input[c], Share(c, s), ver[c])
    BY <1>3, <1>5
  <2>2. ToldPart'
    BY <1>5, <2>1, AnswerTold
  <2>. QED
    BY <1>3, <1>4, <2>2
<1>6. CASE c \in Gets
  <2>1. /\ dataVersion' = dataVersion /\ garbled' = garbled /\ input' = input
        /\ pc' = pc /\ op' = op /\ items' = items /\ ver' = ver /\ todo' = todo
        /\ read' = read /\ ret' = ret
    BY <1>3 DEF Finish
  <2>2. \A d \in Calls, t \in Servers :
          fut'[d][t] = IF d = c /\ t = s THEN answer ELSE fut[d][t]
    BY <1>2, <1>3 DEF Finish
  <2>3. \A r \in Reloads : fut'[r] = fut[r]
    BY <1>1, <1>2, <1>3, <1>6 DEF Finish
  <2>4. op[c] \notin {"insert", "clear"}
    BY <1>6 DEF StagingInv, TypeOK
  <2>5. \A t \in Servers : t \notin garbled' => stores'[t] = stores[t]
    BY <1>3, <2>1, <2>4 DEF Executed
  <2>6. fut[c][s] = "pending"
    BY <1>3, RunningIsPending
  <2>7. \A t \in Servers : t \notin garbled' => (Told(t) => Told(t)')
    <3>1. \A t \in Servers : t # s => (Told(t) => Told(t)')
      BY <1>1, <1>3, <2>2 DEF Told
    <3>2. CASE answer = "exception"
      BY <1>6, <2>2, <3>1, <3>2 DEF Told
    <3>3. CASE answer # "exception"
      BY <1>1, <1>3, <2>1, <2>2, <2>6, <3>1, <3>3 DEF Told
    <3>. QED
      BY <3>2, <3>3
  <2>8. \A t \in Servers : conn[t] = "open" => conn'[t] = "open"
    BY <1>3
  <2>. QED
    BY <1>1, <1>3, <1>4, <2>1, <2>3, <2>5, <2>7, <2>8, ToldKept
<1>. QED
  BY <1>3, <1>4, <1>5, <1>6 DEF Calls

LEMMA InitTold ==
  ASSUME InitWithRestarts
  PROVE  ToldInv
<1>1. OwnInv
  BY InitOwn
<1>2. /\ conn = [s \in Servers |-> "closed"]
      /\ \A s \in Servers : pool[s]["insert"] = << >>
      /\ \A c \in Calls : /\ pc[c] = "idle" /\ op[c] = "none"
                          /\ \A s \in Servers : fut[c][s] = "none"
      /\ Gets \subseteq Calls /\ Reloads \subseteq Calls
  BY DEF InitWithRestarts, Init, Calls, Lanes
<1>3. ConnOK /\ GetsOrderly /\ TargetsAsked /\ StagedOrTold /\ InstalledOrTold
  BY <1>2 DEF ConnOK, GetsOrderly, TargetsAsked, StagedOrTold, InstalledOrTold
<1>4. GetLane
  BY <1>2 DEF GetLane
<1>. QED
  BY <1>1, <1>3, <1>4 DEF ToldInv

\* A backend that restarts forgets; if a connection to it was open, that is now broken.
LEMMA BackendRestartTold ==
  ASSUME StagingInv, ConnOK, GetLane, GetsOrderly, ToldPart,
         NEW s \in Servers, BackendRestart(s)
  PROVE  ConnOK' /\ GetLane' /\ GetsOrderly' /\ ToldPart'
<1>1. /\ dataVersion' = dataVersion /\ pool' = pool /\ garbled' = garbled
      /\ pc' = pc /\ op' = op /\ input' = input /\ items' = items /\ read' = read
      /\ todo' = todo /\ fut' = fut /\ ret' = ret
      /\ stores' = [stores EXCEPT ![s] = EmptyStores]
      /\ \/ conn' = [conn EXCEPT ![s] = "broken"]
         \/ conn[s] = "closed" /\ conn' = conn
  BY DEF BackendRestart, SetConn
<1>2. ConnOK'
  BY <1>1 DEF ConnOK
<1>3. GetLane' /\ GetsOrderly'
  BY <1>1, GetsUntouched DEF GetsOrderly
<1>4. \A t \in Servers : t # s => conn'[t] = conn[t] /\ stores'[t] = stores[t]
  BY <1>1 DEF ConnOK, StagingInv, TypeOK
<1>5. conn'[s] = "broken" \/ (conn[s] = "closed" /\ conn' = conn)
  BY <1>1 DEF ConnOK
<1>6. \A t \in Servers : Told(t) => Told(t)'
  BY <1>1, <1>4, <1>5 DEF Told
<1>7. \A t \in Servers : conn[t] = "open" =>
        Told(t)' \/ (conn'[t] = "open" /\ stores'[t] = stores[t])
  BY <1>4, <1>5 DEF Told
<1>8. ToldPart'
  BY <1>1, <1>6, <1>7, ToldKept
<1>. QED
  BY <1>2, <1>3, <1>8

\* No call survives the proxy.
LEMMA ProxyRestartTold ==
  ASSUME StagingInv, GetsOrderly, ProxyRestart
  PROVE  ConnOK' /\ GetLane' /\ GetsOrderly' /\ ToldPart'
<1>1. /\ pool' = [s \in Servers |-> [l \in Lanes |-> << >>]]
      /\ conn' = [s \in Servers |-> "closed"]
      /\ pc'  = [c \in Calls |-> IF CutOff(c) THEN "cut" ELSE pc[c]]
      /\ op'  = [c \in Calls |-> "none"]
      /\ fut' = [c \in Calls |-> [s \in Servers |-> "none"]]
      /\ Gets \subseteq Calls /\ Reloads \subseteq Calls
  BY DEF ProxyRestart, Calls
<1>2. ConnOK'
  BY <1>1 DEF ConnOK
<1>3. GetLane'
  BY <1>1 DEF GetLane, Lanes
<1>4. \A c \in Calls : /\ pc'[c] \in {"idle", "returned", "cut"} /\ op'[c] = "none"
                       /\ \A s \in Servers : fut'[c][s] = "none"
  BY <1>1 DEF CutOff
<1>5. GetsOrderly'
  BY <1>1, <1>4 DEF GetsOrderly
<1>6. ToldPart'
  BY <1>1, <1>4 DEF ToldPart, TargetsAsked, StagedOrTold, InstalledOrTold
<1>. QED
  BY <1>2, <1>3, <1>5, <1>6

\* The threads of the handler and the pools, between two RPCs.
LEMMA HandlerTold ==
  ASSUME StagingInv, LoadPart({None}), ConnOK, GetLane, GetsOrderly, ToldPart,
         HandlerStep \/ UNCHANGED restartVars
  PROVE  ConnOK' /\ GetLane' /\ GetsOrderly' /\ ToldPart'
<1>1. conn' = conn
  BY DEF HandlerStep, restartVars
<1>2. ConnOK'
  BY <1>1 DEF ConnOK
<1>3. /\ Gets \subseteq Calls /\ Reloads \subseteq Calls /\ \A r \in Reloads : r \notin Gets
  BY AssumptionsHold DEF Assumptions, Calls
<1>4. ASSUME NEW r \in Reloads, ReloadRefused(r) \/ ReloadNoPaths(r) \/ ReloadBegin(r) \/ ReloadStep(r)
      PROVE  GetLane' /\ GetsOrderly' /\ ToldPart'
  <2>1. ToldPart'
    BY <1>1, <1>4, BetweenRoundsTold, InstallTold, RoundTold DEF ReloadStep
  <2>2. GetLane' /\ GetsOrderly'
    <3>1. ASSUME NEW s \in Servers, Enqueue(r, s)
          PROVE  GetLane' /\ GetsOrderly'
      BY <1>3, <3>1, EnqueueGets
    <3>2. (\E s \in Servers : Enqueue(r, s)) \/ pool' = pool
      BY <1>4 DEF ReloadRefused, ReloadNoPaths, ReloadBegin, ReloadStep, ReloadNextBlock,
                  ReloadInstall, ReloadReturn, EnqueueInsertKvs, EnqueueClearData,
                  CollectInsert, CollectClear, Collect, serverVars
    <3>3. \A g \in Gets : /\ pc'[g] = pc[g] /\ op'[g] = op[g] /\ todo'[g] = todo[g]
                          /\ \A s \in Servers : fut'[g][s] = fut[g][s]
      BY <1>1, <1>4, ReloadTells
    <3>4. CASE pool' = pool
      BY <3>3, <3>4, GetsUntouched DEF GetsOrderly
    <3>. QED
      BY <3>1, <3>2, <3>4
  <2>. QED
    BY <2>1, <2>2
<1>5. CASE \/ \E g \in Gets : GetBegin(g) \/ GetStep(g)
           \/ \E s \in Servers, l \in Lanes : WorkerTake(s, l)
           \/ UNCHANGED vars
  <2>1. /\ dataVersion' = dataVersion /\ garbled \subseteq garbled' /\ stores' = stores
        /\ read' = read /\ ret' = ret
    BY <1>5 DEF GetBegin, GetStep, EnqueueQueryKeys, Enqueue, CollectQuery, Collect,
                WorkerTake, vars, serverVars
  <2>2. \A r \in Reloads : /\ pc'[r] = pc[r] /\ op'[r] = op[r]
                           /\ items'[r] = items[r] /\ input'[r] = input[r]
                           /\ fut'[r] = fut[r] /\ read'[r] = read[r] /\ ret'[r] = ret[r]
    <3>1. CASE \E g \in Gets : GetBegin(g) \/ GetStep(g)
      BY <1>3, <2>1, <3>1 DEF GetBegin, StartRound, GetStep, EnqueueQueryKeys, Enqueue,
                              CollectQuery, Collect, StagingInv, TypeOK
    <3>2. CASE \/ \E s \in Servers, l \in Lanes : WorkerTake(s, l)
               \/ UNCHANGED vars
      BY <2>1, <3>2 DEF WorkerTake, vars
    <3>. QED
      BY <1>5, <3>1, <3>2
  <2>3. ASSUME NEW g \in Gets, NEW s \in Servers, Enqueue(g, s)
        PROVE  /\ GetLane' /\ GetsOrderly'
               /\ \A h \in Gets, t \in Servers :
                    fut[h][t] = "exception" => fut'[h][t] = "exception"
    <3>1. g \in Calls /\ fut[g][s] = "none"
      BY <1>3, <2>3 DEF Enqueue, IsNext, GetsOrderly
    <3>2. \A h \in Gets, t \in Servers : fut[h][t] = "exception" => fut'[h][t] = "exception"
      BY <1>3, <2>3, <3>1 DEF Enqueue, StagingInv, TypeOK
    <3>. QED
      BY <2>3, <3>1, <3>2, EnqueueGets
  <2>4. ASSUME NEW g \in Gets, GetBegin(g)
        PROVE  GetLane' /\ GetsOrderly' /\ \A h \in Gets, t \in Servers : fut'[h][t] = fut[h][t]
    <3>1. /\ pc[g] = "idle" /\ pc'[g] # "idle" /\ pool' = pool
          /\ \A s \in Servers : fut'[g][s] = "none"
          /\ \A h \in Gets : h # g => /\ fut'[h] = fut[h] /\ pc'[h] = pc[h]
                                      /\ op'[h] = op[h] /\ todo'[h] = todo[h]
      BY <1>3, <2>4 DEF GetBegin, StartRound, serverVars, StagingInv, TypeOK
    <3>2. \A h \in Gets, t \in Servers : fut'[h][t] = fut[h][t]
      BY <3>1 DEF GetsOrderly
    <3>3. \A h \in Gets, t \in Servers : pc'[h] = "enqueue" /\ t \in todo'[h] => fut[h][t] = "none"
      BY <3>1 DEF GetsOrderly
    <3>. QED
      BY <3>1, <3>2, <3>3, GetsUntouched
  <2>5. ASSUME \/ \E g \in Gets, s \in Servers : CollectQuery(g, s)
               \/ \E s \in Servers, l \in Lanes : WorkerTake(s, l)
               \/ UNCHANGED vars
        PROVE  GetLane' /\ GetsOrderly'
    <3>1. /\ pool' = pool /\ fut' = fut /\ op' = op
          /\ \A g \in Gets : /\ pc'[g] \in {"idle", "enqueue"} => pc'[g] = pc[g]
                             /\ pc'[g] = "enqueue" => todo'[g] = todo[g]
      <4>1. ASSUME NEW g \in Gets, NEW s \in Servers, CollectQuery(g, s)
            PROVE  /\ pool' = pool /\ fut' = fut /\ op' = op
                   /\ \A h \in Gets : /\ pc'[h] \in {"idle", "enqueue"} => pc'[h] = pc[h]
                                      /\ pc'[h] = "enqueue" => todo'[h] = todo[h]
        BY <1>3, <4>1 DEF CollectQuery, Collect, serverVars, StagingInv, TypeOK
      <4>2. CASE (\E s \in Servers, l \in Lanes : WorkerTake(s, l)) \/ UNCHANGED vars
        BY <4>2 DEF WorkerTake, vars, serverVars
      <4>. QED
        BY <2>5, <4>1, <4>2
    <3>. QED
      BY <3>1, GetsUntouched DEF GetsOrderly
  <2>6. fut' = fut \/ (\E g \in Gets : GetBegin(g)) \/ (\E g \in Gets, s \in Servers : Enqueue(g, s))
    BY <1>5 DEF GetStep, EnqueueQueryKeys, CollectQuery, Collect, WorkerTake, vars, serverVars
  <2>7. \A h \in Gets, t \in Servers : fut[h][t] = "exception" => fut'[h][t] = "exception"
    BY <2>3, <2>4, <2>6
  <2>8. \A t \in Servers : Told(t) => Told(t)'
    BY <1>1, <2>7 DEF Told
  <2>9. ToldPart'
    BY <1>1, <2>1, <2>2, <2>8, ToldKept
  <2>10. GetLane' /\ GetsOrderly'
    BY <1>5, <2>3, <2>4, <2>5 DEF GetStep, EnqueueQueryKeys
  <2>. QED
    BY <1>2, <2>9, <2>10
<1>6. \/ \E r \in Reloads : ReloadRefused(r) \/ ReloadNoPaths(r) \/ ReloadBegin(r) \/ ReloadStep(r)
      \/ \E g \in Gets : GetBegin(g) \/ GetStep(g)
      \/ \E s \in Servers, l \in Lanes : WorkerTake(s, l)
      \/ UNCHANGED vars
  BY DEF HandlerStep, restartVars
<1>. QED
  BY <1>2, <1>4, <1>5, <1>6

LEMMA NextTold ==
  ASSUME ToldInv, [NextWithRestarts]_restartVars
  PROVE  ToldInv'
<1>1. StagingInv /\ LoadPart({None}) /\ ConnOK /\ GetLane /\ GetsOrderly /\ ToldPart
  BY OwnParts DEF ToldInv, ToldPart
<1>2. OwnInv'
  BY NextOwn DEF ToldInv
<1>3. SUFFICES ConnOK' /\ GetLane' /\ GetsOrderly' /\ ToldPart'
  BY <1>2 DEF ToldInv, ToldPart
<1>4. CASE HandlerStep \/ UNCHANGED restartVars
  BY <1>1, <1>4, HandlerTold
<1>5. CASE \E s \in Servers :
             RpcConnected(s) \/ \E c \in Calls : RpcBroken(c, s) \/ RpcCorrupted(c, s)
  BY <1>1, <1>5, EndTold
<1>6. CASE \E s \in Servers : BackendRestart(s)
  BY <1>1, <1>6, BackendRestartTold
<1>7. CASE ProxyRestart
  BY <1>1, <1>7, ProxyRestartTold
<1>. QED
  BY <1>4, <1>5, <1>6, <1>7 DEF NextWithRestarts

\* However backends restart and connections break: as long as no get has met the broken
\* connection, what a reload counts as stored on a backend is stored there, unless the next
\* call to the backend is going to fail.
THEOREM ToldInvariant == SpecWithRestarts => []ToldInv
<1>1. InitWithRestarts => ToldInv
  BY InitTold
<1>2. ToldInv /\ [NextWithRestarts]_restartVars => ToldInv'
  BY NextTold
<1>. QED
  BY <1>1, <1>2, PTL DEF SpecWithRestarts

\* A backend answers a clear with true only over a connection that is not broken.
LEMMA ClearAnswered ==
  ASSUME ToldInv, [NextWithRestarts]_restartVars,
         NEW r \in Reloads, NEW s \in Servers, s \notin garbled,
         op[r] = "clear", fut[r][s] = "pending", fut'[r][s] = "true"
  PROVE  /\ pc[r] \in {"enqueue", "collect", "threw"} /\ conn[s] # "broken"
         /\ dataVersion' = dataVersion
         /\ stores'[s][GetIndex(dataVersion)] = stores[s][GetIndex(dataVersion)]
<1>1. /\ Reloads \subseteq Calls /\ Gets \subseteq Calls /\ \A g \in Gets : g # r
      /\ fut \in [Calls -> [Servers -> Futs]]
      /\ StagingInv
  BY AssumptionsHold DEF Assumptions, Calls, ToldInv, OwnInv, StagingInv, TypeOK
<1>2. pc[r] \in {"enqueue", "collect", "threw"}
  BY <1>1 DEF StagingInv, RoundsOrderly, Pending
<1>3. CASE HandlerStep
  <2>1. \A c \in Calls, t \in Servers : Enqueue(c, t) => fut'[r][s] # "true"
    BY <1>1 DEF Enqueue
  <2>2. \A c \in Calls : \A o, p, v, w :
          StartRound(c, o, p, v, w) => fut'[r][s] # "true"
    BY <1>1 DEF StartRound
  <2>3. fut' = fut => fut'[r][s] # "true"
    OBVIOUS
  <2>. QED
    BY <1>1, <1>3, <2>1, <2>2, <2>3, ZenonT(30)
      DEF HandlerStep, GetBegin, GetStep, EnqueueQueryKeys, CollectQuery, Collect,
           ReloadRefused, ReloadNoPaths, ReloadBegin, ReloadStep, ReloadNextBlock,
           ReloadInstall, ReloadReturn, EnqueueInsertKvs, EnqueueClearData, CollectInsert, CollectClear,
           WorkerTake
<1>4. ASSUME NEW t \in Servers, RpcConnected(t)
      PROVE  /\ conn[s] # "broken" /\ dataVersion' = dataVersion
             /\ stores'[s][GetIndex(dataVersion)] = stores[s][GetIndex(dataVersion)]
  <2>1. RpcEnds(t) /\ conn[t] # "broken"
    BY <1>4 DEF RpcConnected
  <2>2. PICK c \in Calls, answer \in {"true", "false", "exception"} :
          /\ Running(c, t) /\ Finish(c, t, answer)
          /\ t \notin garbled => stores'[t] = stores[t] \/ stores'[t] = Executed(c, t, ver[c])
    BY <1>1, <2>1, EndedRequest
  <2>3. c = r /\ t = s
    BY <1>1, <2>2 DEF Finish
  <2>4. dataVersion' = dataVersion
    BY <2>2 DEF Finish
  <2>. QED
    BY <1>1, <2>1, <2>2, <2>3, <2>4, ExecutedElsewhere
<1>5. ASSUME NEW t \in Servers, NEW c \in Calls, RpcBroken(c, t) \/ RpcCorrupted(c, t)
      PROVE  FALSE
  BY <1>1, <1>5 DEF RpcBroken, RpcCorrupted, RpcGarbled, Finish
<1>6. CASE ProxyRestart
  BY <1>1, <1>6 DEF ProxyRestart
<1>7. CASE (\E t \in Servers : BackendRestart(t)) \/ UNCHANGED restartVars
  BY <1>7 DEF BackendRestart, restartVars, vars
<1>. QED
  BY <1>2, <1>3, <1>4, <1>5, <1>6, <1>7 DEF NextWithRestarts

\* A restart that forgets acknowledged lines does not go unnoticed: when a backend answers
\* the clear of a reload, it still has every line of the reload that is routed to it,
\* unless the exception that tells of the restart went to a get.
THEOREM ForgettingIsNoticed == SpecWithRestarts => AcknowledgedLines
<1>1. ToldInv /\ [NextWithRestarts]_restartVars =>
        [\A r \in Reloads, s \in Servers \ garbled :
           /\ op[r] = "clear" /\ fut[r][s] = "pending" /\ fut'[r][s] = "true"
           /\ \A g \in Gets : fut[g][s] # "exception"
           => \A i \in DOMAIN input[r] : Shard[input[r][i]] = s =>
                Seek(stores'[s], input[r][i], dataVersion') = r]_restartVars
  <2> SUFFICES ASSUME ToldInv, [NextWithRestarts]_restartVars,
                      NEW r \in Reloads, NEW s \in Servers \ garbled,
                      op[r] = "clear", fut[r][s] = "pending", fut'[r][s] = "true",
                      \A g \in Gets : fut[g][s] # "exception",
                      NEW i \in DOMAIN input[r], Shard[input[r][i]] = s
               PROVE  Seek(stores'[s], input[r][i], dataVersion') = r
    OBVIOUS
  <2>1. /\ pc[r] \in {"enqueue", "collect", "threw"} /\ conn[s] # "broken"
        /\ dataVersion' = dataVersion
        /\ stores'[s][GetIndex(dataVersion)] = stores[s][GetIndex(dataVersion)]
    BY ClearAnswered
  <2>2. Told(s) \/ HasLine(r, i, dataVersion)
    BY <2>1 DEF ToldInv, InstalledOrTold
  <2>3. Seek(stores[s], input[r][i], dataVersion) = r
    BY <2>1, <2>2 DEF Told, HasLine
  <2>. QED
    BY <2>1, <2>3 DEF Seek
<1>. QED
  BY <1>1, ToldInvariant, PTL DEF SpecWithRestarts, AcknowledgedLines

===============================================================================
