------------------------------ MODULE CannonProxy ------------------------------
(***************************************************************************)
(* The proxy in front of the sharded key-value backends: the handlers get  *)
(* and reload of proxy_server.cpp, the client wrapper with its two         *)
(* single-threaded pools per backend (cannon_client_wrapper.cpp), and the  *)
(* backends behind them (VersionedStorage).                                *)
(*                                                                         *)
(* The server runs one thread per connection on one shared handler, so any *)
(* number of get and reload calls interleave.  A call is a one-shot id: it *)
(* is issued at most once and its locals stay where the call left them.    *)
(* A call works in rounds: it queues one task per backend that has         *)
(* something to do (Enqueue), then waits for the futures in the same order *)
(* (Collect).  A get makes one round; a reload one per block of lines and  *)
(* a last one that clears the previous version.                            *)
(*                                                                         *)
(* Line parsing, the numeric hash and wire format are left out: Shard is   *)
(* any function, and a file is the sequence of the keys on its lines.  The *)
(* value a reload stores is its own id.                                    *)
(***************************************************************************)
EXTENDS VersionedStorage, Sequences

CONSTANTS
  NumServers,  \* backends, _clients_num
  Gets,        \* get calls
  Reloads,     \* reload calls
  Shard,       \* the backend a key is routed to
  Requests,    \* key lists a get may ask for
  Files,       \* line lists a reload may read (the files concatenated)
  BlockSize,   \* lines per insert round (block_size, 1000 in the code)
  MaxFaults,   \* bound on the RPCs that raise a transport exception
  Default,     \* a default-constructed item: FOUND, 0.0
  Garbage      \* an item decoded from a corrupted stream

Servers == 0 .. NumServers - 1
Calls   == Gets \union Reloads
Items   == Reloads \union {None, Default, Garbage}

ASSUME ServersAssumption == NumServers \in Nat \ {0}
ASSUME CallsAssumption   == Gets \intersect Reloads = {}
ASSUME ItemsAssumption   == /\ None \notin Reloads \union {Default, Garbage}
                            /\ {Default, Garbage} \intersect Reloads = {}
ASSUME ShardAssumption   == Shard \in [Keys -> Servers]
ASSUME InputAssumption   == Requests \subseteq Seq(Keys) /\ Files \subseteq Seq(Keys)
ASSUME BlockAssumption   == BlockSize \in Nat \ {0}
ASSUME FaultsAssumption  == MaxFaults \in Nat

(* The two pools of a wrapper.  The names are those of the members, which   *)
(* the code uses crosswise: inserts and clears run on _query_thread_pool,   *)
(* queries on _insert_thread_pool.                                          *)
Lanes == {"query", "insert"}
LaneOf(o) == IF o = "get" THEN "insert" ELSE "query"

Ops  == {"none", "get", "insert", "clear"}
\* "cut": the process died during the call (CannonRestarts).
Pcs  == {"idle", "load", "enqueue", "collect", "release", "returned", "threw", "cut"}
Futs == {"none", "pending", "true", "false", "exception"}

VARIABLES
  (* the shared handler *)
  dataVersion,  \* _data_version
  isLoading,    \* _is_loading
  (* one wrapper and one backend per server *)
  pool,         \* pool[s][l]: queued calls; the head of a busy lane is running
  busy,         \* busy[s][l]: the lane's thread is inside an RPC
  garbled,      \* servers whose one client was used by both threads at once
  stores,       \* stores[s]: the two maps of the backend
  faults,       \* RPCs that raised so far
  (* locals of the calls *)
  pc, op, input, items, read, ver, todo, fut, ret, result

serverVars == <<pool, busy, garbled, stores, faults>>
vars == <<dataVersion, isLoading, serverVars,
          pc, op, input, items, read, ver, todo, fut, ret, result>>

-------------------------------------------------------------------------------
Init ==
  /\ dataVersion = 0
  /\ isLoading = FALSE
  /\ pool    = [s \in Servers |-> [l \in Lanes |-> << >>]]
  /\ busy    = [s \in Servers |-> [l \in Lanes |-> FALSE]]
  /\ garbled = {}
  /\ stores  = [s \in Servers |-> EmptyStores]
  /\ faults  = 0
  /\ pc    = [c \in Calls |-> "idle"]
  /\ op    = [c \in Calls |-> "none"]
  /\ input = [c \in Calls |-> << >>]
  /\ items = [c \in Calls |-> {}]
  /\ read  = [r \in Reloads |-> 0]
  /\ ver   = [c \in Calls |-> 0]
  /\ todo  = [c \in Calls |-> {}]
  /\ fut   = [c \in Calls |-> [s \in Servers |-> "none"]]
  /\ ret   = [r \in Reloads |-> TRUE]
  /\ result = [g \in Gets |-> << >>]

-------------------------------------------------------------------------------
(* Rounds, common to get, _insert and the clearing half of reload.          *)

\* The positions of the current round that are routed to server s.
Share(c, s) == {i \in items[c] : Shard[input[c][i]] = s}

\* A fresh vector of futures and the backends to go through, in index order.
StartRound(c, o, positions, version, servers) ==
  /\ op'    = [op EXCEPT ![c] = o]
  /\ items' = [items EXCEPT ![c] = positions]
  /\ ver'   = [ver EXCEPT ![c] = version]
  /\ todo'  = [todo EXCEPT ![c] = servers]
  /\ fut'   = [fut EXCEPT ![c] = [s \in Servers |-> "none"]]

IsNext(c, s) == s \in todo[c] /\ \A t \in todo[c] : s <= t

\* The backends a round uses: those with a share, or all of them for a clear.
Targets(c) == IF op[c] = "clear" THEN Servers
              ELSE {s \in Servers : Share(c, s) # {}}

\* ThreadPool::enqueue.  The task binds the locals of the call; the call does
\* not change them before its future is set (or at all once it threw), so the
\* queue holds the id of the call.
Enqueue(c, s) ==
  /\ pc[c] = "enqueue" /\ IsNext(c, s)
  /\ pool' = [pool EXCEPT ![s][LaneOf(op[c])] = Append(@, c)]
  /\ fut'  = [fut EXCEPT ![c][s] = "pending"]
  /\ IF todo[c] = {s}
     THEN /\ todo' = [todo EXCEPT ![c] = Targets(c)]
          /\ pc'   = [pc EXCEPT ![c] = "collect"]
     ELSE /\ todo' = [todo EXCEPT ![c] = @ \ {s}]
          /\ pc'   = pc
  /\ UNCHANGED <<dataVersion, isLoading, busy, garbled, stores, faults,
                 op, input, items, read, ver, ret, result>>

\* Mutant: the answer is taken without waiting for it.
Collect_NoWait(c, s, after) ==
  /\ pc[c] = "collect" /\ IsNext(c, s)
  /\ todo' = [todo EXCEPT ![c] = @ \ {s}]
  /\ pc' = [pc EXCEPT ![c] = IF fut[c][s] = "exception" THEN "threw"
                             ELSE IF todo[c] = {s} THEN after ELSE "collect"]
  /\ UNCHANGED <<dataVersion, isLoading, serverVars,
                 op, input, items, read, ver, fut, result>>

\* future::get on the next future: waits, rethrows, or hands out the answer.
\* after is where the call goes when this was the last one.
Collect(c, s, after) ==
  /\ pc[c] = "collect" /\ IsNext(c, s)
  /\ fut[c][s] # "pending"
  /\ todo' = [todo EXCEPT ![c] = @ \ {s}]
  /\ pc' = [pc EXCEPT ![c] = IF fut[c][s] = "exception" THEN "threw"
                             ELSE IF todo[c] = {s} THEN after ELSE "collect"]
  /\ UNCHANGED <<dataVersion, isLoading, serverVars,
                 op, input, items, read, ver, fut, result>>

-------------------------------------------------------------------------------
(* CannonServiceHandler::get                                                *)

\* Shards the keys and captures _data_version; queries are queued later.
GetBegin(g) ==
  /\ pc[g] = "idle"
  /\ \E keys \in Requests :
       /\ input'  = [input EXCEPT ![g] = keys]
       /\ result' = [result EXCEPT ![g] = [i \in DOMAIN keys |-> Default]]
       /\ StartRound(g, "get", DOMAIN keys, dataVersion,
                     {Shard[keys[i]] : i \in DOMAIN keys})
       /\ pc' = [pc EXCEPT ![g] = IF keys = << >> THEN "returned" ELSE "enqueue"]
  /\ UNCHANGED <<dataVersion, isLoading, serverVars, read, ret>>

EnqueueQueryKeys(g, s) == op[g] = "get" /\ Enqueue(g, s)

CollectQuery(g, s) ==
  /\ op[g] = "get" /\ Collect(g, s, "returned")
  /\ UNCHANGED ret

\* key_idx[key]: the last position at which the request lists the key.
KeyIdx(keys, key) ==
  CHOOSE i \in DOMAIN keys : /\ keys[i] = key
                             /\ \A j \in DOMAIN keys : keys[j] = key => j <= i

\* _return.values: an answer is written to the last position of its key, the
\* other positions keep the item that resize() made.
Response(g) ==
  [i \in DOMAIN input[g] |->
     IF i = KeyIdx(input[g], input[g][i]) THEN result[g][i] ELSE Default]

\* _return.status, of all the items that were answered: what a corrupted stream is decoded
\* to may have any item status, and backends never answer ERROR.
ResponseStatuses(g) ==
  LET answers == {result[g][i] : i \in items[g]} IN
  IF Garbage \in answers
  THEN {"ERROR", "PARTIAL_OK"} \union (IF None \in answers THEN {} ELSE {"OK"})
  ELSE {IF None \in answers THEN "PARTIAL_OK" ELSE "OK"}

-------------------------------------------------------------------------------
(* CannonServiceHandler::reload                                             *)

\* Mutant: the refused call falls through to the release of the flag.
ReloadRefused_Releases(r) ==
  /\ pc[r] = "idle" /\ isLoading
  /\ isLoading' = FALSE
  /\ pc'  = [pc EXCEPT ![r] = "returned"]
  /\ ret' = [ret EXCEPT ![r] = FALSE]
  /\ UNCHANGED <<dataVersion, serverVars,
                 op, input, items, read, ver, todo, fut, result>>

\* test_and_set found the flag set.
ReloadRefused(r) ==
  /\ pc[r] = "idle" /\ isLoading
  /\ pc'  = [pc EXCEPT ![r] = "returned"]
  /\ ret' = [ret EXCEPT ![r] = FALSE]
  /\ UNCHANGED <<dataVersion, isLoading, serverVars,
                 op, input, items, read, ver, todo, fut, result>>

\* No paths: returns true at once, with the flag set.
ReloadNoPaths(r) ==
  /\ pc[r] = "idle" /\ ~isLoading
  /\ isLoading' = TRUE
  /\ pc' = [pc EXCEPT ![r] = "returned"]
  /\ UNCHANGED <<dataVersion, serverVars,
                 op, input, items, read, ver, todo, fut, ret, result>>

\* Mutant: nobody tests the flag.
ReloadBegin_NoTest(r) ==
  /\ pc[r] = "idle"
  /\ isLoading' = TRUE
  /\ pc' = [pc EXCEPT ![r] = "load"]
  /\ \E lines \in Files : input' = [input EXCEPT ![r] = lines]
  /\ UNCHANGED <<dataVersion, serverVars,
                 op, items, read, ver, todo, fut, ret, result>>

ReloadBegin(r) ==
  /\ pc[r] = "idle" /\ ~isLoading
  /\ isLoading' = TRUE
  /\ pc' = [pc EXCEPT ![r] = "load"]
  /\ \E lines \in Files : input' = [input EXCEPT ![r] = lines]
  /\ UNCHANGED <<dataVersion, serverVars,
                 op, items, read, ver, todo, fut, ret, result>>

\* get_lines(block_size), then the sharding of _insert.
Block(r) == {i \in DOMAIN input[r] : read[r] < i /\ i <= read[r] + BlockSize}

ReloadNextBlock(r) ==
  /\ pc[r] = "load" /\ Block(r) # {}
  /\ StartRound(r, "insert", Block(r), dataVersion + 1,
                {Shard[input[r][i]] : i \in Block(r)})
  /\ read' = [read EXCEPT ![r] = @ + BlockSize]
  /\ pc'   = [pc EXCEPT ![r] = "enqueue"]
  /\ UNCHANGED <<dataVersion, isLoading, serverVars, input, ret, result>>

EnqueueInsertKvs(r, s) == op[r] = "insert" /\ Enqueue(r, s)

\* Mutant: = instead of &=, the last answer decides.
CollectInsert_LastWins(r, s) ==
  /\ op[r] = "insert" /\ Collect(r, s, "load")
  /\ ret' = [ret EXCEPT ![r] = fut[r][s] = "true"]

CollectInsert(r, s) ==
  /\ op[r] = "insert" /\ Collect(r, s, "load")
  /\ ret' = [ret EXCEPT ![r] = @ /\ fut[r][s] = "true"]

\* Mutants: the version to clear is read after the increment, it is the one
\* before the old one, or nothing is cleared.
ReloadInstallClearing(r, version, next) ==
  /\ pc[r] = "load" /\ Block(r) = {} /\ ret[r]
  /\ dataVersion' = dataVersion + 1
  /\ StartRound(r, "clear", {}, version, Servers)
  /\ pc' = [pc EXCEPT ![r] = next]
  /\ UNCHANGED <<isLoading, serverVars, input, read, ret, result>>
ReloadInstall_ClearsNew(r)   == ReloadInstallClearing(r, dataVersion + 1, "enqueue")
ReloadInstall_ClearsOlder(r) == ReloadInstallClearing(r, dataVersion - 1, "enqueue")
ReloadInstall_NoClear(r)     == ReloadInstallClearing(r, dataVersion, "release")

\* Everything was inserted: serve the new version, (sleep,) clear the old one.
ReloadInstall(r) ==
  /\ pc[r] = "load" /\ Block(r) = {} /\ ret[r]
  /\ dataVersion' = dataVersion + 1
  /\ StartRound(r, "clear", {}, dataVersion, Servers)
  /\ pc' = [pc EXCEPT ![r] = "enqueue"]
  /\ UNCHANGED <<isLoading, serverVars, input, read, ret, result>>

EnqueueClearData(r, s) == op[r] = "clear" /\ Enqueue(r, s)

CollectClear(r, s) ==
  /\ op[r] = "clear" /\ Collect(r, s, "release")
  /\ ret' = [ret EXCEPT ![r] = @ /\ fut[r][s] = "true"]

\* Releases the flag, after the clear or when an insert answered false.
ReloadReturn(r) ==
  /\ pc[r] = "release" \/ (pc[r] = "load" /\ Block(r) = {} /\ ~ret[r])
  /\ isLoading' = FALSE
  /\ pc' = [pc EXCEPT ![r] = "returned"]
  /\ UNCHANGED <<dataVersion, serverVars,
                 op, input, items, read, ver, todo, fut, ret, result>>

-------------------------------------------------------------------------------
(* The pool threads and the RPCs they run.                                  *)

OtherLane(l) == CHOOSE m \in Lanes : m # l

\* A free thread takes the oldest task.  Both threads of a wrapper call
\* through the same CannonClient: two calls at once mix their bytes on the
\* connection, and nothing restores it.
WorkerTake(s, l) ==
  /\ ~busy[s][l] /\ pool[s][l] # << >>
  /\ busy' = [busy EXCEPT ![s][l] = TRUE]
  /\ garbled' = IF busy[s][OtherLane(l)] THEN garbled \union {s} ELSE garbled
  /\ UNCHANGED <<dataVersion, isLoading, pool, stores, faults,
                 pc, op, input, items, read, ver, todo, fut, ret, result>>

Running(c, s) ==
  LET l == LaneOf(op[c]) IN busy[s][l] /\ pool[s][l] # << >> /\ c = Head(pool[s][l])

\* Mutant: an exception is not stored in the future.
Finish_DropsException(c, s, answer) ==
  LET l == LaneOf(op[c]) IN
  /\ pool' = [pool EXCEPT ![s][l] = Tail(@)]
  /\ busy' = [busy EXCEPT ![s][l] = FALSE]
  /\ fut'  = IF answer = "exception" THEN fut ELSE [fut EXCEPT ![c][s] = answer]
  /\ UNCHANGED <<dataVersion, isLoading, garbled,
                 pc, op, input, items, read, ver, todo, ret>>

\* The packaged task sets its future and the thread is free again.
Finish(c, s, answer) ==
  LET l == LaneOf(op[c]) IN
  /\ pool' = [pool EXCEPT ![s][l] = Tail(@)]
  /\ busy' = [busy EXCEPT ![s][l] = FALSE]
  /\ fut'  = [fut EXCEPT ![c][s] = answer]
  /\ UNCHANGED <<dataVersion, isLoading, garbled,
                 pc, op, input, items, read, ver, todo, ret>>

KeysOf(c, positions) == {input[c][i] : i \in positions}

\* The maps of server s once it has executed the request of c.
Executed(c, s, version) ==
  IF op[c] = "insert" THEN Insert(stores[s], KeysOf(c, Share(c, s)), c, version)
  ELSE IF op[c] = "clear" THEN ClearData(stores[s], version)
  ELSE stores[s]

RpcInsert(r, s) ==
  /\ Running(r, s) /\ op[r] = "insert" /\ s \notin garbled
  /\ stores' = [stores EXCEPT ![s] = Executed(r, s, ver[r])]
  /\ Finish(r, s, IF InsertOk(stores[s], input[r], Share(r, s), ver[r])
                  THEN "true" ELSE "false")
  /\ UNCHANGED <<faults, result>>

RpcClear(r, s) ==
  /\ Running(r, s) /\ op[r] = "clear" /\ s \notin garbled
  /\ stores' = [stores EXCEPT ![s] = Executed(r, s, ver[r])]
  /\ Finish(r, s, "true")
  /\ UNCHANGED <<faults, result>>

\* Mutant: the task reads _data_version when it runs.
RpcQuery_CurrentVersion(g, s) ==
  /\ Running(g, s) /\ op[g] = "get" /\ s \notin garbled
  /\ result' = [result EXCEPT ![g] =
       [i \in DOMAIN input[g] |-> IF i \in Share(g, s)
                                  THEN Seek(stores[s], input[g][i], dataVersion)
                                  ELSE @[i]]]
  /\ Finish(g, s, "true")
  /\ UNCHANGED <<stores, faults>>

RpcQuery(g, s) ==
  /\ Running(g, s) /\ op[g] = "get" /\ s \notin garbled
  /\ result' = [result EXCEPT ![g] =
       [i \in DOMAIN input[g] |-> IF i \in Share(g, s)
                                  THEN Seek(stores[s], input[g][i], ver[g])
                                  ELSE @[i]]]
  /\ Finish(g, s, "true")
  /\ UNCHANGED <<stores, faults>>

\* The connection fails before or after the backend executed the request.
RpcThrows(c, s) ==
  /\ Running(c, s) /\ s \notin garbled
  /\ faults < MaxFaults /\ faults' = faults + 1
  /\ stores' \in {stores, [stores EXCEPT ![s] = Executed(c, s, ver[c])]}
  /\ Finish(c, s, "exception")
  /\ UNCHANGED result

\* On a corrupted connection: the request is lost, executed, or read with
\* another version; the answer is anything the client may decode, or none.
RpcGarbled(c, s) ==
  /\ Running(c, s) /\ s \in garbled
  /\ stores' \in {stores} \union {[stores EXCEPT ![s] = Executed(c, s, v)] : v \in Slots}
  /\ \E answer \in {"true", "false", "exception"} : Finish(c, s, answer)
  /\ result' = IF c \in Gets
               THEN [result EXCEPT ![c] =
                       [i \in DOMAIN input[c] |->
                          IF i \in Share(c, s) THEN Garbage ELSE @[i]]]
               ELSE result
  /\ UNCHANGED faults

-------------------------------------------------------------------------------
GetStep(g) == \E s \in Servers : EnqueueQueryKeys(g, s) \/ CollectQuery(g, s)

ReloadStep(r) ==
  \/ ReloadNextBlock(r) \/ ReloadInstall(r) \/ ReloadReturn(r)
  \/ \E s \in Servers : \/ EnqueueInsertKvs(r, s) \/ CollectInsert(r, s)
                        \/ EnqueueClearData(r, s) \/ CollectClear(r, s)

RpcEnds(s) ==
  \/ \E r \in Reloads : RpcInsert(r, s) \/ RpcClear(r, s)
  \/ \E g \in Gets : RpcQuery(g, s)
  \/ \E c \in Calls : RpcThrows(c, s)

Next ==
  \/ \E g \in Gets : GetBegin(g) \/ GetStep(g)
  \/ \E r \in Reloads : \/ ReloadRefused(r) \/ ReloadNoPaths(r) \/ ReloadBegin(r)
                        \/ ReloadStep(r)
  \/ \E s \in Servers : \/ \E l \in Lanes : WorkerTake(s, l)
                        \/ RpcEnds(s)
                        \/ \E c \in Calls : RpcGarbled(c, s)

Spec == Init /\ [][Next]_vars

-------------------------------------------------------------------------------
(* Properties                                                               *)

\* Type invariant: the shape of the shared handler's fields, of the pools and
\* stores of every wrapper, and of the locals of get and reload.
TypeOK ==
  /\ dataVersion \in Nat
  /\ isLoading \in BOOLEAN
  /\ pool \in [Servers -> [Lanes -> Seq(Calls)]]
  /\ busy \in [Servers -> [Lanes -> BOOLEAN]]
  /\ garbled \subseteq Servers
  /\ stores \in [Servers -> [Slots -> [Keys -> Reloads \union {None}]]]
  /\ faults \in 0 .. MaxFaults
  /\ pc \in [Calls -> Pcs]
  /\ op \in [Calls -> Ops]
  /\ \A g \in Gets : op[g] \in {"none", "get"}
  /\ \A r \in Reloads : op[r] # "get"
  /\ input \in [Calls -> Requests \union Files \union {<< >>}]
  /\ items \in [Calls -> SUBSET Nat]
  /\ read \in [Reloads -> Nat]
  /\ ver \in [Calls -> Nat]
  /\ todo \in [Calls -> SUBSET Servers]
  /\ fut \in [Calls -> [Servers -> Futs]]
  /\ ret \in [Reloads -> BOOLEAN]
  /\ DOMAIN result = Gets
  /\ \A g \in Gets : result[g] \in [DOMAIN input[g] -> Items]

\* A reload between test_and_set and clear, or one that left by an exception
\* and so never clears the flag.
Holds(r) == pc[r] \in {"load", "enqueue", "collect", "release", "threw"}

\* _is_loading is a lock: whoever is inside reload holds it, and only one
\* call does, even when another reload left it by an exception.
LoadingMutex ==
  /\ \A r \in Reloads : Holds(r) => isLoading
  /\ \A r1, r2 \in Reloads : Holds(r1) /\ Holds(r2) => r1 = r2

\* The task of r on server s is queued or running.
Pending(r, s) == fut[r][s] = "pending"

\* r inserts into the next version or clears the previous one.
Aimed(r) ==
  /\ op[r] \in {"insert", "clear"}
  /\ ver[r] = IF op[r] = "insert" THEN dataVersion + 1 ELSE dataVersion - 1

\* Whatever reload has queued, or abandoned by an exception, never addresses
\* the maps that are being served: an insert still aims at the next version
\* and a clear at the previous one when a pool thread gets to it.
StagingTargets ==
  \A r \in Reloads, s \in Servers : Pending(r, s) => Aimed(r)

\* The inductive strengthening of StagingTargets.  A round's futures are
\* outstanding only between its Enqueue and its Collect steps; ...
RoundsOrderly ==
  \A r \in Reloads, s \in Servers :
    /\ Pending(r, s) => pc[r] \in {"enqueue", "collect", "threw"}
    /\ pc[r] = "enqueue" => /\ Pending(r, s) \/ s \in todo[r] => s \in Targets(r)
                            /\ ~ (Pending(r, s) /\ s \in todo[r])
    /\ pc[r] = "collect" /\ Pending(r, s) => s \in todo[r]

\* ... the version of a round stays relative to the served one, although the
\* round captured it earlier; ...
RoundsAimed ==
  \A r \in Reloads : pc[r] \in {"enqueue", "collect", "threw"} => Aimed(r)

\* ... and the lane of inserts and clears holds at most one task, which the
\* reload that holds the flag is waiting for or has abandoned.
QueryLane ==
  \A s \in Servers :
    pool[s]["query"] = << >> \/
    \E r \in Reloads : pool[s]["query"] = <<r>> /\ Pending(r, s)

StagingInv ==
  TypeOK /\ LoadingMutex /\ RoundsOrderly /\ RoundsAimed /\ QueryLane

\* No step changes a map while its version is the one served, unless the
\* client of that backend has been shared by two calls at once: loading never
\* disturbs what get reads for the current version.
ServedStoreFrozen ==
  [][\A s \in Servers \ garbled :
       stores'[s][GetIndex(dataVersion)] = stores[s][GetIndex(dataVersion)]]_vars

\* Version v of backend s is intact: it is the served one, or the one before
\* and the reload that replaced it has not cleared it on s yet.
Intact(v, s) ==
  /\ s \notin garbled
  /\ \/ v = dataVersion
     \/ /\ v = dataVersion - 1
        /\ \E r \in Reloads : /\ op[r] = "clear" /\ ver[r] = v
                              /\ pc[r] \in {"enqueue", "collect", "threw"}
                              /\ fut[r][s] \in {"none", "pending"}

\* get reads _data_version once and queries the backends later, one by one,
\* while a reload may stage, install and start clearing.  As long as the
\* version it captured is intact on a backend, the answers it holds from that
\* backend are the contents of one and the same version; ...
AnswersKept ==
  \A g \in Gets, s \in Servers :
    fut[g][s] = "true" /\ Intact(ver[g], s) =>
      \A i \in Share(g, s) : result[g][i] = Seek(stores[s], input[g][i], ver[g])

\* ... and when it is intact on all that were asked, the status of the response
\* tells whether that version holds every key.
GetSnapshot ==
  /\ AnswersKept
  /\ \A g \in Gets :
       /\ pc[g] = "returned"
       /\ \A s \in Targets(g) : fut[g][s] = "true" /\ Intact(ver[g], s)
       => ResponseStatuses(g) =
            {IF \A i \in items[g] : Seek(stores[Shard[input[g][i]]], input[g][i], ver[g]) # None
             THEN "OK" ELSE "PARTIAL_OK"}

\* r has bumped the version and no later reload has.
Installed(r) == op[r] = "clear" /\ ver[r] = dataVersion - 1

\* A reload installs its version only when every line of its files, of all
\* blocks and on all backends, is in it with this reload's value.
ReloadInstallsAll ==
  \A r \in Reloads : Installed(r) =>
    \A i \in DOMAIN input[r] :
      LET k == input[r][i] IN
      Shard[k] \notin garbled => Seek(stores[Shard[k]], k, dataVersion) = r

\* Every reload so far either was refused or returned true, and loaded files.
NoReloadFailed ==
  \A r \in Reloads : /\ pc[r] # "threw"
                     /\ pc[r] = "returned" /\ op[r] # "none" => ret[r]

\* After successful reloads only, the maps of the next version are empty when
\* nobody is loading: the clear of one reload makes room for the next one,
\* which therefore serves its own lines and nothing else.
StagingClean ==
  NoReloadFailed /\ (\A r \in Reloads : ~Holds(r)) =>
    \A s \in Servers \ garbled : \A k \in Keys :
      Seek(stores[s], k, dataVersion + 1) = None

\* The inductive strengthening of the last three.  The answers a call has collected are
\* in ret, and a round begins with fresh futures; ...
RoundCounted(r) ==
  /\ pc[r] = "idle" => op[r] = "none" /\ read[r] = 0 /\ ret[r]
  /\ pc[r] = "load" => op[r] # "clear" /\ (op[r] = "none" => read[r] = 0 /\ ret[r])
  /\ pc[r] = "enqueue" => \A s \in todo[r] : fut[r][s] = "none"
  /\ pc[r] = "collect" /\ ret[r] => \A s \in Targets(r) \ todo[r] : fut[r][s] = "true"
  /\ op[r] = "clear" => ver[r] < dataVersion
  /\ pc[r] = "release" => op[r] = "clear" /\ ver[r] = dataVersion - 1
  /\ pc[r] = "release" /\ ret[r] => \A s \in Servers : fut[r][s] = "true"

RoundsCounted == \A r \in Reloads : RoundCounted(r)

\* ... while a reload loads, the lines that backends have acknowledged are staged; ...
StagedLines ==
  \A r \in Reloads :
    pc[r] \in {"load", "enqueue", "collect"} /\ op[r] # "clear" /\ ret[r] =>
      \A i \in DOMAIN input[r] :
        LET s == Shard[input[r][i]] IN
        /\ i <= read[r] /\ s \notin garbled
        /\ pc[r] = "load" \/ i \notin items[r] \/ fut[r][s] = "true"
        => Seek(stores[s], input[r][i], dataVersion + 1) = r

\* ... what a backend says it has cleared is empty until the flag is released; ...
Cleared ==
  \A r \in Reloads, s \in Servers \ garbled :
    /\ pc[r] \in {"enqueue", "collect", "release"} /\ op[r] = "clear"
    /\ fut[r][s] = "true"
    => \A k \in Keys : Seek(stores[s], k, ver[r]) = None

\* ... and no get is ahead of the served version.
GetsBehind == \A g \in Gets : ver[g] <= dataVersion /\ items[g] \subseteq DOMAIN input[g]

ContentInv ==
  /\ StagingInv /\ RoundsCounted
  /\ StagedLines /\ ReloadInstallsAll
  /\ Cleared /\ StagingClean
  /\ GetsBehind /\ AnswersKept

-------------------------------------------------------------------------------
(* What the comments of the code claim.                                     *)

\* proxy_server.cpp:137-142: the only inconsistency "get" can see comes from
\* queries with an old version; so what the current version serves on intact
\* backends was written by one reload.
ServedFromOneReload ==
  \A s, t \in Servers \ garbled : \A k, l \in Keys :
    LET a == Seek(stores[s], k, dataVersion)
        b == Seek(stores[t], l, dataVersion)
    IN  a # None /\ b # None => a = b

\* cannon_client_wrapper.h:55: a single thread per pool is what keeps the
\* client, which is not thread-safe, from being used by two threads.
OneCallPerClient == \A s \in Servers : ~ (busy[s]["query"] /\ busy[s]["insert"])

\* proxy_server.cpp:140-142: data of an old version lives "until the next
\* reload"; so when no call is inside reload, a next one is let in.
NextReloadPossible ==
  isLoading => \E r \in Reloads : Holds(r) /\ pc[r] # "threw"

\* proxy.thrift:5-8: an item is FOUND or NOT_FOUND, so one that is neither
\* stored nor answered by a backend must not be reported as FOUND.
FoundMeansFound ==
  \A g \in Gets : pc[g] = "returned" =>
    \A i \in DOMAIN input[g] : Response(g)[i] # Default
===============================================================================
