--------------------------- MODULE CannonRestarts ----------------------------
(***************************************************************************)
(* CannonProxy with processes that die and start again.  Nothing is kept  *)
(* on disk: a backend that restarts has two empty maps, while the proxy   *)
(* goes on with its version; a proxy that restarts begins at version 0    *)
(* with its flag clear, over maps that are as the last one left them.     *)
(*                                                                         *)
(* A client opens its connection when it is first used, and takes a       *)
(* connection for open until a call over it has failed.                   *)
(***************************************************************************)
EXTENDS CannonProxy

CONSTANT MaxRestarts   \* bound on the restarts of backends and proxy together

ASSUME RestartsAssumption == MaxRestarts \in Nat

VARIABLES
  conn,      \* conn[s]: the connection of the client of backend s
  restarts   \* restarts so far

restartVars == <<vars, conn, restarts>>

InitWithRestarts == Init /\ conn = [s \in Servers |-> "closed"] /\ restarts = 0

SetConn(s, status) == conn' = [conn EXCEPT ![s] = status]

Restart == restarts < MaxRestarts /\ restarts' = restarts + 1

\* What runs on the connection is cut off with it; whether a first call has opened it
\* already cannot be told.
BackendRestart(s) ==
  /\ Restart
  /\ stores' = [stores EXCEPT ![s] = EmptyStores]
  /\ \/ conn[s] # "closed" /\ SetConn(s, "broken")
     \/ conn[s] = "closed" /\ UNCHANGED conn
     \/ conn[s] = "closed" /\ (\E l \in Lanes : busy[s][l]) /\ SetConn(s, "broken")
  /\ UNCHANGED <<dataVersion, isLoading, pool, busy, garbled, faults,
                 pc, op, input, items, read, ver, todo, fut, ret, result>>

CutOff(c) == pc[c] \notin {"idle", "returned"}

\* The process is gone with its pools, calls and connections.  A request that was running
\* has reached its backend or has not.
ProxyRestart ==
  /\ Restart
  /\ dataVersion' = 0 /\ isLoading' = FALSE /\ garbled' = {}
  /\ pool' = [s \in Servers |-> [l \in Lanes |-> <<>>]]
  /\ busy' = [s \in Servers |-> [l \in Lanes |-> FALSE]]
  /\ conn' = [s \in Servers |-> "closed"]
  /\ \E reached \in SUBSET {s \in Servers : \E r \in Reloads : Running(r, s)} :
       stores' = [s \in Servers |->
         IF s \in reached
         THEN LET r == CHOOSE q \in Reloads : Running(q, s) IN Executed(r, s, ver[r])
         ELSE stores[s]]
  /\ pc'  = [c \in Calls |-> IF CutOff(c) THEN "cut" ELSE pc[c]]
  /\ op'  = [c \in Calls |-> "none"]
  /\ fut' = [c \in Calls |-> [s \in Servers |-> "none"]]
  /\ UNCHANGED <<faults, input, items, read, ver, todo, ret, result>>

\* Mutant: the call on a broken connection opens it again and is sent once more.
RpcBroken_Retries(c, s) ==
  /\ Running(c, s) /\ s \notin garbled /\ conn[s] = "broken"
  /\ stores' = [stores EXCEPT ![s] = Executed(c, s, ver[c])]
  /\ Finish(c, s, "true")
  /\ SetConn(s, "open")
  /\ UNCHANGED <<faults, result, restarts>>

\* A call on a broken connection raises; after that it is closed, or seems open still.
RpcBroken(c, s) ==
  /\ Running(c, s) /\ s \notin garbled /\ conn[s] = "broken"
  /\ Finish(c, s, "exception")
  /\ conn' \in {conn, [conn EXCEPT ![s] = "closed"]}
  /\ UNCHANGED <<stores, faults, result, restarts>>

\* Any other call opens the connection first when it is closed.
RpcConnected(s) ==
  /\ conn[s] # "broken"
  /\ RpcEnds(s)
  /\ SetConn(s, "open")
  /\ UNCHANGED restarts

\* On a corrupted connection a call may end in any way, whether it is open, broken or
\* closed: how it is, is not followed any more.
RpcCorrupted(c, s) == RpcGarbled(c, s) /\ UNCHANGED <<conn, restarts>>

HandlerStep ==
  /\ \/ \E g \in Gets : GetBegin(g) \/ GetStep(g)
     \/ \E r \in Reloads : \/ ReloadRefused(r) \/ ReloadNoPaths(r) \/ ReloadBegin(r)
                           \/ ReloadStep(r)
     \/ \E s \in Servers, l \in Lanes : WorkerTake(s, l)
  /\ UNCHANGED <<conn, restarts>>

NextWithRestarts ==
  \/ HandlerStep
  \/ \E s \in Servers : \/ RpcConnected(s) \/ BackendRestart(s)
                        \/ \E c \in Calls : RpcBroken(c, s) \/ RpcCorrupted(c, s)
  \/ ProxyRestart

\* Every thread of the proxy is scheduled, and a call on an intact connection ends with an
\* answer or an exception.  Clients need not call, nobody need restart, and nothing is
\* assumed of a corrupted connection.
Unmoved == UNCHANGED <<conn, restarts>>
FairnessWithRestarts ==
  /\ \A g \in Gets : WF_restartVars(GetStep(g) /\ Unmoved)
  /\ \A r \in Reloads : WF_restartVars(ReloadStep(r) /\ Unmoved)
  /\ \A s \in Servers :
       /\ \A l \in Lanes : WF_restartVars(WorkerTake(s, l) /\ Unmoved)
       /\ WF_restartVars(RpcConnected(s) \/ \E c \in Calls : RpcBroken(c, s))

SpecWithRestarts ==
  InitWithRestarts /\ [][NextWithRestarts]_restartVars /\ FairnessWithRestarts

-------------------------------------------------------------------------------
(* Properties                                                               *)

\* Every call that was issued ends, with an answer, an exception or the death of the
\* proxy, also when backends restart under it; only a corrupted connection may hang it.
EveryCallEnds ==
  \A c \in Calls : pc[c] # "idle" ~> pc[c] \in {"returned", "threw", "cut"} \/ garbled # {}

\* A backend that forgets lines of a reload is noticed before the reload returns true: the
\* one that answers its clear has all its lines for that backend.  (The exception that
\* tells of the restart may end in a get, which uses the same connection.)
AcknowledgedLines ==
  [][\A r \in Reloads, s \in Servers \ garbled :
       /\ op[r] = "clear" /\ fut[r][s] = "pending" /\ fut'[r][s] = "true"
       /\ \A g \in Gets : fut[g][s] # "exception"
       => \A i \in DOMAIN input[r] : Shard[input[r][i]] = s =>
            Seek(stores'[s], input[r][i], dataVersion') = r]_restartVars

\* Whatever restarted, before or after: the served version has for a line of the reload
\* that installed it the value of that line or none, never one of another reload.
OwnLinesOrNone ==
  \A r \in Reloads : Installed(r) =>
    \A i \in DOMAIN input[r] :
      LET k == input[r][i] IN
      Shard[k] \notin garbled => Seek(stores[Shard[k]], k, dataVersion) \in {r, None}

\* The inductive strengthening of OwnLinesOrNone: while a reload loads, what a backend has
\* for a line it has acknowledged is the value of this reload, or it has forgotten the line.
StagedOwn ==
  \A r \in Reloads :
    pc[r] \in {"load", "enqueue", "collect"} /\ op[r] # "clear" /\ ret[r] =>
      \A i \in DOMAIN input[r] :
        LET s == Shard[input[r][i]] IN
        /\ i <= read[r] /\ s \notin garbled
        /\ pc[r] = "load" \/ i \notin items[r] \/ fut[r][s] = "true"
        => Seek(stores[s], input[r][i], dataVersion + 1) \in {r, None}

OwnInv == StagingInv /\ RoundsCounted /\ StagedOwn /\ OwnLinesOrNone

\* The inductive strengthening of AcknowledgedLines.  A restart of the backend is going to
\* be noticed, or has been by a get; ...
ConnOK  == conn \in [Servers -> {"closed", "open", "broken"}]
Told(s) == conn[s] = "broken" \/ \E g \in Gets : fut[g][s] = "exception"

\* ... otherwise the backend has been up since it stored the line.
HasLine(r, i, version) ==
  LET s == Shard[input[r][i]] IN
  conn[s] = "open" /\ Seek(stores[s], input[r][i], version) = r

\* The lines a reload that loads has been acknowledged by a backend that has not answered
\* its present round by an exception; ...
StagedOrTold ==
  \A r \in Reloads :
    pc[r] \in {"load", "enqueue", "collect"} /\ op[r] # "clear" /\ ret[r] =>
      \A i \in DOMAIN input[r] :
        LET s == Shard[input[r][i]] IN
        /\ i <= read[r] /\ s \notin garbled
        /\ pc[r] = "load" \/ (i \notin items[r] /\ fut[r][s] # "exception") \/ fut[r][s] = "true"
        => Told(s) \/ HasLine(r, i, dataVersion + 1)

\* ... all its lines, until the backend answers its clear; ...
InstalledOrTold ==
  \A r \in Reloads :
    op[r] = "clear" /\ pc[r] \in {"enqueue", "collect", "threw"} =>
      \A i \in DOMAIN input[r] :
        LET s == Shard[input[r][i]] IN
        s \notin garbled /\ fut[r][s] \in {"none", "pending"}
        => Told(s) \/ HasLine(r, i, dataVersion)

\* ... a round asks only its targets, so that it notices what they answer; ...
TargetsAsked ==
  \A r \in Reloads, s \in Servers :
    pc[r] \in {"enqueue", "collect"} /\ fut[r][s] # "none" => s \in Targets(r)

\* ... and no second answer hides the exception of a get: the lane of queries holds a get
\* at most once, as long as its future is outstanding.
GetLane ==
  \A s \in Servers :
    LET queue == pool[s]["insert"] IN
    /\ \A i \in DOMAIN queue : queue[i] \in Gets /\ fut[queue[i]][s] = "pending"
    /\ \A i, j \in DOMAIN queue : queue[i] = queue[j] => i = j

GetsOrderly ==
  \A g \in Gets, s \in Servers :
    /\ pc[g] = "idle" => op[g] = "none" /\ fut[g][s] = "none"
    /\ pc[g] = "enqueue" /\ s \in todo[g] => fut[g][s] = "none"

ToldInv == /\ OwnInv /\ ConnOK /\ GetLane /\ GetsOrderly
           /\ TargetsAsked /\ StagedOrTold /\ InstalledOrTold
===============================================================================
