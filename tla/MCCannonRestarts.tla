-------------------------- MODULE MCCannonRestarts ---------------------------
(***************************************************************************)
(* Small instances of CannonRestarts for TLC.                             *)
(***************************************************************************)
EXTENDS CannonRestarts

CONSTANTS k1, k2, g1, r1, r2   \* keys and calls

MCShard    == [k \in Keys |-> IF k = k1 \/ NumServers = 1 THEN 0 ELSE 1]
OneRequest == {<<k2, k1>>}

\* One model, each line a block.
MCFiles    == {<<k1, k2>>}

\* Bound: a behaviour is followed until two calls share a client, and past that if the
\* client is that of backend 0 and no second reload has begun.
IntactClients == garbled = {} \/ (garbled = {0} /\ pc[r2] = "idle")
===============================================================================
