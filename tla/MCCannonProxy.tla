---------------------------- MODULE MCCannonProxy ----------------------------
(***************************************************************************)
(* Small instances of CannonProxy for TLC.                                 *)
(***************************************************************************)
EXTENDS CannonProxy

CONSTANTS k1, k2, g1, r1, r2   \* keys and calls

\* One key per backend; everything is on backend 0 when there is one.
MCShard == [k \in Keys |-> IF k = k1 \/ NumServers = 1 THEN 0 ELSE 1]

\* A request over both backends, and one that lists a key twice.
MCRequests == {<<k2, k1>>, <<k1, k1>>}
OneRequest == {<<k2, k1>>}

\* A complete model, one with a duplicated line, a partial one, an empty one.
MCFiles     == {<<k1, k2>>, <<k1, k1>>, <<k2>>, << >>}
PlainFiles  == {<<k1, k2>>, << >>}
MixedFiles  == {<<k1, k1>>, <<k1>>, <<k2>>}

\* Bound: a behaviour with two reloads is followed until two calls share a client.
IntactClients == garbled = {} \/ \E r \in Reloads : pc[r] = "idle"
==============================================================================
