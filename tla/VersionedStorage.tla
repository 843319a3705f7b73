--------------------------- MODULE VersionedStorage ---------------------------
(***************************************************************************)
(* The store of one "cannon" backend (cannon/storage.h, storage.cpp) and   *)
(* the three handlers that reach it (cannon_server.cpp).  A backend keeps  *)
(* two hash maps and picks one by the low bit of the data version of the   *)
(* request, so that one version is served while the next one is staged.    *)
(*                                                                         *)
(* A map is a function from Keys to values, None where the key is absent.  *)
(* All operators are pure: the caller owns the pair of maps.               *)
(***************************************************************************)
EXTENDS Integers

CONSTANTS
  Keys,     \* keys of the key-value model
  None      \* the value of a key that is not in a map (NOT_FOUND)

Slots == {0, 1}

\* data_version & 1: two's complement, hence the non-negative remainder.
GetIndex(version) == version % 2

EmptyStores == [i \in Slots |-> [k \in Keys |-> None]]

\* Storage::seek, None for NOT_FOUND.
Seek(stores, key, version) == stores[GetIndex(version)][key]

\* The insert handler: unordered_map::insert never overwrites, so a key that
\* is present keeps its value and the others get the value of this batch.
Insert(stores, batch, value, version) ==
  [stores EXCEPT ![GetIndex(version)] =
     [k \in Keys |-> IF k \in batch /\ @[k] = None THEN value ELSE @[k]]]

\* Its answer for the list of keys keyAt[i], i \in positions: every pair was
\* new, neither stored before nor listed twice.
InsertOk(stores, keyAt, positions, version) ==
  /\ \A i \in positions : Seek(stores, keyAt[i], version) = None
  /\ \A i, j \in positions : keyAt[i] = keyAt[j] => i = j

\* Storage::clear_data swaps the map with an empty one.
ClearData(stores, version) ==
  [stores EXCEPT ![GetIndex(version)] = [k \in Keys |-> None]]
===============================================================================
