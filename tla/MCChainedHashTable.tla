-------------------------- MODULE MCChainedHashTable --------------------------
(***************************************************************************)
(* Small instances of ChainedHashTable: sizes 1 to 8, and five keys        *)
(* whose hashes agree in one, two or no low bits.                          *)
(***************************************************************************)
EXTENDS ChainedHashTable

CONSTANTS k1, k2, k3, k4, k5

MCHash == [k \in Keys |-> CASE k = k1 -> 0 [] k = k2 -> 4
                            [] k = k3 -> 2 [] k = k4 -> 7 [] OTHER -> 6]
===============================================================================
