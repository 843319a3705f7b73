--------------------------- MODULE MCInPlaceHashMap ---------------------------
(***************************************************************************)
(* Small instances of InPlaceHashMap: three buckets, of which the middle   *)
(* one takes two keys.                                                     *)
(***************************************************************************)
EXTENDS InPlaceHashMap

CONSTANTS k1, k2, k3, k4

MCHash == [k \in Keys |-> CASE k = k1 -> 0 [] k = k4 -> 2 [] OTHER -> 1]

MCSizes == 0 .. 4
===============================================================================
