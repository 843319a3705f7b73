---------------------- MODULE MCThriftConcurrentClient -----------------------
(***************************************************************************)
(* Small instances of ThriftConcurrentClient for TLC.                     *)
(***************************************************************************)
EXTENDS ThriftConcurrentClient

CONSTANTS c1, c2, c3

\* Three calls of three methods of one service.
MCPlans == { [c \in Calls |-> CASE c = c1 -> CannonGet [] c = c2 -> CannonInsert
                                [] OTHER -> CannonClearData] }
===============================================================================
