----------------------------- MODULE MCCannonRpc -----------------------------
(***************************************************************************)
(* Instances of CannonRpc for TLC: the constants are numbers.             *)
(***************************************************************************)
EXTENDS CannonRpc
=============================================================================
