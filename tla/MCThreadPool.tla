----------------------------- MODULE MCThreadPool -----------------------------
(***************************************************************************)
(* Small instances of ThreadPool.  Tasks and workers are interchangeable.  *)
(***************************************************************************)
EXTENDS ThreadPool, TLC

Symmetry == Permutations(Workers) \union Permutations(Tasks)
===============================================================================
