------------------------------ MODULE ProgramRun ------------------------------
(***************************************************************************)
(* One run of a sequential program on one input, as Programs composes     *)
(* them: a program changes its locals step by step, one step per turn of  *)
(* a loop.                                                                 *)
(***************************************************************************)
VARIABLES
  job,   \* the program and its input
  st     \* its locals; st.pc is the loop or statement it is at
programVars == <<job, st>>

At(prog, pc)    == job.prog = prog /\ st.pc = pc
Becomes(locals) == st' = locals /\ UNCHANGED job
===============================================================================
