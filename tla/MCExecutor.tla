----------------------------- MODULE MCExecutor ------------------------------
(* Instance of Executor for TLC. *)
EXTENDS Executor
==============================================================================
