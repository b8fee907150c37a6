------------------------------ MODULE MCShellIo ------------------------------
(* Instance of ShellIo for TLC: one task, the shell. *)
EXTENDS ShellIo
==============================================================================
