----------------------------- MODULE MCVirtioBlk -----------------------------
(* Instance of VirtioBlk for TLC. *)
EXTENDS VirtioBlk
==============================================================================
