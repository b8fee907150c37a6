----------------------------- MODULE MCAhciPort -----------------------------
(* A cold port, and one that the firmware has used to load the boot loader.  *)
EXTENDS AhciPort
MCFirmware == {[st |-> FALSE, fre |-> FALSE], [st |-> TRUE, fre |-> TRUE]}
=============================================================================
