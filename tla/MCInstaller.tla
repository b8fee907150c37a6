----------------------------- MODULE MCInstaller -----------------------------
(* Instance of Installer for TLC: two disks with different drivers, or two *)
(* that virtio-blk drives.                                                 *)
EXTENDS Installer, TLC

CONSTANTS d1, d2

MCOrder == <<d1, d2>>
MixedDrivers == (d1 :> "virtio") @@ (d2 :> "ahci")
VirtioOnly == (d1 :> "virtio") @@ (d2 :> "virtio")
==============================================================================
