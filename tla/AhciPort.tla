------------------------------ MODULE AhciPort ------------------------------
(***************************************************************************)
(* One port of lib/driver/src/block/ahci: its initialisation over whatever *)
(* the firmware left behind, IDENTIFY, reads and writes through command    *)
(* slot 0 and the one data buffer, and stop.  Every wait of the driver is  *)
(* a loop with a limit, after which the request fails but the command goes *)
(* on.  The host bus adapter and the disk behind it run concurrently; they *)
(* are external and modelled from the registers the driver uses.  A write  *)
(* of PxCI starts the command and raises BSY at once.                      *)
(***************************************************************************)
EXTENDS Naturals

CONSTANTS
    Lbas,       \* block numbers
    LbaModulus, \* the block numbers that fit a command (2^28 in the code)
    Values,     \* contents of a block
    Zero,       \* the contents of a cleared buffer
    Geometry,   \* what IDENTIFY returns: a block with, or without, a size
    Firmware,   \* the values of ST and FRE the firmware may leave in PxCMD
    None

ASSUME AhciAssumption == None \notin Lbas \cup Values \cup Geometry

ASSUME LbaAssumption ==
    /\ Lbas \subseteq Nat /\ LbaModulus \in Nat \ {0}
    /\ \A lba \in Lbas : lba % LbaModulus \in Lbas

VARIABLES
    pc,         \* where the driver is
    cmdReg,     \* cmd_reg, the copy of PxCMD that init takes
    st, cr,     \* PxCMD.ST and CR: command engine wanted, running
    fre, fr,    \* PxCMD.FRE and FR: the same for received FISes
    ci, bsy, err,   \* PxCI slot 0, PxTFD.STS.BSY and ERR
    table,      \* the command in the command table
    running,    \* the command the disk works on
    buf,        \* data_buf
    disk,
    op,         \* the request in progress
    result,     \* of the last request: its data, "ok" for a write, None for an error
    sectors,    \* sector_count of the AhciPortWrapper
    patient     \* whether every command ends before the driver gives up

regs == <<st, cr, fre, fr>>
dev == <<running, disk>>
vars == <<pc, cmdReg, regs, ci, bsy, err, table, dev, buf, op, result, sectors, patient>>

Commands ==
    [kind : {"in"}, lba : Lbas]
    \cup [kind : {"out"}, lba : Lbas, val : Values]
    \cup {[kind |-> "identify"]}

(* None, which stands for "no command", is no command.                       *)
ASSUME NoneAssumption ==
    None \notin Commands \cup [cmd : Commands, moved : BOOLEAN]

Contents == Values \cup Geometry \cup {Zero}

InitPcs == {"off", "stop_wait", "fre", "fre_wait", "setup", "fis_wait", "engine_wait"}

Init ==
    /\ pc = "off" /\ cmdReg = None
    /\ \E f \in Firmware : st = f.st /\ cr = f.st /\ fre = f.fre /\ fr = f.fre
    /\ ci = FALSE /\ bsy = FALSE /\ err = FALSE
    /\ table = None /\ running = None
    /\ buf = Zero /\ disk \in [Lbas -> Values]
    /\ op = None /\ result = None /\ sectors = None
    /\ patient \in BOOLEAN

-----------------------------------------------------------------------------
(* PortState::init                                                          *)

Goto(label) == pc' = label

KeepIo == UNCHANGED <<ci, bsy, err, table, dev, buf, op, result, sectors, patient>>

(* init reads PxCMD once and clears ST if it is set.                         *)
InitStop ==
    /\ pc = "off"
    /\ cmdReg' = [st |-> st, fre |-> fre]
    /\ st' = FALSE
    /\ Goto(IF st THEN "stop_wait" ELSE "fre")
    /\ UNCHANGED <<cr, fre, fr>> /\ KeepIo

InitStopped ==
    /\ pc = "stop_wait" /\ ~cr
    /\ Goto("fre")
    /\ UNCHANGED <<cmdReg, regs>> /\ KeepIo

(* The value written is the copy without FRE, not the register without it:   *)
(* a set ST of the copy goes back into the register.                         *)
InitClearFre ==
    /\ pc = "fre"
    /\ IF cmdReg.fre
       THEN fre' = FALSE /\ st' = cmdReg.st /\ Goto("fre_wait")
       ELSE UNCHANGED <<fre, st>> /\ Goto("setup")
    /\ UNCHANGED <<cmdReg, cr, fr>> /\ KeepIo

(* The wait after clearing FRE looks at CR again, not at FR.                 *)
InitFreWaited ==
    /\ pc = "fre_wait" /\ ~cr
    /\ Goto("setup")
    /\ UNCHANGED <<cmdReg, regs>> /\ KeepIo

(* The buffers are allocated and cleared and their addresses written to the  *)
(* port, and FRE is set.                                                     *)
InitSetup ==
    /\ pc = "setup"
    /\ fre' = TRUE /\ buf' = Zero /\ table' = None
    /\ Goto("fis_wait")
    /\ UNCHANGED <<cmdReg, st, cr, fr, ci, bsy, err, dev, op, result, sectors, patient>>

InitNoMemory ==
    /\ pc = "setup"
    /\ Goto("failed")
    /\ UNCHANGED <<cmdReg, regs>> /\ KeepIo

InitStartEngine ==
    /\ pc = "fis_wait" /\ fr
    /\ st' = TRUE
    /\ Goto("engine_wait")
    /\ UNCHANGED <<cmdReg, cr, fre, fr>> /\ KeepIo

(* The port is up, and AhciState::init goes on with IDENTIFY.                *)
InitDone ==
    /\ pc = "engine_wait" /\ cr
    /\ op' = [kind |-> "identify"]
    /\ Goto("wait_idle")
    /\ UNCHANGED <<cmdReg, regs, ci, bsy, err, table, dev, buf, result, sectors, patient>>

(* A wait for CR or FR ends without success, and the port is skipped.        *)
InitTimesOut ==
    /\ \/ pc \in {"stop_wait", "fre_wait"} /\ cr
       \/ pc = "fis_wait" /\ ~fr
       \/ pc = "engine_wait" /\ ~cr
    /\ ~patient \/ (pc = "fre_wait" /\ st)
    /\ Goto("failed")
    /\ UNCHANGED <<cmdReg, regs>> /\ KeepIo

-----------------------------------------------------------------------------
(* read_sectors, write_sectors and issue_command                             *)

KeepPort == UNCHANGED <<cmdReg, regs, patient>>

(* The command FIS has 28 bits for the block number: what is above them is   *)
(* lost, and the command is for another block.                               *)
Addressed(lba) == lba % LbaModulus

OnWire(c) ==
    IF c.kind = "identify" THEN c ELSE [c EXCEPT !.lba = Addressed(@)]

(* A buffer shorter than a sector is refused before anything happens; of a   *)
(* longer one the first sector is read or written and the rest is left alone. *)
BeginRead(lba) ==
    /\ pc = "idle"
    /\ op' = [kind |-> "in", lba |-> lba] /\ result' = None
    /\ Goto("wait_idle")
    /\ UNCHANGED <<ci, bsy, err, table, dev, buf, sectors>> /\ KeepPort

(* Mutant: the caller's data are never copied.                               *)
BeginWriteUncopied(lba, val) ==
    /\ pc = "idle"
    /\ op' = [kind |-> "out", lba |-> lba, val |-> val] /\ result' = None
    /\ Goto("wait_idle")
    /\ UNCHANGED <<ci, bsy, err, table, dev, buf, sectors>> /\ KeepPort

(* The data go into the buffer before the wait for the last command.         *)
BeginWrite(lba, val) ==
    /\ pc = "idle"
    /\ op' = [kind |-> "out", lba |-> lba, val |-> val] /\ result' = None
    /\ buf' = val
    /\ Goto("wait_idle")
    /\ UNCHANGED <<ci, bsy, err, table, dev, sectors>> /\ KeepPort

(* Mutant: nobody waits for the last command to end.                         *)
SetupAtOnce ==
    /\ pc = "wait_idle"
    /\ table' = OnWire(op)
    /\ Goto("issue")
    /\ UNCHANGED <<ci, bsy, err, dev, buf, op, result, sectors>> /\ KeepPort

SetupCommand ==
    /\ pc = "wait_idle" /\ ~bsy
    /\ table' = OnWire(op)
    /\ Goto("issue")
    /\ UNCHANGED <<ci, bsy, err, dev, buf, op, result, sectors>> /\ KeepPort

(* PxCI is set.  On a port whose slot is still taken nothing starts.         *)
IssueCommand ==
    /\ pc = "issue"
    /\ ci' = TRUE
    /\ IF ci \/ ~st
       THEN UNCHANGED <<bsy, err, running>>
       ELSE bsy' = TRUE /\ err' = FALSE /\ running' = [cmd |-> table, moved |-> FALSE]
    /\ Goto("wait_done")
    /\ UNCHANGED <<table, disk, buf, op, result, sectors>> /\ KeepPort

CommandDone ==
    /\ pc = "wait_done" /\ ~ci
    /\ Goto("check")
    /\ UNCHANGED <<ci, bsy, err, table, dev, buf, op, result, sectors>> /\ KeepPort

(* identify_sector_count replaces a missing answer and a size of 0.          *)
Sectors(answer) == IF answer = Zero THEN "fallback" ELSE answer

Return(ok) ==
    /\ op' = None
    /\ Goto("idle")
    /\ result' = IF ~ok THEN None ELSE IF op.kind = "out" THEN "ok" ELSE buf
    /\ sectors' = IF op.kind = "identify" THEN Sectors(IF ok THEN buf ELSE Zero)
                  ELSE sectors
    /\ UNCHANGED <<ci, bsy, err, table, dev, buf>> /\ KeepPort

ReturnOk == pc = "check" /\ ~err /\ Return(TRUE)

ReturnDeviceError == pc = "check" /\ err /\ Return(FALSE)

(* Mutant: the driver waits as long as it takes.                             *)
NeverTimesOut == FALSE /\ Return(FALSE)

(* DeviceBusy and Timeout: the command is not taken back.                    *)
TimesOut ==
    /\ \/ pc = "wait_idle" /\ bsy
       \/ pc = "wait_done" /\ ci
    /\ ~patient \/ running = None
    /\ Return(FALSE)

(* Dropping the binding stops both engines without waiting for either.       *)
Stop ==
    /\ pc = "idle"
    /\ st' = FALSE /\ fre' = FALSE
    /\ ci' = FALSE /\ bsy' = FALSE /\ running' = None
    /\ Goto("stopped")
    /\ UNCHANGED <<cmdReg, cr, fr, err, table, disk, buf, op, result, sectors, patient>>

-----------------------------------------------------------------------------
(* The host bus adapter and the disk                                         *)

KeepDriver == UNCHANGED <<pc, cmdReg, table, op, result, sectors, patient>>

EngineFollows ==
    /\ cr # st \/ fr # fre
    /\ cr' = st /\ fr' = fre
    /\ UNCHANGED <<st, fre, ci, bsy, err, dev, buf>> /\ KeepDriver

DeviceMovesData ==
    /\ running # None /\ ~running.moved
    /\ running' = [running EXCEPT !.moved = TRUE]
    /\ LET c == running.cmd
       IN  \/ c.kind = "in" /\ buf' = disk[c.lba] /\ UNCHANGED disk
           \/ c.kind = "out" /\ disk' = [disk EXCEPT ![c.lba] = buf] /\ UNCHANGED buf
           \/ c.kind = "identify" /\ buf' \in Geometry \cup {Zero} /\ UNCHANGED disk
    /\ UNCHANGED <<regs, ci, bsy, err>> /\ KeepDriver

DeviceCompletes ==
    /\ running # None /\ running.moved
    /\ running' = None /\ ci' = FALSE /\ bsy' = FALSE
    /\ UNCHANGED <<regs, err, disk, buf>> /\ KeepDriver

(* After an error some adapters keep the slot taken until ST is cleared.     *)
DeviceFails ==
    /\ running # None
    /\ running' = None /\ bsy' = FALSE /\ err' = TRUE
    /\ ci' \in BOOLEAN
    /\ UNCHANGED <<regs, disk, buf>> /\ KeepDriver

-----------------------------------------------------------------------------
Driver ==
    \/ InitStop \/ InitStopped \/ InitClearFre \/ InitFreWaited \/ InitSetup
    \/ InitNoMemory \/ InitStartEngine \/ InitDone \/ InitTimesOut
    \/ SetupCommand \/ IssueCommand \/ CommandDone
    \/ ReturnOk \/ ReturnDeviceError \/ TimesOut

Device == EngineFollows \/ DeviceMovesData \/ DeviceCompletes \/ DeviceFails

Next ==
    \/ Driver
    \/ Device
    \/ \E lba \in Lbas : BeginRead(lba)
    \/ \E lba \in Lbas, val \in Values : BeginWrite(lba, val)
    \/ Stop

(* The driver runs, and the hardware does what it was told at some time.     *)
Spec == Init /\ [][Next]_vars /\ WF_vars(Driver) /\ WF_vars(Device)

-----------------------------------------------------------------------------

(* The variables have their types; sector_count is never 0.                  *)
TypeOK ==
    /\ pc \in InitPcs \cup {"failed", "idle", "wait_idle", "issue", "wait_done",
                            "check", "stopped"}
    /\ cmdReg \in [st : BOOLEAN, fre : BOOLEAN] \cup {None}
    /\ {st, cr, fre, fr, ci, bsy, err, patient} \subseteq BOOLEAN
    /\ table \in Commands \cup {None} /\ op \in Commands \cup {None}
    /\ running \in [cmd : Commands, moved : BOOLEAN] \cup {None}
    /\ buf \in Contents /\ disk \in [Lbas -> Contents]
    /\ result \in Contents \cup {"ok", None}
    /\ sectors \in Geometry \cup {"fallback", None}

(* However slow the disk is and however many commands were given up on, the  *)
(* data that a successful read_sectors copies out of data_buf are those of   *)
(* the block addressed, which is the block asked for if its number has 28    *)
(* bits: a late answer to an earlier command is never taken for the answer   *)
(* to this one.                                                              *)
ReadReturnsDisk ==
    [][(op \in [kind : {"in"}, lba : Lbas] /\ result' # None)
           => result' = disk[Addressed(op.lba)]]_vars

(* A write_sectors that succeeds has stored the caller's data in the block   *)
(* addressed, if no command outlasts the driver's patience: buf is copied    *)
(* into data_buf before the wait for the last command, so a late one could   *)
(* still change it.                                                          *)
WriteStored ==
    [][(patient /\ op \in [kind : {"out"}, lba : Lbas, val : Values] /\ result' # None)
           => disk[Addressed(op.lba)] = op.val]_vars

(* Every request returns, with an error if need be: no order of late, failed *)
(* and never finished commands leaves issue_command in one of its loops.     *)
EveryRequestReturns == (op # None) ~> (op = None)
=============================================================================
