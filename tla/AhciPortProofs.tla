---------------------------- MODULE AhciPortProofs ----------------------------
(***************************************************************************)
(* The answers of an AHCI port belong to the requests they are returned    *)
(* for, for every set of blocks and values, every firmware state and any   *)
(* number of commands that were given up on, failed or never finished.     *)
(***************************************************************************)
EXTENDS AhciPort, TLAPS

(* The states of the driver in which a request is in progress. *)
Requesting == {"wait_idle", "issue", "wait_done", "check"}

(* The variables the argument is about have their types. *)
PortTypes ==
    /\ pc \in InitPcs \cup Requesting \cup {"failed", "idle", "stopped"}
    /\ op \in Commands \cup {None}
    /\ running \in [cmd : Commands, moved : BOOLEAN] \cup {None}
    /\ disk \in [Lbas -> Contents] /\ buf \in Contents
    /\ ci \in BOOLEAN /\ bsy \in BOOLEAN /\ err \in BOOLEAN

(* A caller is served exactly in those states, and its result is open.     *)
OneRequest ==
    /\ pc \in Requesting <=> op # None
    /\ pc \notin {"idle", "stopped"} => result = None
    /\ pc \in Requesting \cup {"engine_wait", "idle"} => st

(* What the registers say of slot 0.  A slot that is taken with no command *)
(* behind it is one that failed.                                           *)
SlotState ==
    /\ bsy <=> running # None
    /\ running # None => ci
    /\ ci /\ running = None => err
    /\ pc \notin {"idle", "wait_idle", "wait_done"} => running = None
    /\ pc = "issue" => table = OnWire(op)

(* The command that was issued has moved its data, and did not fail. *)
Moved == IF running # None THEN running.moved ELSE ~err

(* Once PxCI was written, the disk works on this request or on none.       *)
AnswersRequest ==
    pc \in {"wait_done", "check"} =>
        /\ running # None => running.cmd = OnWire(op)
        /\ Moved /\ op.kind = "in" => buf = disk[Addressed(op.lba)]

(* Without commands that outlast the driver, data_buf is the request's own. *)
BufferOwned ==
    patient =>
        /\ pc \in {"idle", "wait_idle"} => running = None
        /\ pc \in Requesting /\ op.kind = "out" => buf = op.val
        /\ pc \in {"wait_done", "check"} /\ Moved /\ op.kind = "out"
               => disk[Addressed(op.lba)] = op.val

PortInv == PortTypes /\ OneRequest /\ SlotState /\ AnswersRequest /\ BufferOwned

-----------------------------------------------------------------------------
(* Each kind of command has its fields, and is not None. *)
LEMMA CommandFacts ==
    /\ None \notin Commands
    /\ \A c \in Commands, m \in BOOLEAN : [cmd |-> c, moved |-> m] # None
    /\ \A lba \in Lbas : [kind |-> "in", lba |-> lba] \in Commands
    /\ \A lba \in Lbas, val \in Values :
           [kind |-> "out", lba |-> lba, val |-> val] \in Commands
    /\ [kind |-> "identify"] \in Commands
    /\ \A c \in Commands :
           /\ c.kind \in {"in", "out", "identify"}
           /\ c.kind = "in" => c.lba \in Lbas
           /\ c.kind = "out" => c.lba \in Lbas /\ c.val \in Values
<1>1. None \notin Commands
  BY NoneAssumption
<1>2. ASSUME NEW c \in Commands, NEW m \in BOOLEAN
      PROVE  [cmd |-> c, moved |-> m] # None
  BY NoneAssumption
<1>3. ASSUME NEW c \in Commands
      PROVE  /\ c.kind \in {"in", "out", "identify"}
             /\ c.kind = "in" => c.lba \in Lbas
             /\ c.kind = "out" => c.lba \in Lbas /\ c.val \in Values
  BY DEF Commands
<1>4. \A lba \in Lbas : [kind |-> "in", lba |-> lba] \in Commands
  BY DEF Commands
<1>5. \A lba \in Lbas, val \in Values :
          [kind |-> "out", lba |-> lba, val |-> val] \in Commands
  BY DEF Commands
<1>6. [kind |-> "identify"] \in Commands
  BY DEF Commands
<1> QED BY <1>1, <1>2, <1>3, <1>4, <1>5, <1>6

(* The command for a request is of the same kind and has its data; only    *)
(* the block number may be another one.                                    *)
LEMMA OnWireFacts ==
  ASSUME NEW c \in Commands
  PROVE  /\ OnWire(c) \in Commands
         /\ OnWire(c).kind = c.kind
         /\ c.kind \in {"in", "out"} => OnWire(c).lba = Addressed(c.lba)
         /\ c.kind \in {"in", "out"} => Addressed(c.lba) \in Lbas
<1>1. \A lba \in Lbas : Addressed(lba) \in Lbas
  BY LbaAssumption DEF Addressed
<1>2. CASE c \in [kind : {"in"}, lba : Lbas]
  <2>1. OnWire(c) = [c EXCEPT !.lba = Addressed(c.lba)]
    BY <1>2 DEF OnWire
  <2>2. OnWire(c) \in [kind : {"in"}, lba : Lbas]
    BY <1>1, <1>2, <2>1
  <2> QED BY <1>1, <1>2, <2>1, <2>2 DEF Commands
<1>3. CASE c \in [kind : {"out"}, lba : Lbas, val : Values]
  <2>1. OnWire(c) = [c EXCEPT !.lba = Addressed(c.lba)]
    BY <1>3 DEF OnWire
  <2>2. OnWire(c) \in [kind : {"out"}, lba : Lbas, val : Values]
    BY <1>1, <1>3, <2>1
  <2> QED BY <1>1, <1>3, <2>1, <2>2 DEF Commands
<1>4. CASE c = [kind |-> "identify"]
  BY <1>4 DEF OnWire, Commands
<1> QED BY <1>2, <1>3, <1>4 DEF Commands

(* A port that was not touched yet has no command and no request. *)
LEMMA PortInit == Init => PortInv
<1> SUFFICES ASSUME Init PROVE PortInv
  OBVIOUS
<1>1. PortTypes
  BY DEF Init, PortTypes, InitPcs, Contents
<1>2. OneRequest /\ SlotState /\ AnswersRequest /\ BufferOwned
  BY DEF Init, OneRequest, SlotState, AnswersRequest, BufferOwned, Requesting
<1> QED BY <1>1, <1>2 DEF PortInv

(* PortState::init: no request yet, and nothing runs. *)
LEMMA PortInitSteps ==
  ASSUME PortInv,
         \/ InitStop \/ InitStopped \/ InitClearFre \/ InitFreWaited \/ InitSetup
         \/ InitNoMemory \/ InitStartEngine \/ InitTimesOut
  PROVE  PortInv'
<1>t. PortTypes /\ OneRequest /\ SlotState /\ AnswersRequest /\ BufferOwned
  BY DEF PortInv
<1>1. /\ pc \in InitPcs /\ pc' \in InitPcs \cup {"failed"} /\ pc' # "off"
      /\ pc' = "engine_wait" => st'
      /\ UNCHANGED <<ci, bsy, err, dev, op, result, patient>>
      /\ buf' \in {buf, Zero}
  BY DEF InitStop, InitStopped, InitClearFre, InitFreWaited, InitSetup, InitNoMemory,
     InitStartEngine, InitTimesOut, Goto, KeepIo, InitPcs
<1>2. pc \notin Requesting \cup {"idle", "stopped"}
      /\ pc' \notin Requesting \cup {"idle", "stopped"}
  BY <1>1 DEF InitPcs, Requesting
<1>3. PortTypes'
  BY <1>t, <1>1 DEF PortTypes, dev, Contents
<1> QED
  BY <1>t, <1>1, <1>2, <1>3 DEF PortInv, OneRequest, SlotState, AnswersRequest,
     BufferOwned, Requesting, dev

(* A request begins: IDENTIFY, a read or a write. *)
LEMMA PortBegins ==
  ASSUME PortInv,
         \/ InitDone
         \/ \E lba \in Lbas : BeginRead(lba)
         \/ \E lba \in Lbas, val \in Values : BeginWrite(lba, val)
  PROVE  PortInv'
<1>t. PortTypes /\ OneRequest /\ SlotState /\ AnswersRequest /\ BufferOwned
  BY DEF PortInv
<1>1. /\ pc \in {"engine_wait", "idle"} /\ pc' = "wait_idle" /\ result' = None
      /\ UNCHANGED <<st, ci, bsy, err, running, disk, patient>>
  BY <1>t DEF InitDone, BeginRead, BeginWrite, Goto, KeepPort, dev, regs, OneRequest
<1>2. /\ op' \in Commands /\ buf' \in Contents
      /\ op'.kind = "out" => buf' = op'.val
  <2>1. CASE InitDone
    BY <2>1, <1>t, CommandFacts DEF InitDone, PortTypes
  <2>2. CASE \E lba \in Lbas : BeginRead(lba)
    BY <2>2, <1>t, CommandFacts DEF BeginRead, PortTypes
  <2>3. CASE \E lba \in Lbas, val \in Values : BeginWrite(lba, val)
    BY <2>3, CommandFacts DEF BeginWrite, Contents
  <2> QED BY <2>1, <2>2, <2>3
<1>3. PortTypes'
  BY <1>t, <1>1, <1>2 DEF PortTypes, Requesting
<1>4. OneRequest'
  BY <1>t, <1>1, <1>2, CommandFacts DEF OneRequest, Requesting
<1>5. SlotState' /\ AnswersRequest' /\ BufferOwned'
  BY <1>t, <1>1, <1>2 DEF SlotState, AnswersRequest, BufferOwned, Requesting
<1> QED BY <1>3, <1>4, <1>5 DEF PortInv

(* The command is written to the table and issued, and its end is seen.    *)
LEMMA PortIssues ==
  ASSUME PortInv, SetupCommand \/ IssueCommand \/ CommandDone
  PROVE  PortInv'
<1>t. PortTypes /\ OneRequest /\ SlotState /\ AnswersRequest /\ BufferOwned
  BY DEF PortInv
<1>1. CASE SetupCommand
  <2>1. /\ pc = "wait_idle" /\ pc' = "issue" /\ ~bsy /\ table' = OnWire(op)
        /\ UNCHANGED <<st, ci, bsy, err, running, disk, buf, op, result, patient>>
    BY <1>1 DEF SetupCommand, Goto, KeepPort, dev, regs
  <2>2. running = None
    BY <1>t, <2>1 DEF SlotState
  <2>3. PortTypes' /\ OneRequest'
    BY <1>t, <2>1 DEF PortTypes, OneRequest, Requesting
  <2> QED
    BY <1>t, <2>1, <2>2, <2>3 DEF PortInv, SlotState, AnswersRequest, BufferOwned,
       Requesting
<1>2. CASE IssueCommand
  <2>1. /\ pc = "issue" /\ pc' = "wait_done" /\ ci' = TRUE
        /\ UNCHANGED <<st, table, disk, buf, op, result, patient>>
    BY <1>2 DEF IssueCommand, Goto, KeepPort, regs
  <2>2. st /\ running = None /\ table = OnWire(op) /\ op \in Commands
    BY <1>t, <2>1 DEF OneRequest, SlotState, Requesting, PortTypes
  <2>2a. OnWire(op) \in Commands
    BY <2>2, OnWireFacts
  <2>3. CASE ci
    <3>1. err /\ UNCHANGED <<bsy, err, running>>
      BY <1>2, <1>t, <2>2, <2>3 DEF IssueCommand, SlotState
    <3>2. PortTypes' /\ OneRequest'
      BY <1>t, <2>1, <3>1 DEF PortTypes, OneRequest, Requesting
    <3> QED
      BY <1>t, <2>1, <2>2, <3>1, <3>2 DEF PortInv, SlotState, AnswersRequest,
         BufferOwned, Moved, Requesting
  <2>4. CASE ~ci
    <3>1. bsy' = TRUE /\ err' = FALSE /\ running' = [cmd |-> OnWire(op), moved |-> FALSE]
      BY <1>2, <2>2, <2>4 DEF IssueCommand
    <3>2. running' # None /\ ~running'.moved /\ running'.cmd = OnWire(op)
      BY <2>2a, <3>1, CommandFacts
    <3>3. PortTypes'
      BY <1>t, <2>1, <2>2, <2>2a, <3>1 DEF PortTypes, Requesting
    <3>4. OneRequest'
      BY <1>t, <2>1 DEF OneRequest, Requesting
    <3> QED
      BY <1>t, <2>1, <3>1, <3>2, <3>3, <3>4 DEF PortInv, SlotState, AnswersRequest,
         BufferOwned, Moved, Requesting
  <2> QED BY <2>3, <2>4
<1>3. CASE CommandDone
  <2>1. /\ pc = "wait_done" /\ pc' = "check" /\ ~ci
        /\ UNCHANGED <<st, ci, bsy, err, table, running, disk, buf, op, result, patient>>
    BY <1>3 DEF CommandDone, Goto, KeepPort, dev, regs
  <2>2. running = None
    BY <1>t, <2>1 DEF SlotState
  <2>3. PortTypes' /\ OneRequest'
    BY <1>t, <2>1 DEF PortTypes, OneRequest, Requesting
  <2> QED
    BY <1>t, <2>1, <2>2, <2>3 DEF PortInv, SlotState, AnswersRequest, BufferOwned,
       Moved, Requesting
<1> QED BY <1>1, <1>2, <1>3

(* The request returns, with or without success, or the port is stopped.   *)
LEMMA PortReturns ==
  ASSUME PortInv, ReturnOk \/ ReturnDeviceError \/ TimesOut \/ Stop
  PROVE  PortInv'
<1>t. PortTypes /\ OneRequest /\ SlotState /\ AnswersRequest /\ BufferOwned
  BY DEF PortInv
<1>1. CASE ReturnOk \/ ReturnDeviceError \/ TimesOut
  <2>1. /\ pc \in {"wait_idle", "wait_done", "check"} /\ pc' = "idle" /\ op' = None
        /\ UNCHANGED <<st, ci, bsy, err, table, running, disk, buf, patient>>
    BY <1>1 DEF ReturnOk, ReturnDeviceError, TimesOut, Return, Goto, KeepPort, dev, regs
  <2>2. patient => running = None
    BY <1>1, <1>t DEF ReturnOk, ReturnDeviceError, TimesOut, SlotState
  <2>3. PortTypes'
    BY <1>t, <2>1 DEF PortTypes
  <2>4. OneRequest'
    BY <1>t, <2>1 DEF OneRequest, Requesting
  <2> QED
    BY <1>t, <2>1, <2>2, <2>3, <2>4 DEF PortInv, SlotState, AnswersRequest,
       BufferOwned, Requesting
<1>2. CASE Stop
  <2>1. /\ pc = "idle" /\ pc' = "stopped" /\ ci' = FALSE /\ bsy' = FALSE /\ running' = None
        /\ UNCHANGED <<err, disk, buf, op, patient>>
    BY <1>2 DEF Stop, Goto
  <2>2. PortTypes' /\ OneRequest'
    BY <1>t, <2>1 DEF PortTypes, OneRequest, Requesting
  <2> QED
    BY <1>t, <2>1, <2>2 DEF PortInv, SlotState, AnswersRequest, BufferOwned, Requesting
<1> QED BY <1>1, <1>2

(* The adapter and the disk, which run whenever they like.                 *)
LEMMA PortDevice ==
  ASSUME PortInv, Device
  PROVE  PortInv'
<1>t. PortTypes /\ OneRequest /\ SlotState /\ AnswersRequest /\ BufferOwned
  BY DEF PortInv
<1>1. CASE EngineFollows
  <2>1. UNCHANGED <<pc, st, ci, bsy, err, table, running, disk, buf, op, result, patient>>
    BY <1>1 DEF EngineFollows, KeepDriver, dev
  <2> QED
    BY <1>t, <2>1 DEF PortInv, PortTypes, OneRequest, SlotState, AnswersRequest,
       BufferOwned, Moved
<1>2. CASE DeviceMovesData
  <2>1. /\ running # None /\ running' = [running EXCEPT !.moved = TRUE]
        /\ UNCHANGED <<pc, st, ci, bsy, err, table, op, result, patient>>
    BY <1>2 DEF DeviceMovesData, KeepDriver, regs
  <2>2. /\ running'.cmd = running.cmd /\ running.cmd \in Commands
        /\ running' \in [cmd : Commands, moved : BOOLEAN]
    BY <1>t, <2>1 DEF PortTypes
  <2>3. running' # None
    BY <2>2, NoneAssumption
  <2> DEFINE c == running.cmd
  <2>4. \/ c.kind = "in" /\ buf' = disk[c.lba] /\ disk' = disk
        \/ c.kind = "out" /\ disk' = [disk EXCEPT ![c.lba] = buf] /\ buf' = buf
        \/ c.kind = "identify" /\ buf' \in Geometry \cup {Zero} /\ disk' = disk
    BY <1>2 DEF DeviceMovesData
  <2>5. buf' \in Contents /\ disk' \in [Lbas -> Contents]
    BY <1>t, <2>2, <2>4, CommandFacts DEF PortTypes, Contents
  <2>6. PortTypes'
    BY <1>t, <2>1, <2>2, <2>5 DEF PortTypes
  <2>7. OneRequest' /\ SlotState'
    BY <1>t, <2>1, <2>3 DEF OneRequest, SlotState
  <2>8. pc \in {"wait_done", "check"} =>
          /\ c = OnWire(op) /\ op \in Commands /\ c.kind = op.kind
          /\ op.kind \in {"in", "out"} =>
               c.lba = Addressed(op.lba) /\ Addressed(op.lba) \in Lbas
    <3>1. pc \in {"wait_done", "check"} => c = OnWire(op) /\ op \in Commands
      BY <1>t, <2>1 DEF AnswersRequest, OneRequest, Requesting, PortTypes
    <3> HIDE DEF c
    <3> QED BY <3>1, OnWireFacts
  <2>9. AnswersRequest'
    BY <2>1, <2>2, <2>4, <2>8 DEF AnswersRequest
  <2>10. BufferOwned'
    <3> SUFFICES ASSUME patient' PROVE BufferOwned'
      BY DEF BufferOwned
    <3>1. pc \in {"wait_done", "check"}
      BY <1>t, <2>1 DEF BufferOwned, SlotState
    <3>2. op.kind = "out" => buf = op.val
      BY <1>t, <2>1, <3>1 DEF BufferOwned, Requesting
    <3>3. op.kind = "out" => /\ buf' = buf
                             /\ disk' = [disk EXCEPT ![Addressed(op.lba)] = buf]
                             /\ Addressed(op.lba) \in Lbas
      BY <2>4, <2>8, <3>1
    <3>4. op.kind = "out" => disk'[Addressed(op.lba)] = op.val
      BY <1>t, <3>2, <3>3 DEF PortTypes
    <3> QED
      BY <2>1, <3>1, <3>2, <3>3, <3>4 DEF BufferOwned
  <2> QED BY <2>6, <2>7, <2>9, <2>10 DEF PortInv
<1>3. CASE DeviceCompletes
  <2>1. /\ running # None /\ running.moved
        /\ running' = None /\ ci' = FALSE /\ bsy' = FALSE
        /\ UNCHANGED <<pc, st, err, table, disk, buf, op, result, patient>>
    BY <1>3 DEF DeviceCompletes, KeepDriver, regs
  <2>2. PortTypes' /\ OneRequest' /\ SlotState'
    BY <1>t, <2>1 DEF PortTypes, OneRequest, SlotState
  <2> QED
    BY <1>t, <2>1, <2>2 DEF PortInv, AnswersRequest, BufferOwned, Moved
<1>4. CASE DeviceFails
  <2>1. /\ running # None /\ running' = None /\ bsy' = FALSE /\ err' = TRUE
        /\ ci' \in BOOLEAN
        /\ UNCHANGED <<pc, st, table, disk, buf, op, result, patient>>
    BY <1>4 DEF DeviceFails, KeepDriver, regs
  <2>2. PortTypes' /\ OneRequest' /\ SlotState'
    BY <1>t, <2>1 DEF PortTypes, OneRequest, SlotState
  <2> QED
    BY <1>t, <2>1, <2>2 DEF PortInv, AnswersRequest, BufferOwned, Moved
<1> QED BY <1>1, <1>2, <1>3, <1>4 DEF Device

(* Every step keeps the invariant. *)
LEMMA PortStep ==
  ASSUME PortInv, [Next]_vars
  PROVE  PortInv'
<1>1. CASE UNCHANGED vars
  BY <1>1 DEF vars, dev, regs, PortInv, PortTypes, OneRequest, SlotState,
     AnswersRequest, BufferOwned, Moved
<1> QED
  BY <1>1, PortInitSteps, PortBegins, PortIssues, PortReturns, PortDevice
     DEF Next, Driver

-----------------------------------------------------------------------------
(* A step in which a request gets a result other than an error: it is the  *)
(* return of a request whose command moved its data.                       *)
LEMMA SuccessMeansMoved ==
  ASSUME PortInv, [Next]_vars, op # None, result' # None
  PROVE  /\ pc = "check" /\ Moved /\ op \in Commands
         /\ result' = IF op.kind = "out" THEN "ok" ELSE buf
<1>t. PortTypes /\ OneRequest /\ SlotState
  BY DEF PortInv
<1>1. pc \in Requesting /\ result = None
  BY <1>t DEF OneRequest, Requesting
<1>2. result' # result
  BY <1>1
<1>3. ReturnOk
  <2>1. CASE UNCHANGED vars
    BY <2>1, <1>2 DEF vars
  <2>2. CASE Device
    BY <2>2, <1>2 DEF Device, EngineFollows, DeviceMovesData, DeviceCompletes,
       DeviceFails, KeepDriver
  <2>3. CASE (\E lba \in Lbas : BeginRead(lba))
             \/ (\E lba \in Lbas, val \in Values : BeginWrite(lba, val)) \/ Stop
    BY <2>3, <1>1 DEF BeginRead, BeginWrite, Stop, Requesting
  <2>4. CASE ReturnDeviceError \/ TimesOut
    BY <2>4 DEF ReturnDeviceError, TimesOut, Return
  <2>5. CASE InitStop \/ InitStopped \/ InitClearFre \/ InitFreWaited \/ InitSetup
             \/ InitNoMemory \/ InitStartEngine \/ InitDone \/ InitTimesOut
             \/ SetupCommand \/ IssueCommand \/ CommandDone
    BY <2>5, <1>2 DEF InitStop, InitStopped, InitClearFre, InitFreWaited, InitSetup,
       InitNoMemory, InitStartEngine, InitDone, InitTimesOut, KeepIo, SetupCommand,
       IssueCommand, CommandDone
  <2> QED BY <2>1, <2>2, <2>3, <2>4, <2>5 DEF Next, Driver
<1>4. pc = "check" /\ ~err /\ result' = IF op.kind = "out" THEN "ok" ELSE buf
  BY <1>3 DEF ReturnOk, Return
<1> QED
  BY <1>t, <1>4 DEF SlotState, Moved, PortTypes

(* read_sectors: whatever commands were given up on before, and whenever   *)
(* they end, the data that a successful read copies out of data_buf are    *)
(* those of the block addressed, which is the block asked for if its       *)
(* number has 28 bits.                                                     *)
THEOREM AhciReadReturnsDisk == Spec => ReadReturnsDisk
<1>1. Init => PortInv
  BY PortInit
<1>2. PortInv /\ [Next]_vars => PortInv'
  BY PortStep
<1>3. PortInv /\ [Next]_vars =>
        [(op \in [kind : {"in"}, lba : Lbas] /\ result' # None)
             => result' = disk[Addressed(op.lba)]]_vars
  <2> SUFFICES ASSUME PortInv, [Next]_vars, op \in [kind : {"in"}, lba : Lbas],
                      result' # None
               PROVE  result' = disk[Addressed(op.lba)]
    OBVIOUS
  <2>1. op.kind = "in" /\ op # None
    BY NoneAssumption DEF Commands
  <2>2. pc = "check" /\ Moved /\ result' = buf
    BY <2>1, SuccessMeansMoved
  <2> QED BY <2>1, <2>2 DEF PortInv, AnswersRequest
<1> QED BY <1>1, <1>2, <1>3, PTL DEF Spec, ReadReturnsDisk

(* write_sectors: if no command outlasts the driver's patience, a write    *)
(* that returns Ok has put the caller's data in the block addressed.       *)
THEOREM AhciWriteStored == Spec => WriteStored
<1>1. Init => PortInv
  BY PortInit
<1>2. PortInv /\ [Next]_vars => PortInv'
  BY PortStep
<1>3. PortInv /\ [Next]_vars =>
        [(patient /\ op \in [kind : {"out"}, lba : Lbas, val : Values] /\ result' # None)
             => disk[Addressed(op.lba)] = op.val]_vars
  <2> SUFFICES ASSUME PortInv, [Next]_vars, patient, result' # None,
                      op \in [kind : {"out"}, lba : Lbas, val : Values]
               PROVE  disk[Addressed(op.lba)] = op.val
    OBVIOUS
  <2>1. op.kind = "out" /\ op # None
    BY NoneAssumption DEF Commands
  <2>2. pc = "check" /\ Moved
    BY <2>1, SuccessMeansMoved
  <2> QED BY <2>1, <2>2 DEF PortInv, BufferOwned
<1> QED BY <1>1, <1>2, <1>3, PTL DEF Spec, WriteStored
==============================================================================
