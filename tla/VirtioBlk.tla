------------------------------ MODULE VirtioBlk ------------------------------
(***************************************************************************)
(* The virtio-blk driver (lib/driver/src/block/virtio/mod.rs) and the      *)
(* device it drives, over the memory they share: the request header, the   *)
(* data area and the status byte of dma_buf, the descriptor chain, and the *)
(* indices of the available and used rings.  The driver has one request at *)
(* a time and always uses descriptors 0, 1 and 2; the device runs          *)
(* concurrently, may be late, and may fail a request.                      *)
(*                                                                         *)
(* A sector is its first byte and the rest of it: the status byte, at      *)
(* dma_buf + 1024, is the first byte of the second sector of the data      *)
(* area, which starts at dma_buf + 512.                                    *)
(***************************************************************************)
EXTENDS Naturals, Sequences

CONSTANTS Capacity,      \* sectors of the medium
          Values, NoOp,
          MaxSectors,    \* bound: sectors of one request (7 fit into dma_buf)
          IdxModulus,    \* the ring indices are u16: 2^16
          QueueSizes,    \* what the device may answer as maximal queue size
          MaxOps         \* bound: requests submitted in a behaviour

ASSUME CapacityAssumption == Capacity \in Nat \ {0}
ASSUME MaxSectorsAssumption == MaxSectors \in 2..7
ASSUME IdxModulusAssumption == IdxModulus \in Nat \ {0, 1}
ASSUME QueueSizesAssumption == QueueSizes \subseteq Nat
ASSUME MaxOpsAssumption == MaxOps \in Nat
ASSUME NonEmptyAssumption == Values # {}

VARIABLES pc,          \* where the driver is
          build,       \* what the compiler made of two places of the driver
          status,      \* bits of the device status register
          queue_size,  \* negotiated size of queue 0
          bufs,        \* DMA buffers the driver has allocated
          zeroed,      \* the ring pages have been cleared
          queue_on,    \* the device has the ring addresses and may use them
          hdr,         \* dma_buf + 0: the request header
          data,        \* dma_buf + 512: the data area
          chain,       \* descriptor 1: its direction and its length in sectors
          avail, used, \* requests published and completed: the 16-bit ring
                       \* indices are their remainders
          seen,        \* requests the device has fetched
          dev,         \* the request the device is serving, or NoOp
          disk,        \* the medium
          op,          \* the caller's operation
          ops,         \* operations begun
          last,        \* history: status of the request completed last
          quiet        \* history: no request was outstanding when op began

initVars == <<status, queue_size, bufs, zeroed, queue_on>>
devVars == <<dev, seen, disk, used, last>>
callVars == <<op, ops, quiet>>
vars == <<pc, build, initVars, hdr, data, chain, avail, devVars, callVars>>

Idle == "ready"
InitPc == {"reset", "queue", "alloc", "zero", "enable", "driver_ok"}
RequestPc == {"header", "chain", "notify", "wait", "copy"}
EndPc == {"failed", "stopped", "panic", "hung"}
StatusBits == {"ACKNOWLEDGE", "DRIVER", "FEATURES_OK", "DRIVER_OK"}
Verdicts == {"OK", "IOERR"}

(* used.idx is read by a plain load, which the compiler may do once and    *)
(* not in every round of the loop; idx + 1 is checked in the dev profile.  *)
Builds == [rereads : BOOLEAN, checked : BOOLEAN]

Lbas == 0..Capacity
Sector(v) == [first |-> v, rest |-> v]
Sectors == [first : Values \cup Verdicts, rest : Values]
Headers == [kind : {"in", "out"}, lba : Lbas]
Counts == 1..MaxSectors
Area == [Counts -> Sectors]
Chains == [dir : {"device_writes", "device_reads"}, count : Counts]
Requests == [hdr : Headers, chain : Chains, moved : 0..MaxSectors]
ReadOp(l, n) == [kind |-> "in", lba |-> l, count |-> n]
WriteOp(l, vs) == [kind |-> "out", lba |-> l, count |-> Len(vs), vals |-> vs]
Buffers == UNION {[1..n -> Values] : n \in Counts}
Operations == {ReadOp(l, n) : l \in Lbas, n \in Counts}
              \cup {WriteOp(l, vs) : l \in Lbas, vs \in Buffers}

(* NoOp, which stands for "no request", is no request. *)
ASSUME NoOpAssumption == NoOp \notin Requests \cup Operations

-----------------------------------------------------------------------------
Init ==
  /\ pc = "reset"
  /\ build \in Builds
  /\ status = {} /\ queue_size = 0 /\ bufs = 0
  /\ zeroed = FALSE /\ queue_on = FALSE
  /\ hdr = [kind |-> "in", lba |-> 0]
  /\ \E v \in Values : data = [i \in Counts |-> Sector(v)]
  /\ chain = [dir |-> "device_reads", count |-> 1]
  /\ avail = 0 /\ used = 0 /\ seen = 0
  /\ dev = NoOp
  /\ \E f \in [0..(Capacity - 1) -> Values] : disk = [l \in DOMAIN f |-> Sector(f[l])]
  /\ op = NoOp /\ ops = 0
  /\ last = "OK" /\ quiet = TRUE

(* init_device, in the order of its comments 1 to 10. *)
InitStep(from) ==
  /\ pc = from
  /\ UNCHANGED <<build, hdr, data, chain, avail, devVars, callVars>>

(* 1-4: reset, acknowledge, accept the features; the device may refuse. *)
InitNegotiate ==
  /\ InitStep("reset")
  /\ \/ /\ status' = {"ACKNOWLEDGE", "DRIVER", "FEATURES_OK"}
        /\ pc' = "queue"
     \/ /\ status' = {"ACKNOWLEDGE", "DRIVER"}
        /\ pc' = "failed"
  /\ UNCHANGED <<queue_size, bufs, zeroed, queue_on>>

(* 5: a queue of at most 64 entries. *)
InitQueueSize ==
  /\ InitStep("queue")
  /\ \E max \in QueueSizes :
       /\ queue_size' = IF max < 64 THEN max ELSE 64
       /\ pc' = IF max = 0 THEN "failed" ELSE "alloc"
  /\ UNCHANGED <<status, bufs, zeroed, queue_on>>

(* 6: four DMA buffers, any of which may not be available. *)
InitAlloc ==
  /\ InitStep("alloc")
  /\ \/ bufs' = bufs + 1 /\ pc' = IF bufs' = 4 THEN "zero" ELSE "alloc"
     \/ pc' = "failed" /\ UNCHANGED bufs
  /\ UNCHANGED <<status, queue_size, zeroed, queue_on>>

InitZero ==
  /\ InitStep("zero")
  /\ zeroed' = TRUE
  /\ pc' = "enable"
  /\ UNCHANGED <<status, queue_size, bufs, queue_on>>

(* 7-8: ring addresses, then queue enable. *)
InitEnable ==
  /\ InitStep("enable")
  /\ queue_on' = TRUE
  /\ pc' = "driver_ok"
  /\ UNCHANGED <<status, queue_size, bufs, zeroed>>

(* 9-10. *)
InitDriverOk ==
  /\ InitStep("driver_ok")
  /\ status' = status \cup {"DRIVER_OK"}
  /\ pc' = Idle
  /\ UNCHANGED <<queue_size, bufs, zeroed, queue_on>>

InitDevice == InitNegotiate \/ InitQueueSize \/ InitAlloc \/ InitZero
              \/ InitEnable \/ InitDriverOk

-----------------------------------------------------------------------------
(* The caller begins an operation when the driver is idle. *)
Begin(o) ==
  /\ pc = Idle /\ ops < MaxOps
  /\ op' = o
  /\ ops' = ops + 1
  /\ quiet' = (used = avail)
  /\ pc' = "header"
  /\ UNCHANGED <<build, initVars, hdr, chain, avail, devVars>>

(* Mutant: write_sectors does not copy the caller's data. *)
BeginWriteUncopied(l, vs) ==
  /\ Begin(WriteOp(l, vs))
  /\ UNCHANGED data

(* write_sectors copies the caller's data first; then both operations      *)
(* write the request header, which is shared with the device.              *)
BeginWrite(l, vs) ==
  /\ Begin(WriteOp(l, vs))
  /\ data' = [i \in Counts |-> IF i <= Len(vs) THEN Sector(vs[i]) ELSE data[i]]

BeginRead(l, n) ==
  /\ Begin(ReadOp(l, n))
  /\ UNCHANGED data

(* Mutant: the header keeps the sector of the request before. *)
WriteHeaderStale ==
  /\ pc = "header"
  /\ hdr' = [hdr EXCEPT !.kind = op.kind]
  /\ pc' = "chain"
  /\ UNCHANGED <<build, initVars, data, chain, avail, devVars, callVars>>

WriteHeader ==
  /\ pc = "header"
  /\ hdr' = [kind |-> op.kind, lba |-> op.lba]
  /\ pc' = "chain"
  /\ UNCHANGED <<build, initVars, data, chain, avail, devVars, callVars>>

(* Mutant: the chain is not published in the available ring. *)
SetupChainUnpublished ==
  /\ pc = "chain"
  /\ chain' = [dir |-> IF op.kind = "in" THEN "device_writes" ELSE "device_reads",
               count |-> op.count]
  /\ pc' = "notify"
  /\ UNCHANGED <<build, initVars, hdr, data, avail, devVars, callVars>>

(* setup_chain: the data descriptor is device-writable for a read, and the *)
(* status descriptor is always dma_buf + 1024.  avail.idx is incremented   *)
(* in u16: at its maximum it wraps, or a checked build panics.             *)
SetupChain ==
  /\ pc = "chain"
  /\ chain' = [dir |-> IF op.kind = "in" THEN "device_writes" ELSE "device_reads",
               count |-> op.count]
  /\ IF build.checked /\ (avail + 1) % IdxModulus = 0
       THEN pc' = "panic" /\ UNCHANGED avail
       ELSE pc' = "notify" /\ avail' = avail + 1
  /\ UNCHANGED <<build, initVars, hdr, data, devVars, callVars>>

Notify ==
  /\ pc = "notify"
  /\ pc' = "wait"
  /\ UNCHANGED <<build, initVars, hdr, data, chain, avail, devVars, callVars>>

(* notify_and_wait: while used.idx == 0 {}. *)
WaitUsed ==
  /\ pc = "wait"
  /\ used % IdxModulus # 0
  /\ pc' = "copy"
  /\ UNCHANGED <<build, initVars, hdr, data, chain, avail, devVars, callVars>>

(* The loop of a build that loads used.idx once never ends. *)
WaitForever ==
  /\ pc = "wait" /\ ~build.rereads
  /\ used % IdxModulus = 0
  /\ pc' = "hung"
  /\ UNCHANGED <<build, initVars, hdr, data, chain, avail, devVars, callVars>>

(* A read copies the data area to the caller.  Both operations return Ok,  *)
(* whatever the status byte says.                                          *)
Return ==
  /\ pc = "copy"
  /\ op' = NoOp
  /\ pc' = Idle
  /\ UNCHANGED <<build, initVars, hdr, data, chain, avail, devVars, ops, quiet>>

(* DriverState::stop: reset the device. *)
Stop ==
  /\ pc = Idle
  /\ status' = {}
  /\ queue_on' = FALSE
  /\ dev' = NoOp
  /\ pc' = "stopped"
  /\ UNCHANGED <<build, queue_size, bufs, zeroed, hdr, data, chain, avail,
                 seen, disk, used, last, callVars>>

Driver ==
  \/ InitDevice
  \/ \E l \in Lbas, vs \in Buffers : BeginWrite(l, vs)
  \/ \E l \in Lbas, n \in Counts : BeginRead(l, n)
  \/ WriteHeader \/ SetupChain \/ Notify \/ WaitUsed \/ WaitForever \/ Return

-----------------------------------------------------------------------------
(* The device (external): it fetches the chain that the available ring     *)
(* names, which is always 0, 1, 2, with the header it points to; it moves  *)
(* the data sector by sector, stores the status and updates used.idx.      *)
Live == queue_on /\ "DRIVER_OK" \in status

DeviceFetch ==
  /\ Live
  /\ dev = NoOp
  /\ seen % IdxModulus # avail % IdxModulus
  /\ dev' = [hdr |-> hdr, chain |-> chain, moved |-> 0]
  /\ seen' = seen + 1
  /\ UNCHANGED <<pc, build, initVars, hdr, data, chain, avail, disk, used, last, callVars>>

(* The request names sectors the medium has, and a buffer of its direction. *)
Servable(d) ==
  /\ d.hdr.lba + d.chain.count <= Capacity
  /\ d.chain.dir = IF d.hdr.kind = "in" THEN "device_writes" ELSE "device_reads"

DeviceMove ==
  /\ Live
  /\ dev # NoOp
  /\ Servable(dev) /\ dev.moved < dev.chain.count
  /\ LET i == dev.moved + 1
         l == dev.hdr.lba + dev.moved
     IN  IF dev.hdr.kind = "in"
           THEN data' = [data EXCEPT ![i] = disk[l]] /\ UNCHANGED disk
           ELSE disk' = [disk EXCEPT ![l] = data[i]] /\ UNCHANGED data
  /\ dev' = [dev EXCEPT !.moved = @ + 1]
  /\ UNCHANGED <<pc, build, initVars, hdr, chain, avail, seen, used, last, callVars>>

(* The status is OK only when everything has been moved; a request may     *)
(* fail at any point.                                                      *)
DeviceComplete(verdict) ==
  /\ Live
  /\ dev # NoOp
  /\ verdict = "OK" => Servable(dev) /\ dev.moved = dev.chain.count
  /\ data' = [data EXCEPT ![2].first = verdict]
  /\ last' = verdict
  /\ used' = used + 1
  /\ dev' = NoOp
  /\ UNCHANGED <<pc, build, initVars, hdr, chain, avail, seen, disk, callVars>>

Device == DeviceFetch \/ DeviceMove \/ \E verdict \in Verdicts : DeviceComplete(verdict)

-----------------------------------------------------------------------------
(* A driver that failed to bind, was stopped, came to an end, or has no    *)
(* more callers; and one whose request hangs at the wrap of used.idx.      *)
HangsAtWrap == ops % IdxModulus = 0 /\ used % IdxModulus = 0 /\ dev = NoOp

Done ==
  /\ \/ pc \in EndPc
     \/ pc = Idle /\ ops = MaxOps
     \/ pc = "wait" /\ HangsAtWrap
  /\ UNCHANGED vars

Next == Driver \/ Stop \/ Device \/ Done

Spec == Init /\ [][Next]_vars

(* The processor runs, and the device ends what it is given. *)
FairSpec == Spec /\ WF_vars(Driver) /\ WF_vars(Device)

-----------------------------------------------------------------------------
TypeOK ==
  /\ pc \in InitPc \cup RequestPc \cup EndPc \cup {Idle}
  /\ build \in Builds
  /\ status \subseteq StatusBits
  /\ queue_size \in 0..64 /\ bufs \in 0..4
  /\ zeroed \in BOOLEAN /\ queue_on \in BOOLEAN
  /\ hdr \in Headers /\ data \in Area /\ chain \in Chains
  /\ avail \in Nat /\ used \in Nat /\ seen \in Nat
  /\ dev \in Requests \cup {NoOp}
  /\ disk \in [0..(Capacity - 1) -> Sectors]
  /\ op \in Operations \cup {NoOp} /\ ops \in Nat
  /\ last \in Verdicts /\ quiet \in BOOLEAN

(* "Poll completion": when notify_and_wait returns, the device has         *)
(* finished the request that was submitted.                                *)
WaitsForCompletion == pc = "copy" => used = avail

(* The device has ended the request in progress, and it succeeded. *)
Served == pc = "copy" /\ used = avail /\ last = "OK"

(* Whatever became of earlier requests, which may have been late, failed   *)
(* or served with the header of a later one: when read_sectors copies the  *)
(* data area out after the device has served its request, it copies the    *)
(* sectors asked for, with the status byte in place of byte 512 of a       *)
(* transfer of two sectors or more.                                        *)
ServedReadIsRight ==
  Served /\ op.kind = "in" =>
    \A i \in 1..op.count :
      data[i] = IF i = 2 THEN [disk[op.lba + 1] EXCEPT !.first = "OK"]
                ELSE disk[op.lba + i - 1]

(* When write_sectors returns after the device has served its request, the *)
(* medium holds the caller's sectors, all of them, if no earlier request   *)
(* was still at work when the data were copied into the data area.         *)
ServedWriteIsRight ==
  Served /\ op.kind = "out" /\ quiet =>
    \A i \in 1..op.count : disk[op.lba + i - 1] = Sector(op.vals[i])

(* In a build that looks at used.idx again, every request returns to its   *)
(* caller, but for one that completes when used.idx comes back to 0: the   *)
(* request of every 65536th operation hangs if the device has caught up.   *)
RequestReturns == (pc = "wait" /\ build.rereads) ~> (pc = Idle \/ HangsAtWrap)
==============================================================================
