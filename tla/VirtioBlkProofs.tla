--------------------------- MODULE VirtioBlkProofs ---------------------------
(***************************************************************************)
(* What a virtio-blk request moves once the device has served it, for any  *)
(* medium, any number of requests, and a device that is as late as it      *)
(* likes and fails what it likes.                                          *)
(***************************************************************************)
EXTENDS VirtioBlk, TLAPS

(* The variables the argument is about have their types. *)
SharedTypes ==
  /\ pc \in InitPc \cup RequestPc \cup EndPc \cup {Idle}
  /\ hdr \in Headers /\ data \in Area /\ chain \in Chains
  /\ avail \in Nat /\ used \in Nat /\ seen \in Nat
  /\ dev \in Requests \cup {NoOp}
  /\ disk \in [0..(Capacity - 1) -> Sectors]
  /\ pc \in RequestPc => op \in Operations

(* A stopped device does nothing; otherwise it has fetched what it has     *)
(* completed and the request it is serving, and nothing unpublished.       *)
Counted ==
  /\ pc = "stopped" => ~queue_on
  /\ pc # "stopped" =>
       seen <= avail /\ seen = used + (IF dev = NoOp THEN 0 ELSE 1)

(* The request of the caller is in the shared memory and published. *)
Asked == pc \in {"notify", "wait", "copy"}

ChainOf(o) ==
  [dir |-> IF o.kind = "in" THEN "device_writes" ELSE "device_reads", count |-> o.count]

Written ==
  /\ pc \in {"chain", "notify", "wait", "copy"} => hdr = [kind |-> op.kind, lba |-> op.lba]
  /\ Asked => chain = ChainOf(op)

(* The device is at work on the request of the caller, the one published   *)
(* last, and not on an earlier one.                                        *)
AtWork == Asked /\ dev # NoOp /\ seen = avail

(* It has fetched what the caller asked for, and moved part of it. *)
Fetched ==
  /\ AtWork => dev.hdr = hdr /\ dev.chain = chain
  /\ dev # NoOp => dev.moved <= dev.chain.count /\ (dev.moved > 0 => Servable(dev))

ReadMoved ==
  AtWork /\ op.kind = "in" =>
    \A i \in 1..dev.moved : data[i] = disk[op.lba + i - 1]

(* The request of the caller is completed, with success. *)
Completed == Asked /\ used = avail /\ last = "OK"

ReadServed ==
  Completed /\ op.kind = "in" =>
    \A i \in 1..op.count :
      data[i] = IF i = 2 THEN [disk[op.lba + 1] EXCEPT !.first = "OK"]
                ELSE disk[op.lba + i - 1]

(* A write that began with nothing outstanding: its data stay in the data  *)
(* area until it is completed.                                             *)
Alone == quiet /\ pc \in RequestPc /\ op.kind = "out"

WriteHeld ==
  Alone =>
    /\ pc \in {"header", "chain"} => used = avail
    /\ Asked => avail <= used + 1
    /\ (Asked => used # avail) =>
         \A i \in 1..op.count : data[i] = Sector(op.vals[i])

WriteMoved ==
  Alone /\ AtWork =>
    \A i \in 1..dev.moved : disk[op.lba + i - 1] = Sector(op.vals[i])

WriteServed ==
  Alone /\ Completed =>
    \A i \in 1..op.count : disk[op.lba + i - 1] = Sector(op.vals[i])

ServeInv ==
  /\ SharedTypes /\ Counted /\ Written /\ Fetched
  /\ ReadMoved /\ ReadServed
  /\ WriteHeld /\ WriteMoved /\ WriteServed

-----------------------------------------------------------------------------
(* The operations, and the sectors of a request. *)
LEMMA OperationFacts ==
  /\ \A l \in Lbas, n \in Counts :
       ReadOp(l, n) \in Operations /\ ReadOp(l, n).kind = "in"
  /\ \A l \in Lbas, vs \in Buffers :
       /\ WriteOp(l, vs) \in Operations
       /\ WriteOp(l, vs).kind = "out" /\ WriteOp(l, vs).vals = vs
       /\ WriteOp(l, vs).count = Len(vs) /\ Len(vs) \in Counts
       /\ \A i \in 1..Len(vs) : vs[i] \in Values
  /\ \A o \in Operations : o.kind \in {"in", "out"} /\ o.lba \in Lbas /\ o.count \in Counts
<1>1. ASSUME NEW vs \in Buffers
      PROVE  Len(vs) \in Counts /\ \A i \in 1..Len(vs) : vs[i] \in Values
  <2>1. PICK n \in Counts : vs \in [1..n -> Values]
    BY DEF Buffers
  <2>2. n \in Nat
    BY MaxSectorsAssumption DEF Counts
  <2>3. vs \in Seq(Values) /\ Len(vs) = n
    BY <2>1, <2>2
  <2> QED BY <2>1, <2>3
<1>2. \A l \in Lbas, n \in Counts :
        ReadOp(l, n) \in Operations /\ ReadOp(l, n).kind = "in"
  BY DEF Operations, ReadOp
<1>3. \A l \in Lbas, vs \in Buffers :
        /\ WriteOp(l, vs) \in Operations
        /\ WriteOp(l, vs).kind = "out" /\ WriteOp(l, vs).vals = vs
        /\ WriteOp(l, vs).count = Len(vs)
  BY DEF Operations, WriteOp
<1>4. ASSUME NEW o \in Operations
      PROVE  o.kind \in {"in", "out"} /\ o.lba \in Lbas /\ o.count \in Counts
  <2>1. CASE \E l \in Lbas, n \in Counts : o = ReadOp(l, n)
    BY <2>1 DEF ReadOp
  <2>2. CASE \E l \in Lbas, vs \in Buffers : o = WriteOp(l, vs)
    BY <2>2, <1>1 DEF WriteOp
  <2> QED BY <2>1, <2>2 DEF Operations
<1> QED BY <1>1, <1>2, <1>3, <1>4

(* Sectors, counts and block numbers. *)
LEMMA SectorFacts ==
  /\ \A v \in Values : Sector(v) \in Sectors
  /\ \A s \in Sectors, verdict \in Verdicts : [s EXCEPT !.first = verdict] \in Sectors
  /\ 2 \in Counts /\ Counts \subseteq Nat /\ Lbas \subseteq Nat
  /\ \A n \in Counts : \A i \in 1..n : i \in Counts
<1>1. \A v \in Values : Sector(v) \in Sectors
  BY DEF Sector, Sectors
<1>2. \A s \in Sectors, verdict \in Verdicts : [s EXCEPT !.first = verdict] \in Sectors
  BY DEF Sectors
<1>3. 2 \in Counts /\ Counts \subseteq Nat /\ Lbas \subseteq Nat
      /\ \A n \in Counts : \A i \in 1..n : i \in Counts
  BY MaxSectorsAssumption, CapacityAssumption DEF Counts, Lbas
<1> QED BY <1>1, <1>2, <1>3

(* The initial state has no request. *)
LEMMA ServeInit == Init => ServeInv
<1> SUFFICES ASSUME Init PROVE ServeInv
  OBVIOUS
<1>1. data \in Area
  BY SectorFacts DEF Init, Area
<1>2. disk \in [0..(Capacity - 1) -> Sectors]
  BY SectorFacts DEF Init
<1>3. hdr \in Headers /\ chain \in Chains
  BY CapacityAssumption, MaxSectorsAssumption DEF Init, Headers, Chains, Lbas, Counts
<1>4. SharedTypes
  BY <1>1, <1>2, <1>3 DEF Init, SharedTypes, InitPc, RequestPc
<1> QED
  BY <1>4 DEF Init, ServeInv, Counted, Written, Fetched, ReadMoved, ReadServed, Asked,
     AtWork, Completed, WriteHeld, WriteMoved, WriteServed, Alone, RequestPc

(* A step that ends, or does not touch, a request: what the invariant is   *)
(* about stays as it is.                                                   *)
LEMMA ServeAside ==
  ASSUME ServeInv,
         UNCHANGED <<hdr, data, avail, used, seen, disk, last>>, chain' \in Chains,
         \/ pc' \in InitPc \cup {"failed", Idle, "panic", "hung"} /\ pc # "stopped" /\ dev' = dev
         \/ pc' = "stopped" /\ ~queue_on' /\ dev' = NoOp
  PROVE  ServeInv'
<1>1. pc' \notin RequestPc /\ ~Asked'
  BY DEF InitPc, RequestPc, Idle, Asked
<1>2. SharedTypes'
  BY <1>1 DEF ServeInv, SharedTypes, EndPc
<1>3. Counted'
  BY DEF ServeInv, Counted, InitPc, Idle
<1>4. Written' /\ Fetched' /\ ReadMoved' /\ ReadServed'
  BY <1>1 DEF ServeInv, Written, Fetched, AtWork, ReadMoved, ReadServed, Completed,
     Servable, RequestPc
<1> QED
  BY <1>1, <1>2, <1>3, <1>4 DEF ServeInv, WriteHeld, WriteMoved, WriteServed, Alone

LEMMA ServeInitDevice ==
  ASSUME ServeInv, InitDevice
  PROVE  ServeInv'
<1>1. /\ UNCHANGED <<hdr, data, chain, avail, used, seen, disk, last, dev>>
      /\ pc # "stopped"
      /\ pc' \in InitPc \cup {Idle, "failed"}
  BY DEF InitDevice, InitStep, InitNegotiate, InitQueueSize, InitAlloc, InitZero,
         InitEnable, InitDriverOk, InitPc, devVars
<1>2. chain' \in Chains
  BY <1>1 DEF ServeInv, SharedTypes
<1> QED BY <1>1, <1>2, ServeAside

(* An operation begins: a write puts its data into the data area. *)
LEMMA ServeBegin ==
  ASSUME ServeInv, NEW l \in Lbas,
         \/ \E vs \in Buffers : BeginWrite(l, vs)
         \/ \E n \in Counts : BeginRead(l, n)
  PROVE  ServeInv'
<1>t. SharedTypes /\ Counted /\ Fetched
  BY DEF ServeInv
<1>1. /\ pc = Idle /\ pc' = "header" /\ quiet' = (used = avail)
      /\ UNCHANGED <<hdr, chain, avail, used, seen, disk, last, dev>>
  BY DEF BeginRead, BeginWrite, Begin, devVars
<1>2. /\ op' \in Operations /\ data' \in Area
      /\ op'.kind = "out" => \A i \in 1..op'.count : data'[i] = Sector(op'.vals[i])
  <2>1. ASSUME NEW n \in Counts, BeginRead(l, n)
        PROVE  op' \in Operations /\ data' \in Area /\ op'.kind = "in"
    BY <2>1, <1>t, OperationFacts DEF BeginRead, Begin, SharedTypes
  <2>2. ASSUME NEW vs \in Buffers, BeginWrite(l, vs)
        PROVE  /\ op' \in Operations /\ data' \in Area
               /\ \A i \in 1..op'.count : data'[i] = Sector(op'.vals[i])
    <3>1. /\ op' = WriteOp(l, vs)
          /\ data' = [i \in Counts |-> IF i <= Len(vs) THEN Sector(vs[i]) ELSE data[i]]
      BY <2>2 DEF BeginWrite, Begin
    <3>2. /\ op' \in Operations /\ op'.count = Len(vs) /\ op'.vals = vs
          /\ Len(vs) \in Counts /\ \A i \in 1..Len(vs) : vs[i] \in Values
      BY <3>1, OperationFacts
    <3>3. \A i \in 1..Len(vs) : data'[i] = Sector(vs[i])
      BY <3>1, <3>2, SectorFacts
    <3>4. \A i \in Counts : i <= Len(vs) => vs[i] \in Values
      BY <3>2, SectorFacts DEF Counts
    <3>5. data' \in Area
      BY <3>1, <3>4, <1>t, SectorFacts DEF Area, SharedTypes
    <3> QED BY <3>2, <3>3, <3>5
  <2> QED BY <2>1, <2>2
<1>3. ~Asked' /\ pc' \in RequestPc /\ pc # "stopped" /\ pc' # "stopped"
  BY <1>1 DEF Asked, RequestPc, Idle
<1>4. SharedTypes'
  BY <1>t, <1>1, <1>2 DEF SharedTypes, RequestPc
<1>5. Counted'
  BY <1>t, <1>1, <1>3 DEF Counted
<1>6. Written' /\ Fetched' /\ ReadMoved' /\ ReadServed' /\ WriteMoved' /\ WriteServed'
  BY <1>t, <1>1, <1>3 DEF Written, Fetched, AtWork, ReadMoved, ReadServed, WriteMoved,
     WriteServed, Completed, Servable
<1>7. WriteHeld'
  BY <1>1, <1>2, <1>3 DEF WriteHeld, Alone
<1> QED BY <1>4, <1>5, <1>6, <1>7 DEF ServeInv

(* The header is written, the chain is published, and the driver waits. *)
LEMMA ServeSubmit ==
  ASSUME ServeInv, WriteHeader \/ SetupChain \/ Notify \/ WaitUsed
  PROVE  ServeInv'
<1>t. SharedTypes /\ Counted /\ Written /\ Fetched /\ ReadMoved /\ ReadServed
      /\ WriteHeld /\ WriteMoved /\ WriteServed
  BY DEF ServeInv
<1>o. pc \in RequestPc /\ op \in Operations /\ pc # "stopped"
  BY <1>t DEF WriteHeader, SetupChain, Notify, WaitUsed, RequestPc, SharedTypes
<1>1. CASE WriteHeader
  <2>1. /\ pc = "header" /\ pc' = "chain" /\ hdr' = [kind |-> op.kind, lba |-> op.lba]
        /\ UNCHANGED <<data, chain, avail, used, seen, disk, last, dev, op, quiet>>
    BY <1>1 DEF WriteHeader, devVars, callVars
  <2>2. SharedTypes'
    BY <1>t, <1>o, <2>1, OperationFacts DEF SharedTypes, RequestPc, Headers
  <2>3. ~Asked /\ ~Asked'
    BY <2>1 DEF Asked
  <2>4. Counted' /\ Written'
    BY <1>t, <2>1, <2>3 DEF Counted, Written
  <2>5. Fetched' /\ ReadMoved' /\ ReadServed' /\ WriteMoved' /\ WriteServed'
    BY <1>t, <2>1, <2>3 DEF Fetched, AtWork, ReadMoved, ReadServed, Completed, WriteMoved,
       WriteServed, Servable
  <2>6. WriteHeld'
    BY <1>t, <2>1, <2>3 DEF WriteHeld, Alone, RequestPc
  <2> QED BY <2>2, <2>4, <2>5, <2>6 DEF ServeInv
<1>2. CASE SetupChain
  <2>0. CASE pc' = "panic"
    <3>0. chain' \in Chains
      BY <1>2, <1>o, OperationFacts DEF SetupChain, Chains
    <3>1. pc # "stopped" /\ UNCHANGED <<hdr, data, avail, used, seen, disk, last, dev>>
      BY <1>2, <1>o, <2>0 DEF SetupChain, devVars
    <3> QED BY <2>0, <3>0, <3>1, ServeAside
  <2>1. CASE pc' = "notify"
    <3>1. /\ pc = "chain" /\ chain' = ChainOf(op) /\ avail' = avail + 1
          /\ UNCHANGED <<hdr, data, used, seen, disk, last, dev, op, quiet>>
      BY <1>2, <2>1 DEF SetupChain, ChainOf, devVars, callVars
    <3>2. chain' \in Chains
      BY <3>1, <1>o, OperationFacts DEF ChainOf, Chains
    <3>3. SharedTypes'
      BY <1>t, <1>o, <2>1, <3>1, <3>2 DEF SharedTypes, RequestPc
    <3>4. ~Asked /\ Asked' /\ pc' # "stopped"
      BY <2>1, <3>1 DEF Asked
    <3>5. seen <= avail /\ used <= seen /\ seen \in Nat /\ used \in Nat /\ avail \in Nat
      BY <1>t, <1>o DEF Counted, SharedTypes
    <3>6. Counted' /\ ~AtWork' /\ ~Completed'
      BY <1>t, <1>o, <3>1, <3>4, <3>5 DEF Counted, AtWork, Completed
    <3>7. Written'
      BY <1>t, <2>1, <3>1, <3>4 DEF Written
    <3>8. Fetched' /\ ReadMoved' /\ ReadServed' /\ WriteMoved' /\ WriteServed'
      BY <1>t, <3>1, <3>6 DEF Fetched, ReadMoved, ReadServed, WriteMoved, WriteServed, Servable
    <3>9. WriteHeld'
      BY <1>t, <1>o, <2>1, <3>1, <3>4, <3>5 DEF WriteHeld, Alone
    <3> QED BY <3>3, <3>6, <3>7, <3>8, <3>9 DEF ServeInv
  <2> QED BY <1>2, <2>0, <2>1 DEF SetupChain
<1>3. CASE Notify \/ WaitUsed
  <2>1. /\ Asked /\ Asked' /\ pc' \in RequestPc /\ pc' # "stopped"
        /\ UNCHANGED <<hdr, data, chain, avail, used, seen, disk, last, dev, op, quiet>>
    BY <1>3 DEF Notify, WaitUsed, Asked, RequestPc, devVars, callVars
  <2>2. SharedTypes' /\ Counted' /\ Written' /\ Fetched'
    BY <1>t, <1>o, <2>1 DEF SharedTypes, Counted, Written, Fetched, AtWork, Asked, Servable
  <2>3. ReadMoved' /\ ReadServed'
    BY <1>t, <1>o, <2>1 DEF ReadMoved, ReadServed, AtWork, Completed
  <2>4. WriteHeld' /\ WriteMoved' /\ WriteServed'
    BY <1>t, <1>o, <2>1 DEF WriteHeld, WriteMoved, WriteServed, AtWork, Completed, Alone, Asked
  <2> QED BY <2>2, <2>3, <2>4 DEF ServeInv
<1> QED BY <1>1, <1>2, <1>3

(* The driver returns, hangs, or is stopped. *)
LEMMA ServeEnd ==
  ASSUME ServeInv, WaitForever \/ Return \/ Stop
  PROVE  ServeInv'
<1>1. chain' \in Chains
  BY DEF ServeInv, SharedTypes, WaitForever, Return, Stop
<1> QED BY <1>1, ServeAside DEF WaitForever, Return, Stop, devVars, Idle

(* The device fetches a request: the one of the caller, if it is the last  *)
(* one published.                                                          *)
LEMMA ServeFetch ==
  ASSUME ServeInv, DeviceFetch
  PROVE  ServeInv'
<1>t. SharedTypes /\ Counted /\ Written /\ Fetched /\ ReadServed
      /\ WriteHeld /\ WriteServed
  BY DEF ServeInv
<1>1. /\ dev = NoOp /\ queue_on /\ seen % IdxModulus # avail % IdxModulus
      /\ dev' = [hdr |-> hdr, chain |-> chain, moved |-> 0] /\ seen' = seen + 1
      /\ UNCHANGED <<pc, hdr, data, chain, avail, used, disk, last, op, quiet, queue_on>>
  BY DEF DeviceFetch, Live, callVars, initVars
<1>2. dev' \in Requests /\ dev' # NoOp
  BY <1>1, <1>t, NoOpAssumption, MaxSectorsAssumption DEF SharedTypes, Requests
<1>3. pc # "stopped" /\ seen # avail
  BY <1>1, <1>t DEF Counted
<1>4. SharedTypes'
  BY <1>t, <1>1, <1>2 DEF SharedTypes
<1>5. Counted'
  BY <1>t, <1>1, <1>2, <1>3 DEF Counted, SharedTypes
<1>6. dev'.hdr = hdr /\ dev'.chain = chain /\ dev'.moved = 0 /\ dev'.chain.count \in Nat
  BY <1>1, <1>t, SectorFacts DEF SharedTypes, Chains
<1>7. Written' /\ Fetched'
  BY <1>t, <1>1, <1>6 DEF Written, Asked, Fetched
<1>8. ReadMoved' /\ WriteMoved'
  BY <1>6 DEF ReadMoved, WriteMoved
<1>9. ReadServed' /\ WriteServed' /\ WriteHeld'
  BY <1>t, <1>1 DEF ReadServed, WriteServed, WriteHeld, Completed, Alone, Asked
<1> QED BY <1>4, <1>5, <1>7, <1>8, <1>9 DEF ServeInv

(* The device moves a sector: into the data area for a read, out of it for *)
(* a write.                                                                *)
LEMMA ServeMove ==
  ASSUME ServeInv, DeviceMove
  PROVE  ServeInv'
<1>t. SharedTypes /\ Counted /\ Written /\ Fetched /\ ReadMoved
      /\ WriteHeld /\ WriteMoved
  BY DEF ServeInv
<1> DEFINE i == dev.moved + 1
           l == dev.hdr.lba + dev.moved
<1>1. /\ dev # NoOp /\ queue_on /\ Servable(dev) /\ dev.moved < dev.chain.count
      /\ dev' = [dev EXCEPT !.moved = @ + 1]
      /\ UNCHANGED <<pc, hdr, chain, avail, used, seen, last, op, quiet, queue_on>>
  BY DEF DeviceMove, Live, callVars, initVars
<1>2. \/ dev.hdr.kind = "in" /\ data' = [data EXCEPT ![i] = disk[l]] /\ disk' = disk
      \/ dev.hdr.kind # "in" /\ disk' = [disk EXCEPT ![l] = data[i]] /\ data' = data
  BY DEF DeviceMove
<1>3. /\ dev \in Requests /\ dev.hdr \in Headers /\ dev.chain \in Chains
      /\ dev.moved \in 0..MaxSectors
  BY <1>1, <1>t DEF SharedTypes, Requests
<1>4. /\ dev.hdr.lba \in Nat /\ dev.chain.count \in Nat /\ dev.chain.count <= MaxSectors
      /\ dev.moved \in Nat /\ MaxSectors \in Nat
  BY <1>3, MaxSectorsAssumption, CapacityAssumption DEF Headers, Chains, Lbas, Counts
<1>5. i \in Counts /\ l \in 0..(Capacity - 1)
  BY <1>1, <1>4, CapacityAssumption DEF Servable, Counts
<1>6. /\ dev'.hdr = dev.hdr /\ dev'.chain = dev.chain /\ dev'.moved = i
      /\ dev' \in Requests /\ dev' # NoOp
  <2>1. dev'.hdr = dev.hdr /\ dev'.chain = dev.chain /\ dev'.moved = i
    BY <1>1, <1>3 DEF Requests
  <2>2. i \in 0..MaxSectors
    BY <1>5, <1>4 DEF Counts
  <2>3. dev' \in Requests
    BY <1>1, <1>3, <2>2 DEF Requests
  <2> QED BY <2>1, <2>3, NoOpAssumption
<1>7. data' \in Area /\ disk' \in [0..(Capacity - 1) -> Sectors]
  BY <1>2, <1>5, <1>t DEF SharedTypes, Area
<1>8. SharedTypes'
  BY <1>t, <1>1, <1>6, <1>7 DEF SharedTypes
<1>9. Counted' /\ Written'
  BY <1>t, <1>1, <1>6 DEF Counted, Written, Asked
<1>10. Fetched'
  BY <1>t, <1>1, <1>4, <1>6 DEF Fetched, AtWork, Asked, Servable
<1>11. ~Completed' /\ ~Completed /\ used # avail
  <2>1. used < avail /\ used \in Nat /\ avail \in Nat
    BY <1>1, <1>t DEF Counted, SharedTypes
  <2> QED BY <2>1, <1>1 DEF Completed, Asked
<1>12. AtWork' => AtWork /\ dev.hdr.kind = op.kind /\ dev.hdr.lba = op.lba
                  /\ dev.chain.count = op.count /\ op \in Operations
  BY <1>t, <1>1, <1>6 DEF AtWork, Asked, Fetched, Written, ChainOf, SharedTypes, RequestPc
<1>13. ReadMoved'
  <2> SUFFICES ASSUME AtWork', op.kind = "in", NEW j \in 1..i
               PROVE  data'[j] = disk'[op.lba + j - 1]
    BY <1>1, <1>6 DEF ReadMoved
  <2>1. data' = [data EXCEPT ![i] = disk[l]] /\ disk' = disk
    BY <1>2, <1>12
  <2>2. j \in Counts /\ op.lba = dev.hdr.lba
    BY <1>4, <1>5, <1>12, SectorFacts DEF Counts
  <2>3. CASE j = i
    <3>1. op.lba + j - 1 = l
      BY <1>4, <2>2, <2>3
    <3> QED BY <2>1, <2>2, <2>3, <3>1, <1>t DEF SharedTypes, Area
  <2>4. CASE j # i
    <3>1. j \in 1..dev.moved
      BY <1>4, <2>4
    <3>2. data[j] = disk[op.lba + j - 1]
      BY <3>1, <1>12, <1>t DEF ReadMoved
    <3> QED BY <2>1, <2>2, <2>4, <3>2, <1>t DEF SharedTypes, Area
  <2> QED BY <2>3, <2>4
<1>14. Alone => AtWork
  <2> SUFFICES ASSUME Alone PROVE AtWork
    OBVIOUS
  <2>1. pc \in RequestPc /\ used < avail /\ seen = used + 1 /\ used \in Nat /\ avail \in Nat
    BY <1>1, <1>t DEF Alone, Counted, SharedTypes, RequestPc
  <2>2. Asked
    BY <1>t, <2>1 DEF WriteHeld, Asked, RequestPc
  <2>3. avail <= used + 1
    BY <1>t, <2>2 DEF WriteHeld
  <2> QED BY <2>1, <2>2, <2>3, <1>1 DEF AtWork
<1>15. Alone' => /\ Alone /\ AtWork /\ AtWork' /\ data' = data
                 /\ disk' = [disk EXCEPT ![l] = data[i]]
                 /\ \A j \in 1..op.count : data[j] = Sector(op.vals[j])
  <2>1. SUFFICES ASSUME Alone' PROVE /\ Alone /\ AtWork /\ AtWork' /\ data' = data
                 /\ disk' = [disk EXCEPT ![l] = data[i]]
                 /\ \A j \in 1..op.count : data[j] = Sector(op.vals[j])
    OBVIOUS
  <2>2. Alone /\ AtWork /\ AtWork'
    BY <2>1, <1>1, <1>6, <1>14 DEF Alone, AtWork, Asked
  <2>3. dev.hdr.kind = "out"
    BY <2>2, <1>12 DEF Alone
  <2> QED BY <1>2, <2>2, <2>3, <1>11, <1>t DEF WriteHeld
<1>16. WriteHeld'
  BY <1>1, <1>15, <1>t DEF WriteHeld, Asked
<1>17. WriteMoved'
  <2> SUFFICES ASSUME Alone', AtWork', NEW j \in 1..i
               PROVE  disk'[op.lba + j - 1] = Sector(op.vals[j])
    BY <1>1, <1>6 DEF WriteMoved
  <2>2. j \in 1..op.count /\ op.lba = dev.hdr.lba
    BY <1>1, <1>4, <1>12
  <2>3. CASE j = i
    <3>1. op.lba + j - 1 = l
      BY <1>4, <2>2, <2>3
    <3> QED BY <1>15, <2>2, <2>3, <3>1, <1>5, <1>t DEF SharedTypes
  <2>4. CASE j # i
    <3>1. j \in 1..dev.moved
      BY <1>4, <2>4
    <3>2. disk[op.lba + j - 1] = Sector(op.vals[j])
      BY <3>1, <1>15, <1>t DEF WriteMoved
    <3>3. op.lba + j - 1 \in 0..(Capacity - 1) /\ op.lba + j - 1 # l
      <4>1. j \in Nat /\ j >= 1 /\ j <= dev.moved
        BY <3>1, <1>4
      <4>2. op.lba \in Nat /\ l = op.lba + dev.moved /\ l <= Capacity - 1 /\ Capacity \in Nat
        BY <1>4, <1>5, <2>2, CapacityAssumption
      <4> HIDE DEF l
      <4> QED BY ONLY <4>1, <4>2, <1>4
    <3> QED BY <1>15, <3>2, <3>3, <1>t DEF SharedTypes
  <2> QED BY <2>3, <2>4
<1>18. ReadServed' /\ WriteServed'
  BY <1>11 DEF ReadServed, WriteServed
<1> QED BY <1>8, <1>9, <1>10, <1>13, <1>16, <1>17, <1>18 DEF ServeInv

(* The device completes a request and stores its status. *)
LEMMA ServeComplete ==
  ASSUME ServeInv, NEW verdict \in Verdicts, DeviceComplete(verdict)
  PROVE  ServeInv'
<1>t. SharedTypes /\ Counted /\ Written /\ Fetched /\ ReadMoved
      /\ WriteHeld /\ WriteMoved
  BY DEF ServeInv
<1>1. /\ dev # NoOp /\ queue_on /\ dev' = NoOp /\ used' = used + 1 /\ last' = verdict
      /\ verdict = "OK" => Servable(dev) /\ dev.moved = dev.chain.count
      /\ data' = [data EXCEPT ![2].first = verdict]
      /\ UNCHANGED <<pc, hdr, chain, avail, seen, disk, op, quiet, queue_on>>
  BY DEF DeviceComplete, Live, callVars, initVars
<1>2. /\ 2 \in Counts /\ data \in [Counts -> Sectors] /\ data[2] \in Sectors
      /\ data' = [data EXCEPT ![2] = [data[2] EXCEPT !.first = verdict]]
  BY <1>1, <1>t, SectorFacts DEF SharedTypes, Area
<1>3. data' \in Area
  BY <1>2, SectorFacts DEF Area
<1>4. SharedTypes'
  BY <1>t, <1>1, <1>3 DEF SharedTypes
<1>5. seen = used + 1 /\ seen <= avail /\ used \in Nat /\ avail \in Nat /\ seen \in Nat
  BY <1>1, <1>t DEF Counted, SharedTypes
<1>6. Counted' /\ Written' /\ Fetched' /\ ReadMoved' /\ WriteMoved'
  BY <1>t, <1>1, <1>5 DEF Counted, Written, Asked, Fetched, AtWork, ReadMoved, WriteMoved
<1>7. Completed' => /\ AtWork /\ dev.moved = op.count /\ op \in Operations
                    /\ verdict = "OK" /\ op.lba \in Nat /\ op.count \in Counts
  <2> SUFFICES ASSUME Completed'
               PROVE  /\ AtWork /\ dev.moved = op.count /\ op \in Operations
                      /\ verdict = "OK" /\ op.lba \in Nat /\ op.count \in Counts
    OBVIOUS
  <2>1. AtWork /\ verdict = "OK"
    BY <1>1, <1>5 DEF Completed, Asked, AtWork
  <2>2. op \in Operations
    BY <2>1, <1>t DEF AtWork, Asked, SharedTypes, RequestPc
  <2>3. dev.moved = op.count
    BY <2>1, <1>1, <1>t DEF Fetched, Written, AtWork, ChainOf
  <2> QED BY <2>1, <2>2, <2>3, OperationFacts, SectorFacts
<1>8. ReadServed'
  <2> SUFFICES ASSUME Completed', op.kind = "in", NEW i \in 1..op.count
               PROVE  data'[i] = IF i = 2 THEN [disk[op.lba + 1] EXCEPT !.first = "OK"]
                                 ELSE disk[op.lba + i - 1]
    BY <1>1 DEF ReadServed
  <2>1. data[i] = disk[op.lba + i - 1] /\ i \in Counts
    BY <1>7, <1>t, SectorFacts DEF ReadMoved
  <2>2. CASE i = 2
    <3>1. op.lba + i - 1 = op.lba + 1
      BY <1>7, <2>2
    <3> QED BY <1>2, <1>7, <2>1, <2>2, <3>1
  <2>3. CASE i # 2
    BY <1>2, <2>1, <2>3
  <2> QED BY <2>2, <2>3
<1>9. WriteServed'
  BY <1>1, <1>7, <1>t DEF WriteServed, WriteMoved, Alone
<1>10. WriteHeld'
  <2> SUFFICES ASSUME Alone' PROVE WriteHeld'
    BY DEF WriteHeld
  <2>1. Alone /\ pc \in RequestPc
    BY <1>1 DEF Alone
  <2>2. Asked
    BY <2>1, <1>5, <1>t DEF WriteHeld, Asked, RequestPc
  <2>3. avail <= used + 1
    BY <2>1, <2>2, <1>t DEF WriteHeld
  <2>4. used' = avail'
    BY <2>3, <1>1, <1>5
  <2>5. Asked' /\ pc' \notin {"header", "chain"}
    BY <2>2, <1>1 DEF Asked
  <2>6. avail' <= used' + 1
    <3>1. avail' = avail /\ used' = avail /\ avail \in Nat
      BY <1>1, <1>5, <2>4
    <3>2. avail <= avail + 1
      BY <3>1
    <3> QED BY <3>1, <3>2
  <2>7. ~(Asked' => used' # avail')
    BY <2>4, <2>5
  <2>8. /\ pc' \in {"header", "chain"} => used' = avail'
        /\ Asked' => avail' <= used' + 1
        /\ (Asked' => used' # avail') =>
             \A i \in 1..op'.count : data'[i] = Sector(op'.vals[i])
    BY <2>4, <2>6, <2>7, Zenon
  <2> QED BY <2>8 DEF WriteHeld
<1> QED BY <1>4, <1>6, <1>8, <1>9, <1>10 DEF ServeInv

(* Every step keeps the invariant. *)
LEMMA ServeStep == ServeInv /\ [Next]_vars => ServeInv'
<1> SUFFICES ASSUME ServeInv, [Next]_vars PROVE ServeInv'
  OBVIOUS
<1>1. CASE UNCHANGED vars
  BY <1>1 DEF vars, initVars, devVars, callVars, ServeInv, SharedTypes, Counted, Written,
     Fetched, AtWork, Asked, ReadMoved, ReadServed, Completed, WriteHeld, WriteMoved,
     WriteServed, Alone, Servable
<1>2. CASE Done
  BY <1>1, <1>2 DEF Done
<1> QED
  BY <1>1, <1>2, ServeInitDevice, ServeBegin, ServeSubmit, ServeEnd, ServeFetch, ServeMove,
     ServeComplete DEF Next, Driver, Device

LEMMA ServeAlways == FairSpec => []ServeInv
BY ServeInit, ServeStep, PTL DEF FairSpec, Spec

(* read_sectors copies out the sectors it asked for, with the status byte  *)
(* at byte 512, whenever the device has served its request by then.        *)
THEOREM VirtioServedRead == FairSpec => []ServedReadIsRight
<1>1. ServeInv => ServedReadIsRight
  BY DEF ServeInv, ReadServed, Completed, Asked, ServedReadIsRight, Served
<1> QED BY <1>1, ServeAlways, PTL

(* A write_sectors that the device has served by the time it returns is on *)
(* the medium, if nothing was outstanding when it began.                   *)
THEOREM VirtioServedWrite == FairSpec => []ServedWriteIsRight
<1>1. ServeInv => ServedWriteIsRight
  BY DEF ServeInv, WriteServed, Completed, Alone, Asked, ServedWriteIsRight, Served, RequestPc
<1> QED BY <1>1, ServeAlways, PTL
==============================================================================
