------------------------------ MODULE Drivers ------------------------------
(***************************************************************************)
(* From the memory map to block devices: the bring-up of installer/src and *)
(* of kernel/src (heap, DMA, PCI, drivers), the device registry, the       *)
(* driver registry and the calls a kernel may make on them afterwards.     *)
(* One thread of control; the hardware keeps using the memory it was told  *)
(* about until it is stopped or told about other memory.                   *)
(*                                                                         *)
(* A PCI function stands for its address, and so for its name: the name    *)
(* "pci:bb:dd.f" prints the whole address.                                 *)
(***************************************************************************)
EXTENDS FrameAlloc

CONSTANTS
  Bus,          \* the functions that answer, in the order enumerate meets them
  Info,         \* function -> [id, class]: vendor and device id, class and subclass
  Attached,     \* function -> its ports with a disk, in order
  HeapPages,    \* HEAP_SIZE in pages
  MaxTables,    \* bound: page tables that mapping the heap takes
  DmaSize,      \* 4096, the size of every DMA request
  MaxId,        \* bound on device ids
  MaxNext       \* bound on the frame cursor

Functions == {Bus[i] : i \in 1..Len(Bus)}
Ports == UNION {{Attached[f][i] : i \in 1..Len(Attached[f])} : f \in Functions}

\* enumerate meets each address once, and the walk over the ports each port;
\* what stands for the port of a virtio-blk function is the device itself.
ASSUME BusAssumption ==
  /\ Bus \in Seq(Functions) /\ \A i, j \in 1..Len(Bus) : Bus[i] = Bus[j] => i = j
  /\ \A f \in Functions :
       /\ Attached[f] \in Seq(Ports)
       /\ \A i, j \in 1..Len(Attached[f]) : Attached[f][i] = Attached[f][j] => i = j
       /\ Info[f].id = "virtio-blk" => Attached[f] # << >>
  /\ HeapPages \in Nat /\ MaxTables \in Nat /\ MaxId \in Nat /\ MaxNext \in Nat
  /\ DmaSize \in Nat \ {0}

VARIABLES
  pc,           \* stage of the bring-up; "up" when it is over
  kernel,       \* frames of the heap and of page tables
  devices,      \* DeviceRegistry.devices: id -> function
  name_index,   \* DeviceRegistry.name_index: function (its name) -> id
  next_id,      \* NEXT_ID
  drivers,      \* DriverRegistry.drivers
  bindings,     \* DriverRegistry.bindings: id -> [function, driver, disks]
  todo,         \* bind_all: devices still to be tried
  scan,         \* for_each_block: pointers still to be used
  taken,        \* block devices handed over to callers
  rebound,      \* history: functions bound again while disks of theirs were in use
  engine        \* hardware: function -> port -> frames it may read and write

registries == <<devices, name_index, next_id, drivers>>
vars == <<memory_map, next, pc, kernel, registries, bindings, todo, scan, taken, rebound,
          engine>>

Empty == [x \in {} |-> x]
Without(fn, keys) == [x \in DOMAIN fn \ keys |-> fn[x]]
With(fn, more) ==
  [x \in DOMAIN fn \cup DOMAIN more |-> IF x \in DOMAIN more THEN more[x] ELSE fn[x]]

Init ==
  /\ memory_map = <<>> /\ next = 0 /\ pc = "start" /\ kernel = {}
  /\ devices = Empty /\ name_index = Empty /\ next_id = 1
  /\ drivers = <<>> /\ bindings = Empty /\ todo = <<>> /\ scan = <<>> /\ taken = {}
  /\ rebound = {}
  /\ engine = [f \in Functions |-> [p \in Ports |-> {}]]

InitFrames ==
  /\ pc = "start" /\ pc' = "memory"
  /\ \E raw \in MemoryMaps : memory_map' = Regions(raw)
  /\ UNCHANGED <<next, kernel, registries, bindings, todo, scan, taken, rebound, engine>>

(***************************************************************************)
(* init_heap: a frame for each page, and what the page tables need.        *)
(***************************************************************************)
InitHeap ==
  /\ pc = "memory"
  /\ \E tables \in 0..MaxTables :
       LET n == HeapPages + tables IN
       /\ next' = CursorAfter(next, n)
       /\ IF Enough(next, n)
          THEN kernel' = FramesFrom(next, n) /\ pc' = "pci"
          ELSE pc' = "panic" /\ UNCHANGED kernel
  /\ UNCHANGED <<registries, bindings, todo, scan, taken, rebound, engine>>

(***************************************************************************)
(* DeviceRegistry.  register refuses a name it knows, then takes an id.    *)
(***************************************************************************)
NewFunctions ==
  LET at == InOrder({i \in 1..Len(Bus) : Bus[i] \notin DOMAIN name_index})
  IN  [i \in 1..Len(at) |-> Bus[at[i]]]

Enumerate ==
  LET new == NewFunctions
      ids == next_id .. (next_id + Len(new) - 1)
  IN  /\ next_id + Len(new) <= MaxId + 1
      /\ devices' = With(devices, [i \in ids |-> new[i - next_id + 1]])
      /\ name_index' = With(name_index, [f \in {new[i] : i \in 1..Len(new)} |->
                                           CHOOSE i \in ids : new[i - next_id + 1] = f])
      /\ next_id' = next_id + Len(new)

PciInit ==
  /\ pc = "pci" /\ pc' = "drivers"
  /\ Enumerate
  /\ UNCHANGED <<next, kernel, drivers, bindings, todo, scan, taken, rebound, engine>>

IndexWithout(id) == Without(name_index, {devices[id]})

(***************************************************************************)
(* Block devices.  Memory a disk uses, and all that callers still hold.    *)
(***************************************************************************)
FramesOf(bufs) == UNION {Covered(bufs[i]) : i \in 1..Len(bufs)}
DiskOf(f, disk) == [function |-> f, port |-> disk.port, bufs |-> disk.bufs]
Disks ==
  (UNION {{DiskOf(bindings[id].function, bindings[id].disks[i]) : i \in 1..Len(bindings[id].disks)}
            : id \in DOMAIN bindings})
  \cup {DiskOf(t.function, t.disk) : t \in taken}

(***************************************************************************)
(* The two drivers' bind.  Both ask for four DMA buffers per disk, one     *)
(* after another; what was got before a request failed is not given back.  *)
(***************************************************************************)
Requests == 4
FramesPerDisk == Requests * Pages(DmaSize)
BuffersFrom(c) == [i \in 1..Requests |-> BufferAt(c + (i - 1) * Pages(DmaSize), DmaSize)]
Disk(p, c) == [port |-> p, bufs |-> BuffersFrom(c)]
Program(e, p, c) == [e EXCEPT ![p] = FramesOf(BuffersFrom(c))]
Off(e, p) == [e EXCEPT ![p] = {}]

\* VirtioBlkState::init. It resets the device before it can fail but for a
\* missing capability.
VirtioBind(f, outcome) ==
  LET e == engine[f]
      p == Attached[f][1]
      reset == [cursor |-> next, engine |-> Off(e, p), disks |-> <<>>]
  IN  CASE outcome = "missing" -> [cursor |-> next, engine |-> e, disks |-> <<>>]
        [] outcome = "refused" -> reset
        [] OTHER -> IF Enough(next, FramesPerDisk)
                    THEN [cursor |-> CursorAfter(next, FramesPerDisk),
                          engine |-> Program(e, p, next), disks |-> <<Disk(p, next)>>]
                    ELSE [reset EXCEPT !.cursor = CursorAfter(next, FramesPerDisk)]

\* PortState::init in the walk over the ports: the engine does not stop, there
\* is no memory, it does not start in time, or the port is usable. Clearing FRE
\* writes ST back, so that without memory an engine that ran may still run.
PortInitGivesBack(s, p, outcome) ==
  IF outcome = "missing" \/ ~Enough(s.cursor, FramesPerDisk) THEN s
  ELSE [cursor |-> IF outcome = "ok" THEN CursorAfter(s.cursor, FramesPerDisk) ELSE s.cursor,
        engine |-> Program(s.engine, p, s.cursor),
        disks |-> IF outcome = "ok" THEN Append(s.disks, Disk(p, s.cursor)) ELSE s.disks]
PortInit(s, p, outcome) ==
  IF outcome = "missing" THEN s
  ELSE LET c == CursorAfter(s.cursor, FramesPerDisk)
       IN  IF ~Enough(s.cursor, FramesPerDisk) THEN [s EXCEPT !.cursor = c]
           ELSE [cursor |-> c, engine |-> Program(s.engine, p, s.cursor),
                 disks |-> IF outcome = "ok" THEN Append(s.disks, Disk(p, s.cursor))
                           ELSE s.disks]

\* AhciState::init.
AhciBind(f, outcomes) ==
  LET walk[i \in 0..Len(Attached[f])] ==
        IF i = 0 THEN [cursor |-> next, engine |-> engine[f], disks |-> <<>>]
        ELSE PortInit(walk[i - 1], Attached[f][i], outcomes[i])
  IN  walk[Len(Attached[f])]

Outcomes(f) == [1..Len(Attached[f]) -> {"ok", "missing", "refused"}]

Bound(driver, f, outcomes) ==
  IF driver = "ahci" THEN AhciBind(f, outcomes) ELSE VirtioBind(f, outcomes[1])

(***************************************************************************)
(* DriverRegistry.                                                         *)
(***************************************************************************)
Priority(d) == 0
MatchesPci(d, f) ==
  \/ d = "virtio-blk" /\ Info[f].id = "virtio-blk"
  \/ d = "ahci" /\ Info[f].class = "sata"

\* find_driver: the first of the highest priority.
Matching(f) == {i \in 1..Len(drivers) : MatchesPci(drivers[i], f)}
FindDriver(f) ==
  LET best == {i \in Matching(f) :
                 \A j \in Matching(f) : Priority(drivers[j]) <= Priority(drivers[i])}
  IN  drivers[CHOOSE i \in best : \A j \in best : i <= j]

Bindable(id) == id \notin DOMAIN bindings /\ Matching(devices[id]) # {}

\* A driver with no disk to offer reports BindFailed.
Usable(b) == b.disks # <<>>

\* The bindings are looked up by id: a function whose disks were handed over,
\* or that was registered again under a new id, is bound over them.
InUse(f) == \E d \in Disks : d.function = f
Rebound(id) ==
  IF ~Bindable(id) THEN rebound
  ELSE IF InUse(devices[id]) THEN rebound \cup {devices[id]} ELSE rebound \ {devices[id]}

TryBind(id) ==
  /\ next < MaxNext
  /\ IF ~Bindable(id) THEN UNCHANGED <<next, bindings, engine>>
     ELSE LET f == devices[id]
              driver == FindDriver(f)
          IN  \E outcomes \in Outcomes(f) :
                LET b == Bound(driver, f, outcomes) IN
                /\ next' = b.cursor
                /\ engine' = [engine EXCEPT ![f] = b.engine]
                /\ bindings' = IF Usable(b)
                               THEN With(bindings, [k \in {id} |->
                                      [function |-> f, driver |-> driver, disks |-> b.disks]])
                               ELSE bindings
  /\ rebound' = Rebound(id)
  /\ UNCHANGED <<kernel, registries, taken>>

RegisterDriver ==
  /\ pc = "drivers" /\ Len(drivers) < 2
  /\ drivers' = Append(drivers, IF drivers = <<>> THEN "virtio-blk" ELSE "ahci")
  /\ UNCHANGED <<next, pc, kernel, devices, name_index, next_id, bindings, todo, scan, taken,
                 rebound, engine>>

\* bind_all walks over the devices there were when it began.
BindAll ==
  /\ pc = "drivers" /\ Len(drivers) = 2
  /\ pc' = "bind" /\ todo' = InOrder(DOMAIN devices)
  /\ UNCHANGED <<next, kernel, registries, bindings, scan, taken, rebound, engine>>

BindNext ==
  /\ pc = "bind" /\ todo # <<>>
  /\ TryBind(Head(todo))
  /\ todo' = Tail(todo)
  /\ UNCHANGED <<pc, scan>>

\* for_each_block: pointers to the first disk of each binding, taken under the
\* lock and used without it.
Pointers ==
  LET ids == InOrder(DOMAIN bindings)
  IN  [i \in 1..Len(ids) |-> [id |-> ids[i], disk |-> bindings[ids[i]].disks[1]]]

ForEachBlock ==
  /\ scan = <<>> /\ DOMAIN bindings # {}
  /\ (pc = "bind" /\ todo = <<>>) \/ pc = "up"
  /\ pc' = "up" /\ scan' = Pointers
  /\ UNCHANGED <<next, kernel, registries, bindings, todo, taken, rebound, engine>>

NoBlockDevices ==
  /\ pc = "bind" /\ todo = <<>> /\ DOMAIN bindings = {}
  /\ pc' = "up"
  /\ UNCHANGED <<next, kernel, registries, bindings, todo, scan, taken, rebound, engine>>

\* The callback may have unbound or taken a device whose pointer comes next:
\* the state it points to is gone, and what follows is undefined.
Dangles(e) ==
  e.id \notin DOMAIN bindings \/ bindings[e.id].disks[1] # e.disk

CallbackReturns ==
  /\ pc = "up" /\ scan # <<>>
  /\ scan' = Tail(scan)
  /\ pc' = IF Len(scan) > 1 /\ Dangles(scan[2]) THEN "undefined" ELSE pc
  /\ UNCHANGED <<next, kernel, registries, bindings, todo, taken, rebound, engine>>

(***************************************************************************)
(* What a caller may do once the machine is up, between the callbacks of   *)
(* for_each_block and within them.  Neither registry knows of the other,   *)
(* nor of block devices handed over.                                       *)
(***************************************************************************)
Up == pc = "up"

Hotplug ==
  /\ Up /\ NewFunctions # <<>>
  /\ Enumerate
  /\ UNCHANGED <<next, pc, kernel, drivers, bindings, todo, scan, taken, rebound, engine>>

BindOne ==
  /\ Up
  /\ \E id \in DOMAIN devices : TryBind(id)
  /\ UNCHANGED <<pc, todo, scan>>

\* unbind: Binding::drop stops the hardware, the buffers' free does nothing.
Stopped(id) ==
  LET b == bindings[id] IN
  [engine EXCEPT ![b.function] = [p \in Ports |->
     IF \E i \in 1..Len(b.disks) : b.disks[i].port = p THEN {} ELSE @[p]]]

Unbind ==
  /\ Up
  /\ \E id \in DOMAIN bindings :
       /\ engine' = Stopped(id)
       /\ bindings' = Without(bindings, {id})
  /\ UNCHANGED <<next, pc, kernel, registries, todo, scan, taken, rebound>>

\* into_block_device, into_block_devices: state.take() keeps drop from stopping.
TakenFrom(ids) ==
  UNION {{[id |-> id, function |-> bindings[id].function, disk |-> bindings[id].disks[i]]
            : i \in 1..Len(bindings[id].disks)} : id \in ids}

\* take_block_device: up to the first that converts; those before it are gone.
TakeLooksAt ==
  {id \in DOMAIN bindings :
     \A j \in DOMAIN bindings : j < id => bindings[j].driver = "ahci"}

TakeBlockDevice ==
  /\ Up /\ DOMAIN bindings # {}
  /\ bindings' = Without(bindings, TakeLooksAt)
  /\ taken' = taken \cup TakenFrom({id \in TakeLooksAt : bindings[id].driver # "ahci"})
  /\ UNCHANGED <<next, pc, kernel, registries, todo, scan, rebound, engine>>

TakeAllStopsHardware ==
  /\ Up /\ DOMAIN bindings # {}
  /\ bindings' = Empty
  /\ taken' = taken \cup TakenFrom(DOMAIN bindings)
  /\ engine' = [f \in Functions |->
                   IF \E id \in DOMAIN bindings : bindings[id].function = f
                   THEN [p \in Ports |-> {}] ELSE engine[f]]
  /\ UNCHANGED <<next, pc, kernel, registries, todo, scan, rebound>>
TakeAllBlockDevices ==
  /\ Up /\ DOMAIN bindings # {}
  /\ bindings' = Empty
  /\ taken' = taken \cup TakenFrom(DOMAIN bindings)
  /\ UNCHANGED <<next, pc, kernel, registries, todo, scan, rebound, engine>>

DropTaken ==
  /\ Up
  /\ \E t \in taken : taken' = taken \ {t}
  /\ UNCHANGED <<next, pc, kernel, registries, bindings, todo, scan, rebound, engine>>

Unregister ==
  /\ Up
  /\ \E id \in DOMAIN devices :
       /\ devices' = Without(devices, {id})
       /\ name_index' = IndexWithout(id)
  /\ UNCHANGED <<next, pc, kernel, next_id, drivers, bindings, todo, scan, taken, rebound,
                 engine>>

Running ==
  \/ InitHeap \/ PciInit \/ RegisterDriver \/ BindAll \/ BindNext \/ ForEachBlock
  \/ NoBlockDevices \/ CallbackReturns \/ Hotplug \/ BindOne \/ Unbind \/ TakeBlockDevice
  \/ TakeAllBlockDevices \/ DropTaken \/ Unregister

Next == InitFrames \/ (Running /\ UNCHANGED memory_map)

Spec == Init /\ [][Next]_vars

(***************************************************************************)
(* Properties.                                                             *)
(***************************************************************************)
AllFrames == {FrameAt(k) : k \in 0..(Total - 1)}
Buffers == [phys : AllFrames, size : Nat]

\* The types of the registries and of the hardware's view; a binding has at
\* least one disk, as for_each_block and the drivers' bind suppose.
TypeOK ==
  /\ next \in Nat /\ kernel \subseteq AllFrames
  /\ pc \in {"start", "memory", "panic", "pci", "drivers", "bind", "up", "undefined"}
  /\ DOMAIN devices \subseteq 1..(next_id - 1) /\ next_id \in 1..(MaxId + 1)
  /\ drivers \in {<<>>, <<"virtio-blk">>, <<"virtio-blk", "ahci">>}
  /\ \A id \in DOMAIN bindings :
       /\ bindings[id].function \in Functions
       /\ bindings[id].driver \in {"virtio-blk", "ahci"}
       /\ bindings[id].disks # <<>>
  /\ \A d \in Disks : d.port \in Ports /\ \A i \in 1..Requests : d.bufs[i] \in Buffers
  /\ engine \in [Functions -> [Ports -> SUBSET AllFrames]]

\* A disk someone can still use, bound or handed over, is the one its hardware
\* was last programmed for and runs with, but for the functions a caller bound
\* again while their disks were in use, which try_bind does not notice.
OwnerIsProgrammed ==
  \A d \in Disks : d.function \notin rebound => engine[d.function][d.port] = FramesOf(d.bufs)

\* A page at or above 32 MiB that one usable region reaches into. The last page
\* of a region that ends within a page is handed out whole.
UsableMemory(a) ==
  a >= ALLOC_START /\ \E i \in 1..Len(memory_map) :
    LET r == memory_map[i] IN
    r.type = 1 /\ PageDown(Start(r)) <= a /\ a + PageSize <= PageUp(End(r))

\* Memory a device still reads and writes, from the first address of a buffer to
\* its last, is usable memory and nobody else's: not the heap's, not a page
\* table's, not another disk's. Hardware is left running by a bind that failed
\* late, by take_block_device and by dropping a disk that was handed over, and
\* DmaBuffer's free says nothing to it.
DmaIsPrivate ==
  \A f, g \in Functions, p, q \in Ports :
    /\ \A a \in engine[f][p] : UsableMemory(a)
    /\ engine[f][p] \cap kernel = {}
    /\ <<f, p>> # <<g, q>> =>
         /\ engine[f][p] \cap engine[g][q] = {}
         /\ \A d \in Disks : d.function = g /\ d.port = q =>
                              engine[f][p] \cap FramesOf(d.bufs) = {}
=============================================================================
