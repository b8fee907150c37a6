# Verification of small-os

TLA+ models of the parts of small-os where orders of events matter, the TLC
runs that check them on small instances, and TLAPS proofs of the properties
that matter most. `PROJECT.json` is the index: components, runs, the source
lines behind each definition, hazards, findings and theorems.

## 1. Inventory of the system

small-os is a single-processor x86_64 kernel in Rust with its own boot loader,
an installer that is a second kernel image, and libraries both share.

| Part | State it keeps | Operations | What is hard |
|---|---|---|---|
| executor (`kernel/src/task/executor.rs`) | tasks, run queue of 100 ids, waker cache | spawn, run_ready_tasks, sleep_if_idle, wake_task | interrupts push into the run queue at any instruction; the decision to halt; a full queue panics |
| interrupt handlers (`kernel/src/interrupts/mod.rs`, `flags.rs`) | tick counter, scancode queue of 256, two AtomicWakers | timer and keyboard handler | run between any two instructions of everything else |
| shell (`kernel/src/task/shell`, `task/sleep.rs`) | input line, history, pipeline, sleep target | poll_next, Sleep::poll, execute_pipeline, line editing | register/check races with the handlers; tick overflow |
| memory (`kernel/src/memory`) | heap free lists, frame cursor | alloc, dealloc, allocate_frame, DMA alloc | free-list integrity, alignment gaps, exhaustion |
| screen, print macros (`kernel/src/screen`, `macros.rs`) | cursor, pixels, log buffer | print from tasks and handlers | row ends, scrolling, erasing; locks against interrupts |
| virtio-blk (`lib/driver/src/block/virtio`) | three rings, one DMA page, device status | init_device, read, write, stop | a device that runs concurrently over shared memory; 16-bit indices |
| AHCI (`lib/driver/src/block/ahci`) | port registers, command slot 0 | init, issue_command, read, write | timeouts that race late completions |
| registries (`lib/driver/src/registry.rs`, `lib/device/src/registry.rs`) | bindings, devices, name index | bind, unbind, take, for_each, register | check-then-act across two locks, raw pointers used after unlock |
| GPT (`lib/vfs/src/partition/gpt`) | sectors on disk | format_disk, write_gpt, read_gpt | power loss between sectors, boundary arithmetic |
| installer (`installer/src/lib.rs`) | position in the disk scan | skip, accept or format each disk | restarts, partial formats, driver errors |
| NTFS, VFS (`lib/vfs/src`) | MFT records, two indexes, mounts, descriptors | create_file, write_file, open, read, mount | power loss between the sectors of a record and between record and entry, torn updates, path prefixes |
| boot loader (`bootloader`) | loaded sectors | probe disks, walk FAT32, load ELF | malformed disks |
| HAL, bus, macros, xtask | | hardware access, build tools | |

Components interact by calls, with two exceptions that carry most of the risk:
the interrupt handlers share `SCANCODE_QUEUE`, `TIMER_TICKS`, the run queue and
the AtomicWakers with the code they interrupt, and the block devices share
memory with their drivers. Disks are shared with the past: what an earlier,
possibly interrupted, start has left there.

What makes each part correct:

* executor: it never halts over queued work, and a woken task is polled;
* keyboard and timer path: no wake-up is lost, accepted keys arrive in order,
  every sleep ends, the run queue does not overflow;
* block drivers: a read that was served returns what was last written, every
  request returns;
* GPT and installer: a format of which no write was lost reads back, a mix of two
  formats is never accepted, and what a refused format costs is bounded. That a
  disk in use is never written cannot be had from this code (section 7);
* allocators: live blocks are disjoint from each other and from the free list;
* registries: a disk that someone holds is the one its hardware works for;
* frames and DMA: memory that a device uses is usable memory and nobody else's;
* NTFS and VFS: an entry always leads to its file, a created file is found for
  good, other records keep their contents, handles fit their files;
* line editor and parser: the screen shows what Enter will run, and that is
  what the line says.

## 2. Plan

The order is by what the system depends on most. Steps 1 to 8 are done.

1. Executor, interrupt handlers, shell: `AtomicWaker`, `Executor`, `KeyChannel`,
   `ShellIo`, with proofs.
2. virtio-blk: `VirtioBlk`.
3. GPT and installer: `Gpt`, `Installer`, with proofs.
4. Allocators: `GlobalAlloc`, the three allocators, `Heap`, with a proof for the
   linked list.
5. AHCI: `AhciPort`.
6. NTFS and VFS in one composition: `FileTree`, `Ntfs`, `Vfs`.
7. Memory, PCI, registries and drivers from bring-up on: `FrameAlloc`, `Drivers`.
8. The sequential part of the shell: `Screen`, `Tokenizer`, `ShellLine`.
9. More proofs, see below.
10. `Ntfs` over the block drivers as they are (section 8), once they move
    more than one sector.
11. Boot loader: probing order, FAT32 cluster walk.

Three abstract specifications exist, each with the detailed one checked against
it: `KeyChannel`, `GlobalAlloc`, `FileTree`.

Every safety property of the passing runs is also a theorem; the liveness
properties stay with TLC (section 6).

## 3. Modules

| Module | Models | State | Actions |
|---|---|---|---|
| `AtomicWaker` | the waker cell of futures-util (external) | operators on one cell | begin and end of register and take, wake |
| `Executor` | `task/executor.rs`, any tasks | run queue, live tasks, waker cache, where the processor is, interrupt flag | spawn, pop, poll results, each step of sleep_if_idle, an interrupt that wakes a task |
| `KeyChannel` | abstract: bounded FIFO of keys | accepted keys, the key in hand | accept, deliver, act |
| `ShellIo` | shell_task, scancode stream, Sleep, both handlers, over `Executor` and `AtomicWaker` | position of the shell, two waker cells, scancode queue, tick counter | every atomic access of poll_next, register, take and Sleep::poll; the handlers between any two |
| `VirtioBlk` | `block/virtio/mod.rs` and the device (external) | ring indices, header, data area with the status byte in it, descriptor chain, device's view, medium | init_device in its six steps, read and write in theirs, stop; the device fetches a header and a chain, moves a sector, completes or fails |
| `Gpt` | `partition/gpt`: layout, headers, read_gpt | operators on disk images | |
| `Installer` | `installer/src/lib.rs` over `Gpt` | disks, position in the scan, read_gpt and write_gpt, GUID counter, data area and outstanding requests of virtio-blk | each sector read, with the decision taken on it; each sector written, lost or refused; a late request served; restart |
| `GlobalAlloc` | abstract: what a caller of alloc may rely on | live blocks | alloc, dealloc |
| `LinkedListAllocator`, `FixedSizeBlock`, `BumpAllocator` | `memory/allocator` | free regions; block lists and fallback (external crate); next and counter | alloc and dealloc, one action per path |
| `Heap` | any one of the three behind the global lock | which one | its actions |
| `AhciPort` | `block/ahci/port.rs` and the adapter (external) | PxCMD, PxCI and PxTFD bits, command table, data buffer | init, request, each wait and its limit, stop, adapter steps |
| `FileTree` | abstract: the files and directories a lookup sees | entries, contents | create, write, damage of the record being updated |
| `Ntfs` | `lib/vfs/src/fs/ntfs` | sectors, index block, call in progress | create_file and write_file up to each sector write, the entry in either index, I/O error, power loss |
| `Vfs` | `lib/vfs/src/lib.rs`, `mount.rs`, over `Ntfs` | mount table, descriptors | mount, open, read, close, restart |
| `FrameAlloc` | `memory/mod.rs`, `memory/dma_alloc.rs` | memory map, frame cursor | operators: usable frames, n frames from a cursor, a DMA buffer |
| `Drivers` | bring-up in `installer/src/lib.rs` and `kernel/src/lib.rs`; `lib/device`, `lib/bus`, `lib/driver`, over `FrameAlloc` | both registries, bindings, disks handed over, memory each port or device may use | frames, heap, PCI, drivers, bind_all, for_each_block, then hotplug, bind, unbind, take, drop, unregister in any order |
| `Screen` | `kernel/src/screen/mod.rs` | operators on cells and a cursor | |
| `Tokenizer` | `shell/tokenizer` and a reference definition of what a line means | operators on lines | |
| `ShellLine` | `shell/mod.rs`, `shell/history.rs`, over `Screen` and `Tokenizer` | line, history, screen | one action per kind of key |

`MC...` modules instantiate these for TLC, `...Proofs` modules hold theorems.

How atomicity was chosen. There is one processor, so kernel code is
interrupted only by handlers, and handlers are not interrupted. `ShellIo` has a
step for each atomic access to state that a handler shares; everything between
two such accesses is one step. The drivers share memory and registers with a
device, so `VirtioBlk` and `AhciPort` have a step for each store that
the device can see and each poll of it. The allocators are called with
their lock held, and an allocation is one step. On disk, a sector is
written or not, and the power fails between sectors; this holds for `Ntfs` as
for `Installer`, except that the entries of the NTFS index block are taken to lie
in its first sector, so that its write is one step. NtfsDriver is behind a Mutex
and the registries are called by one thread, so that their calls do not
interleave; what comes between the steps of a bring-up is failure, and what
comes between two calls of `Drivers` is any other call. A key is one step in
`ShellLine`: the shell waits only between keys and while a command runs.

History variables, which the code does not have: `due`, `keys` and `burst` in
`ShellIo` (the tick asked for, keys seen, keys since the last halt), `last` and
`quiet` in `VirtioBlk` (how the last request ended, and whether any was
outstanding when this one began), `orig`, `whole` and `formatted` in `Installer`
(what the disks held, whether this format has lost a write, and which were
complete), `gaps` in
`LinkedListAllocator` (bytes skipped for alignment), `patient` in `AhciPort`
(a choice made once: no command of this behaviour outlasts the driver's waits),
`created` in `Ntfs` (what create_file returned), `rebound` in `Drivers` (functions
bound again while their disks were in use), and `keys`, `enters`, `ran`,
`fresh` and `overcleared` in `ShellLine` (the keys of the session, lines entered,
the last one with what was run for it, no history key since, and that clear_line
has erased more cells than the line had). `engine` in `Drivers` is the hardware's
side: the frames a device was told about and may still use.

What is abstracted. In `Ntfs` a record is its contents as a value (name, parent,
resident data, runs, entries, room left in its index); lengths are in bytes and
are the code's, so that records and indexes fill up where they do in the code.
The model ends where two versions of a record are mixed: what its attributes say
then depends on every byte. Callers use the records they can hold (`Held`): the
root's, what a lookup returned and what create_file returned. In `Vfs` a path is the sequence of its components,
and `Begins` says which components look like a prefix of others, which is all
that a comparison of strings can see. In `Drivers` a function stands for its PCI
address and name. In `Screen` a cell holds the glyphs drawn over each other since
it was last erased.

What the callers of the two registries may do is not restricted: a function whose
disks were handed over is bound again, a bound device is unregistered, and a
callback of for_each_block unbinds and takes. Where the next raw pointer of
for_each_block then points to freed memory, the model ends, in pc "undefined".

How a driver's failures appear in the layers above. `Installer` has them as the
drivers produce them: AHCI reports an error, refuses a buffer that is shorter than
a sector, and may or may not have written a sector of which it reports an error.
virtio-blk reports nothing: a read returns Ok with whatever the data area holds if
the device refused it or has not served it yet, a write that was refused or is
still outstanding returns Ok, and a request that is outstanding may be served with
the header and the data of a later one, since all of them share one header, one
chain and one data area. `Ntfs` is over a block device that moves every sector or
reports an error; section 8 says why neither driver is one.

Definitions named `...Unverified`, `...OneTooMany`, `NoRecheck` and so on, each
placed before the definition it distorts, are deliberate faults. No
specification uses them. Each stands for a plausible slip in the code, and a
property that stayed true with it in place would say nothing.

## 4. Runs

| Run | Checks | Result | Bounds |
|---|---|---|---|
| `executor` | HaltOnlyWhenIdle, CacheOnlyLiveTasks, NoEntryDropped, WokenIsPolled | pass, 3463 states | 3 tasks, queue of 3 |
| `shell_io` | NoLostWakeup, HaltIsSafe, BacklogBound, KeysReachShell, SleepEnds | pass, 30770 states | run queue 6, scancode queue 2, 4 keys, 2 commands per line, ticks modulo 3 |
| `shell_io_queue_full` | NeverPanics | violated | run queue 3 |
| `virtio` | ServedReadIsRight, ServedWriteIsRight, RequestReturns | pass, 1030504 states | 2 sectors, 4 requests of 1 or 2, indices modulo 3 |
| `virtio_async` | WaitsForCompletion | violated | the same |
| `installer` | FormatReadsBack, NoTornTable, AhciLosesMbrOnly | pass, 712092 states | 2 disks, 2 starts, 1 outstanding request per disk |
| `installer_lba` | HeaderAtLba1 | violated | 2 starts |
| `heap` | RegionsApart, OnlyGapsAreLost, NodesFit, BlocksPartitionHeap, ImplementsGlobalAlloc | pass, 32652 states | heap of 12 bytes, 4 layouts |
| `ahci` | ReadReturnsDisk, WriteStored, EveryRequestReturns | pass, 76728 states | 3 blocks, 2 that fit a command, 2 values |
| `files` | NoDanglingEntry, NoForeignTail, LookupFindsCreated, HandleFitsFile, FilesKept, ImplementsFileTree | pass, 83848 states | 2 free records, 2 new names, 3 contents, 2 mount points, 1 descriptor |
| `drivers` | OwnerIsProgrammed, DmaIsPrivate | pass, 287072 states | 2 PCI functions, 3 disks, 2 memory maps, 3 device ids, 14 frames |
| `shell_line` | ScreenShowsLine, RunsWhatWasTyped, RecallsInOrder | pass, 365893 states | 4 by 3 cells, lines of 3 or 5 bytes, 4 lines or 1, history of 2 |

`ExecTypeOK` and `ShellTypeOK` are checked with the first two runs. The other
modules state the types of their variables too, in a TypeOK that a reader can
go by and that later proofs start from; no run checks these.

Why the bounds are enough, and where they are not:

* `executor`: three tasks give one that is polled, one that is queued and one
  that finishes while still queued; a queue of three is full with them. The
  panic of a full queue is reachable and part of the model.
* `shell_io`: four keys fill the scancode queue, overflow it and leave keys for
  the window between the two pops of poll_next. BacklogBound says how the run
  queue grows; with a queue of 6 and four keys it never panics, which is
  why the queue is that long. `shell_io_queue_full` takes a queue of 3 instead
  of 100 so that a burst of four keys overflows it. In the code the burst has
  to be of about a hundred keys within one poll.
  The tick counter wraps at 3, so that sleeps begin before and end after a wrap,
  or end at once because of it.
* `virtio`: the device may be late, fail any request at any of its sectors, and
  meet a request whose sectors the medium does not have. Two sectors per request
  put the status byte into the data. Indices modulo 3 and four requests take
  used.idx and avail.idx past their wrap. The invariants are about a request that
  the device has served when the driver returns; that the driver does not wait
  for this is what `virtio_async` shows. A write is claimed only if nothing was
  outstanding when its data were copied: otherwise an earlier request that is late
  may still store its own data in the data area.
* `installer`: disks of 15 sectors have room for both partitions and disks of 5
  are refused; the constants of the layout are scaled down and keep the order of
  the real ones. The GUID numbers come from a counter that starts at 1 with every
  boot, as in the code, so that remains of an earlier format can carry the
  same GUIDs. Byte offsets used as sector numbers put the backup structures
  beyond the end of the disk, also here. One outstanding request per virtio disk
  is enough for a write that lands in the middle of a later format and for a read
  that fills the data area behind the driver's back; equal requests are one, and
  serving one may leave another.
* `heap`: nodes of 4 bytes in a heap of 12 allow a split with excess, a region
  that fits without excess, one that is refused because its excess
  could not hold a node, and a gap for alignment.
* `ahci`: no bound on the number of requests; two blocks and two values tell a
  right answer from a late one. A third block has a number that does not fit the
  28 bits of the command (LbaModulus) and is read from and written to another one:
  ReadReturnsDisk and WriteStored are about the block that is addressed. WriteStored is about behaviours in which
  no command outlasts the driver's patience. Without that condition it is
  violated: write_sectors copies the caller's data into data_buf before
  it waits for the port, and a read that was given up on may still store
  its own data there.

* `files`: one free record is 16, the first that create_file looks at, which is a
  sector of file data with the second sector of an older record behind it; the
  other is 65536, whose sequence number is 0. A directory that has room for one
  short entry, one name that does not fit there, and an index block that takes one
  entry and panics at the second reach every outcome of add_directory_entry. The
  index block is what add_to_external_index takes it for: it reads two-byte fields
  where the block has four-byte ones, puts the entry over what is there (`kept`)
  and no lookup reads it; NoDanglingEntry and LookupFindsCreated are about the
  entries in records. A name of 40 letters with 672 bytes fills a record to the
  end marker. "a" and "A" are one name to a lookup, "e" stands for a name outside
  ASCII. Restarts are not bounded; records are used up and never freed, which ends
  the search.
* `drivers`: an AHCI controller with two disks and a virtio disk; a memory map with
  low memory that ends within a page, an empty entry, a region that is cut at
  ALLOC_START and ends within a page, a reserved one from there on, one that begins
  within a page, and an entry more than the table holds; and a map that is too
  small for the heap. With 14 frames three disks are programmed, the last one on a
  page that reaches past the end of its region, and the frames run out within a
  bind. Ids up to 3 let a function be registered twice and bound over its own
  disks; for such functions OwnerIsProgrammed claims nothing until they are bound
  with no disk in use.
* `shell_line`: the screen is so small that a line wraps and scrolls; one alphabet
  is for editing (a letter of one byte and one of two), with four lines over a
  history of two, and the other for parsing, with quotes, pipes and the prompt's
  characters in lines of up to five, over four tokens, two commands and one
  argument, so that each capacity is exceeded.

Deadlock is not checked where the system may stop: the heap when nothing is live
and nothing fits, an AHCI port that failed or was stopped, `files` after a panic,
`drivers` after a failed heap set-up and at its bounds, `shell_line` after its
last line.

## 5. Fairness

* `ExecFairSpec`, `ShellFairSpec`: the processor executes (weak fairness of
  its steps as one action: whatever it is at, it goes on). The hlt is left only
  by an interrupt.
* `ShellFairSpec`: the timer ticks. IRQ 0 is unmasked when interrupts are enabled
  and never masked again, and its handler always ends the interrupt: PICS is not
  locked by anything a handler can interrupt. SleepEnds needs this. Keys need not
  be pressed; KeysReachShell is about keys that are in the queue already.
* `VirtioBlk!FairSpec`: the driver runs, and a device that was notified
  eventually takes and ends the request. RequestReturns needs the second, since
  the driver's loop has no limit; it names the request that hangs all the same,
  because used.idx is 0 again (HangsAtWrap), and is about builds in which the
  plain load of used.idx stays in the loop.
* `AhciPort!Spec`: the driver runs. The adapter is fair only in that it does
  something about a command it runs, and failing counts. EveryRequestReturns rests
  on the limits of the driver's loops.

Installer, heap, files, drivers and the line editor have safety properties only,
and no fairness: each of their calls is a bounded sequence of steps that waits for
nothing that is modelled there.

## 6. Proofs

All theorems hold for every value of the constants that the named assumptions
allow; the assumptions are evaluated by TLC for each instance.

**Executor** (`ShellIoProofs`; NoTask is no task, the capacity is positive).
`ExecInv` is the type invariant, `PlaceInv` (interrupts are off from disable
to the end of sleep_if_idle, the queue is still empty once the check has found it
so, and a poll has a live task), HaltOnlyWhenIdle and CacheOnlyLiveTasks.
HaltOnlyWhenIdle alone is not inductive: that the queue stays empty
between the check and the hlt is due to the interrupt flag. ExecNoEntryDropped
goes through the actions that shorten the queue: only a pop does, and a pop of a
live task starts its poll.

**Shell** (`ShellIoProofs`; capacities and moduli positive). `ShellInv` has five
parts: types; `PlacesInv` ties the shell's position to the processor's;
`CellsInv` says which states a waker cell can be in at each point of register and
take; `WakeupInv` is NoLostWakeup carried into the poll (after the
registration, the queue holds the shell or the cell does, or the recheck
will still see the scancode); `BacklogInv` counts: entries in the run queue, plus
one for each cell that holds the shell (`Slot`), plus the one that a running
poll still owes (`Owed`), plus the scancodes that can still be found by the
second pop (`Raced`), are bounded by the burst. Each action has a lemma.
The results are ShellTyping, ShellNoLostWakeup, ShellHaltIsSafe and
ShellBacklogBound, for any number of keys and ticks. ShellKeysInOrder is the safety part of KeysReachShell; it needs
`HandInv`, that a scancode is in hand only between its pop and the act on it.

**Installer** (`InstallerProofs`; the layout constants are as in the code's
comparison of `total` with its overhead, and the primary entry array lies below
what that comparison demands). FormatLayoutSound is about every disk
size that passes the space tests. InstallerNoTornTable uses `WholeInv`: every
header, on a disk, in a data area or about to be written, carries the CRC of
entries whose GUIDs come from the same format, so that entries of another format
never match it, wherever a late write puts them. InstallerFormatReadsBack uses
`ReadBackInv`: as long as no write was lost and nothing is outstanding, what
write_gpt has written so far is on the disk being formatted (`Progress`), and no
outstanding request of a disk with such a format is a write (`Formatted`): stale
reads change it only through a new format, which takes it out of `formatted`.
InstallerAhciLosesMbrOnly uses `AhciInv`: on AHCI nothing is outstanding and
write_gpt gets no further than the entries, which are refused for their length.

**Heap** (`HeapProofs`; positive sizes and alignments, of two alignments one
divides the other as powers of two do, the heap begins at a node's alignment and
holds one, and a block size is a multiple of the alignments it serves: all as in
the code's constants). `RegionInv`, types with RegionsApart, gives
LinkedListKeepsApart: `CutRegion` shows that the block and the excess lie in the
region that was found, `RemoveOne` that taking a region out of the list leaves
the others as they were. `NodeInv` adds that every region, and every block when
it comes back, can hold a node; `GapInv` counts the addresses, whose cardinality
follows from disjointness. `FsbInv` says of the fixed-size allocator that live
blocks, listed blocks and the fallback own every address exactly once, and
that a block is aligned to the size of its list. With `BumpInv` (blocks in the
order of the cursor) they give HeapRefinesGlobalAlloc.

**virtio-blk** (`VirtioBlkProofs`; at most seven sectors, NoOp is no request). Both
theorems are about the driver as it is, with any number of requests outstanding,
failed, or served with a later header. `ServeInv`: requests fetched are those
completed and the one the device works on, and at most those published
(`Counted`); what the device fetches as the last published request is what the
caller asked for (`Written`, `Fetched`); and what it has moved so far agrees
(`ReadMoved`, `WriteMoved`). A write needs in addition that the data area stays
the caller's until it is served (`WriteHeld`), which is so if nothing was
outstanding when it began.

**AHCI** (`AhciPortProofs`; None is not a command). `PortInv`: what the registers
say of slot 0 (`SlotState`), and that once PxCI is written the disk works on this
request, with the block number as the command holds it (`OnWire`), or on none
(`AnswersRequest`), because a command that was given up on
blocks the slot. `BufferOwned`, for AhciWriteStored, holds where no command
outlasts the driver, as in WriteStored itself.

**NTFS and VFS** (`VfsProofs`; `VolumesAssumption` is what a start may rely on: a
volume whose entries name records that are there under that name, whose root is a
directory and the only one in itself, and without a stale sector behind a free
record that happens to end with the record's number; a free record may be file
data). The volume is seen through
its records: `First` and `Second` sectors, the accepted ones (`Good`) and their
attributes (`Attr`); `Layout` shows that no two records share a sector, for any
geometry. `NtfsInv` says for each call what is on the disk at each of its points
(`CreateInv`, `LinkInv`, `WriteInv`), that a free record is followed by nothing
that matches it (`FreeUnmatched`), and that every entry names a good record
(`EntriesNamed`) and comes before no other of its name (`EntriesFirst`). Each step
also keeps every record in a later version of itself (`RecordsKept`), which is
NtfsFilesKept. `HandleInv` adds that a file never changes its length, which makes
VfsHandleFitsFile inductive.

NtfsImplementsFileTree needs two more invariants: `BusyInv`, that while a call is
in progress only the record it updates can have sectors of two versions, and
`PlaceInv`, that an entry is only ever added to a directory that is in the tree (a
new directory has no room for entries) and that only the root is its own parent.
Then the first sector of a directory is the Create step (`TreeCreates`), the first
sector of a file the Write step (`TreeWrites`), an error or power loss at "tail"
the Damage step (`TreeDamaged`), and every other step leaves the tree alone.

**Memory and drivers** (`DriversProofs`; `MapAssumption`: no two usable regions reach
into one page at or above ALLOC_START, which init_from_raw trusts the map to keep
to; regions may begin and end within pages, as the BIOS's [0, 0x9FC00) does, and
anything may overlap below;
`BusAssumption`: enumerate meets each address once, the walk over the ports each
port once, and a virtio-blk function has its one disk). `FrameFound` and
`FramesDistinct` say that the k-th usable frame is a page that one usable region
reaches into and that no two numbers give the same, for any list of regions.
`DriversInv`: a registered id is one function's and the other way round
(`RegistryInv`), bindings have the form their driver gives them (`BindInv`), the
disks of a function that is not in `rebound` belong to one binding or one
hand-over (`OneOwner`), what bind_all still has to try is registered (`QueueInv`),
and each disk of such a function is what its port was programmed for last
(`OwnerInv`). OwnerIsProgrammed alone is not inductive: that an unbind stops
nobody else's disk follows from `OneOwner`. `AhciOwned` and `AhciApart` follow
AhciState::init from port to port. DriversDmaPrivate has the hypothesis that a DMA
request is of at most a page, as all requests in the code are. Its `PrivateInv`
says that all memory in use, by disks that were bound over too, was handed out
before the cursor, so that the frames a bind gets (`FreshBuffers`) are nobody's, and
that what ports were programmed with is disjoint.

**Shell line** (`ShellLineProofs`; `TextAssumption`: the prompt is not empty, and
neither it nor the keys hold a newline or a backspace, which the match on
DecodedKey treats apart; `HistoryAssumption`; `RoomAssumption`: the prompt and a
full line leave a cell of the screen free; `CapacityAssumption` in `Tokenizer`).
`EditorInv` holds the types, what the screen shows, and the history.
ScreenShowsLine alone is not inductive: where the cursor goes at the end of a row,
and where a Backspace takes it back, depends on the text having begun at the start
of a row and on the cells from the cursor on being empty (`Shows`, `Clear`).
`DrawShows`, `BackShows` and `NewlineShows` are the three ways to write a character;
a full screen scrolls, and by `RowToScroll` the row that is lost is above the
prompt. `ClearShows` is clear_line for a line without two-byte characters: as many
erasures as cells. `HistoryInv` counts the entries, so that the newest one is the
line just entered while the history has room.

EditorRunsWhatWasTyped compares two ways to read a line. Meaning runs an automaton
over it and cuts words out of the stretches in one mode; tokenize jumps from token
to token, and parse_pipeline folds the tokens, each with its capacity. The proof
goes by position. `ScanStep`: where tokenize looks for a token, the automaton is
between words, and the two agree on the token there, its end and the next place to
look. So the tokens are those at `TokensAt`, in order (`Trace`, `TokenizeFacts`).
`Parsed` is the parser's state after the tokens up to a position, in Meaning's terms:
how many pipes were passed, and how many of the command's words (`Rank`).
`PipeMoves` and `WordMoves` show that ParseToken goes from each state to the next,
so that ParsePipeline ends in `Parsed` of the last token that was kept
(`PipelineFacts`), and `FinishCut` and `FinishAll` compare that with Meaning.
`ReplaceNothing` is the call of str::replace before.

The library's induction theorems take an operator, which no installed prover can
instantiate. Where a recursive function has to be reasoned about (`Walk` along a
path, `RunBytes` over data runs, the count of frames over regions, the walk over
AHCI ports, the automaton, the tokens and the fold over a line) the proofs use
first-order forms instead:
`LeastNatural` (a set of numbers that is not empty has a least one, from WFMin),
`StepByStep` (induction over a set 0..n given as a set) and `ChainExists` (the
function a recursion defines exists).

Only checked by TLC: the liveness properties (WokenIsPolled, SleepEnds,
RequestReturns, EveryRequestReturns and the fair part of KeysReachShell), which
are out of the prover's reach, and the properties of the runs that expect a
violation.

## 7. Findings and known limits

Three places where the code differs from what its comments or assertions say,
each with a run whose counterexample shows it.

1. `shell_io_queue_full`: `wake_task` expects the run queue never to be full.
   Each key that arrives between the two pops of poll_next leaves one entry too
   many, and enough of them in one poll panic the kernel.
2. `virtio_async`: the driver waits for used.idx to differ from 0, which it does
   for good after the first request. Later requests return before the device
   has answered.
3. `installer_lba`: write_gpt and read_gpt pass byte offsets where the drivers
   expect sector numbers. They agree with each other, which is why
   FormatReadsBack holds, but no other program finds the table.

Limits that the passing runs state as exceptions or bounds, and that a change to
a cfg makes visible:

* `now + ticks` wraps in the release build, and a sleep with a large argument
  ends at once; the dev build panics. SleepEnds holds over the wrap; that a sleep
  lasts its ticks is not claimed.
* virtio-blk never looks at the status byte: a request that the device refused
  returns Ok. Every 65536th request hangs if the device has caught up.
* The installer formats a disk on any error of read_disk. A read error on AHCI, or
  a read of virtio-blk that returned before it was served, gets a disk in use
  formatted. AhciLosesMbrOnly bounds the damage on AHCI; on virtio-blk nothing does.
* AHCI commands carry 28 bits of a block number: what lies beyond 128 GiB is read
  from and written to another block.
* write_gpt writes the protective MBR first. A format that is cut short leaves a
  disk that every later start takes for a boot device and skips.
* PortState::init clears FRE with a copy of PxCMD in which ST is still set, and
  so starts an engine that the firmware left running before it programs it.
* The sequence number of an NTFS record never changes, so that an update cut
  between its sectors is accepted as it is: the Damage step of `FileTree`.
  For record 65536 it is 0, and not even a half-written new record is noticed
  (the exception in NoForeignTail).
* create_file panics when name and data fill the record to its last four bytes
  (CreatePanics). It leaves a record without an entry when the directory is full.
* An entry that goes to the NTFS index block overwrites its update sequence and
  its entries (index.rs:258-311), is never searched, and may panic at the end of
  the block; its name can be created again. Names outside ASCII are read back with
  '?' (excluded in LookupFindsCreated).
* create_file takes any record up to 100000 that does not begin with FILE or BAAD,
  past the end of the MFT too, and so writes over file data; FilesKept says that
  it is the two sectors of the new record.
* "/d" counts as the mount point of "/dx/a"; the model has it so and claims nothing.
* try_bind looks for the device id only: a function whose disks were taken, or that
  was enumerated again, is bound over them (`rebound`). A callback of for_each_block
  that removes bindings leaves it with dangling pointers.
* take_block_device removes AHCI bindings that it meets before a virtio disk,
  without stopping them, so that the disks are lost to everyone. Nor is hardware
  stopped when a disk that was handed over is dropped; its memory stays its own
  only because frames are never given back (DmaIsPrivate).
* The last page of a usable region is handed out whole also where the region ends
  within it; DmaIsPrivate says of such a page only that it is handed out once.
* clear_line erases a cell per byte, one too many for each umlaut (`overcleared`);
  lines that contain the prompt's text are changed before they run; a full
  history takes no more lines.

## 8. Not modelled

* Real-mode and long-mode set-up (the boot stages in assembly, GDT, IDT, paging,
  PIC, PCI and ACPI walks): straight-line hardware access whose correctness is
  not a question of order.
* xtask, build scripts, procedural macros: run on the build host.
* Shell commands other than sleep: they call file system stubs that return an
  error.
* The boot loader in C (disk probing, FAT32, ELF): sequential, and no run of its
  own yet; see section 2.
* In NTFS: attributes that are parsed and never used (`types.rs`: standard
  information, object ids, reparse points, security descriptors), alternate
  streams, volume_info. NtfsInode is only made by its own lookup.
* In the VFS: MountTable::unmount and resolve, and Seek, which Vfs does not
  offer; write through a descriptor, which NtfsFileImpl does not implement.
* In the shell: resolve_path, change_dir and the directory functions, whose bodies
  are commented out, so that the prompt never changes.
* The decoding of scancodes into keys (crate pc-keyboard 0.8, layout De105Key, not
  in this repository). ShellLine starts from decoded keys, with Backspace and the
  arrows as the RawKeys that shell_task has arms for. Whether the layout returns
  Backspace as that RawKey has not been confirmed. If it returns Unicode('\x08'),
  the catch-all arm (shell/mod.rs:79-83) appends the character to the line and
  prints it, the arm for Backspace is never taken, and ScreenShowsLine and
  RunsWhatWasTyped say nothing of a session in which Backspace was pressed.
* Pixels, colours, the serial port, and the log buffer that print! fills when
  interrupts are off and that nothing empties.
* In the modelled parts: the contents of messages, names and GUIDs, CRCs (read_gpt
  compares what they protect), the capability walk of virtio, the exception
  handlers.
* NTFS over the drivers of this repository. A record has two sectors, and `Ntfs`
  lets the block device move both, as the trait promises. AHCI moves one sector
  whatever the length and returns Ok (port.rs:195-231), so that the second half of
  a record is not transferred; virtio-blk puts its status byte over byte 512 of a
  read of two sectors (virtio/mod.rs:376-381), returns before completion, ignores
  failures, and overruns its one page beyond seven sectors. What `files` checks and
  `VfsProofs` proves is about the file system code, given a device that does what
  it is asked.

Modelled from how the kernel uses them, since they are not in this repository:
AtomicWaker, ArrayQueue, the crate linked_list_allocator behind the fixed-size
blocks, the virtio device, the AHCI adapter, heapless strings and vectors.
