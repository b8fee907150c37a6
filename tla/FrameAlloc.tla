----------------------------- MODULE FrameAlloc -----------------------------
(***************************************************************************)
(* The physical frames of kernel/src/memory: the memory map the boot       *)
(* loader leaves, the cursor that walks over its usable frames, and the    *)
(* DMA allocator on top of it.  Frames are never taken back.               *)
(***************************************************************************)
EXTENDS Naturals, Sequences, FiniteSets

CONSTANTS
  MemoryMaps,     \* the raw maps a machine may have: sequences of [base, length, type]
  MaxRegions,     \* 256
  PageSize,       \* 4096
  ALLOC_START     \* 0x2000000: what lies below belongs to the boot loader

\* The memory of a region that may be handed out, and page boundaries.
Start(r) == IF r.base < ALLOC_START THEN ALLOC_START ELSE r.base
End(r) == r.base + r.length
PageDown(a) == a - (a % PageSize)
PageUp(a) == PageDown(a + PageSize - 1)

\* No two usable regions reach into one page above ALLOC_START, where frames
\* come from. The code does not check. An entry may begin and end anywhere, as
\* the BIOS's [0, 0x9FC00) does, and the others may overlap as they like.
Handed(r) == r.type = 1 /\ Start(r) < End(r)
ASSUME MapAssumption ==
  /\ PageSize \in Nat \ {0} /\ ALLOC_START \in Nat /\ ALLOC_START % PageSize = 0
  /\ MaxRegions \in Nat
  /\ MemoryMaps \subseteq Seq([base : Nat, length : Nat, type : Nat])
  /\ \A raw \in MemoryMaps : \A i, j \in 1..Len(raw) :
       i # j /\ Handed(raw[i]) /\ Handed(raw[j]) =>
         \/ PageUp(End(raw[i])) <= PageDown(Start(raw[j]))
         \/ PageUp(End(raw[j])) <= PageDown(Start(raw[i]))

VARIABLES
  memory_map,     \* BootInfoFrameAllocator.memory_map
  next            \* its cursor: how many frames have been asked for

\* The numbers of a finite set, from the least to the greatest.
InOrder(ids) ==
  CHOOSE s \in [1..Cardinality(ids) -> ids] :
    \A i, j \in 1..Cardinality(ids) : i < j => s[i] < s[j]

\* init_from_raw: empty entries are left out, and so is what does not fit.
Present(e) == e.length > 0
Regions(raw) ==
  LET listed == InOrder({i \in 1..Len(raw) : Present(raw[i])})
      count == IF Len(listed) < MaxRegions THEN Len(listed) ELSE MaxRegions
  IN  [i \in 1..count |-> raw[listed[i]]]

(***************************************************************************)
(* usable_frames: the memory from start to end in steps of a page, the     *)
(* last of which may reach past the end.                                   *)
(***************************************************************************)
FrameCount(r) ==
  IF ~Handed(r) THEN 0
  ELSE (End(r) - Start(r) + PageSize - 1) \div PageSize

\* Frames in the first i regions.
Before ==
  LET sum[i \in 0..Len(memory_map)] ==
        IF i = 0 THEN 0 ELSE sum[i - 1] + FrameCount(memory_map[i])
  IN  sum

Total == Before[Len(memory_map)]

\* nth(k): the address of the k-th frame, counted from 0.
FrameAt(k) ==
  LET before == Before
      i == CHOOSE j \in 1..Len(memory_map) : before[j - 1] <= k /\ k < before[j]
  IN  PageDown(Start(memory_map[i]) + (k - before[i - 1]) * PageSize)

(***************************************************************************)
(* n calls of allocate_frame from cursor c.  The cursor moves on when      *)
(* there is no frame left, too; a caller that gets none stops asking.      *)
(***************************************************************************)
Enough(c, n) == c + n <= Total
FramesFrom(c, n) == {FrameAt(k) : k \in c..(c + n - 1)}
CursorAfter(c, n) ==
  IF Enough(c, n) THEN c + n ELSE (IF c > Total THEN c ELSE Total) + 1

(***************************************************************************)
(* KernelDmaAllocator::alloc: as many frames as pages, and a buffer that   *)
(* starts at the first and is taken to be contiguous.                      *)
(***************************************************************************)
Pages(size) == (size + PageSize - 1) \div PageSize

BufferAt(c, size) ==
  [phys |-> FrameAt(c), size |-> Pages(size) * PageSize]

Covered(b) == {b.phys + i * PageSize : i \in 0..(b.size \div PageSize - 1)}
=============================================================================
