--------------------------- MODULE BumpAllocator ---------------------------
(* kernel/src/memory/bump.rs and its GlobalAlloc in memory/alloc.rs: memory   *)
(* is handed out upwards and taken back only when the last block is freed.    *)
EXTENDS GlobalAlloc

VARIABLES
    next,           \* the first address not handed out
    allocations     \* how many blocks are out

bumpVars == <<next, allocations>>

BumpInit == next = HeapStart /\ allocations = 0

BumpAlloc(layout) ==
    LET start == AlignUp(next, layout.align)
        end == start + layout.size
    IN  /\ end <= HeapStart + HeapSize
        /\ next' = end
        /\ allocations' = allocations + 1
        /\ live' = live \cup {[start |-> start, layout |-> layout]}

(* Mutant: the heap is taken back one block too early.                        *)
BumpDeallocEarly(b) ==
    /\ b \in live
    /\ allocations' = allocations - 1
    /\ next' = IF allocations' <= 1 THEN HeapStart ELSE next
    /\ live' = live \ {b}

BumpDealloc(b) ==
    /\ b \in live
    /\ allocations' = allocations - 1
    /\ next' = IF allocations' = 0 THEN HeapStart ELSE next
    /\ live' = live \ {b}
=============================================================================
