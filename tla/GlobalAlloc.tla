---------------------------- MODULE GlobalAlloc ----------------------------
(* What core::alloc::GlobalAlloc promises its callers: the blocks that are    *)
(* handed out lie in the heap, are aligned as asked and never share a byte.   *)
(* The three allocators of the kernel are compared with this module, which    *)
(* says nothing of how they find a block.                                     *)
EXTENDS Integers

CONSTANTS
    HeapStart,  \* HEAP_START
    HeapSize,   \* HEAP_SIZE
    Layouts     \* the layouts asked for, records of a size and an alignment

VARIABLE live   \* the blocks handed out, each with the layout it was asked by

(* GlobalAlloc's callers never ask for nothing, and alignments are positive.  *)
ASSUME HeapAssumption ==
    /\ HeapStart \in Nat /\ HeapSize \in Nat
    /\ Layouts \subseteq [size : Nat \ {0}, align : Nat \ {0}]

Span(start, size) == start .. start + size - 1

(* align_up, for both the kernel's own and the x86_64 crate's function.       *)
AlignUp(addr, align) == align * ((addr + align - 1) \div align)

HeapSpan == Span(HeapStart, HeapSize)

Blocks == [start : Nat, layout : Layouts]

BlockSpan(b) == Span(b.start, b.layout.size)

GInit == live = {}

GAlloc(b) ==
    /\ b.start % b.layout.align = 0
    /\ BlockSpan(b) \subseteq HeapSpan
    /\ \A c \in live : BlockSpan(b) \cap BlockSpan(c) = {}
    /\ live' = live \cup {b}

GDealloc(b) == b \in live /\ live' = live \ {b}

GNext ==
    \/ \E start \in HeapSpan, layout \in Layouts :
           GAlloc([start |-> start, layout |-> layout])
    \/ \E b \in live : GDealloc(b)

GSpec == GInit /\ [][GNext]_live
=============================================================================
