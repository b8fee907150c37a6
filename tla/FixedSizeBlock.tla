--------------------------- MODULE FixedSizeBlock ---------------------------
(* kernel/src/memory/types/fixed_size_block, the kernel's global allocator:   *)
(* one list of free blocks for each block size, over the Heap of the          *)
(* linked_list_allocator crate. The crate is modelled by the set of addresses *)
(* it has left; it may return any aligned range of them, or fail.             *)
EXTENDS GlobalAlloc, Sequences

CONSTANT BlockSizes     \* BLOCK_SIZES, in increasing order

VARIABLES
    listHeads,  \* list_heads: the addresses on each list
    fallback    \* fallback_allocator: the addresses it has left

(* What from_size_align(..).unwrap() and the two assertions of dealloc need.  *)
ASSUME BlockSizesAssumption ==
    /\ BlockSizes \in Seq(Nat \ {0})
    /\ \A i, j \in DOMAIN BlockSizes : i < j => BlockSizes[i] < BlockSizes[j]

(* A block size is used as the alignment of its blocks. BLOCK_SIZES and all   *)
(* alignments are powers of two.                                              *)
ASSUME BlockAlignAssumption ==
    \A i \in DOMAIN BlockSizes, l \in Layouts :
        BlockSizes[i] >= l.align => BlockSizes[i] % l.align = 0

fsbVars == <<listHeads, fallback>>

FsbInit ==
    /\ listHeads = [i \in DOMAIN BlockSizes |-> <<>>]
    /\ fallback = HeapSpan

(* list_index: the first block size with room for both size and alignment.    *)
ListIndex(layout, i) ==
    /\ BlockSizes[i] >= layout.size /\ BlockSizes[i] >= layout.align
    /\ \A j \in 1 .. i - 1 : BlockSizes[j] < layout.size \/ BlockSizes[j] < layout.align

Oversized(layout) == \A i \in DOMAIN BlockSizes : ~ListIndex(layout, i)

(* The memory a layout takes away from the fallback allocator.                *)
FsbSize(layout) ==
    IF Oversized(layout) THEN layout.size
    ELSE BlockSizes[CHOOSE i \in DOMAIN BlockSizes : ListIndex(layout, i)]

FsbReturns(start, layout) ==
    live' = live \cup {[start |-> start, layout |-> layout]}

FsbPop(layout) ==
    \E i \in DOMAIN BlockSizes :
        /\ ListIndex(layout, i) /\ listHeads[i] # <<>>
        /\ listHeads' = [listHeads EXCEPT ![i] = Tail(@)]
        /\ FsbReturns(Head(listHeads[i]), layout)
        /\ UNCHANGED fallback

(* allocate_first_fit: some aligned range of what is left.                    *)
FallbackAlloc(start, size, align) ==
    /\ start % align = 0
    /\ Span(start, size) \subseteq fallback
    /\ fallback' = fallback \ Span(start, size)

FsbCarve(layout) ==
    \E i \in DOMAIN BlockSizes, start \in fallback :
        /\ ListIndex(layout, i) /\ listHeads[i] = <<>>
        /\ FallbackAlloc(start, BlockSizes[i], BlockSizes[i])
        /\ FsbReturns(start, layout)
        /\ UNCHANGED listHeads

FsbAllocLarge(layout) ==
    \E start \in fallback :
        /\ Oversized(layout)
        /\ FallbackAlloc(start, layout.size, layout.align)
        /\ FsbReturns(start, layout)
        /\ UNCHANGED listHeads

(* Mutant: every block goes back to the last list.                            *)
FsbPushLast(b) ==
    \E i \in DOMAIN BlockSizes :
        /\ b \in live /\ ListIndex(b.layout, i)
        /\ listHeads' = [listHeads EXCEPT ![Len(BlockSizes)] = <<b.start>> \o @]
        /\ live' = live \ {b}
        /\ UNCHANGED fallback

FsbPush(b) ==
    \E i \in DOMAIN BlockSizes :
        /\ b \in live /\ ListIndex(b.layout, i)
        /\ listHeads' = [listHeads EXCEPT ![i] = <<b.start>> \o @]
        /\ live' = live \ {b}
        /\ UNCHANGED fallback

FsbDeallocLarge(b) ==
    /\ b \in live /\ Oversized(b.layout)
    /\ fallback' = fallback \cup Span(b.start, b.layout.size)
    /\ live' = live \ {b}
    /\ UNCHANGED listHeads
=============================================================================
