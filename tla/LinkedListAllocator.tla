------------------------ MODULE LinkedListAllocator ------------------------
(* kernel/src/memory/types/linked_list: free regions on a list whose nodes    *)
(* lie in the regions themselves. A freed region goes to the front and is     *)
(* never merged with its neighbours, and what alignment skips in front of an  *)
(* allocation is in no region from then on.                                   *)
EXTENDS GlobalAlloc, SequencesExt

CONSTANTS
    NodeSize,   \* size_of::<ListNode>()
    NodeAlign   \* align_of::<ListNode>()

VARIABLES
    free,   \* the list that starts at head.next
    gaps    \* history: how much memory alignment has skipped so far

(* A Rust type's size is a multiple of its alignment.                         *)
ASSUME NodeAssumption ==
    /\ NodeSize \in Nat \ {0} /\ NodeAlign \in Nat \ {0}
    /\ NodeSize % NodeAlign = 0

(* Alignments are powers of two: of two of them, one divides the other.       *)
ASSUME AlignAssumption ==
    \A l \in Layouts : NodeAlign % l.align = 0 \/ l.align % NodeAlign = 0

(* init's call of add_free_region: HEAP_START is aligned, a node fits.        *)
ASSUME HeapHoldsNode == HeapStart % NodeAlign = 0 /\ HeapSize >= NodeSize

llVars == <<free, gaps>>

LlInit == free = <<[start |-> HeapStart, size |-> HeapSize]>> /\ gaps = 0

LlAlign(layout) == IF layout.align < NodeAlign THEN NodeAlign ELSE layout.align

LlPadded(layout) == AlignUp(layout.size, LlAlign(layout))

(* size_align: room for the ListNode that the block becomes when it is freed. *)
LlSize(layout) ==
    IF LlPadded(layout) < NodeSize THEN NodeSize ELSE LlPadded(layout)

RegionEnd(r) == r.start + r.size

AllocStart(r, layout) == AlignUp(r.start, LlAlign(layout))

(* Mutant: the layout is not adjusted before the search.                      *)
AllocEndUnadjusted(r, layout) == AllocStart(r, layout) + layout.size

AllocEnd(r, layout) == AllocStart(r, layout) + LlSize(layout)

(* Mutant: any excess will do.                                                *)
AllocFromAnyRegion(r, layout) == AllocEnd(r, layout) <= RegionEnd(r)

(* alloc_from_region, with the reason for its second test: an excess that     *)
(* could not hold a node could never be given back.                           *)
AllocFromRegion(r, layout) ==
    /\ AllocEnd(r, layout) <= RegionEnd(r)
    /\ LET excess == RegionEnd(r) - AllocEnd(r, layout)
       IN  excess > 0 => excess >= NodeSize

(* find_region takes the first region of the list that will do.               *)
FindRegion(i, layout) ==
    /\ AllocFromRegion(free[i], layout)
    /\ \A j \in 1 .. i - 1 : ~AllocFromRegion(free[j], layout)

AddFreeRegion(list, start, size) == <<[start |-> start, size |-> size]>> \o list

LlAlloc(layout) ==
    \E i \in DOMAIN free :
        /\ FindRegion(i, layout)
        /\ LET r == free[i]
               end == AllocEnd(r, layout)
           IN  /\ free' = IF RegionEnd(r) > end
                          THEN AddFreeRegion(RemoveAt(free, i), end, RegionEnd(r) - end)
                          ELSE RemoveAt(free, i)
               /\ gaps' = gaps + AllocStart(r, layout) - r.start
               /\ live' = live \cup {[start |-> AllocStart(r, layout), layout |-> layout]}

(* Mutant: the size is not adjusted when a block comes back.                  *)
LlDeallocUnadjusted(b) ==
    /\ b \in live
    /\ free' = AddFreeRegion(free, b.start, b.layout.size)
    /\ live' = live \ {b}
    /\ UNCHANGED gaps

LlDealloc(b) ==
    /\ b \in live
    /\ free' = AddFreeRegion(free, b.start, LlSize(b.layout))
    /\ live' = live \ {b}
    /\ UNCHANGED gaps
=============================================================================
