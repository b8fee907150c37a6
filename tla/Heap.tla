-------------------------------- MODULE Heap --------------------------------
(* Locked<A> of kernel/src/memory/alloc.rs, for each of the allocators A the  *)
(* kernel has: one operation at a time, under the lock, between one init and  *)
(* the end of the kernel. A request that finds no memory returns null and     *)
(* changes nothing.                                                           *)
EXTENDS LinkedListAllocator, FixedSizeBlock, BumpAllocator, FiniteSets

VARIABLE kind   \* the allocator behind the lock

heapVars == <<live, kind, free, gaps, listHeads, fallback, next, allocations>>

HeapInit ==
    /\ kind \in {"linked_list", "fixed_size_block", "bump"}
    /\ GInit /\ LlInit /\ FsbInit /\ BumpInit

LinkedListStep ==
    /\ kind = "linked_list"
    /\ \/ \E layout \in Layouts : LlAlloc(layout)
       \/ \E b \in live : LlDealloc(b)
    /\ UNCHANGED <<kind, fsbVars, bumpVars>>

FixedSizeBlockStep ==
    /\ kind = "fixed_size_block"
    /\ \/ \E layout \in Layouts : FsbPop(layout)
       \/ \E layout \in Layouts : FsbCarve(layout)
       \/ \E layout \in Layouts : FsbAllocLarge(layout)
       \/ \E b \in live : FsbPush(b)
       \/ \E b \in live : FsbDeallocLarge(b)
    /\ UNCHANGED <<kind, llVars, bumpVars>>

BumpStep ==
    /\ kind = "bump"
    /\ \/ \E layout \in Layouts : BumpAlloc(layout)
       \/ \E b \in live : BumpDealloc(b)
    /\ UNCHANGED <<kind, llVars, fsbVars>>

HeapNext == LinkedListStep \/ FixedSizeBlockStep \/ BumpStep

HeapSpec == HeapInit /\ [][HeapNext]_heapVars

-----------------------------------------------------------------------------

(* The variables have their types.                                            *)
HeapTypeOK ==
    /\ live \subseteq Blocks
    /\ free \in Seq([start : Nat, size : Nat]) /\ gaps \in Nat
    /\ listHeads \in [DOMAIN BlockSizes -> Seq(Nat)] /\ fallback \subseteq HeapSpan
    /\ next \in Nat /\ allocations \in Nat

(* Whatever the allocator and the order of requests and frees, the blocks     *)
(* that alloc returns and dealloc has not taken back lie in the heap, are     *)
(* aligned as their layout says and are disjoint.                             *)
ImplementsGlobalAlloc == GSpec

(* Memory taken by a live block, padding included.                            *)
LlBlockSpan(b) == Span(b.start, LlSize(b.layout))

RegionSpan(r) == Span(r.start, r.size)

(* find_region, the return of the excess in alloc and add_free_region in      *)
(* dealloc keep the linked list's memory apart: no address belongs to two     *)
(* regions, to two blocks or to a region and a block, so writing a ListNode   *)
(* into a region never changes anybody's data.                                *)
RegionsApart ==
    kind = "linked_list" =>
        /\ \A i \in DOMAIN free : RegionSpan(free[i]) \subseteq HeapSpan
        /\ \A b \in live : LlBlockSpan(b) \subseteq HeapSpan
        /\ \A i, j \in DOMAIN free :
               i # j => RegionSpan(free[i]) \cap RegionSpan(free[j]) = {}
        /\ \A b, c \in live : b # c => LlBlockSpan(b) \cap LlBlockSpan(c) = {}
        /\ \A i \in DOMAIN free, b \in live :
               RegionSpan(free[i]) \cap LlBlockSpan(b) = {}

(* Every address of the linked list's heap is in a region, in a block or was  *)
(* skipped for alignment: alloc and dealloc lose nothing else.                *)
OnlyGapsAreLost ==
    kind = "linked_list" =>
        Cardinality((UNION {RegionSpan(free[i]) : i \in DOMAIN free})
                    \cup (UNION {LlBlockSpan(b) : b \in live})) + gaps = HeapSize

(* Every region on the list can hold its ListNode, which is what the two      *)
(* assertions of add_free_region say: neither the excess of an allocation nor *)
(* a block that comes back ever makes them fail.                              *)
NodesFit ==
    \A i \in DOMAIN free : free[i].start % NodeAlign = 0 /\ free[i].size >= NodeSize

(* The addresses of block j of list i.                                        *)
ListedSpan(i, j) == Span(listHeads[i][j], BlockSizes[i])

FsbBlockSpan(b) == Span(b.start, FsbSize(b.layout))

(* The fixed-size allocator's memory is always divided between live blocks,   *)
(* listed blocks and the fallback allocator: no block is on a list twice or   *)
(* while it is in use, and none is ever dropped.                              *)
BlocksPartitionHeap ==
    kind = "fixed_size_block" =>
        LET listed == UNION {{i} \X (DOMAIN listHeads[i]) : i \in DOMAIN BlockSizes}
        IN  /\ \A b \in live : FsbBlockSpan(b) \cap fallback = {}
            /\ \A b, c \in live : b # c => FsbBlockSpan(b) \cap FsbBlockSpan(c) = {}
            /\ \A p \in listed :
                   /\ ListedSpan(p[1], p[2]) \cap fallback = {}
                   /\ \A b \in live : ListedSpan(p[1], p[2]) \cap FsbBlockSpan(b) = {}
                   /\ \A q \in listed : p # q =>
                          ListedSpan(p[1], p[2]) \cap ListedSpan(q[1], q[2]) = {}
            /\ HeapSpan = fallback \cup (UNION {FsbBlockSpan(b) : b \in live})
                                   \cup (UNION {ListedSpan(p[1], p[2]) : p \in listed})
=============================================================================
