------------------------------- MODULE MCHeap -------------------------------
(* Small layouts, one that alignment leaves a gap in front of, and one too      *)
(* large for the block sizes.                                                 *)
EXTENDS Heap
MCLayouts == {[size |-> 1, align |-> 1], [size |-> 3, align |-> 2],
              [size |-> 2, align |-> 4], [size |-> 5, align |-> 2]}
MCBlockSizes == <<2, 4>>
=============================================================================
