----------------------------- MODULE MCDrivers -----------------------------
EXTENDS Drivers

MCBus == <<"sata", "disk">>
MCInfo ==
  [f \in {"sata", "disk"} |->
     IF f = "sata" THEN [id |-> "ich9", class |-> "sata"]
     ELSE [id |-> "virtio-blk", class |-> "scsi"]]
MCAttached == [f \in {"sata", "disk"} |-> IF f = "sata" THEN <<0, 1>> ELSE <<0>>]

Entry(b, l, t) == [base |-> b, length |-> l, type |-> t]

\* Low memory that ends within a page, an empty entry, one that is cut at
\* ALLOC_START and ends within a page, a reserved one from there on, one that
\* begins within a page, and one more than the table holds.
Roomy ==
  <<Entry(0, 3, 1), Entry(4, 0, 1), Entry(4, 17, 1), Entry(21, 5, 2), Entry(31, 13, 1),
    Entry(60, 8, 1)>>

\* Only two frames above ALLOC_START, and two entries that share a page below.
Small == <<Entry(0, 3, 1), Entry(3, 9, 1), Entry(16, 4, 3)>>

MCMemoryMaps == {Roomy, Small}
=============================================================================
