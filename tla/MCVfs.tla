------------------------------- MODULE MCVfs --------------------------------
(* A volume with a subdirectory "d", in it a file "A" whose data is outside *)
(* its record, in clusters 37 and 36; two free records, one of them where   *)
(* cluster 36 is, the other 65536, whose sequence number is 0; little room  *)
(* for entries. The index block of the root takes one entry of the long     *)
(* name; a second one still counts as fitting and passes its end.           *)
EXTENDS Vfs, TLC

MCRoot == 5
MCRecords == {16, 65536}
MCNames == {"a", "A", "e", "?", "d", "dx"}
\* 40 units are just enough to fill a record together with 672 bytes.
MCNameLen == [n \in MCNames |-> IF n = "e" THEN 40 ELSE 1]
MCNameBytes == [n \in MCNames |-> IF n = "e" THEN 80 ELSE 1]
MCShown == [n \in MCNames |-> IF n = "e" THEN "?" ELSE n]
MCFold == [n \in MCNames |-> IF n = "A" THEN "a" ELSE n]
MCPayloads == {[len |-> 4, val |-> 1], [len |-> 4, val |-> 2], [len |-> 672, val |-> 3]}

Body(dir, name, parent, seq) ==
  [sig |-> "FILE", seq |-> seq, dir |-> dir, name |-> name, parent |-> parent,
   payload |-> [len |-> 0, val |-> 0], runs |-> <<>>, index |-> <<>>,
   room |-> 0, ext |-> FALSE]

MCVolume ==
  [bodies |->
     (5 :> [Body(TRUE, "d", 5, 9) EXCEPT !.room = 88, !.ext = TRUE,
              !.index = <<[name |-> "d", rec |-> 24]>>]) @@
     (24 :> [Body(TRUE, "d", 5, 7) EXCEPT !.room = 88,
              !.index = <<[name |-> "A", rec |-> 25]>>]) @@
     (25 :> [Body(FALSE, "A", 24, 8) EXCEPT
              !.runs = <<[delta |-> 37, len |-> 1], [delta |-> -1, len |-> 1]>>]) @@
     (26 :> [Body(FALSE, "A", 5, 8) EXCEPT !.sig = "BAAD"]),
   stale |-> (MftLba(16) :> DataSector(8)) @@
             (MftLba(16) + 1 :> TailOf(Body(FALSE, "a", 5, 3))),
   indx |-> [size |-> 364, first |-> 40, total |-> 0, used |-> 340, kept |-> TRUE]]

MCVolumes == {MCVolume}

MCPaths == {<<"a">>, <<"d", "a">>, <<"dx", "a">>}
MCFsAt == (<<>> :> "ntfs") @@ (<<"d">> :> "other")
MCBegins == {<<"d", "dx">>}
=============================================================================
