------------------------------ MODULE VfsProofs ------------------------------
(***************************************************************************)
(* Files survive on an NTFS volume whatever write was the last to reach    *)
(* the disk, and handles stay right, for every consistent volume, every    *)
(* geometry and every set of names and payloads.                           *)
(***************************************************************************)
EXTENDS Vfs, WellFoundedInduction, TLAPS

SectorContents ==
  {Blank} \cup {HeadOf(b) : b \in RecordBody} \cup {TailOf(b) : b \in RecordBody}
          \cup {DataSector(n) : n \in SequenceNumber}

(* The shapes of the call in progress. *)
CreateOps ==
  [call : {"create"}, pc : {"head", "tail", "entry"}, rec : Records, body : RecordBody,
   dir : AllRecords, name : Names, new : Records]
LinkOps ==
  [call : {"link"}, pc : {"head", "tail", "open"}, rec : AllRecords, body : RecordBody,
   dir : AllRecords, name : Names, new : Records]
WriteOps ==
  [call : {"write"}, pc : {"head", "tail"}, rec : AllRecords, body : RecordBody]
Panicked == [call |-> "panic"]

VolumeTypes ==
  /\ Root \in AllRecords
  /\ disk \in [Sectors -> SectorContents]
  /\ indx \in IndexBlock
  /\ op \in {Idle, Panicked} \cup CreateOps \cup LinkOps \cup WriteOps
  /\ created \subseteq Records

-----------------------------------------------------------------------------
(* Records and their sectors. *)
LEMMA RecordFacts ==
  AllRecords \subseteq Nat /\ Records \subseteq AllRecords
<1>1. \A v \in Volumes : DOMAIN v.bodies \subseteq Nat
  BY VolumesAssumption DEF Consistent
<1> QED
  BY <1>1, RecordsAssumption DEF AllRecords

(* No two records share a sector. *)
LEMMA Layout ==
  ASSUME NEW r \in AllRecords, NEW s \in AllRecords
  PROVE  /\ MftLba(r) \in Sectors /\ MftLba(r) + 1 \in Sectors
         /\ MftLba(r) # MftLba(s) + 1
         /\ MftLba(r) = MftLba(s) => r = s
         /\ MftLba(r) + 1 = MftLba(s) + 1 => r = s
<1>1. r \in Nat /\ s \in Nat
  BY RecordFacts
<1> DEFINE base == MftCluster * BytesPerCluster
<1>2. base \in Nat
  BY GeometryAssumption
<1>3. /\ MftLba(r) = base + r * 1024 /\ MftLba(s) = base + s * 1024
  BY DEF MftLba, RecordSize
<1>4. MftLba(r) \in Nat /\ MftLba(r) = MftLba(r) + 0
  <2> HIDE DEF base
  <2> QED BY <1>1, <1>2, <1>3
<1>5. MftLba(r) \in Sectors /\ MftLba(r) + 1 \in Sectors
  BY <1>4 DEF Sectors
<1>6. /\ MftLba(r) # MftLba(s) + 1
      /\ MftLba(r) = MftLba(s) => r = s
      /\ MftLba(r) + 1 = MftLba(s) + 1 => r = s
  <2> HIDE DEF base
  <2> QED BY <1>1, <1>2, <1>3
<1> QED BY <1>5, <1>6

(* What the kinds of sectors are. *)
LEMMA SectorFacts ==
  /\ \A s \in SectorContents :
       /\ s.tag \in {"blank", "head", "tail", "data"}
       /\ s.tag = "head" => s.body \in RecordBody /\ s = HeadOf(s.body)
       /\ s.tag = "tail" => s.body \in RecordBody /\ s = TailOf(s.body)
  /\ \A b \in RecordBody :
       /\ HeadOf(b) \in SectorContents /\ TailOf(b) \in SectorContents
       /\ HeadOf(b).tag = "head" /\ HeadOf(b).body = b
       /\ TailOf(b).tag = "tail" /\ TailOf(b).body = b
  /\ Blank \in SectorContents /\ Blank.tag = "blank"
<1>1. ASSUME NEW b \in RecordBody
      PROVE  /\ HeadOf(b) \in SectorContents /\ TailOf(b) \in SectorContents
             /\ HeadOf(b).tag = "head" /\ HeadOf(b).body = b
             /\ TailOf(b).tag = "tail" /\ TailOf(b).body = b
  <2>1. HeadOf(b) \in SectorContents /\ TailOf(b) \in SectorContents
    BY DEF SectorContents
  <2> QED BY <2>1 DEF HeadOf, TailOf
<1>2. Blank \in SectorContents /\ Blank.tag = "blank"
  BY DEF SectorContents, Blank
<1>3. ASSUME NEW s \in SectorContents
      PROVE  /\ s.tag \in {"blank", "head", "tail", "data"}
             /\ s.tag = "head" => s.body \in RecordBody /\ s = HeadOf(s.body)
             /\ s.tag = "tail" => s.body \in RecordBody /\ s = TailOf(s.body)
  <2>1. \/ s = Blank
        \/ \E b \in RecordBody : s = HeadOf(b)
        \/ \E b \in RecordBody : s = TailOf(b)
        \/ \E n \in SequenceNumber : s = DataSector(n)
    BY DEF SectorContents
  <2>2. \A n \in SequenceNumber : DataSector(n).tag = "data"
    BY DEF DataSector
  <2> QED BY <2>1, <2>2, <1>1, <1>2
<1> QED BY <1>1, <1>2, <1>3

-----------------------------------------------------------------------------
(* The volume as the driver sees it, record by record: the two sectors,    *)
(* the records that are accepted, their attributes.                        *)
First == [r \in AllRecords |-> FirstSector(r)]
Second == [r \in AllRecords |-> SecondSector(r)]
Good == {r \in AllRecords : Accepted(r)}
Attr == [r \in AllRecords |-> Stat(r)]

(* What they are made of. *)
LEMMA RecordView ==
  ASSUME disk \in [Sectors -> SectorContents]
  PROVE  /\ First \in [AllRecords -> SectorContents]
         /\ Second \in [AllRecords -> SectorContents]
         /\ Good \subseteq AllRecords
         /\ \A r \in AllRecords :
              /\ Attr[r] = First[r].body
              /\ r \in Good <=> /\ First[r].tag = "head" /\ Attr[r].sig = "FILE"
                               /\ SectorEnd(Second[r]) = Attr[r].seq
              /\ First[r].tag = "head" =>
                   Attr[r] \in RecordBody /\ First[r] = HeadOf(Attr[r])
         /\ \A r \in Good : Attr[r] \in RecordBody /\ Attr[r].index \in Seq(Entry)
<1>1. ASSUME NEW r \in AllRecords
      PROVE  First[r] \in SectorContents /\ Second[r] \in SectorContents
  BY Layout DEF First, Second, FirstSector, SecondSector
<1>2. First \in [AllRecords -> SectorContents] /\ Second \in [AllRecords -> SectorContents]
  BY <1>1 DEF First, Second
<1>3. ASSUME NEW r \in AllRecords
      PROVE  /\ Attr[r] = First[r].body
             /\ r \in Good <=> /\ First[r].tag = "head" /\ Attr[r].sig = "FILE"
                              /\ SectorEnd(Second[r]) = Attr[r].seq
  BY DEF Attr, First, Second, Good, Stat, Accepted, FixupsMatch
<1>4. ASSUME NEW r \in AllRecords, First[r].tag = "head"
      PROVE  Attr[r] \in RecordBody /\ First[r] = HeadOf(Attr[r])
  BY <1>1, <1>3, <1>4, SectorFacts
<1>5. ASSUME NEW r \in Good
      PROVE  Attr[r] \in RecordBody /\ Attr[r].index \in Seq(Entry)
  <2>1. r \in AllRecords
    BY DEF Good
  <2>2. Attr[r] \in RecordBody
    BY <1>3, <1>4, <2>1
  <2> QED BY <2>2, Zenon DEF RecordBody
<1>6. Good \subseteq AllRecords
  BY DEF Good
<1> QED BY <1>2, <1>3, <1>4, <1>5, <1>6

(* The view depends on the disk only. *)
LEMMA ViewUnchanged ==
  ASSUME UNCHANGED disk
  PROVE  UNCHANGED <<First, Second, Good, Attr>>
  BY DEF First, Second, Good, Attr, FirstSector, SecondSector, Accepted, Stat

(* A write to the first sector of a record changes nothing else. *)
LEMMA FirstWritten ==
  ASSUME disk \in [Sectors -> SectorContents],
         NEW r \in AllRecords, NEW b \in RecordBody,
         disk' = [disk EXCEPT ![MftLba(r)] = HeadOf(b)]
  PROVE  /\ disk' \in [Sectors -> SectorContents]
         /\ First' = [First EXCEPT ![r] = HeadOf(b)] /\ Second' = Second
<1>1. HeadOf(b) \in SectorContents /\ MftLba(r) \in Sectors
  BY SectorFacts, Layout
<1>2. disk' \in [Sectors -> SectorContents]
  BY <1>1
<1>3. ASSUME NEW s \in AllRecords
      PROVE  /\ disk'[MftLba(s)] = IF s = r THEN HeadOf(b) ELSE disk[MftLba(s)]
             /\ disk'[MftLba(s) + 1] = disk[MftLba(s) + 1]
  <2>1. /\ MftLba(s) \in Sectors /\ MftLba(s) + 1 \in Sectors
        /\ MftLba(r) # MftLba(s) + 1 /\ (MftLba(r) = MftLba(s) => r = s)
    BY Layout
  <2> QED BY <1>1, <2>1
<1> QED
  BY <1>2, <1>3 DEF First, Second, FirstSector, SecondSector

(* The same for its second sector. *)
LEMMA SecondWritten ==
  ASSUME disk \in [Sectors -> SectorContents],
         NEW r \in AllRecords, NEW b \in RecordBody,
         disk' = [disk EXCEPT ![MftLba(r) + 1] = TailOf(b)]
  PROVE  /\ disk' \in [Sectors -> SectorContents]
         /\ Second' = [Second EXCEPT ![r] = TailOf(b)] /\ First' = First
<1>1. TailOf(b) \in SectorContents /\ MftLba(r) + 1 \in Sectors
  BY SectorFacts, Layout
<1>2. disk' \in [Sectors -> SectorContents]
  BY <1>1
<1>3. ASSUME NEW s \in AllRecords
      PROVE  /\ disk'[MftLba(s) + 1] = IF s = r THEN TailOf(b) ELSE disk[MftLba(s) + 1]
             /\ disk'[MftLba(s)] = disk[MftLba(s)]
  <2>1. /\ MftLba(s) \in Sectors /\ MftLba(s) + 1 \in Sectors
        /\ MftLba(s) # MftLba(r) + 1 /\ (MftLba(r) + 1 = MftLba(s) + 1 => r = s)
    BY Layout
  <2> QED BY <1>1, <2>1
<1> QED
  BY <1>2, <1>3 DEF First, Second, FirstSector, SecondSector

-----------------------------------------------------------------------------
(* The later version of a record that stays the same file: more entries,   *)
(* or other contents of the same length.                                   *)
Later(b, c) ==
  /\ c.sig = b.sig /\ c.seq = b.seq /\ c.dir = b.dir /\ c.name = b.name
  /\ c.parent = b.parent /\ c.runs = b.runs /\ c.payload.len = b.payload.len
  /\ b.room = 0 => c.room = 0
  /\ Len(b.index) <= Len(c.index)
  /\ \A i \in 1..Len(b.index) : c.index[i] = b.index[i]

(* A record with one more entry. *)
WithEntry(b, e) == [b EXCEPT !.index = Append(b.index, e),
                             !.room = b.room - EntryLen(e.name)]

(* No directory has an entry for the record yet. *)
Unlinked(r) ==
  \A d \in Good : \A i \in 1..Len(Attr[d].index) : Attr[d].index[i].rec # r

(* What is on the disk when create_file is at a point: it has chosen a     *)
(* record that was free, of a name the directory does not have.            *)
CreateInv ==
  op.call = "create" =>
    /\ op.new = op.rec /\ op.rec # op.dir /\ Unlinked(op.new)
    /\ op.body.sig = "FILE" /\ op.body.seq = op.rec % 65536 /\ op.body.name = op.name
    /\ op.body.parent = op.dir /\ op.body.index = << >>
    /\ op.dir \in Good /\ Attr[op.dir].dir /\ Hits(Attr[op.dir], op.name) = {}
    /\ op.pc = "head" => First[op.rec].tag # "head"
    /\ op.pc \in {"tail", "entry"} => First[op.rec] = HeadOf(op.body)
    /\ op.pc = "entry" => Second[op.rec] = TailOf(op.body)

(* The same while it adds the entry: the record it is for is complete.     *)
LinkInv ==
  op.call = "link" =>
    /\ op.new \in Good /\ Attr[op.new].name = op.name /\ Attr[op.new].parent = op.dir
    /\ op.pc \in {"head", "tail"} => op.rec = op.dir /\ op.rec # op.new /\ op.rec \in Good
    /\ op.pc = "head" =>
         /\ Attr[op.rec].dir /\ Unlinked(op.new) /\ Hits(Attr[op.rec], op.name) = {}
         /\ Attr[op.rec].room >= EntryLen(op.name)
         /\ op.body = WithEntry(Attr[op.rec], NewEntry)
    /\ op.pc = "tail" => Attr[op.rec] = op.body

(* write_file replaces the contents of a complete record.                  *)
WriteInv ==
  op.call = "write" =>
    /\ op.rec \in Good
    /\ op.pc = "head" => /\ op.body = [Attr[op.rec] EXCEPT !.payload = op.body.payload]
                         /\ op.body.payload.len = Attr[op.rec].payload.len
    /\ op.pc = "tail" => Attr[op.rec] = op.body

(* The sector behind a free record does not end like the record's own.     *)
FreeUnmatched ==
  \A r \in Records :
    First[r].tag # "head" /\ Second[r].tag \in {"tail", "data"} =>
      SectorEnd(Second[r]) # r % 65536

(* NoForeignTail, in terms of the view; file data is never a second sector. *)
TailsOwn ==
  \A r \in Good :
    /\ Second[r].tag # "data"
    /\ Attr[r].seq # 0 => /\ Second[r].tag = "tail" /\ Second[r].body.name = Attr[r].name
                          /\ Second[r].body.parent = Attr[r].parent

(* NoDanglingEntry, of every record that is accepted. *)
EntriesNamed ==
  \A d \in Good : \A i \in 1..Len(Attr[d].index) :
    LET e == Attr[d].index[i]
    IN  e.rec \in Good /\ Attr[e.rec].name = e.name /\ Attr[e.rec].parent = d

(* The records create_file has returned, and the one it is making. *)
Made == created \cup IF op.call \in {"create", "link"} THEN {op.new} ELSE {}

(* No earlier entry of the directory matches the name of one of them. *)
EntriesFirst ==
  \A d \in Good : \A i \in 1..Len(Attr[d].index) :
    Attr[d].index[i].rec \in Made =>
      \A j \in 1..(i - 1) : ~Matches(Attr[d].index[j].name, Attr[d].index[i].name)

RootThere == Root \in Good /\ Attr[Root].dir

NtfsInv ==
  /\ VolumeTypes /\ RootThere
  /\ CreateInv /\ LinkInv /\ WriteInv
  /\ FreeUnmatched /\ TailsOwn
  /\ EntriesNamed /\ EntriesFirst /\ created \subseteq Good

(* What every step does to the records: an accepted one stays that file.   *)
RecordsKept ==
  \A r \in Good :
    /\ r \in Good' /\ Later(Attr[r], Attr'[r])
    /\ Attr'[r].payload # Attr[r].payload => op.call = "write" /\ op.rec = r

(* No record has got an entry. *)
NoNewEntries ==
  \A d \in Good' : \/ Attr'[d].index = << >>
                   \/ d \in Good /\ Attr'[d].index = Attr[d].index

-----------------------------------------------------------------------------
(* The length of an entry is a number other than 0. *)
LEMMA EntryLenType == \A n \in Names : EntryLen(n) \in Nat /\ EntryLen(n) # 0
  BY NamesAssumption DEF EntryLen, Align8

(* A record with one more entry, and one with other contents, are later    *)
(* versions of it.                                                         *)
LEMMA LaterVersions ==
  ASSUME NEW b \in RecordBody
  PROVE  /\ Later(b, b)
         /\ \A e \in Entry : b.room >= EntryLen(e.name) =>
              /\ WithEntry(b, e) \in RecordBody /\ Later(b, WithEntry(b, e))
              /\ WithEntry(b, e).index = Append(b.index, e)
              /\ WithEntry(b, e).payload = b.payload
         /\ \A p \in Payload :
              LET c == [b EXCEPT !.payload = p]
              IN  /\ c \in RecordBody /\ c.index = b.index /\ c.payload = p
                  /\ p.len = b.payload.len => Later(b, c)
<1>0. b.index \in Seq(Entry)
  BY Zenon DEF RecordBody
<1>1. Later(b, b)
  BY <1>0 DEF Later
<1>2. ASSUME NEW e \in Entry, b.room >= EntryLen(e.name)
      PROVE  /\ WithEntry(b, e) \in RecordBody /\ Later(b, WithEntry(b, e))
             /\ WithEntry(b, e).index = Append(b.index, e)
             /\ WithEntry(b, e).payload = b.payload
  <2>1. EntryLen(e.name) \in Nat /\ EntryLen(e.name) # 0 /\ b.room \in Nat
    BY Zenon, EntryLenType DEF Entry, RecordBody
  <2>2. b.room - EntryLen(e.name) \in Nat
    BY <1>2, <2>1
  <2>3. Append(b.index, e) \in Seq(Entry)
    BY <1>0
  <2>4. WithEntry(b, e) \in RecordBody
    BY Zenon, <2>2, <2>3 DEF WithEntry, RecordBody
  <2>5. /\ WithEntry(b, e).index = Append(b.index, e)
        /\ WithEntry(b, e).payload = b.payload
        /\ WithEntry(b, e).sig = b.sig /\ WithEntry(b, e).seq = b.seq
        /\ WithEntry(b, e).dir = b.dir /\ WithEntry(b, e).name = b.name
        /\ WithEntry(b, e).parent = b.parent /\ WithEntry(b, e).runs = b.runs
    BY Zenon DEF WithEntry, RecordBody
  <2>6. /\ Len(b.index) <= Len(Append(b.index, e))
        /\ \A i \in 1..Len(b.index) : Append(b.index, e)[i] = b.index[i]
    BY <1>0
  <2>7. b.room # 0
    BY <1>2, <2>1
  <2> QED
    BY <2>4, <2>5, <2>6, <2>7 DEF Later
<1>3. ASSUME NEW p \in Payload
      PROVE  LET c == [b EXCEPT !.payload = p]
             IN  /\ c \in RecordBody /\ c.index = b.index /\ c.payload = p
                 /\ p.len = b.payload.len => Later(b, c)
  <2> DEFINE c == [b EXCEPT !.payload = p]
  <2>1. c \in RecordBody /\ c.index = b.index /\ c.payload = p
    BY Zenon DEF RecordBody
  <2>2. /\ c.sig = b.sig /\ c.seq = b.seq /\ c.dir = b.dir /\ c.name = b.name
        /\ c.parent = b.parent /\ c.runs = b.runs /\ c.room = b.room
    BY Zenon DEF RecordBody
  <2>3. Len(b.index) <= Len(c.index) /\ \A i \in 1..Len(b.index) : c.index[i] = b.index[i]
    BY <1>0, <2>1
  <2> QED
    BY <2>1, <2>2, <2>3 DEF Later
<1> QED BY <1>1, <1>2, <1>3

(* The shape of the call follows from its name. *)
LEMMA CallShapes ==
  ASSUME VolumeTypes
  PROVE  /\ op.call \in {"none", "panic", "create", "link", "write"}
         /\ op.call = "create" => op \in CreateOps
         /\ op.call = "link" => op \in LinkOps
         /\ op.call = "write" => op \in WriteOps
         /\ op.call \in {"create", "link", "write"} =>
              op.rec \in AllRecords /\ op.body \in RecordBody
<1>1. \/ op = Idle \/ op = Panicked
      \/ op \in CreateOps \/ op \in LinkOps \/ op \in WriteOps
  BY DEF VolumeTypes
<1>2. Idle.call = "none" /\ Panicked.call = "panic"
  BY DEF Idle, Panicked
<1>3. op \in CreateOps => op.call = "create" /\ op.rec \in Records /\ op.body \in RecordBody
  BY DEF CreateOps
<1>4. op \in LinkOps => op.call = "link" /\ op.rec \in AllRecords /\ op.body \in RecordBody
  BY DEF LinkOps
<1>5. op \in WriteOps => op.call = "write" /\ op.rec \in AllRecords /\ op.body \in RecordBody
  BY DEF WriteOps
<1> QED
  BY <1>1, <1>2, <1>3, <1>4, <1>5, RecordFacts

(* A record whose sectors were both written is accepted. *)
LEMMA WholeAccepted ==
  ASSUME disk \in [Sectors -> SectorContents], NEW r \in AllRecords,
         NEW b \in RecordBody, b.sig = "FILE",
         First[r] = HeadOf(b), Second[r] = TailOf(b)
  PROVE  r \in Good /\ Attr[r] = b
<1>1. First[r].tag = "head" /\ First[r].body = b /\ SectorEnd(Second[r]) = b.seq
  BY SectorFacts DEF SectorEnd
<1> QED
  BY <1>1, RecordView

(* With the records kept and no new entry, nothing dangles. *)
LEMMA NothingLinked ==
  ASSUME NtfsInv, RecordsKept, NoNewEntries
  PROVE  /\ EntriesNamed' /\ RootThere' /\ Good \subseteq Good'
         /\ \A r : Unlinked(r) => Unlinked(r)'
         /\ (\A r \in Made' : r \in Made \/ Unlinked(r)) => EntriesFirst'
<1>1. VolumeTypes /\ RootThere /\ EntriesNamed /\ EntriesFirst
  BY DEF NtfsInv
<1>2. \A r \in Good :
         /\ r \in Good' /\ Attr'[r].name = Attr[r].name /\ Attr'[r].parent = Attr[r].parent
         /\ Attr'[r].dir = Attr[r].dir
  BY DEF RecordsKept, Later
<1>3. \A d \in Good : Attr[d].index \in Seq(Entry)
  BY <1>1, RecordView DEF VolumeTypes
<1>4. ASSUME NEW d \in Good', NEW i \in 1..Len(Attr'[d].index)
      PROVE  d \in Good /\ Attr'[d].index = Attr[d].index
  <2>1. Attr'[d].index # << >>
    BY <1>4
  <2> QED
    BY <1>4, <2>1 DEF NoNewEntries
<1>5. EntriesNamed'
  <2>1. ASSUME NEW d \in Good', NEW i \in 1..Len(Attr'[d].index)
        PROVE  LET e == Attr'[d].index[i]
               IN  e.rec \in Good' /\ Attr'[e.rec].name = e.name /\ Attr'[e.rec].parent = d
    <3> DEFINE e == Attr[d].index[i]
    <3>1. d \in Good /\ Attr'[d].index = Attr[d].index
      BY <1>4
    <3>2. e.rec \in Good /\ Attr[e.rec].name = e.name /\ Attr[e.rec].parent = d
      BY <1>1, <3>1 DEF EntriesNamed
    <3>3. e.rec \in Good' /\ Attr'[e.rec].name = e.name /\ Attr'[e.rec].parent = d
      BY <1>2, <3>2
    <3> QED BY <3>1, <3>3
  <2> QED BY <2>1 DEF EntriesNamed
<1>6. RootThere'
  BY <1>1, <1>2 DEF RootThere
<1>7. Good \subseteq Good'
  BY <1>2
<1>8. ASSUME NEW r, Unlinked(r) PROVE Unlinked(r)'
  BY <1>4, <1>8 DEF Unlinked
<1>9. ASSUME \A r \in Made' : r \in Made \/ Unlinked(r) PROVE EntriesFirst'
  <2> SUFFICES ASSUME NEW d \in Good', NEW i \in 1..Len(Attr'[d].index),
                      Attr'[d].index[i].rec \in Made', NEW j \in 1..(i - 1)
               PROVE  ~Matches(Attr'[d].index[j].name, Attr'[d].index[i].name)
    BY DEF EntriesFirst
  <2>1. d \in Good /\ Attr'[d].index = Attr[d].index
    BY <1>4
  <2>2. Attr[d].index[i].rec \in Made
    BY <1>9, <2>1 DEF Unlinked
  <2> QED BY <1>1, <2>1, <2>2 DEF EntriesFirst
<1> QED BY <1>5, <1>6, <1>7, <1>8, <1>9

-----------------------------------------------------------------------------
(* While nothing is written every record keeps what it has. *)
LEMMA QuietView ==
  ASSUME NtfsInv, UNCHANGED disk
  PROVE  /\ First' = First /\ Second' = Second /\ Good' = Good /\ Attr' = Attr
         /\ RecordsKept /\ NoNewEntries /\ FreeUnmatched' /\ TailsOwn'
<1>1. First' = First /\ Second' = Second /\ Good' = Good /\ Attr' = Attr
  BY ViewUnchanged
<1>2. \A r \in Good : Later(Attr[r], Attr[r])
  BY RecordView, LaterVersions DEF NtfsInv, VolumeTypes
<1>3. RecordsKept /\ NoNewEntries
  BY <1>1, <1>2 DEF RecordsKept, NoNewEntries
<1>4. FreeUnmatched' /\ TailsOwn'
  BY <1>1 DEF NtfsInv, FreeUnmatched, TailsOwn
<1> QED BY <1>1, <1>3, <1>4

(* The call is over, was refused or is lost: CreatePanics, AddFails,       *)
(* IoFails and PowerLoss.                                                  *)
LEMMA CallEnds ==
  ASSUME NtfsInv, op' \in {Idle, Panicked}, UNCHANGED <<disk, indx, created>>
  PROVE  NtfsInv' /\ RecordsKept
<1>1. op'.call \notin {"create", "link", "write"}
  BY DEF Idle, Panicked
<1>2. RecordsKept /\ NoNewEntries /\ FreeUnmatched' /\ TailsOwn'
  BY QuietView
<1>3. Made' \subseteq Made
  BY <1>1 DEF Made
<1>4. EntriesNamed' /\ RootThere' /\ Good \subseteq Good' /\ EntriesFirst'
  BY <1>2, <1>3, NothingLinked
<1>5. VolumeTypes'
  BY DEF NtfsInv, VolumeTypes
<1>6. CreateInv' /\ LinkInv' /\ WriteInv'
  BY <1>1 DEF CreateInv, LinkInv, WriteInv
<1> QED
  BY <1>2, <1>4, <1>5, <1>6 DEF NtfsInv

(* create_file returns the file it has opened. *)
LEMMA OpenNewStep ==
  ASSUME NtfsInv, OpenNew
  PROVE  NtfsInv' /\ RecordsKept
<1>1. /\ op.call = "link" /\ op.pc = "open" /\ op' = Idle
      /\ created' \subseteq created \cup {op.new} /\ UNCHANGED <<disk, indx>>
  BY DEF OpenNew
<1>2. op \in LinkOps /\ op.new \in Records /\ op.new \in Good
  BY <1>1, CallShapes DEF NtfsInv, LinkInv, LinkOps
<1>3. RecordsKept /\ NoNewEntries /\ FreeUnmatched' /\ TailsOwn'
  BY <1>1, QuietView
<1>4. op'.call = "none"
  BY <1>1 DEF Idle
<1>5. Made' \subseteq Made
  BY <1>1, <1>4 DEF Made
<1>6. EntriesNamed' /\ RootThere' /\ Good \subseteq Good' /\ EntriesFirst'
  BY <1>1, <1>3, <1>5, NothingLinked
<1>7. VolumeTypes'
  BY <1>1, <1>2 DEF NtfsInv, VolumeTypes
<1>8. CreateInv' /\ LinkInv' /\ WriteInv'
  BY <1>4 DEF CreateInv, LinkInv, WriteInv
<1>9. created' \subseteq Good'
  BY <1>1, <1>2, <1>6 DEF NtfsInv
<1> QED
  BY <1>3, <1>6, <1>7, <1>8, <1>9 DEF NtfsInv

(* The record create_file builds is one. *)
LEMMA NewRecordType ==
  ASSUME NEW r \in Records, NEW d \in AllRecords, NEW n \in NewNames,
         NEW isDir \in BOOLEAN, NEW p \in Payloads
  PROVE  /\ NewRecord(r, d, n, isDir, p) \in RecordBody
         /\ NewRecord(r, d, n, isDir, p).sig = "FILE"
         /\ NewRecord(r, d, n, isDir, p).seq = r % 65536
         /\ NewRecord(r, d, n, isDir, p).name = n
         /\ NewRecord(r, d, n, isDir, p).parent = d
         /\ NewRecord(r, d, n, isDir, p).index = << >>
         /\ NewRecord(r, d, n, isDir, p).room = 0
<1> DEFINE q == IF isDir THEN [len |-> 0, val |-> 0] ELSE p
           s == r % 65536
<1>1. s \in SequenceNumber
  BY RecordsAssumption DEF SequenceNumber
<1>2. q \in Payload
  BY PayloadsAssumption DEF Payload
<1>3. "FILE" \in Signature /\ n \in Names /\ << >> \in Seq(Run) /\ << >> \in Seq(Entry)
  BY NamesAssumption DEF Signature
<1>4. 0 \in Nat /\ FALSE \in BOOLEAN
  OBVIOUS
<1>5. NewRecord(r, d, n, isDir, p) =
        [sig |-> "FILE", seq |-> s, dir |-> isDir, name |-> n, parent |-> d,
         payload |-> q, runs |-> << >>, index |-> << >>, room |-> 0, ext |-> FALSE]
  BY DEF NewRecord
<1> HIDE DEF q, s
<1>6. NewRecord(r, d, n, isDir, p) \in RecordBody
  <2>1. [sig |-> "FILE", seq |-> s, dir |-> isDir, name |-> n, parent |-> d,
         payload |-> q, runs |-> << >>, index |-> << >>, room |-> 0, ext |-> FALSE]
        \in RecordBody
    BY <1>1, <1>2, <1>3, <1>4, Zenon DEF RecordBody
  <2> QED BY <1>5, <2>1, Zenon
<1>7. /\ NewRecord(r, d, n, isDir, p).sig = "FILE"
      /\ NewRecord(r, d, n, isDir, p).seq = s
      /\ NewRecord(r, d, n, isDir, p).name = n
      /\ NewRecord(r, d, n, isDir, p).parent = d
      /\ NewRecord(r, d, n, isDir, p).index = << >>
      /\ NewRecord(r, d, n, isDir, p).room = 0
  BY <1>5
<1> QED BY <1>6, <1>7 DEF s

(* create_file has found a free record for a name that is new. *)
LEMMA CreateBeginsStep ==
  ASSUME NtfsInv, NEW d \in Held, NEW n \in NewNames,
         NEW isDir \in BOOLEAN, NEW p \in Payloads, CreateBegins(d, n, isDir, p)
  PROVE  NtfsInv' /\ RecordsKept
<1>0. VolumeTypes /\ RootThere /\ EntriesNamed
  BY DEF NtfsInv
<1>1. d \in AllRecords
  BY <1>0, RecordFacts DEF Held, Found, VolumeTypes
<1>2. PICK r \in Records :
        /\ Free(r)
        /\ op' = [call |-> "create", pc |-> "head", rec |-> r,
                  body |-> NewRecord(r, d, n, isDir, p), dir |-> d, name |-> n, new |-> r]
  BY DEF CreateBegins, CreateCall
<1>3. UNCHANGED <<disk, indx, created>>
  BY DEF CreateBegins, CreateCall
<1>4. d \in Good /\ Attr[d].dir /\ Hits(Attr[d], n) = {}
  BY <1>0, <1>1 DEF CreateBegins, MayCreate, IsDirectory, StatOk, Good, Attr, RootThere
<1>5. r \in AllRecords /\ First[r].tag # "head"
  BY <1>2, RecordFacts DEF Free, First
<1>6. r \notin Good
  BY <1>0, <1>5, RecordView DEF VolumeTypes
<1>7. Unlinked(r)
  BY <1>0, <1>6 DEF Unlinked, EntriesNamed
<1>8. /\ First' = First /\ Second' = Second /\ Good' = Good /\ Attr' = Attr
      /\ RecordsKept /\ NoNewEntries /\ FreeUnmatched' /\ TailsOwn'
  BY <1>3, QuietView
<1> DEFINE b == NewRecord(r, d, n, isDir, p)
<1>9. /\ b \in RecordBody /\ b.sig = "FILE" /\ b.seq = r % 65536 /\ b.name = n
      /\ b.parent = d /\ b.index = << >>
  BY <1>1, NewRecordType
<1> HIDE DEF b
<1>10. /\ op'.call = "create" /\ op'.pc = "head" /\ op'.rec = r /\ op'.new = r
       /\ op'.dir = d /\ op'.name = n /\ op'.body = b
  BY <1>2 DEF b
<1>11. op' \in CreateOps
  BY <1>1, <1>2, <1>9, NamesAssumption DEF CreateOps, b
<1>12. VolumeTypes'
  BY <1>0, <1>3, <1>11 DEF VolumeTypes
<1>13. \A x \in Made' : x \in Made \/ Unlinked(x)
  BY <1>3, <1>7, <1>10 DEF Made
<1>14. /\ EntriesNamed' /\ RootThere' /\ Good \subseteq Good' /\ EntriesFirst'
       /\ Unlinked(r)'
  BY <1>3, <1>7, <1>8, <1>13, NothingLinked
<1>15. CreateInv'
  BY <1>4, <1>5, <1>6, <1>8, <1>9, <1>10, <1>14 DEF CreateInv, Unlinked
<1>16. LinkInv' /\ WriteInv'
  BY <1>10 DEF LinkInv, WriteInv
<1>17. created' \subseteq Good'
  BY <1>3, <1>14 DEF NtfsInv
<1> QED
  BY <1>8, <1>12, <1>14, <1>15, <1>16, <1>17 DEF NtfsInv

(* write_file has read the record it is to change. *)
LEMMA WriteBeginsStep ==
  ASSUME NtfsInv, NEW r \in Held, NEW p \in Payloads, WriteBegins(r, p)
  PROVE  NtfsInv' /\ RecordsKept
<1>0. VolumeTypes /\ RootThere /\ EntriesNamed
  BY DEF NtfsInv
<1>1. r \in AllRecords /\ p \in Payload
  BY <1>0, PayloadsAssumption, RecordFacts DEF Held, Found, VolumeTypes
<1>2. UNCHANGED <<disk, indx, created>>
  BY DEF WriteBegins
<1>3. r \in Good /\ p.len = Attr[r].payload.len
  BY <1>1 DEF WriteBegins, MayWrite, StatOk, Good, Attr
<1>4. Attr[r] \in RecordBody
  BY <1>0, <1>3, RecordView DEF VolumeTypes
<1> DEFINE b == [Attr[r] EXCEPT !.payload = p]
<1>5. b \in RecordBody /\ b.payload = p
  BY <1>1, <1>4, LaterVersions
<1>6. op' = [call |-> "write", pc |-> "head", rec |-> r, body |-> b]
  BY <1>1 DEF WriteBegins, Attr
<1>7. b = [Attr[r] EXCEPT !.payload = b.payload] /\ b.payload.len = Attr[r].payload.len
  BY <1>3, <1>5
<1> HIDE DEF b
<1>8. /\ op'.call = "write" /\ op'.pc = "head" /\ op'.rec = r /\ op'.body = b
      /\ op' \in WriteOps
  BY <1>1, <1>5, <1>6 DEF WriteOps
<1>9. /\ First' = First /\ Second' = Second /\ Good' = Good /\ Attr' = Attr
      /\ RecordsKept /\ NoNewEntries /\ FreeUnmatched' /\ TailsOwn'
  BY <1>2, QuietView
<1>10. VolumeTypes'
  BY <1>0, <1>2, <1>8 DEF VolumeTypes
<1>11. Made' \subseteq Made
  BY <1>2, <1>8 DEF Made
<1>12. EntriesNamed' /\ RootThere' /\ Good \subseteq Good' /\ EntriesFirst'
  BY <1>2, <1>9, <1>11, NothingLinked
<1>13. WriteInv'
  BY <1>3, <1>7, <1>8, <1>9 DEF WriteInv
<1>14. CreateInv' /\ LinkInv'
  BY <1>8 DEF CreateInv, LinkInv
<1> QED
  BY <1>2, <1>9, <1>10, <1>12, <1>13, <1>14 DEF NtfsInv

-----------------------------------------------------------------------------
(* RecordView as one formula, so that it can be used of the next state. *)
DiskOk == disk \in [Sectors -> SectorContents]
ViewOk ==
  \A r \in AllRecords :
    /\ Attr[r] = First[r].body
    /\ r \in Good <=> /\ First[r].tag = "head" /\ Attr[r].sig = "FILE"
                      /\ SectorEnd(Second[r]) = Attr[r].seq

LEMMA ViewFits == DiskOk => ViewOk
  BY RecordView DEF DiskOk, ViewOk

(* The view of the next state is made in the same way. *)
LEMMA NextView ==
  ASSUME disk' \in [Sectors -> SectorContents]
  PROVE  ViewOk' /\ Good' \subseteq AllRecords /\ DOMAIN Attr' = AllRecords
<1>1. DiskOk'
  BY DEF DiskOk
<1>2. ViewOk'
  BY <1>1, ViewFits, PTL
<1>3. Good' \subseteq AllRecords /\ DOMAIN Attr' = AllRecords
  BY DEF Good, Attr
<1> QED BY <1>2, <1>3

(* The view after the first sector of a record was written ... *)
LEMMA AfterFirst ==
  ASSUME VolumeTypes, NEW r \in AllRecords, NEW b \in RecordBody,
         disk' = [disk EXCEPT ![MftLba(r)] = HeadOf(b)]
  PROVE  /\ disk' \in [Sectors -> SectorContents]
         /\ First' = [First EXCEPT ![r] = HeadOf(b)] /\ Second' = Second
         /\ Attr'[r] = b
         /\ \A s \in AllRecords \ {r} : Attr'[s] = Attr[s] /\ (s \in Good' <=> s \in Good)
         /\ r \in Good' <=> b.sig = "FILE" /\ SectorEnd(Second[r]) = b.seq
         /\ Good' \subseteq AllRecords
<1>1. disk \in [Sectors -> SectorContents]
  BY DEF VolumeTypes
<1>2. /\ disk' \in [Sectors -> SectorContents]
      /\ First' = [First EXCEPT ![r] = HeadOf(b)] /\ Second' = Second
  BY <1>1, FirstWritten
<1>3. First \in [AllRecords -> SectorContents] /\ ViewOk
  BY <1>1, RecordView DEF ViewOk
<1>4. ViewOk' /\ Good' \subseteq AllRecords
  BY <1>2, NextView
<1>5. HeadOf(b).tag = "head" /\ HeadOf(b).body = b
  BY SectorFacts
<1>6. First'[r] = HeadOf(b) /\ \A s \in AllRecords \ {r} : First'[s] = First[s]
  BY <1>2, <1>3
<1>7. Attr'[r] = b /\ (r \in Good' <=> b.sig = "FILE" /\ SectorEnd(Second[r]) = b.seq)
  BY <1>2, <1>4, <1>5, <1>6 DEF ViewOk
<1>8. ASSUME NEW s \in AllRecords \ {r}
      PROVE  Attr'[s] = Attr[s] /\ (s \in Good' <=> s \in Good)
  BY <1>2, <1>3, <1>4, <1>6 DEF ViewOk
<1> QED BY <1>2, <1>4, <1>7, <1>8

(* ... and after its second one was. *)
LEMMA AfterSecond ==
  ASSUME VolumeTypes, NEW r \in AllRecords, NEW b \in RecordBody,
         disk' = [disk EXCEPT ![MftLba(r) + 1] = TailOf(b)]
  PROVE  /\ disk' \in [Sectors -> SectorContents]
         /\ First' = First /\ Second' = [Second EXCEPT ![r] = TailOf(b)]
         /\ Attr' = Attr
         /\ \A s \in AllRecords \ {r} : s \in Good' <=> s \in Good
         /\ r \in Good' <=> /\ First[r].tag = "head" /\ Attr[r].sig = "FILE"
                            /\ b.seq = Attr[r].seq
         /\ Good' \subseteq AllRecords
<1>1. disk \in [Sectors -> SectorContents]
  BY DEF VolumeTypes
<1>2. /\ disk' \in [Sectors -> SectorContents]
      /\ First' = First /\ Second' = [Second EXCEPT ![r] = TailOf(b)]
  BY <1>1, SecondWritten
<1>3. Second \in [AllRecords -> SectorContents] /\ ViewOk
  BY <1>1, RecordView DEF ViewOk
<1>4. ViewOk' /\ Good' \subseteq AllRecords /\ DOMAIN Attr' = AllRecords
  BY <1>2, NextView
<1>5. SectorEnd(TailOf(b)) = b.seq
  BY SectorFacts DEF SectorEnd
<1>6. Second'[r] = TailOf(b) /\ \A s \in AllRecords \ {r} : Second'[s] = Second[s]
  BY <1>2, <1>3
<1>7. \A s \in AllRecords : Attr'[s] = Attr[s]
  BY <1>2, <1>3, <1>4 DEF ViewOk
<1>8. Attr' = Attr
  BY <1>7 DEF Attr
<1>9. r \in Good' <=> /\ First[r].tag = "head" /\ Attr[r].sig = "FILE"
                      /\ b.seq = Attr[r].seq
  BY <1>2, <1>4, <1>5, <1>6, <1>7 DEF ViewOk
<1>10. ASSUME NEW s \in AllRecords \ {r} PROVE s \in Good' <=> s \in Good
  BY <1>2, <1>3, <1>4, <1>6, <1>7 DEF ViewOk
<1> QED BY <1>2, <1>4, <1>8, <1>9, <1>10

-----------------------------------------------------------------------------
(* What is known of a create_file whose record is written. *)
LEMMA EntryFacts ==
  ASSUME NtfsInv, AtEntry
  PROVE  /\ op \in CreateOps /\ op.dir \in Good /\ op.dir \in AllRecords
         /\ Attr[op.dir] \in RecordBody /\ Attr[op.dir].dir
         /\ op.new \in Good /\ op.new \in Records /\ op.new \in AllRecords /\ op.new # op.dir
         /\ Attr[op.new] = op.body /\ op.body \in RecordBody
         /\ Attr[op.new].name = op.name /\ Attr[op.new].parent = op.dir
         /\ Unlinked(op.new) /\ Hits(Attr[op.dir], op.name) = {}
         /\ Stat(op.dir) = Attr[op.dir]
         /\ NewEntry \in Entry /\ NewEntry.name = op.name /\ NewEntry.rec = op.new
<1>1. op.call = "create" /\ op.pc = "entry" /\ VolumeTypes /\ CreateInv
  BY DEF AtEntry, NtfsInv
<1>2. op \in CreateOps
  BY <1>1, CallShapes
<1>3. /\ op.rec \in Records /\ op.new \in Records /\ op.dir \in AllRecords
      /\ op.name \in Names /\ op.body \in RecordBody
  BY <1>2 DEF CreateOps
<1>4. /\ op.new = op.rec /\ op.rec # op.dir /\ op.dir \in Good /\ Attr[op.dir].dir
      /\ Unlinked(op.new) /\ Hits(Attr[op.dir], op.name) = {}
      /\ First[op.rec] = HeadOf(op.body) /\ Second[op.rec] = TailOf(op.body)
      /\ op.body.sig = "FILE" /\ op.body.name = op.name /\ op.body.parent = op.dir
  BY <1>1 DEF CreateInv
<1>5. op.new \in AllRecords
  BY <1>3, RecordFacts
<1>6. op.new \in Good /\ Attr[op.new] = op.body
  BY <1>1, <1>3, <1>4, <1>5, WholeAccepted DEF VolumeTypes
<1>7. Attr[op.dir] \in RecordBody
  BY <1>1, <1>4, RecordView DEF VolumeTypes
<1>8. Stat(op.dir) = Attr[op.dir]
  BY <1>3 DEF Attr
<1>9. NewEntry \in Entry /\ NewEntry.name = op.name /\ NewEntry.rec = op.new
  BY <1>3, <1>5 DEF NewEntry, Entry
<1> QED BY <1>2, <1>3, <1>4, <1>5, <1>6, <1>7, <1>8, <1>9

(* The entry goes into the index in the parent's record. *)
LEMMA AddToResidentStep ==
  ASSUME NtfsInv, AddToResident
  PROVE  NtfsInv' /\ RecordsKept
<1>1. AtEntry /\ Roomy(op.dir) /\ UNCHANGED <<disk, indx, created>>
  BY DEF AddToResident
<1>2. /\ op \in CreateOps /\ op.dir \in Good /\ op.dir \in AllRecords
      /\ Attr[op.dir] \in RecordBody /\ Attr[op.dir].dir
      /\ op.new \in Good /\ op.new \in Records /\ op.new # op.dir
      /\ Attr[op.new].name = op.name /\ Attr[op.new].parent = op.dir
      /\ Unlinked(op.new) /\ Hits(Attr[op.dir], op.name) = {}
      /\ Stat(op.dir) = Attr[op.dir]
      /\ NewEntry \in Entry /\ NewEntry.name = op.name /\ NewEntry.rec = op.new
  BY <1>1, EntryFacts
<1> DEFINE b == WithEntry(Attr[op.dir], NewEntry)
<1>3. Attr[op.dir].room >= EntryLen(op.name)
  BY <1>1, <1>2 DEF Roomy
<1>4. b \in RecordBody
  BY <1>2, <1>3, LaterVersions
<1>5. op' = [op EXCEPT !.call = "link", !.pc = "head", !.rec = op.dir, !.body = b]
  BY <1>2 DEF AddToResident, WithEntry
<1> HIDE DEF b
<1>6. /\ op'.call = "link" /\ op'.pc = "head" /\ op'.rec = op.dir /\ op'.body = b
      /\ op'.dir = op.dir /\ op'.name = op.name /\ op'.new = op.new /\ op' \in LinkOps
  BY <1>2, <1>4, <1>5 DEF CreateOps, LinkOps
<1>7. /\ Good' = Good /\ Attr' = Attr
      /\ RecordsKept /\ NoNewEntries /\ FreeUnmatched' /\ TailsOwn'
  BY <1>1, QuietView
<1>8. VolumeTypes'
  BY <1>1, <1>6 DEF NtfsInv, VolumeTypes
<1>9. Made' \subseteq Made
  BY <1>1, <1>6 DEF Made, AtEntry
<1>10. EntriesNamed' /\ RootThere' /\ Good \subseteq Good' /\ EntriesFirst'
  BY <1>1, <1>7, <1>9, NothingLinked
<1>11. NewEntry' = NewEntry
  BY <1>6 DEF NewEntry
<1>12. Unlinked(op.new)' /\ op'.body = WithEntry(Attr'[op'.rec], NewEntry')
  BY <1>2, <1>6, <1>7, <1>11 DEF b, Unlinked
<1>13. LinkInv'
  BY <1>2, <1>3, <1>6, <1>7, <1>12 DEF LinkInv
<1>14. CreateInv' /\ WriteInv'
  BY <1>6 DEF CreateInv, WriteInv
<1> QED
  BY <1>1, <1>7, <1>8, <1>10, <1>13, <1>14 DEF NtfsInv

(* The index block is written; no record is. *)
LEMMA AddToExternalStep ==
  ASSUME NtfsInv, AddToExternal
  PROVE  NtfsInv' /\ RecordsKept
<1>1. /\ AtEntry /\ UNCHANGED <<disk, created>>
      /\ indx' = [indx EXCEPT !.total = @ + EntryLen(op.name), !.kept = FALSE]
      /\ op' = [op EXCEPT !.call = "link", !.pc = "open"]
  BY DEF AddToExternal
<1>2. /\ op \in CreateOps /\ op.new \in Good /\ op.new \in Records
      /\ Attr[op.new].name = op.name /\ Attr[op.new].parent = op.dir
  BY <1>1, EntryFacts
<1>3. /\ op'.call = "link" /\ op'.pc = "open" /\ op'.rec = op.rec
      /\ op'.dir = op.dir /\ op'.name = op.name /\ op'.new = op.new
  BY <1>1, <1>2 DEF CreateOps
<1>4. op' \in LinkOps
  BY <1>1, <1>2, RecordFacts DEF CreateOps, LinkOps
<1>5. indx \in IndexBlock /\ EntryLen(op.name) \in Nat
  BY <1>2, EntryLenType DEF NtfsInv, VolumeTypes, CreateOps
<1>6. indx' \in IndexBlock
  <2>1. indx.total \in Nat
    BY <1>5, Zenon DEF IndexBlock
  <2>2. indx.total + EntryLen(op.name) \in Nat
    BY <1>5, <2>1
  <2> QED BY <1>1, <1>5, <2>2, Zenon DEF IndexBlock
<1>7. /\ Good' = Good /\ Attr' = Attr
      /\ RecordsKept /\ NoNewEntries /\ FreeUnmatched' /\ TailsOwn'
  BY <1>1, QuietView
<1>8. VolumeTypes'
  BY <1>1, <1>4, <1>6 DEF NtfsInv, VolumeTypes
<1>9. Made' \subseteq Made
  BY <1>1, <1>3 DEF Made, AtEntry
<1>10. EntriesNamed' /\ RootThere' /\ EntriesFirst'
  BY <1>7, <1>9, NothingLinked
<1>11. LinkInv'
  BY <1>2, <1>3, <1>7 DEF LinkInv
<1>12. CreateInv' /\ WriteInv'
  BY <1>3 DEF CreateInv, WriteInv
<1>13. created' \subseteq Good'
  BY <1>1, <1>7 DEF NtfsInv
<1> QED
  BY <1>7, <1>8, <1>10, <1>11, <1>12, <1>13 DEF NtfsInv

-----------------------------------------------------------------------------
(* A first sector that makes a later version of an accepted record: it     *)
(* stays accepted, whatever becomes of the second one.                     *)
LEMMA Rewritten ==
  ASSUME NtfsInv, NEW r \in Good, NEW b \in RecordBody, Later(Attr[r], b),
         b.payload # Attr[r].payload => op.call = "write" /\ op.rec = r,
         disk' = [disk EXCEPT ![MftLba(r)] = HeadOf(b)]
  PROVE  /\ disk' \in [Sectors -> SectorContents]
         /\ Good' = Good /\ Attr'[r] = b
         /\ \A s \in AllRecords \ {r} : Attr'[s] = Attr[s]
         /\ RecordsKept /\ FreeUnmatched' /\ TailsOwn'
<1>1. VolumeTypes /\ FreeUnmatched /\ TailsOwn
  BY DEF NtfsInv
<1>2. /\ Good \subseteq AllRecords
      /\ \A s \in Good : Attr[s] \in RecordBody
      /\ First \in [AllRecords -> SectorContents]
      /\ \A s \in AllRecords :
           s \in Good <=> /\ First[s].tag = "head" /\ Attr[s].sig = "FILE"
                          /\ SectorEnd(Second[s]) = Attr[s].seq
  BY <1>1, RecordView DEF VolumeTypes
<1>3. /\ disk' \in [Sectors -> SectorContents]
      /\ First' = [First EXCEPT ![r] = HeadOf(b)] /\ Second' = Second
      /\ Attr'[r] = b
      /\ \A s \in AllRecords \ {r} : Attr'[s] = Attr[s] /\ (s \in Good' <=> s \in Good)
      /\ r \in Good' <=> b.sig = "FILE" /\ SectorEnd(Second[r]) = b.seq
      /\ Good' \subseteq AllRecords
  BY <1>1, <1>2, AfterFirst
<1>4. /\ b.sig = Attr[r].sig /\ b.seq = Attr[r].seq /\ b.name = Attr[r].name
      /\ b.parent = Attr[r].parent
  BY DEF Later
<1>5. Good' = Good
  BY <1>2, <1>3, <1>4
<1>6. \A s \in Good : Later(Attr[s], Attr[s])
  BY <1>2, LaterVersions
<1>7. RecordsKept
  BY <1>2, <1>3, <1>5, <1>6 DEF RecordsKept
<1>8. FreeUnmatched'
  <2>1. HeadOf(b).tag = "head"
    BY SectorFacts
  <2>2. \A s \in AllRecords : First'[s] = IF s = r THEN HeadOf(b) ELSE First[s]
    BY <1>2, <1>3
  <2> QED BY <1>1, <1>3, <2>1, <2>2, RecordFacts DEF FreeUnmatched
<1>9. TailsOwn'
  <2> SUFFICES ASSUME NEW s \in Good', Attr'[s].seq # 0
               PROVE  /\ Second'[s].tag = "tail" /\ Second'[s].body.name = Attr'[s].name
                      /\ Second'[s].body.parent = Attr'[s].parent
    BY <1>1, <1>3, <1>5 DEF TailsOwn
  <2>1. /\ s \in Good /\ Attr'[s].seq = Attr[s].seq /\ Attr'[s].name = Attr[s].name
        /\ Attr'[s].parent = Attr[s].parent
    BY <1>2, <1>3, <1>4, <1>5
  <2> QED BY <1>1, <1>3, <2>1 DEF TailsOwn
<1> QED BY <1>3, <1>5, <1>7, <1>8, <1>9

(* The second sector of the version whose first one is there. *)
LEMMA Completed ==
  ASSUME NtfsInv, NEW r \in AllRecords, NEW b \in RecordBody, b.sig = "FILE",
         First[r] = HeadOf(b),
         disk' = [disk EXCEPT ![MftLba(r) + 1] = TailOf(b)]
  PROVE  /\ disk' \in [Sectors -> SectorContents]
         /\ First' = First /\ Second'[r] = TailOf(b) /\ Attr' = Attr /\ Attr[r] = b
         /\ Good' = Good \cup {r}
         /\ RecordsKept /\ FreeUnmatched' /\ TailsOwn'
<1>1. VolumeTypes /\ FreeUnmatched /\ TailsOwn
  BY DEF NtfsInv
<1>2. /\ Good \subseteq AllRecords
      /\ \A s \in Good : Attr[s] \in RecordBody
      /\ Second \in [AllRecords -> SectorContents] /\ Attr[r] = First[r].body
  BY <1>1, RecordView DEF VolumeTypes
<1>3. /\ HeadOf(b).tag = "head" /\ HeadOf(b).body = b
      /\ TailOf(b).tag = "tail" /\ TailOf(b).body = b
  BY SectorFacts
<1>4. /\ disk' \in [Sectors -> SectorContents]
      /\ First' = First /\ Second' = [Second EXCEPT ![r] = TailOf(b)]
      /\ Attr' = Attr
      /\ \A s \in AllRecords \ {r} : s \in Good' <=> s \in Good
      /\ r \in Good' <=> /\ First[r].tag = "head" /\ Attr[r].sig = "FILE"
                         /\ b.seq = Attr[r].seq
      /\ Good' \subseteq AllRecords
  BY <1>1, AfterSecond
<1>5. Attr[r] = b
  BY <1>2, <1>3
<1>6. Good' = Good \cup {r}
  BY <1>2, <1>3, <1>4, <1>5
<1>7. Second'[r] = TailOf(b) /\ \A s \in AllRecords \ {r} : Second'[s] = Second[s]
  BY <1>2, <1>4
<1>8. \A s \in Good : Later(Attr[s], Attr[s])
  BY <1>2, LaterVersions
<1>9. RecordsKept
  BY <1>4, <1>6, <1>8 DEF RecordsKept
<1>10. FreeUnmatched'
  BY <1>1, <1>3, <1>4, <1>7, RecordFacts DEF FreeUnmatched
<1>11. TailsOwn'
  BY <1>1, <1>2, <1>3, <1>4, <1>5, <1>6, <1>7 DEF TailsOwn
<1> QED BY <1>4, <1>5, <1>6, <1>7, <1>9, <1>10, <1>11

(* create_file writes the first sector of a record that was free. *)
LEMMA CreateFirstStep ==
  ASSUME NtfsInv, WriteFirst, op.call = "create"
  PROVE  NtfsInv' /\ RecordsKept /\ NoNewEntries
<1>0. VolumeTypes /\ FreeUnmatched /\ TailsOwn /\ CreateInv /\ EntriesNamed
  BY DEF NtfsInv
<1>1. op \in CreateOps /\ op.pc = "head"
  BY <1>0, CallShapes DEF WriteFirst
<1>2. PICK r \in Records, b \in RecordBody, d \in AllRecords :
        op.rec = r /\ op.body = b /\ op.dir = d /\ op.new = r /\ op.rec # op.dir
  BY <1>0, <1>1 DEF CreateOps, CreateInv
<1>3. /\ disk' = [disk EXCEPT ![MftLba(r)] = HeadOf(b)]
      /\ op' = [op EXCEPT !.pc = "tail"] /\ UNCHANGED <<indx, created>>
  BY <1>2 DEF WriteFirst
<1>4. /\ op' \in CreateOps /\ op'.call = "create" /\ op'.pc = "tail" /\ op'.rec = r
      /\ op'.body = b /\ op'.dir = d /\ op'.new = r /\ op'.name = op.name
  BY <1>1, <1>2, <1>3 DEF CreateOps
<1>5. /\ First[r].tag # "head" /\ b.sig = "FILE" /\ b.seq = r % 65536 /\ b.name = op.name
      /\ b.parent = d /\ b.index = << >> /\ Unlinked(r)
      /\ d \in Good /\ Attr[d].dir /\ Hits(Attr[d], op.name) = {} /\ r # d
  BY <1>0, <1>1, <1>2 DEF CreateInv
<1>6. r \in AllRecords
  BY RecordFacts
<1>7. /\ First \in [AllRecords -> SectorContents] /\ Good \subseteq AllRecords
      /\ Second \in [AllRecords -> SectorContents]
      /\ \A s \in Good : Attr[s] \in RecordBody
      /\ r \notin Good
  BY <1>0, <1>5, <1>6, RecordView DEF VolumeTypes
<1>8. /\ disk' \in [Sectors -> SectorContents]
      /\ First' = [First EXCEPT ![r] = HeadOf(b)] /\ Second' = Second
      /\ Attr'[r] = b
      /\ \A s \in AllRecords \ {r} : Attr'[s] = Attr[s] /\ (s \in Good' <=> s \in Good)
      /\ r \in Good' <=> b.sig = "FILE" /\ SectorEnd(Second[r]) = b.seq
      /\ Good' \subseteq AllRecords
  BY <1>0, <1>3, <1>6, AfterFirst
<1>9. First'[r] = HeadOf(b) /\ \A s \in AllRecords \ {r} : First'[s] = First[s]
  BY <1>6, <1>7, <1>8
<1>10. VolumeTypes'
  BY <1>0, <1>3, <1>4, <1>8 DEF VolumeTypes
<1>11. \A s \in Good : Later(Attr[s], Attr[s])
  BY <1>7, LaterVersions
<1>12. RecordsKept
  BY <1>7, <1>8, <1>11 DEF RecordsKept
<1>13. NoNewEntries
  BY <1>5, <1>8 DEF NoNewEntries
<1>14. FreeUnmatched'
  <2>1. HeadOf(b).tag = "head"
    BY SectorFacts
  <2> QED BY <1>0, <1>8, <1>9, <2>1, RecordFacts DEF FreeUnmatched
<1>15. TailsOwn'
  <2>0. ASSUME r \in Good' PROVE Second'[r].tag # "data"
    <3>1. SectorEnd(Second[r]) = r % 65536
      BY <1>5, <1>8, <2>0
    <3> QED BY <1>0, <1>5, <1>8, <3>1 DEF FreeUnmatched
  <2>00. \A s \in Good' : Second'[s].tag # "data"
    BY <1>0, <1>8, <2>0 DEF TailsOwn
  <2> SUFFICES ASSUME NEW s \in Good', Attr'[s].seq # 0
               PROVE  /\ Second'[s].tag = "tail" /\ Second'[s].body.name = Attr'[s].name
                      /\ Second'[s].body.parent = Attr'[s].parent
    BY <2>00 DEF TailsOwn
  <2>1. s # r
    <3> SUFFICES ASSUME s = r PROVE FALSE
      OBVIOUS
    <3>1. SectorEnd(Second[r]) = r % 65536 /\ r % 65536 # 0
      BY <1>5, <1>8
    <3>2. Second[r].tag \in {"tail", "data"}
      BY <3>1 DEF SectorEnd
    <3> QED BY <1>0, <1>5, <3>1, <3>2 DEF FreeUnmatched
  <2> QED BY <1>0, <1>8, <2>1 DEF TailsOwn
<1>16. Made' \subseteq Made
  BY <1>2, <1>3, <1>4 DEF Made
<1>17. /\ EntriesNamed' /\ RootThere' /\ Good \subseteq Good' /\ EntriesFirst'
       /\ Unlinked(r)'
  BY <1>3, <1>5, <1>12, <1>13, <1>16, NothingLinked
<1>18. d \in Good' /\ Attr'[d] = Attr[d]
  BY <1>5, <1>7, <1>8
<1>19. CreateInv'
  BY <1>4, <1>5, <1>9, <1>17, <1>18 DEF CreateInv, Unlinked
<1>20. LinkInv' /\ WriteInv'
  BY <1>4 DEF LinkInv, WriteInv
<1>21. created' \subseteq Good'
  BY <1>3, <1>17 DEF NtfsInv
<1> QED
  BY <1>13, <1>10, <1>12, <1>14, <1>15, <1>17, <1>19, <1>20, <1>21 DEF NtfsInv

(* ... and its second one. *)
LEMMA CreateSecondStep ==
  ASSUME NtfsInv, WriteSecond, op.call = "create"
  PROVE  NtfsInv' /\ RecordsKept /\ NoNewEntries
<1>0. VolumeTypes /\ CreateInv
  BY DEF NtfsInv
<1>1. op \in CreateOps /\ op.pc = "tail"
  BY <1>0, CallShapes DEF WriteSecond
<1>2. PICK r \in Records, b \in RecordBody, d \in AllRecords :
        op.rec = r /\ op.body = b /\ op.dir = d /\ op.new = r /\ op.rec # op.dir
  BY <1>0, <1>1 DEF CreateOps, CreateInv
<1>3. /\ disk' = [disk EXCEPT ![MftLba(r) + 1] = TailOf(b)]
      /\ op' = [op EXCEPT !.pc = "entry"] /\ UNCHANGED <<indx, created>>
  BY <1>2 DEF WriteSecond
<1>4. /\ op' \in CreateOps /\ op'.call = "create" /\ op'.pc = "entry" /\ op'.rec = r
      /\ op'.body = b /\ op'.dir = d /\ op'.new = r /\ op'.name = op.name
  BY <1>1, <1>2, <1>3 DEF CreateOps
<1>5. /\ First[r] = HeadOf(b) /\ b.sig = "FILE" /\ b.seq = r % 65536 /\ b.name = op.name
      /\ b.parent = d /\ b.index = << >> /\ Unlinked(r)
      /\ d \in Good /\ Attr[d].dir /\ Hits(Attr[d], op.name) = {} /\ r # d
  BY <1>0, <1>1, <1>2 DEF CreateInv
<1>6. r \in AllRecords
  BY RecordFacts
<1>7. /\ disk' \in [Sectors -> SectorContents]
      /\ First' = First /\ Second'[r] = TailOf(b) /\ Attr' = Attr /\ Attr[r] = b
      /\ Good' = Good \cup {r}
      /\ RecordsKept /\ FreeUnmatched' /\ TailsOwn'
  <2>1. /\ b.sig = "FILE" /\ First[r] = HeadOf(b)
        /\ disk' = [disk EXCEPT ![MftLba(r) + 1] = TailOf(b)]
    BY <1>3, <1>5
  <2> QED BY <1>6, <2>1, Completed, Zenon
<1>8. VolumeTypes'
  BY <1>0, <1>3, <1>4, <1>7 DEF VolumeTypes
<1>9. NoNewEntries
  BY <1>5, <1>7 DEF NoNewEntries
<1>10. Made' \subseteq Made
  BY <1>2, <1>3, <1>4 DEF Made
<1>11. /\ EntriesNamed' /\ RootThere' /\ Good \subseteq Good' /\ EntriesFirst'
       /\ Unlinked(r)'
  BY <1>3, <1>5, <1>7, <1>9, <1>10, NothingLinked
<1>12. CreateInv'
  BY <1>4, <1>5, <1>7, <1>11 DEF CreateInv, Unlinked
<1>13. LinkInv' /\ WriteInv'
  BY <1>4 DEF LinkInv, WriteInv
<1>14. created' \subseteq Good'
  BY <1>3, <1>11 DEF NtfsInv
<1> QED
  BY <1>9, <1>7, <1>8, <1>11, <1>12, <1>13, <1>14 DEF NtfsInv

(* write_file writes the first sector of the record it has read ... *)
LEMMA WriteFirstStep ==
  ASSUME NtfsInv, WriteFirst, op.call = "write"
  PROVE  NtfsInv' /\ RecordsKept /\ NoNewEntries
<1>0. VolumeTypes /\ WriteInv
  BY DEF NtfsInv
<1>1. op \in WriteOps /\ op.pc = "head"
  BY <1>0, CallShapes DEF WriteFirst
<1>2. PICK r \in AllRecords, b \in RecordBody : op.rec = r /\ op.body = b
  BY <1>1 DEF WriteOps
<1>3. /\ disk' = [disk EXCEPT ![MftLba(r)] = HeadOf(b)]
      /\ op' = [op EXCEPT !.pc = "tail"] /\ UNCHANGED <<indx, created>>
  BY <1>2 DEF WriteFirst
<1>4. /\ op' \in WriteOps /\ op'.call = "write" /\ op'.pc = "tail" /\ op'.rec = r
      /\ op'.body = b
  BY <1>1, <1>2, <1>3 DEF WriteOps
<1>5. /\ r \in Good /\ b = [Attr[r] EXCEPT !.payload = b.payload]
      /\ b.payload.len = Attr[r].payload.len
  BY <1>0, <1>1, <1>2 DEF WriteInv
<1>6. Attr[r] \in RecordBody /\ b.payload \in Payload
  <2>1. Attr[r] \in RecordBody
    BY <1>0, <1>5, RecordView DEF VolumeTypes
  <2>2. b.payload \in Payload
    BY Zenon DEF RecordBody
  <2> QED BY <2>1, <2>2
<1>7. Later(Attr[r], b) /\ b.index = Attr[r].index
  <2> DEFINE p == b.payload
             c == [Attr[r] EXCEPT !.payload = p]
  <2>1. p \in Payload /\ p.len = Attr[r].payload.len /\ b = c
    BY <1>5, <1>6
  <2> HIDE DEF p
  <2>2. c.index = Attr[r].index /\ Later(Attr[r], c)
    BY <1>6, <2>1, LaterVersions, Zenon
  <2> QED BY <2>1, <2>2
<1>8. /\ disk' \in [Sectors -> SectorContents]
      /\ Good' = Good /\ Attr'[r] = b
      /\ \A s \in AllRecords \ {r} : Attr'[s] = Attr[s]
      /\ RecordsKept /\ FreeUnmatched' /\ TailsOwn'
  <2>1. b.payload # Attr[r].payload => op.call = "write" /\ op.rec = r
    BY <1>2
  <2>2. disk' = [disk EXCEPT ![MftLba(r)] = HeadOf(b)]
    BY <1>3
  <2> QED BY <1>5, <1>7, <2>1, <2>2, Rewritten, Zenon
<1>9. VolumeTypes'
  BY <1>0, <1>3, <1>4, <1>8 DEF VolumeTypes
<1>10. NoNewEntries
  BY <1>7, <1>8 DEF NoNewEntries, Good
<1>11. Made' \subseteq Made
  BY <1>3, <1>4 DEF Made
<1>12. EntriesNamed' /\ RootThere' /\ Good \subseteq Good' /\ EntriesFirst'
  BY <1>3, <1>8, <1>10, <1>11, NothingLinked
<1>13. WriteInv'
  BY <1>4, <1>5, <1>8 DEF WriteInv
<1>14. CreateInv' /\ LinkInv'
  BY <1>4 DEF CreateInv, LinkInv
<1>15. created' \subseteq Good'
  BY <1>3, <1>12 DEF NtfsInv
<1> QED
  BY <1>10, <1>8, <1>9, <1>12, <1>13, <1>14, <1>15 DEF NtfsInv

(* ... and the second one, of a file or of a directory with its new entry. *)
LEMMA UpdateSecondStep ==
  ASSUME NtfsInv, WriteSecond, op.call \in {"link", "write"}
  PROVE  NtfsInv' /\ RecordsKept /\ NoNewEntries
<1>0. VolumeTypes /\ WriteInv /\ LinkInv
  BY DEF NtfsInv
<1>1. op \in LinkOps \cup WriteOps /\ op.pc = "tail"
  BY <1>0, CallShapes DEF WriteSecond
<1>2. PICK r \in AllRecords, b \in RecordBody : op.rec = r /\ op.body = b
  BY <1>1 DEF LinkOps, WriteOps
<1>3. /\ disk' = [disk EXCEPT ![MftLba(r) + 1] = TailOf(b)]
      /\ op.call = "link" => op' = [op EXCEPT !.pc = "open"]
      /\ op.call = "write" => op' = Idle
      /\ UNCHANGED <<indx, created>>
  BY <1>2 DEF WriteSecond
<1>4. /\ op.call = "link" =>
           /\ op' \in LinkOps /\ op'.call = "link" /\ op'.pc = "open" /\ op'.rec = r
           /\ op'.new = op.new /\ op'.name = op.name /\ op'.dir = op.dir
      /\ op.call = "write" => op'.call = "none"
  <2>1. op.call = "link" => op \in LinkOps
    BY <1>0, CallShapes
  <2> QED BY <1>2, <1>3, <2>1 DEF LinkOps, Idle
<1>5. r \in Good /\ Attr[r] = b
  BY <1>0, <1>1, <1>2 DEF WriteInv, LinkInv
<1>6. b.sig = "FILE" /\ First[r] = HeadOf(b)
  BY <1>0, <1>5, RecordView DEF VolumeTypes
<1>7. /\ disk' \in [Sectors -> SectorContents]
      /\ First' = First /\ Second'[r] = TailOf(b) /\ Attr' = Attr /\ Attr[r] = b
      /\ Good' = Good \cup {r}
      /\ RecordsKept /\ FreeUnmatched' /\ TailsOwn'
  <2>1. disk' = [disk EXCEPT ![MftLba(r) + 1] = TailOf(b)]
    BY <1>3
  <2> QED BY <1>6, <2>1, Completed, Zenon
<1>8. Good' = Good
  BY <1>5, <1>7
<1>9. VolumeTypes'
  BY <1>0, <1>3, <1>4, <1>7 DEF VolumeTypes
<1>10. NoNewEntries
  BY <1>7, <1>8 DEF NoNewEntries
<1>11. Made' \subseteq Made
  BY <1>3, <1>4 DEF Made
<1>12. EntriesNamed' /\ RootThere' /\ Good \subseteq Good' /\ EntriesFirst'
  BY <1>3, <1>7, <1>10, <1>11, NothingLinked
<1>13. LinkInv'
  BY <1>0, <1>1, <1>4, <1>7, <1>8, <1>12 DEF LinkInv
<1>14. CreateInv' /\ WriteInv'
  BY <1>4 DEF CreateInv, WriteInv
<1>15. created' \subseteq Good'
  BY <1>3, <1>12 DEF NtfsInv
<1> QED
  BY <1>10, <1>7, <1>9, <1>12, <1>13, <1>14, <1>15 DEF NtfsInv

(* create_file writes the first sector of the directory with its entry. *)
LEMMA LinkFirstStep ==
  ASSUME NtfsInv, WriteFirst, op.call = "link"
  PROVE  NtfsInv' /\ RecordsKept
<1>0. VolumeTypes /\ LinkInv /\ EntriesNamed /\ EntriesFirst /\ RootThere
  BY DEF NtfsInv
<1>1. op \in LinkOps /\ op.pc = "head"
  BY <1>0, CallShapes DEF WriteFirst
<1>2. PICK r \in AllRecords, b \in RecordBody, x \in Records, n \in Names :
        op.rec = r /\ op.body = b /\ op.new = x /\ op.name = n
  BY <1>1 DEF LinkOps
<1>3. /\ disk' = [disk EXCEPT ![MftLba(r)] = HeadOf(b)]
      /\ op' = [op EXCEPT !.pc = "tail"] /\ UNCHANGED <<indx, created>>
  BY <1>2 DEF WriteFirst
<1>4. /\ op' \in LinkOps /\ op'.call = "link" /\ op'.pc = "tail" /\ op'.rec = r
      /\ op'.body = b /\ op'.dir = op.dir /\ op'.new = x /\ op'.name = n
  BY <1>1, <1>2, <1>3 DEF LinkOps
<1>5. PICK e \in Entry : NewEntry = e /\ e.rec = x /\ e.name = n
  <2>1. x \in AllRecords /\ NewEntry = [name |-> n, rec |-> x]
    BY <1>2, RecordFacts DEF NewEntry
  <2> QED BY <2>1 DEF Entry
<1>6. /\ x \in Good /\ Attr[x].name = n /\ Attr[x].parent = r /\ op.dir = r
      /\ r \in Good /\ r # x /\ Unlinked(x) /\ Hits(Attr[r], n) = {}
      /\ Attr[r].room >= EntryLen(n) /\ b = WithEntry(Attr[r], e)
  BY <1>0, <1>1, <1>2, <1>5 DEF LinkInv
<1>7. Attr[r] \in RecordBody /\ Attr[r].index \in Seq(Entry)
  BY <1>0, <1>6, RecordView DEF VolumeTypes
<1>8. /\ Later(Attr[r], b) /\ b.index = Append(Attr[r].index, e)
      /\ b.payload = Attr[r].payload
  BY <1>5, <1>6, <1>7, LaterVersions
<1>9. /\ disk' \in [Sectors -> SectorContents]
      /\ Good' = Good /\ Attr'[r] = b
      /\ \A s \in AllRecords \ {r} : Attr'[s] = Attr[s]
      /\ RecordsKept /\ FreeUnmatched' /\ TailsOwn'
  <2>1. b.payload # Attr[r].payload => op.call = "write" /\ op.rec = r
    BY <1>8
  <2>2. disk' = [disk EXCEPT ![MftLba(r)] = HeadOf(b)]
    BY <1>3
  <2> QED BY <1>6, <1>8, <2>1, <2>2, Rewritten, Zenon
<1>10. VolumeTypes'
  BY <1>0, <1>3, <1>4, <1>9 DEF VolumeTypes
<1> DEFINE m == Len(Attr[r].index)
<1>11. /\ m \in Nat /\ Len(b.index) = m + 1 /\ b.index[m + 1] = e
       /\ \A i \in 1..m : b.index[i] = Attr[r].index[i]
  BY <1>7, <1>8
<1> HIDE DEF m
<1>12. \A s \in Good : /\ Attr'[s].name = Attr[s].name /\ Attr'[s].parent = Attr[s].parent
                       /\ Attr'[s].dir = Attr[s].dir
  BY <1>9 DEF RecordsKept, Later
<1>13. ASSUME NEW d \in Good', NEW i \in 1..Len(Attr'[d].index)
       PROVE  \/ d \in Good /\ i \in 1..Len(Attr[d].index) /\ Attr'[d].index[i] = Attr[d].index[i]
              \/ d = r /\ i = m + 1 /\ Attr'[d].index[i] = e
  <2>1. CASE d = r
    <3>1. i = m + 1 \/ i \in 1..m
      BY <1>9, <1>11, <2>1
    <3> QED BY <1>6, <1>9, <1>11, <2>1, <3>1 DEF m
  <2>2. CASE d # r
    BY <1>9, <2>2 DEF Good
  <2> QED BY <2>1, <2>2
<1>14. EntriesNamed'
  <2>1. ASSUME NEW d \in Good', NEW i \in 1..Len(Attr'[d].index)
        PROVE  LET f == Attr'[d].index[i]
               IN  f.rec \in Good' /\ Attr'[f.rec].name = f.name /\ Attr'[f.rec].parent = d
    <3> DEFINE f == Attr[d].index[i]
    <3>1. CASE /\ d \in Good /\ i \in 1..Len(Attr[d].index)
               /\ Attr'[d].index[i] = Attr[d].index[i]
      <4>1. f.rec \in Good /\ Attr[f.rec].name = f.name /\ Attr[f.rec].parent = d
        BY <1>0, <3>1 DEF EntriesNamed
      <4>2. f.rec \in Good' /\ Attr'[f.rec].name = f.name /\ Attr'[f.rec].parent = d
        BY <1>9, <1>12, <4>1
      <4> QED BY <3>1, <4>2
    <3>2. CASE d = r /\ i = m + 1 /\ Attr'[d].index[i] = e
      BY <1>5, <1>6, <1>9, <1>12, <3>2
    <3> QED BY <1>13, <3>1, <3>2
  <2> QED BY <2>1 DEF EntriesNamed
<1>15. Made' \subseteq Made
  BY <1>2, <1>3, <1>4 DEF Made
<1>16. EntriesFirst'
  <2> SUFFICES ASSUME NEW d \in Good', NEW i \in 1..Len(Attr'[d].index),
                      Attr'[d].index[i].rec \in Made', NEW j \in 1..(i - 1)
               PROVE  ~Matches(Attr'[d].index[j].name, Attr'[d].index[i].name)
    BY DEF EntriesFirst
  <2>1. CASE /\ d \in Good /\ i \in 1..Len(Attr[d].index)
             /\ Attr'[d].index[i] = Attr[d].index[i]
    <3>1. /\ Len(Attr[d].index) \in Nat /\ j \in 1..Len(Attr[d].index)
      BY <1>0, <2>1, RecordView DEF VolumeTypes
    <3>2. Attr'[d].index[j] = Attr[d].index[j]
      BY <1>9, <2>1, <3>1 DEF RecordsKept, Later
    <3> QED BY <1>0, <1>15, <2>1, <3>2 DEF EntriesFirst
  <2>2. CASE d = r /\ i = m + 1 /\ Attr'[d].index[i] = e
    <3>1. j \in 1..m
      BY <1>11, <2>2
    <3>2. Attr'[d].index[j] = Attr[r].index[j]
      BY <1>9, <1>11, <2>2, <3>1
    <3>3. ~Matches(Attr[r].index[j].name, n)
      BY <1>6, <3>1 DEF Hits, m
    <3> QED BY <1>5, <2>2, <3>2, <3>3
  <2> QED BY <1>13, <2>1, <2>2
<1>17. RootThere'
  BY <1>0, <1>9, <1>12 DEF RootThere
<1>18. Good \subseteq Good'
  BY <1>9, <1>12
<1>19. LinkInv'
  BY <1>4, <1>6, <1>9, <1>12, <1>18 DEF LinkInv
<1>20. CreateInv' /\ WriteInv'
  BY <1>4 DEF CreateInv, WriteInv
<1>21. created' \subseteq Good'
  BY <1>3, <1>18 DEF NtfsInv
<1> QED
  BY <1>9, <1>10, <1>14, <1>16, <1>17, <1>19, <1>20, <1>21 DEF NtfsInv

-----------------------------------------------------------------------------
(* What a volume holds, record by record. *)
LEMMA FormattedView ==
  ASSUME NEW v \in Volumes, disk = Formatted(v)
  PROVE  /\ DOMAIN v.bodies \subseteq AllRecords
         /\ disk \in [Sectors -> SectorContents]
         /\ \A r \in DOMAIN v.bodies :
              First[r] = HeadOf(v.bodies[r]) /\ Second[r] = TailOf(v.bodies[r])
         /\ \A r \in AllRecords \ DOMAIN v.bodies :
              /\ First[r].tag # "head"
              /\ Second[r].tag \in {"tail", "data"} =>
                   MftLba(r) + 1 \in DOMAIN v.stale /\ Second[r] = v.stale[MftLba(r) + 1]
<1> DEFINE D == DOMAIN v.bodies
<1>1. D \subseteq AllRecords
  BY DEF AllRecords
<1>2. /\ \A r \in D : v.bodies[r] \in RecordBody
      /\ \A s \in DOMAIN v.stale : v.stale[s] \in [tag : {"tail"}, body : RecordBody]
                                               \cup [tag : {"data"}, end : SequenceNumber]
  BY VolumesAssumption DEF Consistent
<1>3. \A s \in DOMAIN v.stale : v.stale[s] \in SectorContents /\ v.stale[s].tag # "head"
  <2>1. ASSUME NEW t \in [tag : {"tail"}, body : RecordBody]
        PROVE  t \in SectorContents /\ t.tag # "head"
    <3>1. t = TailOf(t.body) /\ t.body \in RecordBody /\ t.tag = "tail"
      BY DEF TailOf
    <3> QED BY <3>1, SectorFacts
  <2>2. ASSUME NEW t \in [tag : {"data"}, end : SequenceNumber]
        PROVE  t \in SectorContents /\ t.tag # "head"
    <3>1. t = DataSector(t.end) /\ t.end \in SequenceNumber /\ t.tag = "data"
      BY DEF DataSector
    <3> QED BY <3>1 DEF SectorContents
  <2> QED BY <1>2, <2>1, <2>2
<1>4. ASSUME NEW s \in Sectors
      PROVE  /\ \A r \in D : s = MftLba(r) => disk[s] = HeadOf(v.bodies[r])
             /\ \A r \in D : s = MftLba(r) + 1 => disk[s] = TailOf(v.bodies[r])
             /\ \/ \E r \in D : s = MftLba(r)
                \/ \E r \in D : s = MftLba(r) + 1
                \/ s \in DOMAIN v.stale /\ disk[s] = v.stale[s]
                \/ disk[s] = Blank
  <2>1. disk[s] = IF \E r \in D : s = MftLba(r)
                  THEN HeadOf(v.bodies[CHOOSE r \in D : s = MftLba(r)])
                  ELSE IF \E r \in D : s = MftLba(r) + 1
                  THEN TailOf(v.bodies[CHOOSE r \in D : s = MftLba(r) + 1])
                  ELSE IF s \in DOMAIN v.stale THEN v.stale[s] ELSE Blank
    BY DEF Formatted
  <2>2. ASSUME NEW r \in D, s = MftLba(r) PROVE disk[s] = HeadOf(v.bodies[r])
    <3>1. (CHOOSE q \in D : s = MftLba(q)) = r
      BY <1>1, <2>2, Layout
    <3> QED BY <2>1, <2>2, <3>1
  <2>3. ASSUME NEW r \in D, s = MftLba(r) + 1 PROVE disk[s] = TailOf(v.bodies[r])
    <3>1. (CHOOSE q \in D : s = MftLba(q) + 1) = r
      BY <1>1, <2>3, Layout
    <3>2. ~ \E q \in D : s = MftLba(q)
      BY <1>1, <2>3, Layout
    <3> QED BY <2>1, <2>3, <3>1, <3>2
  <2>4. \/ \E r \in D : s = MftLba(r)
        \/ \E r \in D : s = MftLba(r) + 1
        \/ s \in DOMAIN v.stale /\ disk[s] = v.stale[s]
        \/ disk[s] = Blank
    BY <2>1
  <2> QED BY <2>2, <2>3, <2>4
<1>5. disk \in [Sectors -> SectorContents]
  <2>1. ASSUME NEW s \in Sectors PROVE disk[s] \in SectorContents
    BY <1>2, <1>3, <1>4, SectorFacts
  <2>2. disk = [s \in Sectors |-> disk[s]]
    BY DEF Formatted
  <2> QED BY <2>1, <2>2
<1>6. ASSUME NEW r \in D
      PROVE  First[r] = HeadOf(v.bodies[r]) /\ Second[r] = TailOf(v.bodies[r])
  BY <1>1, <1>4, Layout DEF First, Second, FirstSector, SecondSector
<1>7. ASSUME NEW r \in AllRecords \ D
      PROVE  /\ First[r].tag # "head"
             /\ Second[r].tag \in {"tail", "data"} =>
                  MftLba(r) + 1 \in DOMAIN v.stale /\ Second[r] = v.stale[MftLba(r) + 1]
  <2>1. /\ MftLba(r) \in Sectors /\ MftLba(r) + 1 \in Sectors
        /\ \A q \in D : /\ MftLba(r) # MftLba(q) /\ MftLba(r) # MftLba(q) + 1
                        /\ MftLba(r) + 1 # MftLba(q) /\ MftLba(r) + 1 # MftLba(q) + 1
    BY <1>1, <1>7, Layout
  <2>2. First[r] = disk[MftLba(r)] /\ Second[r] = disk[MftLba(r) + 1]
    BY DEF First, Second, FirstSector, SecondSector
  <2>3. First[r].tag # "head"
    BY <1>3, <1>4, <2>1, <2>2, SectorFacts
  <2>4. Second[r].tag \in {"tail", "data"} =>
          MftLba(r) + 1 \in DOMAIN v.stale /\ Second[r] = v.stale[MftLba(r) + 1]
    BY <1>4, <2>1, <2>2, SectorFacts
  <2> QED BY <2>3, <2>4
<1> QED BY <1>1, <1>5, <1>6, <1>7

(* A volume as a start may find it satisfies the invariant. *)
LEMMA NtfsInitInv == NtfsInit => NtfsInv
<1> SUFFICES ASSUME NtfsInit PROVE NtfsInv
  OBVIOUS
<1>1. PICK v \in Volumes : disk = Formatted(v) /\ indx = v.indx
  BY DEF NtfsInit
<1>2. op = Idle /\ op.call = "none" /\ created = {}
  BY DEF NtfsInit, Idle
<1> DEFINE D == DOMAIN v.bodies
<1>3. /\ D \subseteq AllRecords
      /\ disk \in [Sectors -> SectorContents]
      /\ \A r \in D : First[r] = HeadOf(v.bodies[r]) /\ Second[r] = TailOf(v.bodies[r])
      /\ \A r \in AllRecords \ D :
           /\ First[r].tag # "head"
           /\ Second[r].tag \in {"tail", "data"} =>
                MftLba(r) + 1 \in DOMAIN v.stale /\ Second[r] = v.stale[MftLba(r) + 1]
  BY <1>1, FormattedView
<1>4. /\ \A r \in D : v.bodies[r] \in RecordBody
      /\ Root \in D /\ v.bodies[Root].sig = "FILE" /\ v.bodies[Root].dir
      /\ \A r \in D : \A i \in 1..Len(v.bodies[r].index) :
           LET e == v.bodies[r].index[i]
           IN  /\ e.rec \in D /\ v.bodies[e.rec].sig = "FILE"
               /\ v.bodies[e.rec].name = e.name /\ v.bodies[e.rec].parent = r
      /\ v.indx \in IndexBlock
      /\ \A s \in DOMAIN v.stale : \A r \in Records :
           s = MftLba(r) + 1 => SectorEnd(v.stale[s]) # r % 65536
  BY VolumesAssumption DEF Consistent
<1>5. ASSUME NEW r \in D
      PROVE  /\ Attr[r] = v.bodies[r]
             /\ v.bodies[r].sig = "FILE" => r \in Good
  <2>1. HeadOf(v.bodies[r]).body = v.bodies[r]
    BY <1>4, SectorFacts
  <2>2. Attr[r] = First[r].body
    BY <1>3, RecordView
  <2> QED BY <1>3, <1>4, <2>1, <2>2, WholeAccepted
<1>6. Good \subseteq D
  BY <1>3, RecordView
<1>7. VolumeTypes
  BY <1>1, <1>2, <1>3, <1>4 DEF VolumeTypes
<1>8. RootThere
  BY <1>4, <1>5 DEF RootThere
<1>9. FreeUnmatched
  <2> SUFFICES ASSUME NEW r \in Records, First[r].tag # "head",
                      Second[r].tag \in {"tail", "data"}
               PROVE  SectorEnd(Second[r]) # r % 65536
    BY DEF FreeUnmatched
  <2>1. r \in AllRecords \ D
    BY <1>3, <1>4, SectorFacts, RecordFacts
  <2> QED BY <1>3, <1>4, <2>1
<1>10. TailsOwn
  BY <1>3, <1>4, <1>5, <1>6, SectorFacts DEF TailsOwn
<1>11. EntriesNamed
  <2>1. ASSUME NEW d \in Good, NEW i \in 1..Len(Attr[d].index)
        PROVE  LET e == Attr[d].index[i]
               IN  e.rec \in Good /\ Attr[e.rec].name = e.name /\ Attr[e.rec].parent = d
    <3>1. d \in D /\ Attr[d] = v.bodies[d]
      BY <1>5, <1>6
    <3> QED BY <1>4, <1>5, <3>1
  <2> QED BY <2>1 DEF EntriesNamed
<1>12. EntriesFirst /\ created \subseteq Good
  BY <1>2 DEF EntriesFirst, Made
<1>13. CreateInv /\ LinkInv /\ WriteInv
  BY <1>2 DEF CreateInv, LinkInv, WriteInv
<1> QED
  BY <1>7, <1>8, <1>9, <1>10, <1>11, <1>12, <1>13 DEF NtfsInv

(* Every step of the driver, a power loss or a step that is none of its    *)
(* preserves it, and keeps every file.                                     *)
LEMMA NtfsStepInv ==
  ASSUME NtfsInv, [NtfsNext]_ntfsVars
  PROVE  NtfsInv' /\ RecordsKept
<1>1. ASSUME NEW d \in Held, NEW n \in NewNames, NEW p \in Payloads,
             NEW isDir \in BOOLEAN, CreateBegins(d, n, isDir, p)
      PROVE  NtfsInv' /\ RecordsKept
  BY <1>1, CreateBeginsStep
<1>2. ASSUME NEW d, NEW n, NEW p, NEW isDir, CreatePanics(d, n, isDir, p)
      PROVE  NtfsInv' /\ RecordsKept
  BY <1>2, CallEnds DEF CreatePanics, Panicked
<1>3. CASE WriteFirst
  <2>1. op.call \in {"create", "link", "write"}
    BY <1>3 DEF WriteFirst
  <2> QED
    BY <1>3, <2>1, CreateFirstStep, LinkFirstStep, WriteFirstStep
<1>4. CASE WriteSecond
  <2>1. op.call \in {"create", "link", "write"}
    BY <1>4 DEF WriteSecond
  <2> QED
    BY <1>4, <2>1, CreateSecondStep, UpdateSecondStep
<1>5. CASE AddToResident
  BY <1>5, AddToResidentStep
<1>6. CASE AddToExternal
  BY <1>6, AddToExternalStep
<1>7. CASE AddPanics \/ AddFails \/ IoFails \/ PowerLoss
  BY <1>7, CallEnds DEF AddPanics, AddFails, IoFails, PowerLoss, Panicked
<1>8. CASE OpenNew
  BY <1>8, OpenNewStep
<1>9. ASSUME NEW r \in Held, NEW p \in Payloads, WriteBegins(r, p)
      PROVE  NtfsInv' /\ RecordsKept
  BY <1>9, WriteBeginsStep
<1>10. CASE UNCHANGED ntfsVars
  <2>1. UNCHANGED <<disk, indx, op, created>>
    BY <1>10 DEF ntfsVars
  <2>2. /\ First' = First /\ Second' = Second /\ Good' = Good /\ Attr' = Attr
        /\ RecordsKept
    BY <2>1, QuietView
  <2>3. NtfsInv'
    BY <2>1, <2>2 DEF NtfsInv, VolumeTypes, RootThere, CreateInv, LinkInv, WriteInv,
       FreeUnmatched, TailsOwn, EntriesNamed, EntriesFirst, Made, Unlinked,
       NewEntry
  <2> QED BY <2>2, <2>3
<1> QED
  BY <1>1, <1>2, <1>3, <1>4, <1>5, <1>6, <1>7, <1>8, <1>9, <1>10 DEF NtfsNext, NtfsStep

-----------------------------------------------------------------------------
(* The calls of Vfs leave the volume alone. *)
LEMMA VfsOnVolume == [Next]_vars => [NtfsNext]_ntfsVars
  BY DEF Next, vars, vfsVars, Volume, Mount, Open, Close, Read, Restart, NtfsNext, ntfsVars

(* The invariant holds with Vfs above the driver. *)
LEMMA VolumeInvariant == Spec => []NtfsInv
<1>1. VfsInit => NtfsInv
  BY NtfsInitInv DEF VfsInit
<1>2. NtfsInv /\ [Next]_vars => NtfsInv'
  BY VfsOnVolume, NtfsStepInv
<1> QED BY <1>1, <1>2, PTL DEF Spec

(* The view and the definitions of Ntfs. *)
LEMMA ViewMeans ==
  /\ \A r \in AllRecords : (r \in Good <=> Accepted(r)) /\ Attr[r] = Stat(r)
  /\ Good \subseteq AllRecords
  /\ Directories = {d \in Good : Attr[d].dir}
  /\ \A d \in Good : Entries(d) = {Attr[d].index[i] : i \in 1..Len(Attr[d].index)}
  BY DEF Good, Attr, Directories, Entries

(* create_file writes a record before the entry that names it, and         *)
(* write_file rewrites the first sector of a record in place: whatever     *)
(* write was the last, no entry is without its record.                     *)
THEOREM NtfsNoDanglingEntry == Spec => []NoDanglingEntry
<1>1. NtfsInv => NoDanglingEntry
  <2> SUFFICES ASSUME NtfsInv PROVE NoDanglingEntry
    OBVIOUS
  <2>1. EntriesNamed
    BY DEF NtfsInv
  <2>2. ASSUME NEW d \in WholeDirectories, NEW e \in Entries(d)
        PROVE  Accepted(e.rec) /\ Stat(e.rec).name = e.name /\ Stat(e.rec).parent = d
    <3>1. d \in Good /\ \E i \in 1..Len(Attr[d].index) : e = Attr[d].index[i]
      BY ViewMeans DEF WholeDirectories
    <3>2. e.rec \in Good /\ Attr[e.rec].name = e.name /\ Attr[e.rec].parent = d
      BY <2>1, <3>1 DEF EntriesNamed
    <3> QED BY <3>2, ViewMeans
  <2> QED BY <2>2 DEF NoDanglingEntry
<1> QED BY <1>1, VolumeInvariant, PTL

(* apply_fixups refuses a new record with only its first sector, unless    *)
(* the number it compares is 0.                                            *)
THEOREM NtfsNoForeignTail == Spec => []NoForeignTail
<1>1. NtfsInv => NoForeignTail
  BY ViewMeans DEF NtfsInv, TailsOwn, NoForeignTail, Second
<1> QED BY <1>1, VolumeInvariant, PTL

(* What create_file returned is what its name finds in the directory that  *)
(* has its entry: the name was tested against the index before the record  *)
(* was made, and no later entry comes before it. For ASCII names.          *)
THEOREM NtfsLookupFindsCreated == Spec => []LookupFindsCreated
<1>1. NtfsInv => LookupFindsCreated
  <2> SUFFICES ASSUME NtfsInv PROVE LookupFindsCreated
    OBVIOUS
  <2>1. VolumeTypes /\ EntriesFirst /\ created \subseteq Made
    BY DEF NtfsInv, Made
  <2>3. ASSUME NEW d \in WholeDirectories, NEW e \in Entries(d),
               e.rec \in created, Shown[e.name] = e.name
        PROVE  Find(Stat(d), e.name) = e.rec
    <3>1. d \in Good /\ Stat(d) = Attr[d] /\ Attr[d].index \in Seq(Entry)
      BY <2>1, ViewMeans, RecordView DEF VolumeTypes, WholeDirectories
    <3>2. PICK i \in 1..Len(Attr[d].index) : e = Attr[d].index[i]
      BY <3>1, ViewMeans
    <3> DEFINE H == Hits(Attr[d], e.name)
    <3>3. i \in H
      BY <2>3, <3>2 DEF Hits, Matches
    <3>4. \A j \in 1..(i - 1) : j \notin H
      BY <2>1, <2>3, <3>1, <3>2 DEF EntriesFirst, Hits
    <3>5. H \subseteq 1..Len(Attr[d].index)
      BY DEF Hits
    <3> HIDE DEF H
    <3>6. i \in H /\ \A j \in H : i <= j
      BY <3>1, <3>2, <3>3, <3>4, <3>5
    <3>7. \A k \in H : (\A j \in H : k <= j) => k = i
      BY <3>1, <3>2, <3>5, <3>6
    <3>8. (CHOOSE k \in H : \A j \in H : k <= j) = i
      BY <3>6, <3>7
    <3> QED BY <3>1, <3>2, <3>8 DEF Find, H
  <2> QED BY <2>3 DEF LookupFindsCreated
<1> QED BY <1>1, VolumeInvariant, PTL

(* Only create_file writes over a sector of file data. *)
DataLost(s) == disk[s].tag = "data" /\ disk'[s] # disk[s]

LEMMA DataOnlyToRecords ==
  ASSUME NtfsInv, [NtfsNext]_ntfsVars, NEW s \in Sectors, DataLost(s)
  PROVE  op.call = "create" /\ s \in {MftLba(op.new), MftLba(op.new) + 1}
<1>1. disk' # disk
  BY DEF DataLost
<1>2. WriteFirst \/ WriteSecond
  BY <1>1 DEF NtfsNext, NtfsStep, ntfsVars, CreateBegins, CreatePanics, AddToResident,
     AddToExternal, AddPanics, AddFails, OpenNew, WriteBegins, IoFails, PowerLoss
<1>3. VolumeTypes /\ CreateInv /\ LinkInv /\ WriteInv /\ TailsOwn
  BY DEF NtfsInv
<1>4. /\ op.call \in {"create", "link", "write"} /\ op.pc \in {"head", "tail"}
      /\ op.rec \in AllRecords
      /\ s \in {MftLba(op.rec), MftLba(op.rec) + 1}
  <2>1. op.call \in {"create", "link", "write"} /\ op.pc \in {"head", "tail"}
    BY <1>2 DEF WriteFirst, WriteSecond
  <2>2. op.rec \in AllRecords
    BY <1>3, <2>1, CallShapes
  <2>3. disk \in [Sectors -> SectorContents]
    BY <1>3 DEF VolumeTypes
  <2>4. s \in {MftLba(op.rec), MftLba(op.rec) + 1}
    BY <1>2, <2>3 DEF WriteFirst, WriteSecond, DataLost
  <2> QED BY <2>1, <2>2, <2>4
<1>5. CASE op.call = "create"
  BY <1>3, <1>4, <1>5 DEF CreateInv
<1>6. CASE op.call \in {"link", "write"}
  <2>1. op.rec \in Good
    BY <1>3, <1>4, <1>6 DEF LinkInv, WriteInv
  <2>2. First[op.rec].tag = "head" /\ Second[op.rec].tag # "data"
    BY <1>3, <1>4, <2>1, RecordView DEF VolumeTypes, TailsOwn
  <2>3. disk[MftLba(op.rec)].tag = "head" /\ disk[MftLba(op.rec) + 1].tag # "data"
    BY <1>4, <2>2 DEF First, Second, FirstSector, SecondSector
  <2> QED BY <1>4, <2>3 DEF DataLost
<1> QED BY <1>4, <1>5, <1>6

(* A step of the driver or the end of the power never takes away a file    *)
(* that is there, its entries or its resident contents, and file data      *)
(* outside the records is lost to the record of a create_file only.        *)
THEOREM NtfsFilesKept == Spec => FilesKept
<1> DEFINE Kept ==
      \A r \in AllRecords :
        Accepted(r) =>
          /\ Accepted(r)'
          /\ Stat(r)'.name = Stat(r).name /\ Stat(r)'.parent = Stat(r).parent
          /\ Len(Stat(r).index) <= Len(Stat(r)'.index)
          /\ \A i \in 1..Len(Stat(r).index) : Stat(r)'.index[i] = Stat(r).index[i]
          /\ Stat(r)'.payload # Stat(r).payload => op.call = "write" /\ op.rec = r
    DataKept ==
      \A s \in Sectors :
        disk[s].tag = "data" /\ disk'[s] # disk[s] =>
          op.call = "create" /\ s \in {MftLba(op.new), MftLba(op.new) + 1}
<1>1. NtfsInv /\ [Next]_vars => Kept
  <2> SUFFICES ASSUME NtfsInv, [Next]_vars PROVE Kept
    OBVIOUS
  <2>1. RecordsKept
    BY VfsOnVolume, NtfsStepInv
  <2>2. ASSUME NEW r \in AllRecords
        PROVE  /\ Attr[r] = Stat(r) /\ Attr'[r] = Stat(r)'
               /\ r \in Good <=> Accepted(r)
               /\ r \in Good' <=> Accepted(r)'
    BY DEF Attr, Good
  <2> QED BY <2>1, <2>2 DEF RecordsKept, Later
<1>2. NtfsInv /\ [Next]_vars => DataKept
  BY VfsOnVolume, DataOnlyToRecords DEF DataLost
<1>3. NtfsInv /\ [Next]_vars => [Kept /\ DataKept]_ntfsVars
  BY <1>1, <1>2
<1> QED BY <1>3, VolumeInvariant, PTL DEF Spec, FilesKept

-----------------------------------------------------------------------------
(* Recursive functions: what they are and where their values lie, without  *)
(* an induction rule that takes an operator.                               *)

(* A set of numbers that is not empty has a least one. *)
LEMMA LeastNatural ==
  ASSUME NEW T, T \subseteq Nat, T # {}
  PROVE  \E x \in T : \A y \in T : x <= y
<1> DEFINE R == OpToRel(<, Nat)
<1>1. PICK x \in T : \A y \in T : ~ (<<y, x>> \in R)
  BY NatLessThanWellFounded, WFMin, Zenon
<1>2. \A y \in Nat : y < x => <<y, x>> \in R
  BY DEF OpToRel
<1> HIDE DEF R
<1>3. ASSUME NEW y \in T PROVE x <= y
  <2>1. ~(y < x)
    BY <1>1, <1>2
  <2> QED BY <2>1
<1> QED BY <1>3

(* Induction up to n: a set with 0, and with the successor of each of its  *)
(* members. *)
LEMMA StepByStep ==
  ASSUME NEW n \in Nat, NEW S, 0 \in S, \A i \in 1..n : i - 1 \in S => i \in S
  PROVE  0..n \subseteq S
<1> DEFINE T == (0..n) \ S
<1> SUFFICES ASSUME T # {} PROVE FALSE
  OBVIOUS
<1>1. T \subseteq Nat /\ T \subseteq 0..n
  OBVIOUS
<1>2. PICK k \in T : \A y \in T : k <= y
  <2> HIDE DEF T
  <2> QED BY <1>1, LeastNatural, Zenon
<1>3. k # 0
  BY <1>2
<1>4. k \in 1..n /\ k - 1 \in 0..n /\ k - 1 \notin T
  BY <1>1, <1>2, <1>3
<1> QED BY <1>2, <1>4

(* The sequences of values that begin with v and go on with the functions. *)
Chains(n, V, v, F) ==
  {g \in [0..n -> V] : g[0] = v /\ \A i \in 1..n : g[i] = F[i][g[i - 1]]}

(* There is always one. *)
LEMMA ChainExists ==
  ASSUME NEW n \in Nat, NEW V, NEW v \in V, NEW F \in [1..n -> [V -> V]]
  PROVE  Chains(n, V, v, F) # {}
<1> DEFINE S == {k \in 0..n : Chains(k, V, v, F) # {}}
<1>1. [i \in 0..0 |-> v] \in Chains(0, V, v, F)
  BY DEF Chains
<1>2. ASSUME NEW k \in 1..n, Chains(k - 1, V, v, F) # {} PROVE Chains(k, V, v, F) # {}
  <2>1. PICK g : g \in Chains(k - 1, V, v, F)
    BY <1>2
  <2>2. g \in [0..(k - 1) -> V] /\ g[0] = v /\ \A i \in 1..(k - 1) : g[i] = F[i][g[i - 1]]
    BY <2>1 DEF Chains
  <2> DEFINE h == [i \in 0..k |-> IF i = k THEN F[k][g[k - 1]] ELSE g[i]]
  <2>3. h \in [0..k -> V]
    BY <2>2
  <2>4. h[0] = v /\ \A i \in 1..k : h[i] = F[i][h[i - 1]]
    BY <2>2
  <2> QED BY <2>3, <2>4 DEF Chains
<1>3. 0 \in S /\ \A i \in 1..n : i - 1 \in S => i \in S
  BY <1>1, <1>2
<1>4. n \in S
  <2> HIDE DEF S
  <2>1. 0..n \subseteq S
    BY <1>3, StepByStep, Zenon
  <2> QED BY <2>1
<1> QED BY <1>4

(* The runs of a file add up to a number of bytes. *)
LEMMA RunBytesType ==
  ASSUME NEW runs \in Seq(Run)
  PROVE  RunBytes(runs) \in Nat
<1> DEFINE n == Len(runs)
           F == [i \in 1..n |-> [x \in Nat |-> x + runs[i].len * BytesPerCluster]]
           E(g) == g = [i \in 0..n |-> IF i = 0 THEN 0 ELSE g[i - 1] + runs[i].len * BytesPerCluster]
           u == CHOOSE g : E(g)
           S == {i \in 0..n : u[i] \in Nat}
<1>1. RunBytes(runs) = u[n]
  BY Zenon DEF RunBytes
<1>2. n \in Nat /\ 0 \in Nat
  OBVIOUS
<1>3. ASSUME NEW i \in 1..n PROVE runs[i].len * BytesPerCluster \in Nat
  <2>1. runs[i] \in Run
    OBVIOUS
  <2>2. runs[i].len \in Nat
    BY <2>1 DEF Run
  <2>3. \A a, b \in Nat : a * b \in Nat
    OBVIOUS
  <2> HIDE DEF n
  <2> QED BY <2>2, <2>3, GeometryAssumption
<1> HIDE DEF n
<1>4. \A i \in 1..n : \A x \in Nat : x + runs[i].len * BytesPerCluster \in Nat
  BY <1>3
<1>5. F \in [1..n -> [Nat -> Nat]]
  BY <1>4
<1>6. PICK g \in [0..n -> Nat] : g[0] = 0 /\ \A i \in 1..n : g[i] = F[i][g[i - 1]]
  <2> DEFINE V == Nat
             v == 0
  <2>1. v \in V /\ F \in [1..n -> [V -> V]]
    BY <1>2, <1>5
  <2> HIDE DEF F, V, v
  <2>2. Chains(n, V, v, F) # {}
    BY <1>2, <2>1, ChainExists, Zenon
  <2> QED BY <2>2 DEF V, v, Chains
<1>7. \A i \in 1..n : g[i] = g[i - 1] + runs[i].len * BytesPerCluster
  <2>1. \A i \in 1..n : g[i - 1] \in Nat
    BY <1>2, <1>6
  <2> QED BY <1>6, <2>1
<1>8. E(g)
  BY <1>2, <1>6, <1>7
<1>9. E(u)
  BY <1>8, Zenon
<1> HIDE DEF u
<1>10. u[0] = 0 /\ \A i \in 1..n : u[i] = u[i - 1] + runs[i].len * BytesPerCluster
  <2> HIDE DEF F, S
  <2>1. \A i \in 0..n : u[i] = IF i = 0 THEN 0 ELSE u[i - 1] + runs[i].len * BytesPerCluster
    BY <1>9, Zenon
  <2>2. 0 \in 0..n /\ \A i \in 1..n : i \in 0..n /\ i # 0
    BY <1>2
  <2> QED BY <2>1, <2>2
<1>11. 0 \in S /\ \A i \in 1..n : i - 1 \in S => i \in S
  <2>1. 0 \in S
    BY <1>2, <1>10
  <2>2. ASSUME NEW i \in 1..n, i - 1 \in S PROVE i \in S
    <3>1. u[i - 1] \in Nat
      BY <2>2
    <3>2. u[i] \in Nat
      BY <1>4, <1>10, <3>1
    <3> QED BY <1>2, <3>2
  <2> QED BY <2>1, <2>2
<1>12. n \in S
  <2> HIDE DEF S
  <2>1. 0..n \subseteq S
    BY <1>2, <1>11, StepByStep, Zenon
  <2> QED BY <1>2, <2>1
<1> QED BY <1>1, <1>12

(* The size of a file is a number, and the same of every later version. *)
LEMMA SizeFacts ==
  ASSUME NEW b \in RecordBody
  PROVE  Size(b) \in Nat /\ \A c : Later(b, c) => Size(c) = Size(b)
<1>1. b.runs \in Seq(Run) /\ b.payload \in Payload
  BY Zenon DEF RecordBody
<1>2. RunBytes(b.runs) \in Nat
  BY <1>1, RunBytesType
<1>3. Size(b) \in Nat
  BY <1>1, <1>2 DEF Size, Payload
<1>4. ASSUME NEW c, Later(b, c) PROVE Size(c) = Size(b)
  BY <1>4 DEF Later, Size
<1> QED BY <1>3, <1>4

-----------------------------------------------------------------------------
(* A lookup in a directory returns a record that is there, or none. *)
LEMMA ChildFound ==
  ASSUME NtfsInv, NEW r \in Good \cup {NoFile}, NEW c
  PROVE  ChildOf(r, c) \in Good \cup {NoFile}
<1> DEFINE b == Stat(r)
           H == Hits(b, c)
           k == CHOOSE i \in H : \A j \in H : i <= j
<1> SUFFICES ASSUME r # NoFile, H # {}, Accepted(Find(b, c))
             PROVE  Find(b, c) \in Good
  BY DEF ChildOf
<1>1. r \in Good /\ b = Attr[r] /\ b.index \in Seq(Entry)
  BY ViewMeans, RecordView DEF NtfsInv, VolumeTypes
<1>2. H \subseteq 1..Len(b.index) /\ H \subseteq Nat
  BY <1>1 DEF Hits
<1>3. Find(b, c) = b.index[k].rec
  BY DEF Find
<1> HIDE DEF H, b
<1>4. \E i \in H : \A j \in H : i <= j
  BY <1>2, LeastNatural
<1>5. k \in 1..Len(b.index)
  BY <1>2, <1>4
<1>6. b.index[k] \in Entry
  BY <1>1, <1>5
<1> HIDE DEF k
<1>7. Find(b, c) \in AllRecords
  BY <1>3, <1>6 DEF Entry
<1> QED BY <1>7, ViewMeans

(* So does the walk along a path. *)
LEMMA WalkFinds ==
  ASSUME NtfsInv, NEW p \in Paths
  PROVE  Walk(p) \in Good \cup {NoFile}
<1> DEFINE n == Len(p)
           V == Good \cup {NoFile}
           F == [i \in 1..n |-> [x \in V |-> ChildOf(x, p[i])]]
           E(g) == g = [i \in 0..n |-> IF i = 0 THEN Root ELSE ChildOf(g[i - 1], p[i])]
           u == CHOOSE g : E(g)
           S == {i \in 0..n : u[i] \in V}
<1>1. Walk(p) = u[n]
  BY Zenon DEF Walk
<1>2. n \in Nat /\ Root \in V
  BY PathsAssumption DEF NtfsInv, RootThere
<1>3. \A i \in 1..n : \A x \in V : ChildOf(x, p[i]) \in V
  BY ChildFound
<1> HIDE DEF n, V
<1>4. F \in [1..n -> [V -> V]]
  BY <1>3
<1>5. PICK g \in [0..n -> V] : g[0] = Root /\ \A i \in 1..n : g[i] = F[i][g[i - 1]]
  <2> HIDE DEF F
  <2>1. Chains(n, V, Root, F) # {}
    BY <1>2, <1>4, ChainExists, Zenon
  <2> QED BY <2>1 DEF Chains
<1>6. \A i \in 1..n : g[i] = ChildOf(g[i - 1], p[i])
  <2>1. \A i \in 1..n : g[i - 1] \in V
    BY <1>2, <1>5
  <2> QED BY <1>5, <2>1
<1>7. E(g)
  BY <1>2, <1>5, <1>6
<1>8. E(u)
  BY <1>7, Zenon
<1> HIDE DEF u
<1>9. u[0] = Root /\ \A i \in 1..n : u[i] = ChildOf(u[i - 1], p[i])
  BY <1>2, <1>8
<1>10. 0 \in S /\ \A i \in 1..n : i - 1 \in S => i \in S
  <2>1. 0 \in S
    BY <1>2, <1>9
  <2>2. ASSUME NEW i \in 1..n, i - 1 \in S PROVE i \in S
    <3>1. u[i] \in V
      BY <1>3, <1>9, <2>2
    <3> QED BY <1>2, <3>1
  <2> QED BY <2>1, <2>2
<1>11. n \in S
  <2> HIDE DEF S
  <2>1. 0..n \subseteq S
    BY <1>2, <1>10, StepByStep, Zenon
  <2> QED BY <1>2, <2>1
<1> QED BY <1>1, <1>11 DEF V

-----------------------------------------------------------------------------
(* What a handle is, while the record it reads may be rewritten. *)
Handles == [rec : AllRecords, offset : Nat, size : Nat]
HandleInv ==
  \A fd \in DOMAIN fds :
    LET h == fds[fd]
    IN  /\ h \in Handles /\ h.rec \in Good /\ ~Attr[h.rec].dir
        /\ h.size = Size(Attr[h.rec]) /\ h.offset <= h.size

(* Opening a path gives a new handle at the beginning of the file. *)
LEMMA OpenHandle ==
  ASSUME NtfsInv, HandleInv, NEW p \in Paths, Open(p)
  PROVE  HandleInv'
<1> DEFINE r == Walk(p)
           h == [rec |-> r, offset |-> 0, size |-> Size(Stat(r))]
<1>1. r \in Good /\ r \in AllRecords /\ Attr[r] = Stat(r) /\ ~Attr[r].dir
  BY WalkFinds, ViewMeans DEF Open, Openable
<1>2. Attr[r] \in RecordBody
  BY <1>1, RecordView DEF NtfsInv, VolumeTypes
<1>3. Size(Attr[r]) \in Nat
  BY <1>2, SizeFacts
<1>4. fds' = Extended(fds, next_fd, h) /\ UNCHANGED disk
  BY DEF Open, ntfsVars
<1>5. Good' = Good /\ Attr' = Attr
  BY <1>4, ViewUnchanged
<1> HIDE DEF r
<1>6. /\ h \in Handles /\ h.rec = r /\ h.offset = 0 /\ h.size = Size(Attr[r])
  BY <1>1, <1>3 DEF Handles
<1> HIDE DEF h
<1>7. \A fd \in DOMAIN fds' : fds'[fd] = h \/ (fd \in DOMAIN fds /\ fds'[fd] = fds[fd])
  BY <1>4 DEF Extended
<1> QED BY <1>1, <1>3, <1>5, <1>6, <1>7 DEF HandleInv

(* A read moves a handle on, and not past the end. *)
LEMMA ReadHandle ==
  ASSUME NtfsInv, HandleInv, NEW fd \in DOMAIN fds, NEW n \in ReadSizes, Read(fd, n)
  PROVE  HandleInv'
<1> DEFINE h == fds[fd]
           k == ReadBytes(h, n)
<1>1. fds' = [fds EXCEPT ![fd].offset = @ + k] /\ UNCHANGED disk
  BY DEF Read, ntfsVars
<1>2. Good' = Good /\ Attr' = Attr
  BY <1>1, ViewUnchanged
<1>3. /\ h \in Handles /\ h.rec \in Good /\ ~Attr[h.rec].dir
      /\ h.size = Size(Attr[h.rec]) /\ h.offset <= h.size
  BY DEF HandleInv
<1>4. h.offset \in Nat /\ h.size \in Nat /\ h.rec \in AllRecords /\ n \in Nat
  BY <1>3, ReadSizesAssumption DEF Handles
<1>5. Size(Stat(h.rec)) = h.size
  BY <1>3, <1>4, ViewMeans
<1>6. k \in Nat /\ h.offset + k <= h.size
  BY <1>3, <1>4, <1>5 DEF ReadBytes
<1> HIDE DEF k
<1>7. ASSUME NEW f \in DOMAIN fds'
      PROVE  LET g == fds'[f]
             IN  /\ g \in Handles /\ g.rec \in Good' /\ ~Attr'[g.rec].dir
                 /\ g.size = Size(Attr'[g.rec]) /\ g.offset <= g.size
  <2>1. f \in DOMAIN fds
    BY <1>1
  <2>2. CASE f = fd
    <3> DEFINE g == fds'[f]
    <3>1. g = [h EXCEPT !.offset = h.offset + k]
      BY <1>1, <2>1, <2>2
    <3>2. g \in Handles /\ g.rec = h.rec /\ g.size = h.size /\ g.offset = h.offset + k
      BY <1>3, <1>4, <1>6, <3>1 DEF Handles
    <3> QED BY <1>2, <1>3, <1>6, <3>2
  <2>3. CASE f # fd
    BY <1>1, <1>2, <2>1, <2>3 DEF HandleInv
  <2> QED BY <2>2, <2>3
<1> QED BY <1>7 DEF HandleInv

(* What a handle knows stays true: write_file keeps the length, the runs   *)
(* and the kind of the file, and nothing else touches it.                  *)
THEOREM VfsHandleFitsFile == Spec => []HandleFitsFile
<1>1. VfsInit => HandleInv
  BY DEF VfsInit, HandleInv
<1>2. NtfsInv /\ HandleInv /\ [Next]_vars => HandleInv'
  <2> SUFFICES ASSUME NtfsInv, HandleInv, [Next]_vars PROVE HandleInv'
    OBVIOUS
  <2>1. ASSUME RecordsKept, UNCHANGED fds PROVE HandleInv'
    <3>1. ASSUME NEW r \in Good
          PROVE  r \in Good' /\ Attr'[r].dir = Attr[r].dir /\ Size(Attr'[r]) = Size(Attr[r])
      <4>1. r \in Good' /\ Later(Attr[r], Attr'[r]) /\ Attr[r] \in RecordBody
        BY <2>1, RecordView DEF RecordsKept, NtfsInv, VolumeTypes
      <4> QED BY <4>1, SizeFacts DEF Later
    <3> QED BY <2>1, <3>1 DEF HandleInv
  <2>2. RecordsKept
    BY VfsOnVolume, NtfsStepInv
  <2>3. CASE Volume \/ UNCHANGED vars
    BY <2>1, <2>2, <2>3 DEF Volume, vfsVars, vars
  <2>4. ASSUME NEW m \in DOMAIN FsAt, Mount(m) PROVE HandleInv'
    BY <2>1, <2>2, <2>4 DEF Mount
  <2>5. ASSUME NEW p \in Paths, Open(p) PROVE HandleInv'
    BY <2>5, OpenHandle
  <2>6. ASSUME NEW fd \in DOMAIN fds, Close(fd) PROVE HandleInv'
    <3>1. fds' = [f \in DOMAIN fds \ {fd} |-> fds[f]] /\ UNCHANGED disk
      BY <2>6 DEF Close, ntfsVars
    <3>2. Good' = Good /\ Attr' = Attr
      BY <3>1, ViewUnchanged
    <3> QED BY <3>1, <3>2 DEF HandleInv
  <2>7. ASSUME NEW fd \in DOMAIN fds, NEW n \in ReadSizes, Read(fd, n) PROVE HandleInv'
    BY <2>7, ReadHandle
  <2>8. CASE Restart
    BY <2>8 DEF Restart, HandleInv
  <2> QED BY <2>3, <2>4, <2>5, <2>6, <2>7, <2>8 DEF Next
<1>3. HandleInv => HandleFitsFile
  BY ViewMeans DEF HandleInv, HandleFitsFile
<1> QED BY <1>1, <1>2, <1>3, VolumeInvariant, PTL DEF Spec

-----------------------------------------------------------------------------
(* What a lookup sees, in terms of the view: a link per entry of each      *)
(* directory that is not torn, a file per record that is linked.           *)
LinkOf(d, e) == [dir |-> d, name |-> e.name, rec |-> e.rec]
FileOf(b) == [dir |-> b.dir, payload |-> b.payload]
Lost == [damaged |-> TRUE]

MixedRecords == {r \in AllRecords : Mixed(r)}
TornRecords == {r \in AllRecords : Torn(r)}

TreeView ==
  /\ \A r \in Good : Attr[r] \in RecordBody /\ Len(Attr[r].index) \in Nat
  /\ \A r : r \in MixedRecords <=>
              r \in Good /\ Second[r].tag = "tail" /\ Second[r].body # Attr[r]
  /\ \A r : r \in TornRecords <=> r \in MixedRecords /\ ~Updating(r)
  /\ \A l : l \in TreeLinks <=>
              \E d \in Good : /\ Attr[d].dir /\ d \notin TornRecords
                              /\ \E i \in 1..Len(Attr[d].index) : l = LinkOf(d, Attr[d].index[i])
  /\ DOMAIN TreeFiles = {Root} \cup {l.rec : l \in TreeLinks}
  /\ DOMAIN TreeFiles \subseteq Good
  /\ \A r \in DOMAIN TreeFiles :
       TreeFiles[r] = IF r \in TornRecords THEN Lost ELSE FileOf(Attr[r])
  /\ TreeFiles = [r \in DOMAIN TreeFiles |-> TreeFiles[r]]

LEMMA LinkFacts ==
  /\ \A d, e : LinkOf(d, e).dir = d /\ LinkOf(d, e).name = e.name /\ LinkOf(d, e).rec = e.rec
  /\ \A b : FileOf(b) # Lost /\ FileOf(b).dir = b.dir /\ FileOf(b).payload = b.payload
<1>1. \A d, e : LinkOf(d, e).dir = d /\ LinkOf(d, e).name = e.name /\ LinkOf(d, e).rec = e.rec
  BY DEF LinkOf
<1>2. \A b : FileOf(b).dir = b.dir /\ FileOf(b).payload = b.payload
  BY DEF FileOf
<1>3. ASSUME NEW b PROVE FileOf(b) # Lost
  <2>1. DOMAIN FileOf(b) = {"dir", "payload"} /\ DOMAIN Lost = {"damaged"}
    BY DEF FileOf, Lost
  <2> QED BY <2>1
<1> QED BY <1>1, <1>2, <1>3

(* Ntfs defines the tree like this. *)
LEMMA TreeSeen == NtfsInv => TreeView
<1> SUFFICES ASSUME NtfsInv PROVE TreeView
  OBVIOUS
<1>0. VolumeTypes /\ EntriesNamed /\ RootThere
  BY DEF NtfsInv
<1>1. ASSUME NEW r \in Good PROVE Attr[r] \in RecordBody /\ Len(Attr[r].index) \in Nat
  <2>1. Attr[r] \in RecordBody /\ Attr[r].index \in Seq(Entry)
    BY <1>0, RecordView DEF VolumeTypes
  <2> QED BY <2>1
<1>2. ASSUME NEW r
      PROVE  r \in MixedRecords <=>
               r \in Good /\ Second[r].tag = "tail" /\ Second[r].body # Attr[r]
  <2>1. r \in Good => r \in AllRecords
    BY DEF Good
  <2>2. r \in AllRecords => Second[r] = SecondSector(r) /\ Attr[r] = Stat(r)
    BY DEF Second, Attr
  <2> QED BY <2>1, <2>2 DEF MixedRecords, Mixed, Good
<1>3. ASSUME NEW r PROVE r \in TornRecords <=> r \in MixedRecords /\ ~Updating(r)
  BY DEF TornRecords, MixedRecords, Torn
<1>4. ASSUME NEW l
      PROVE  l \in TreeLinks <=>
               \E d \in Good : /\ Attr[d].dir /\ d \notin TornRecords
                               /\ \E i \in 1..Len(Attr[d].index) : l = LinkOf(d, Attr[d].index[i])
  <2>1. {x \in Directories : ~Torn(x)} = {d \in Good : Attr[d].dir /\ d \notin TornRecords}
    BY ViewMeans DEF TornRecords
  <2>2. l \in TreeLinks <=>
          \E d \in {x \in Directories : ~Torn(x)} : \E e \in Entries(d) : l = LinkOf(d, e)
    BY DEF TreeLinks, LinkOf
  <2>3. \A d \in Good : (\E e \in Entries(d) : l = LinkOf(d, e)) <=>
                        \E i \in 1..Len(Attr[d].index) : l = LinkOf(d, Attr[d].index[i])
    BY ViewMeans
  <2> QED BY <2>1, <2>2, <2>3
<1>5. DOMAIN TreeFiles = {Root} \cup {l.rec : l \in TreeLinks}
  BY DEF TreeFiles
<1>6. DOMAIN TreeFiles \subseteq Good
  <2>1. \A l \in TreeLinks : l.rec \in Good
    BY <1>0, <1>4, LinkFacts DEF EntriesNamed
  <2> QED BY <1>0, <1>5, <2>1 DEF RootThere
<1>7. ASSUME NEW r \in DOMAIN TreeFiles
      PROVE  TreeFiles[r] = IF r \in TornRecords THEN Lost ELSE FileOf(Attr[r])
  <2>1. r \in AllRecords /\ Attr[r] = Stat(r)
    BY <1>6, ViewMeans
  <2>2. TreeFiles[r] = IF Torn(r) THEN Lost ELSE FileOf(Stat(r))
    BY <1>5 DEF TreeFiles, Lost, FileOf
  <2> QED BY <2>1, <2>2 DEF TornRecords
<1>8. TreeFiles = [r \in DOMAIN TreeFiles |-> TreeFiles[r]]
  BY DEF TreeFiles
<1> QED BY <1>1, <1>2, <1>3, <1>4, <1>5, <1>6, <1>7, <1>8 DEF TreeView

(* With no new entry and no record newly torn the links are the same ... *)
LEMMA SameLinks ==
  ASSUME TreeView, TreeView', RecordsKept, NoNewEntries, TornRecords' = TornRecords
  PROVE  TreeLinks' = TreeLinks /\ DOMAIN TreeFiles' = DOMAIN TreeFiles
<1>1. ASSUME NEW l \in TreeLinks PROVE l \in TreeLinks'
  <2>1. PICK d \in Good : /\ Attr[d].dir /\ d \notin TornRecords
                          /\ \E i \in 1..Len(Attr[d].index) : l = LinkOf(d, Attr[d].index[i])
    BY DEF TreeView
  <2>2. PICK i \in 1..Len(Attr[d].index) : l = LinkOf(d, Attr[d].index[i])
    BY <2>1
  <2>3. /\ d \in Good' /\ Attr'[d].dir = Attr[d].dir /\ Attr'[d].index[i] = Attr[d].index[i]
        /\ Len(Attr[d].index) <= Len(Attr'[d].index)
    BY <2>1, <2>2 DEF RecordsKept, Later
  <2>4. Len(Attr[d].index) \in Nat /\ Len(Attr'[d].index) \in Nat
    BY <2>1, <2>3 DEF TreeView
  <2>5. i \in 1..Len(Attr'[d].index)
    BY <2>2, <2>3, <2>4
  <2>6. /\ d \in Good' /\ Attr'[d].dir /\ d \notin TornRecords'
        /\ \E j \in 1..Len(Attr'[d].index) : l = LinkOf(d, Attr'[d].index[j])
    BY <2>1, <2>2, <2>3, <2>5
  <2> QED BY <2>6 DEF TreeView
<1>2. ASSUME NEW l \in TreeLinks' PROVE l \in TreeLinks
  <2>1. PICK d \in Good' : /\ Attr'[d].dir /\ d \notin TornRecords'
                           /\ \E i \in 1..Len(Attr'[d].index) : l = LinkOf(d, Attr'[d].index[i])
    BY DEF TreeView
  <2>2. Attr'[d].index # << >>
    BY <2>1
  <2>3. d \in Good /\ Attr'[d].index = Attr[d].index
    BY <2>1, <2>2 DEF NoNewEntries
  <2>4. Attr'[d].dir = Attr[d].dir
    BY <2>3 DEF RecordsKept, Later
  <2>5. /\ d \in Good /\ Attr[d].dir /\ d \notin TornRecords
        /\ \E j \in 1..Len(Attr[d].index) : l = LinkOf(d, Attr[d].index[j])
    BY <2>1, <2>3, <2>4
  <2> QED BY <2>5 DEF TreeView
<1>3. TreeLinks' = TreeLinks
  BY <1>1, <1>2
<1> QED BY <1>3 DEF TreeView

(* ... and without another payload so are the files. *)
LEMMA SameTree ==
  ASSUME TreeView, TreeView', RecordsKept, NoNewEntries, TornRecords' = TornRecords,
         \A r \in DOMAIN TreeFiles : Attr'[r].payload = Attr[r].payload
  PROVE  TreeLinks' = TreeLinks /\ TreeFiles' = TreeFiles
<1>1. TreeLinks' = TreeLinks /\ DOMAIN TreeFiles' = DOMAIN TreeFiles
  BY SameLinks
<1>2. ASSUME NEW r \in DOMAIN TreeFiles PROVE TreeFiles'[r] = TreeFiles[r]
  <2>1. r \in Good /\ Attr'[r].payload = Attr[r].payload /\ Attr'[r].dir = Attr[r].dir
    BY DEF TreeView, RecordsKept, Later
  <2>2. FileOf(Attr'[r]) = FileOf(Attr[r])
    BY <2>1 DEF FileOf
  <2>3. TreeFiles[r] = IF r \in TornRecords THEN Lost ELSE FileOf(Attr[r])
    BY DEF TreeView
  <2>4. TreeFiles'[r] = IF r \in TornRecords' THEN Lost ELSE FileOf(Attr'[r])
    BY <1>1 DEF TreeView
  <2> QED BY <2>2, <2>3, <2>4
<1>3. /\ TreeFiles = [r \in DOMAIN TreeFiles |-> TreeFiles[r]]
      /\ TreeFiles' = [r \in DOMAIN TreeFiles' |-> TreeFiles'[r]]
  BY DEF TreeView
<1> QED BY <1>1, <1>2, <1>3

-----------------------------------------------------------------------------
(* The directory a caller holds is in the tree, or has no room for entries *)
(* as every directory create_file makes.                                   *)
InTree(d) ==
  \/ d = Root
  \/ \E e \in Good :
       Attr[e].dir /\ \E i \in 1..Len(Attr[e].index) : Attr[e].index[i].rec = d

(* While a call is in progress only the record it updates is mixed. *)
BusyInv ==
  op.call \in {"create", "link", "write"} =>
    \A r \in MixedRecords : op.call # "create" /\ op.pc = "tail" /\ r = op.rec

(* What the refinement of FileTree needs beside NtfsInv. *)
PlaceInv ==
  /\ op.call = "create" =>
       op.body.room = 0 /\ (InTree(op.dir) \/ Attr[op.dir].room = 0)
  /\ op.call = "link" =>
       Attr[op.new].room = 0 /\ (op.pc \in {"head", "tail"} => InTree(op.dir))
  /\ op.call = "write" => ~Attr[op.rec].dir
  /\ \A r \in created : Attr[r].room = 0
  /\ \A r \in Good : Attr[r].parent = r => r = Root

(* What is in the tree stays in it. *)
LEMMA StaysInTree ==
  ASSUME TreeView, TreeView', RecordsKept, NEW d, InTree(d)
  PROVE  InTree(d)'
<1>1. CASE d = Root
  BY <1>1 DEF InTree
<1>2. CASE d # Root
  <2>1. PICK e \in Good :
          Attr[e].dir /\ \E i \in 1..Len(Attr[e].index) : Attr[e].index[i].rec = d
    BY <1>2 DEF InTree
  <2>2. PICK i \in 1..Len(Attr[e].index) : Attr[e].index[i].rec = d
    BY <2>1
  <2>3. /\ e \in Good' /\ Attr'[e].dir = Attr[e].dir /\ Attr'[e].index[i] = Attr[e].index[i]
        /\ Len(Attr[e].index) <= Len(Attr'[e].index)
    BY <2>1, <2>2 DEF RecordsKept, Later
  <2>4. Len(Attr[e].index) \in Nat /\ Len(Attr'[e].index) \in Nat
    BY <2>1, <2>3 DEF TreeView
  <2>5. i \in 1..Len(Attr'[e].index)
    BY <2>2, <2>3, <2>4
  <2> QED BY <2>1, <2>2, <2>3, <2>5 DEF InTree
<1> QED BY <1>1, <1>2

(* What is in the tree has a place in it, if no directory is torn. *)
LEMMA InTreeLinked ==
  ASSUME TreeView, TornRecords = {}, NEW d, InTree(d)
  PROVE  d \in DOMAIN TreeFiles
<1>1. CASE d = Root
  BY <1>1 DEF TreeView
<1>2. CASE d # Root
  <2>1. PICK e \in Good :
          Attr[e].dir /\ \E i \in 1..Len(Attr[e].index) : Attr[e].index[i].rec = d
    BY <1>2 DEF InTree
  <2>2. PICK i \in 1..Len(Attr[e].index) : Attr[e].index[i].rec = d
    BY <2>1
  <2> DEFINE l == LinkOf(e, Attr[e].index[i])
  <2>3. l \in TreeLinks
    BY <2>1, <2>2 DEF TreeView
  <2>4. l.rec = d
    BY <2>2, LinkFacts
  <2> QED BY <2>3, <2>4 DEF TreeView
<1> QED BY <1>1, <1>2

(* What a sector write does to the set of mixed records. *)
LEMMA FirstMixes ==
  ASSUME NtfsInv, NtfsInv', WriteFirst
  PROVE  /\ \A r \in MixedRecords' : r \in MixedRecords \/ (r = op.rec /\ op.call # "create")
         /\ Good' \subseteq Good \cup {op.rec} /\ Attr'[op.rec] = op.body
<1>0. VolumeTypes /\ CreateInv /\ FreeUnmatched /\ TreeView /\ TreeView'
  <2>1. TreeView
    BY TreeSeen
  <2>2. TreeView'
    BY TreeSeen, PTL
  <2> QED BY <2>1, <2>2 DEF NtfsInv
<1>1. PICK x \in AllRecords, b \in RecordBody : op.rec = x /\ op.body = b
  BY <1>0, CallShapes DEF WriteFirst
<1>2. disk' = [disk EXCEPT ![MftLba(x)] = HeadOf(b)] /\ op.pc = "head"
  BY <1>1 DEF WriteFirst
<1>3. /\ Second' = Second /\ Attr'[x] = b
      /\ \A s \in AllRecords \ {x} : Attr'[s] = Attr[s] /\ (s \in Good' <=> s \in Good)
      /\ x \in Good' <=> b.sig = "FILE" /\ SectorEnd(Second[x]) = b.seq
      /\ Good' \subseteq AllRecords
  BY <1>0, <1>1, <1>2, AfterFirst
<1>4. ASSUME NEW r \in MixedRecords' PROVE r \in MixedRecords \/ (r = x /\ op.call # "create")
  <2>1. r \in Good' /\ Second'[r].tag = "tail" /\ Second'[r].body # Attr'[r]
    BY <1>0 DEF TreeView
  <2>2. CASE r # x
    <3>1. r \in Good /\ Second[r].tag = "tail" /\ Second[r].body # Attr[r]
      BY <1>3, <2>1, <2>2
    <3> QED BY <1>0, <3>1 DEF TreeView
  <2>3. CASE r = x /\ op.call = "create"
    <3>1. op \in CreateOps
      BY <1>0, <2>3, CallShapes
    <3>2. x \in Records /\ b.seq = x % 65536 /\ First[x].tag # "head"
      BY <1>0, <1>1, <1>2, <2>3, <3>1 DEF CreateInv, CreateOps
    <3>3. Second[x].tag = "tail" /\ SectorEnd(Second[x]) = b.seq
      BY <1>3, <2>1, <2>3
    <3> QED BY <1>0, <3>2, <3>3 DEF FreeUnmatched
  <2> QED BY <2>2, <2>3
<1>5. Good' \subseteq Good \cup {x}
  BY <1>3
<1> QED BY <1>1, <1>3, <1>4, <1>5

(* The second sector completes the record. *)
LEMMA SecondUnmixes ==
  ASSUME NtfsInv, NtfsInv', WriteSecond
  PROVE  /\ MixedRecords' \subseteq MixedRecords \ {op.rec}
         /\ Good' \subseteq Good \cup {op.rec} /\ Attr' = Attr /\ Attr[op.rec] = op.body
<1>0. VolumeTypes /\ CreateInv /\ LinkInv /\ WriteInv /\ TreeView /\ TreeView'
  <2>1. TreeView
    BY TreeSeen
  <2>2. TreeView'
    BY TreeSeen, PTL
  <2> QED BY <2>1, <2>2 DEF NtfsInv
<1>1. PICK x \in AllRecords, b \in RecordBody : op.rec = x /\ op.body = b
  BY <1>0, CallShapes DEF WriteSecond
<1>2. /\ disk' = [disk EXCEPT ![MftLba(x) + 1] = TailOf(b)] /\ op.pc = "tail"
      /\ op.call \in {"create", "link", "write"}
  BY <1>1 DEF WriteSecond
<1>3. Attr[x] = b
  <2>1. op.call = "create" => First[x] = HeadOf(b)
    BY <1>0, <1>1, <1>2 DEF CreateInv
  <2>2. First[x] = HeadOf(b) => Attr[x] = b
    BY <1>0, RecordView, SectorFacts DEF VolumeTypes
  <2>3. op.call \in {"link", "write"} => Attr[x] = b
    BY <1>0, <1>1, <1>2 DEF LinkInv, WriteInv
  <2> QED BY <1>2, <2>1, <2>2, <2>3
<1>4. /\ Second' = [Second EXCEPT ![x] = TailOf(b)] /\ Attr' = Attr
      /\ \A s \in AllRecords \ {x} : s \in Good' <=> s \in Good
      /\ Good' \subseteq AllRecords
  BY <1>0, <1>1, <1>2, AfterSecond
<1>5. Second \in [AllRecords -> SectorContents] /\ TailOf(b).body = b
  BY <1>0, RecordView, SectorFacts DEF VolumeTypes
<1>6. ASSUME NEW r \in MixedRecords' PROVE r \in MixedRecords \ {x}
  <2>1. r \in Good' /\ Second'[r].tag = "tail" /\ Second'[r].body # Attr'[r]
    BY <1>0 DEF TreeView
  <2>2. r # x
    BY <1>3, <1>4, <1>5, <2>1
  <2>3. r \in Good /\ Second[r].tag = "tail" /\ Second[r].body # Attr[r]
    BY <1>4, <1>5, <2>1, <2>2
  <2> QED BY <1>0, <2>2, <2>3 DEF TreeView
<1>7. Good' \subseteq Good \cup {x}
  BY <1>4
<1> QED BY <1>1, <1>3, <1>4, <1>6, <1>7

(* With the disk the mixed records stay the same. *)
LEMMA QuietMixes ==
  ASSUME UNCHANGED disk
  PROVE  MixedRecords' = MixedRecords
  BY DEF MixedRecords, Mixed, Accepted, Stat, FirstSector, SecondSector

(* At the beginning only the root is in itself. *)
LEMMA PlaceInit == NtfsInit => BusyInv /\ PlaceInv
<1> SUFFICES ASSUME NtfsInit PROVE BusyInv /\ PlaceInv
  OBVIOUS
<1>1. PICK v \in Volumes : disk = Formatted(v)
  BY DEF NtfsInit
<1>2. op.call = "none" /\ created = {}
  BY DEF NtfsInit, Idle
<1>3. /\ disk \in [Sectors -> SectorContents]
      /\ \A r \in DOMAIN v.bodies : First[r] = HeadOf(v.bodies[r])
      /\ \A r \in AllRecords \ DOMAIN v.bodies : First[r].tag # "head"
  BY <1>1, FormattedView
<1>4. /\ \A r \in DOMAIN v.bodies : v.bodies[r] \in RecordBody
      /\ \A r \in DOMAIN v.bodies : v.bodies[r].parent = r => r = Root
  BY VolumesAssumption DEF Consistent
<1>5. ASSUME NEW r \in Good, Attr[r].parent = r PROVE r = Root
  <2>1. r \in AllRecords /\ Attr[r] = First[r].body /\ First[r].tag = "head"
    BY <1>3, RecordView
  <2>2. r \in DOMAIN v.bodies /\ Attr[r] = v.bodies[r]
    BY <1>3, <1>4, <2>1, SectorFacts
  <2> QED BY <1>4, <1>5, <2>2
<1> QED BY <1>2, <1>5 DEF BusyInv, PlaceInv

(* The parts of PlaceInv that are not about the call in progress. *)
LEMMA PlacesKept ==
  ASSUME NtfsInv, PlaceInv, RecordsKept, created' = created,
         \A r \in Good' : r \in Good \/ Attr'[r].parent # r
  PROVE  /\ \A r \in created' : Attr'[r].room = 0
         /\ \A r \in Good' : Attr'[r].parent = r => r = Root
<1>1. created \subseteq Good
  BY DEF NtfsInv
<1>2. ASSUME NEW r \in created PROVE Attr'[r].room = 0
  BY <1>1 DEF PlaceInv, RecordsKept, Later
<1>3. ASSUME NEW r \in Good', Attr'[r].parent = r PROVE r = Root
  <2>1. r \in Good
    BY <1>3
  <2>2. Attr[r].parent = r
    BY <1>3, <2>1 DEF RecordsKept, Later
  <2> QED BY <2>1, <2>2 DEF PlaceInv
<1> QED BY <1>2, <1>3

(* A call that ends leaves nothing to say about it. *)
LEMMA PlaceAtEnd ==
  ASSUME NtfsInv, PlaceInv, RecordsKept, UNCHANGED disk,
         op'.call \notin {"create", "link", "write"},
         \A r \in created' : r \in created \/ (r \in Good /\ Attr[r].room = 0)
  PROVE  BusyInv' /\ PlaceInv'
<1>1. Good' = Good /\ Attr' = Attr
  BY ViewUnchanged
<1> QED BY <1>1 DEF BusyInv, PlaceInv

(* create_file begins in a directory a caller holds. *)
LEMMA PlaceAtCreate ==
  ASSUME NtfsInv, NtfsInv', RecordsKept, PlaceInv,
         NEW d \in Held, NEW n \in NewNames,
         NEW isDir \in BOOLEAN, NEW p \in Payloads, CreateBegins(d, n, isDir, p)
  PROVE  BusyInv' /\ PlaceInv'
<1>1. PICK r \in Records :
        op' = [call |-> "create", pc |-> "head", rec |-> r,
               body |-> NewRecord(r, d, n, isDir, p), dir |-> d, name |-> n, new |-> r]
  BY DEF CreateBegins, CreateCall
<1>2. UNCHANGED <<disk, created>> /\ MixedRecords = {}
  BY DEF CreateBegins, Undamaged, MixedRecords
<1>3. Good' = Good /\ Attr' = Attr /\ MixedRecords' = MixedRecords
  BY <1>2, ViewUnchanged, QuietMixes
<1>4. op'.call = "create" /\ op'.dir = d /\ op'.body = NewRecord(r, d, n, isDir, p)
  BY <1>1
<1>5. d \in AllRecords
  BY RecordFacts DEF NtfsInv, Held, Found, VolumeTypes
<1>6. op'.body.room = 0
  BY <1>4, <1>5, NewRecordType
<1>7. InTree(d) \/ Attr[d].room = 0
  <2>1. CASE d \in created
    BY <2>1 DEF PlaceInv
  <2>2. CASE d \in Found
    BY <2>2, ViewMeans DEF Found, InTree
  <2>3. CASE d = Root
    BY <2>3 DEF InTree
  <2> QED BY <2>1, <2>2, <2>3 DEF Held
<1>8. InTree(d)' \/ Attr'[d].room = 0
  BY <1>3, <1>7 DEF InTree
<1>9. /\ \A x \in created' : Attr'[x].room = 0
      /\ \A x \in Good' : Attr'[x].parent = x => x = Root
  BY <1>2, <1>3, PlacesKept
<1> QED BY <1>2, <1>3, <1>4, <1>6, <1>8, <1>9 DEF BusyInv, PlaceInv, InTree

(* A first sector is written. *)
LEMMA PlaceAtFirst ==
  ASSUME NtfsInv, NtfsInv', RecordsKept, BusyInv, PlaceInv, WriteFirst
  PROVE  BusyInv' /\ PlaceInv'
<1>0. VolumeTypes /\ CreateInv /\ LinkInv /\ WriteInv /\ TreeView /\ TreeView'
  <2>1. TreeView
    BY TreeSeen
  <2>2. TreeView'
    BY TreeSeen, PTL
  <2> QED BY <2>1, <2>2 DEF NtfsInv
<1>1. /\ op.call \in {"create", "link", "write"} /\ op.pc = "head"
      /\ op' = [op EXCEPT !.pc = "tail"] /\ UNCHANGED created
  BY DEF WriteFirst
<1>2. /\ op'.call = op.call /\ op'.pc = "tail" /\ op'.rec = op.rec /\ op'.body = op.body
      /\ op.call \in {"create", "link"} => op'.dir = op.dir /\ op'.new = op.new
  <2>1. op \in CreateOps \/ op \in LinkOps \/ op \in WriteOps
    BY <1>0, <1>1, CallShapes
  <2>2. op \in CreateOps => /\ op'.call = op.call /\ op'.pc = "tail" /\ op'.rec = op.rec
                            /\ op'.body = op.body /\ op'.dir = op.dir /\ op'.new = op.new
    BY <1>1 DEF CreateOps
  <2>3. op \in LinkOps => /\ op'.call = op.call /\ op'.pc = "tail" /\ op'.rec = op.rec
                          /\ op'.body = op.body /\ op'.dir = op.dir /\ op'.new = op.new
    BY <1>1 DEF LinkOps
  <2>4. op \in WriteOps => /\ op'.call = op.call /\ op'.pc = "tail" /\ op'.rec = op.rec
                           /\ op'.body = op.body /\ op.call = "write"
    BY <1>1 DEF WriteOps
  <2> QED BY <2>1, <2>2, <2>3, <2>4
<1>3. /\ \A r \in MixedRecords' : r \in MixedRecords \/ (r = op.rec /\ op.call # "create")
      /\ Good' \subseteq Good \cup {op.rec} /\ Attr'[op.rec] = op.body
  BY FirstMixes
<1>4. MixedRecords = {}
  BY <1>1 DEF BusyInv
<1>5. BusyInv'
  BY <1>2, <1>3, <1>4 DEF BusyInv
<1>6. \A r \in Good' : r \in Good \/ Attr'[r].parent # r
  <2>1. op.call = "create" => op.body.parent # op.rec
    BY <1>0 DEF CreateInv
  <2>2. op.call \in {"link", "write"} => op.rec \in Good
    BY <1>0, <1>1 DEF LinkInv, WriteInv
  <2> QED BY <1>1, <1>3, <2>1, <2>2
<1>7. /\ \A x \in created' : Attr'[x].room = 0
      /\ \A x \in Good' : Attr'[x].parent = x => x = Root
  BY <1>1, <1>6, PlacesKept
<1>8. PICK d : d = op.dir
  OBVIOUS
<1>9. InTree(d) => InTree(d)'
  BY <1>0, StaysInTree
<1>10. \A r \in Good : /\ Attr[r].room = 0 => Attr'[r].room = 0
                       /\ Attr'[r].dir = Attr[r].dir
  BY DEF RecordsKept, Later
<1>11. ASSUME op.call = "create"
       PROVE  op'.body.room = 0 /\ (InTree(d)' \/ Attr'[d].room = 0)
  BY <1>0, <1>2, <1>8, <1>9, <1>10, <1>11 DEF PlaceInv, CreateInv
<1>12. ASSUME op.call = "link"
       PROVE  Attr'[op.new].room = 0 /\ InTree(d)'
  BY <1>0, <1>1, <1>8, <1>9, <1>10, <1>12 DEF PlaceInv, LinkInv
<1>13. op.call = "write" => ~Attr'[op.rec].dir
  BY <1>0, <1>10 DEF PlaceInv, WriteInv
<1>14. PlaceInv'
  BY <1>2, <1>7, <1>8, <1>11, <1>12, <1>13 DEF PlaceInv, InTree
<1> QED BY <1>5, <1>14

(* A second sector is written. *)
LEMMA PlaceAtSecond ==
  ASSUME NtfsInv, NtfsInv', RecordsKept, BusyInv, PlaceInv, WriteSecond
  PROVE  BusyInv' /\ PlaceInv'
<1>0. VolumeTypes /\ CreateInv /\ LinkInv /\ WriteInv /\ TreeView /\ TreeView'
  <2>1. TreeView
    BY TreeSeen
  <2>2. TreeView'
    BY TreeSeen, PTL
  <2> QED BY <2>1, <2>2 DEF NtfsInv
<1>1. /\ op.call \in {"create", "link", "write"} /\ op.pc = "tail" /\ UNCHANGED created
      /\ \/ op.call = "create" /\ op' = [op EXCEPT !.pc = "entry"]
         \/ op.call = "link"   /\ op' = [op EXCEPT !.pc = "open"]
         \/ op.call = "write"  /\ op' = Idle
  BY DEF WriteSecond
<1>2. \/ /\ op.call = "create" /\ op'.call = "create" /\ op'.dir = op.dir
         /\ op'.body = op.body
      \/ op.call = "link" /\ op'.call = "link" /\ op'.new = op.new /\ op'.pc = "open"
      \/ op.call = "write" /\ op'.call = "none"
  <2>1. CASE op.call = "create"
    <3>1. op \in CreateOps
      BY <1>0, <2>1, CallShapes
    <3> QED BY <1>1, <2>1, <3>1 DEF CreateOps
  <2>2. CASE op.call = "link"
    <3>1. op \in LinkOps
      BY <1>0, <2>2, CallShapes
    <3> QED BY <1>1, <2>2, <3>1 DEF LinkOps
  <2>3. CASE op.call = "write"
    BY <1>1, <2>3 DEF Idle
  <2> QED BY <1>1, <2>1, <2>2, <2>3
<1>3. /\ MixedRecords' \subseteq MixedRecords \ {op.rec}
      /\ Good' \subseteq Good \cup {op.rec} /\ Attr' = Attr /\ Attr[op.rec] = op.body
  BY SecondUnmixes
<1>4. MixedRecords' = {}
  BY <1>1, <1>3 DEF BusyInv
<1>5. BusyInv'
  BY <1>4 DEF BusyInv
<1>6. \A r \in Good' : r \in Good \/ Attr'[r].parent # r
  <2>1. op.call = "create" => op.body.parent # op.rec
    BY <1>0 DEF CreateInv
  <2>2. op.call \in {"link", "write"} => op.rec \in Good
    BY <1>0, <1>1 DEF LinkInv, WriteInv
  <2> QED BY <1>1, <1>3, <2>1, <2>2
<1>7. /\ \A x \in created' : Attr'[x].room = 0
      /\ \A x \in Good' : Attr'[x].parent = x => x = Root
  BY <1>1, <1>6, PlacesKept
<1>8. PICK d : d = op.dir
  OBVIOUS
<1>9. InTree(d) => InTree(d)'
  BY <1>0, StaysInTree
<1>10. ASSUME op.call = "create"
       PROVE  op'.body.room = 0 /\ (InTree(d)' \/ Attr'[d].room = 0)
  BY <1>2, <1>3, <1>8, <1>9, <1>10 DEF PlaceInv
<1>11. PlaceInv'
  BY <1>2, <1>3, <1>7, <1>8, <1>10 DEF PlaceInv, InTree
<1> QED BY <1>5, <1>11

(* write_file begins on a file. *)
LEMMA PlaceAtWrite ==
  ASSUME NtfsInv, RecordsKept, PlaceInv, NEW r \in Held, NEW p \in Payloads,
         WriteBegins(r, p)
  PROVE  BusyInv' /\ PlaceInv'
<1>1. /\ UNCHANGED <<disk, created>> /\ MixedRecords = {}
      /\ op'.call = "write" /\ op'.rec = r
  BY DEF WriteBegins, Undamaged, MixedRecords
<1>2. Good' = Good /\ Attr' = Attr /\ MixedRecords' = MixedRecords
  BY <1>1, ViewUnchanged, QuietMixes
<1>3. r \in AllRecords
  BY RecordFacts DEF NtfsInv, Held, Found, VolumeTypes
<1>4. ~Attr[r].dir
  BY <1>3, ViewMeans DEF WriteBegins, MayWrite
<1>5. /\ \A x \in created' : Attr'[x].room = 0
      /\ \A x \in Good' : Attr'[x].parent = x => x = Root
  BY <1>1, <1>2, PlacesKept
<1> QED BY <1>1, <1>2, <1>4, <1>5 DEF BusyInv, PlaceInv

(* The entry is on its way, in the record of a directory with room for it  *)
(* or in the index block.                                                  *)
LEMMA PlaceAtEntry ==
  ASSUME NtfsInv, RecordsKept, BusyInv, PlaceInv, AddToResident \/ AddToExternal
  PROVE  BusyInv' /\ PlaceInv'
<1>1. AtEntry /\ UNCHANGED <<disk, created>>
  BY DEF AddToResident, AddToExternal
<1>2. /\ op \in CreateOps /\ Attr[op.dir] \in RecordBody /\ op.new \in Good
      /\ Attr[op.new] = op.body /\ Stat(op.dir) = Attr[op.dir]
  BY <1>1, EntryFacts
<1>3. /\ op'.call = "link" /\ op'.dir = op.dir /\ op'.new = op.new
      /\ op'.pc \in {"head", "tail"} => AddToResident
  <2>1. CASE AddToResident
    BY <1>2, <2>1 DEF AddToResident, CreateOps
  <2>2. CASE AddToExternal
    BY <1>2, <2>2 DEF AddToExternal, CreateOps
  <2> QED BY <2>1, <2>2
<1>4. Good' = Good /\ Attr' = Attr /\ MixedRecords' = MixedRecords
  BY <1>1, ViewUnchanged, QuietMixes
<1>5. op.call = "create" /\ MixedRecords = {}
  BY <1>1 DEF AtEntry, BusyInv
<1>6. AddToResident => InTree(op.dir)
  <2>1. ASSUME AddToResident PROVE Attr[op.dir].room # 0
    <3>1. op.name \in Names /\ Attr[op.dir].room >= EntryLen(op.name)
      BY <1>2, <2>1 DEF AddToResident, Roomy, CreateOps
    <3>2. EntryLen(op.name) \in Nat /\ EntryLen(op.name) # 0
      BY <3>1, EntryLenType
    <3> QED BY <3>1, <3>2
  <2> QED BY <1>5, <2>1 DEF PlaceInv
<1>7. Attr[op.new].room = 0
  BY <1>2, <1>5 DEF PlaceInv
<1>8. PICK d : d = op.dir
  OBVIOUS
<1>9. AddToResident => InTree(d)'
  BY <1>4, <1>6, <1>8 DEF InTree
<1>10. /\ \A x \in created' : Attr'[x].room = 0
       /\ \A x \in Good' : Attr'[x].parent = x => x = Root
  BY <1>1, <1>4, PlacesKept
<1>11. BusyInv'
  BY <1>4, <1>5 DEF BusyInv
<1>12. PlaceInv'
  BY <1>3, <1>4, <1>7, <1>8, <1>9, <1>10 DEF PlaceInv, InTree
<1> QED BY <1>11, <1>12

(* Every step keeps them. *)
LEMMA PlaceStep ==
  ASSUME NtfsInv, NtfsInv', RecordsKept, BusyInv, PlaceInv, [NtfsNext]_ntfsVars
  PROVE  BusyInv' /\ PlaceInv'
<1>1. ASSUME NEW d \in Held, NEW n \in NewNames, NEW p \in Payloads,
             NEW isDir \in BOOLEAN, CreateBegins(d, n, isDir, p)
      PROVE  BusyInv' /\ PlaceInv'
  BY <1>1, PlaceAtCreate
<1>2. CASE WriteFirst
  BY <1>2, PlaceAtFirst
<1>3. CASE WriteSecond
  BY <1>3, PlaceAtSecond
<1>4. CASE AddToResident \/ AddToExternal
  BY <1>4, PlaceAtEntry
<1>5. ASSUME NEW r \in Held, NEW p \in Payloads, WriteBegins(r, p)
      PROVE  BusyInv' /\ PlaceInv'
  BY <1>5, PlaceAtWrite
<1>6. ASSUME UNCHANGED <<disk, created>>, op' = Idle \/ op'.call = "panic"
      PROVE  BusyInv' /\ PlaceInv'
  <2>1. op'.call \notin {"create", "link", "write"}
    BY <1>6 DEF Idle
  <2> QED BY <1>6, <2>1, PlaceAtEnd
<1>7. CASE OpenNew
  <2>1. /\ op.call = "link" /\ op' = Idle /\ UNCHANGED disk
        /\ created' \subseteq created \cup {op.new}
    BY <1>7 DEF OpenNew
  <2>2. op.new \in Good /\ Attr[op.new].room = 0 /\ op'.call = "none"
    BY <2>1 DEF NtfsInv, LinkInv, PlaceInv, Idle
  <2> QED BY <2>1, <2>2, PlaceAtEnd
<1>8. ASSUME NEW d, NEW n, NEW p, NEW isDir, CreatePanics(d, n, isDir, p)
      PROVE  BusyInv' /\ PlaceInv'
  BY <1>6, <1>8 DEF CreatePanics
<1>9. CASE AddPanics \/ AddFails \/ IoFails \/ PowerLoss
  BY <1>6, <1>9 DEF AddPanics, AddFails, IoFails, PowerLoss
<1>10. CASE UNCHANGED ntfsVars
  <2>1. UNCHANGED <<disk, indx, op, created>>
    BY <1>10 DEF ntfsVars
  <2>2. Good' = Good /\ Attr' = Attr /\ MixedRecords' = MixedRecords
    BY <2>1, ViewUnchanged, QuietMixes
  <2> QED BY <2>1, <2>2 DEF BusyInv, PlaceInv, InTree
<1> QED
  BY <1>1, <1>2, <1>3, <1>4, <1>5, <1>7, <1>8, <1>9, <1>10 DEF NtfsNext, NtfsStep

(* The invariants hold with Vfs above the driver. *)
LEMMA PlaceInvariant == Spec => [](NtfsInv /\ BusyInv /\ PlaceInv)
<1>1. VfsInit => NtfsInv /\ BusyInv /\ PlaceInv
  BY NtfsInitInv, PlaceInit DEF VfsInit
<1>2. NtfsInv /\ BusyInv /\ PlaceInv /\ [Next]_vars => (NtfsInv /\ BusyInv /\ PlaceInv)'
  BY VfsOnVolume, NtfsStepInv, PlaceStep
<1> QED BY <1>1, <1>2, PTL DEF Spec

-----------------------------------------------------------------------------
(* Nothing counts as damage while a call can still complete it. *)
Calm ==
  /\ op.call \in {"create", "link", "write"} => TornRecords = {}
  /\ op.call \notin {"create", "link", "write"} => TornRecords = MixedRecords
  /\ MixedRecords = {} => TornRecords = {}

LEMMA CalmWhileBusy == NtfsInv /\ BusyInv => Calm
<1> SUFFICES ASSUME NtfsInv, BusyInv PROVE Calm
  OBVIOUS
<1>1. \A r : r \in TornRecords <=> r \in MixedRecords /\ ~Updating(r)
  BY TreeSeen DEF TreeView
<1>2. ASSUME op.call \in {"create", "link", "write"}, NEW r \in TornRecords PROVE FALSE
  BY <1>1, <1>2 DEF BusyInv, Updating
<1>3. op.call \notin {"create", "link", "write"} => \A r : ~Updating(r)
  BY DEF Updating
<1>4. op.call \notin {"create", "link", "write"} => TornRecords = MixedRecords
  BY <1>1, <1>3
<1> QED BY <1>1, <1>2, <1>4 DEF Calm

(* What holds on both sides of a step. *)
LEMMA BothSides ==
  ASSUME NtfsInv, NtfsInv', BusyInv, BusyInv'
  PROVE  /\ TreeView /\ TreeView'
         /\ op.call \in {"create", "link", "write"} => TornRecords = {}
         /\ op.call \notin {"create", "link", "write"} => TornRecords = MixedRecords
         /\ op'.call \in {"create", "link", "write"} => TornRecords' = {}
         /\ op'.call \notin {"create", "link", "write"} => TornRecords' = MixedRecords'
         /\ MixedRecords = {} => TornRecords = {}
         /\ MixedRecords' = {} => TornRecords' = {}
<1>1. TreeView /\ Calm
  BY TreeSeen, CalmWhileBusy
<1>2. TreeView' /\ Calm'
  BY TreeSeen, CalmWhileBusy, PTL
<1> QED BY <1>1, <1>2 DEF Calm

(* A step without a write changes the tree only where it does damage. *)
LEMMA QuietTree ==
  ASSUME NtfsInv, TreeView, TreeView', UNCHANGED disk, TornRecords' = TornRecords
  PROVE  TreeLinks' = TreeLinks /\ TreeFiles' = TreeFiles
<1>1. Attr' = Attr /\ RecordsKept /\ NoNewEntries
  BY QuietView
<1> QED BY <1>1, SameTree

(* The first sector of a directory that gets an entry is the moment at     *)
(* which the new file is in the tree.                                      *)
LEMMA TreeCreates ==
  ASSUME NtfsInv, NtfsInv', RecordsKept, BusyInv, BusyInv', PlaceInv,
         WriteFirst, op.call = "link"
  PROVE  Tree!Create
<1>0. VolumeTypes /\ LinkInv /\ TreeView /\ TreeView' /\ TornRecords = {}
  BY BothSides DEF NtfsInv
<1>1. op \in LinkOps /\ op.pc = "head"
  BY <1>0, CallShapes DEF WriteFirst
<1>2. PICK r \in AllRecords, b \in RecordBody, x \in Records, n \in Names :
        op.rec = r /\ op.body = b /\ op.new = x /\ op.name = n
  BY <1>1 DEF LinkOps
<1>3. /\ disk' = [disk EXCEPT ![MftLba(r)] = HeadOf(b)]
      /\ op' = [op EXCEPT !.pc = "tail"]
  BY <1>2 DEF WriteFirst
<1>4. op'.call = "link" /\ TornRecords' = {}
  <2>1. op'.call = "link"
    BY <1>1, <1>3 DEF LinkOps
  <2> QED BY <2>1, BothSides
<1>5. PICK e \in Entry : NewEntry = e /\ e.rec = x /\ e.name = n
  <2>1. x \in AllRecords /\ NewEntry = [name |-> n, rec |-> x]
    BY <1>2, RecordFacts DEF NewEntry
  <2> QED BY <2>1 DEF Entry
<1>6. /\ op.dir = r /\ r \in Good /\ x \in Good /\ r # x /\ Attr[r].dir
      /\ Unlinked(x) /\ Hits(Attr[r], n) = {}
      /\ Attr[r].room >= EntryLen(n) /\ b = WithEntry(Attr[r], e)
  BY <1>0, <1>1, <1>2, <1>5 DEF LinkInv
<1>7. Attr[r] \in RecordBody /\ Attr[r].index \in Seq(Entry)
  BY <1>0, <1>6, RecordView DEF VolumeTypes
<1>8. b.index = Append(Attr[r].index, e)
  BY <1>5, <1>6, <1>7, LaterVersions
<1> DEFINE len == Len(Attr[r].index)
<1>9. /\ len \in Nat /\ Len(b.index) = len + 1 /\ b.index[len + 1] = e
      /\ \A i \in 1..len : b.index[i] = Attr[r].index[i]
  BY <1>7, <1>8
<1>10. /\ Attr'[r] = b /\ Good' \subseteq AllRecords
       /\ \A s \in AllRecords \ {r} : Attr'[s] = Attr[s] /\ (s \in Good' <=> s \in Good)
  BY <1>0, <1>3, AfterFirst
<1>11. /\ Good' = Good
       /\ \A s \in Good : Attr'[s].dir = Attr[s].dir /\ Attr'[s].payload = Attr[s].payload
  <2>1. \A s \in Good : /\ s \in Good' /\ Attr'[s].dir = Attr[s].dir
                        /\ Attr'[s].payload = Attr[s].payload
    BY DEF RecordsKept, Later
  <2>2. Good' \subseteq Good
    BY <1>6, <1>10
  <2> QED BY <2>1, <2>2
<1> DEFINE new == LinkOf(r, e)
<1>12. new.dir = r /\ new.name = n /\ new.rec = x
  BY <1>5, LinkFacts
<1>13. \A l \in TreeLinks : l.rec # x
  BY <1>0, <1>6, LinkFacts DEF TreeView, Unlinked
<1>14. TreeLinks' = TreeLinks \cup {new}
  <2>1. ASSUME NEW l \in TreeLinks PROVE l \in TreeLinks'
    <3>1. PICK d \in Good : /\ Attr[d].dir
                            /\ \E i \in 1..Len(Attr[d].index) : l = LinkOf(d, Attr[d].index[i])
      BY <1>0 DEF TreeView
    <3>2. PICK i \in 1..Len(Attr[d].index) : l = LinkOf(d, Attr[d].index[i])
      BY <3>1
    <3>3. d \in AllRecords
      BY <3>1 DEF Good
    <3>4. i \in 1..Len(Attr'[d].index) /\ Attr'[d].index[i] = Attr[d].index[i]
      <4>1. CASE d = r
        BY <1>9, <1>10, <3>2, <4>1
      <4>2. CASE d # r
        BY <1>10, <3>2, <3>3, <4>2
      <4> QED BY <4>1, <4>2
    <3>5. d \in Good' /\ Attr'[d].dir /\ d \notin TornRecords'
      BY <1>4, <1>11, <3>1
    <3> QED BY <1>0, <3>2, <3>4, <3>5 DEF TreeView
  <2>2. new \in TreeLinks'
    <3>1. /\ r \in Good' /\ Attr'[r].dir /\ r \notin TornRecords'
          /\ len + 1 \in 1..Len(Attr'[r].index)
          /\ new = LinkOf(r, Attr'[r].index[len + 1])
      BY <1>4, <1>6, <1>9, <1>10, <1>11
    <3> QED BY <1>0, <3>1 DEF TreeView
  <2>3. ASSUME NEW l \in TreeLinks' PROVE l \in TreeLinks \cup {new}
    <3>1. PICK d \in Good' : /\ Attr'[d].dir
                             /\ \E i \in 1..Len(Attr'[d].index) : l = LinkOf(d, Attr'[d].index[i])
      BY <1>0 DEF TreeView
    <3>2. PICK i \in 1..Len(Attr'[d].index) : l = LinkOf(d, Attr'[d].index[i])
      BY <3>1
    <3>3. d \in AllRecords /\ d \in Good /\ Attr[d].dir /\ d \notin TornRecords
      BY <1>0, <1>10, <1>11, <3>1
    <3>4. \/ l = new
          \/ i \in 1..Len(Attr[d].index) /\ l = LinkOf(d, Attr[d].index[i])
      <4>1. CASE d = r /\ i = len + 1
        BY <1>9, <1>10, <3>2, <4>1
      <4>2. CASE d = r /\ i # len + 1
        <5>1. i \in 1..len
          BY <1>9, <1>10, <3>2, <4>2
        <5> QED BY <1>9, <1>10, <3>2, <4>2, <5>1
      <4>3. CASE d # r
        BY <1>10, <3>2, <3>3, <4>3
      <4> QED BY <4>1, <4>2, <4>3
    <3> QED BY <1>0, <3>3, <3>4 DEF TreeView
  <2> QED BY <2>1, <2>2, <2>3
<1> HIDE DEF new, len
<1>15. r \in DOMAIN TreeFiles
  <2>1. InTree(r)
    BY <1>1, <1>6 DEF PlaceInv
  <2> QED BY <1>0, <2>1, InTreeLinked
<1>16. /\ DOMAIN TreeFiles = {Root} \cup {l.rec : l \in TreeLinks}
       /\ DOMAIN TreeFiles' = {Root} \cup {l.rec : l \in TreeLinks'}
       /\ DOMAIN TreeFiles \subseteq Good
       /\ \A s \in DOMAIN TreeFiles : TreeFiles[s] = FileOf(Attr[s])
       /\ \A s \in DOMAIN TreeFiles' : TreeFiles'[s] = FileOf(Attr'[s])
  BY <1>0, <1>4 DEF TreeView
<1>17. x # Root
  BY RecordsAssumption
<1>18. x \notin DOMAIN TreeFiles /\ new \in TreeLinks' \ TreeLinks
  BY <1>12, <1>13, <1>14, <1>16, <1>17
<1>19. DOMAIN TreeFiles' = DOMAIN TreeFiles \cup {x}
  BY <1>12, <1>14, <1>16
<1>20. ASSUME NEW s \in DOMAIN TreeFiles PROVE TreeFiles'[s] = TreeFiles[s]
  <2>1. FileOf(Attr'[s]) = FileOf(Attr[s])
    BY <1>11, <1>16 DEF FileOf
  <2> QED BY <1>16, <1>19, <2>1
<1>21. /\ TreeFiles[r] # Lost /\ TreeFiles[r].dir /\ TreeFiles'[x] # Lost
  BY <1>6, <1>15, <1>16, <1>19, LinkFacts
<1>22. ASSUME NEW l \in TreeLinks, l.dir = r PROVE ~Matches(l.name, n)
  <2>1. PICK d \in Good : \E i \in 1..Len(Attr[d].index) : l = LinkOf(d, Attr[d].index[i])
    BY <1>0 DEF TreeView
  <2>2. PICK i \in 1..Len(Attr[d].index) : l = LinkOf(d, Attr[d].index[i])
    BY <2>1
  <2>3. d = r /\ l.name = Attr[r].index[i].name
    BY <1>22, <2>2, LinkFacts
  <2> QED BY <1>6, <2>2, <2>3 DEF Hits
<1> QED
  BY <1>12, <1>14, <1>15, <1>18, <1>19, <1>20, <1>21, <1>22 DEF Tree!Create, Tree!Damaged, Lost

(* The first sector of a file that is written holds its new contents. *)
LEMMA TreeWrites ==
  ASSUME NtfsInv, NtfsInv', RecordsKept, BusyInv, BusyInv', PlaceInv,
         WriteFirst, op.call = "write"
  PROVE  Tree!Write \/ (TreeLinks' = TreeLinks /\ TreeFiles' = TreeFiles)
<1>0. VolumeTypes /\ WriteInv /\ TreeView /\ TreeView' /\ TornRecords = {}
  BY BothSides DEF NtfsInv
<1>1. op \in WriteOps /\ op.pc = "head" /\ op' = [op EXCEPT !.pc = "tail"]
  BY <1>0, CallShapes DEF WriteFirst
<1>2. TornRecords' = {}
  <2>1. op'.call = "write"
    BY <1>1 DEF WriteOps
  <2> QED BY <2>1, BothSides
<1>3. NoNewEntries
  BY WriteFirstStep
<1>4. TreeLinks' = TreeLinks /\ DOMAIN TreeFiles' = DOMAIN TreeFiles
  BY <1>0, <1>2, <1>3, SameLinks
<1>5. PICK r : r = op.rec
  OBVIOUS
<1>6. \A s \in Good : s # r => Attr'[s].payload = Attr[s].payload
  BY <1>5 DEF RecordsKept
<1>7. \A s \in Good : /\ Attr'[s].dir = Attr[s].dir
                      /\ Attr'[s].payload.len = Attr[s].payload.len
  BY DEF RecordsKept, Later
<1>8. /\ DOMAIN TreeFiles \subseteq Good
      /\ \A s \in DOMAIN TreeFiles : TreeFiles[s] = FileOf(Attr[s])
      /\ \A s \in DOMAIN TreeFiles : TreeFiles'[s] = FileOf(Attr'[s])
  BY <1>0, <1>2, <1>4 DEF TreeView
<1>9. CASE r \notin DOMAIN TreeFiles
  <2>1. \A s \in DOMAIN TreeFiles : Attr'[s].payload = Attr[s].payload
    BY <1>6, <1>8, <1>9
  <2> QED BY <1>0, <1>2, <1>3, <2>1, SameTree
<1>10. CASE r \in DOMAIN TreeFiles
  <2>1. r \in Good /\ ~Attr[r].dir
    BY <1>0, <1>1, <1>5 DEF PlaceInv, WriteInv, WriteOps
  <2>2. TreeFiles[r] # Lost /\ ~TreeFiles[r].dir /\ TreeFiles'[r] # Lost /\ ~TreeFiles'[r].dir
    BY <1>7, <1>8, <1>10, <2>1, LinkFacts
  <2>3. TreeFiles'[r].payload.len = TreeFiles[r].payload.len
    BY <1>7, <1>8, <1>10, <2>1, LinkFacts
  <2>4. \A s \in DOMAIN TreeFiles \ {r} : TreeFiles'[s] = TreeFiles[s]
    BY <1>6, <1>7, <1>8 DEF FileOf
  <2> QED BY <1>4, <1>10, <2>2, <2>3, <2>4 DEF Tree!Write, Tree!Damaged, Lost
<1> QED BY <1>9, <1>10

(* An update that is cut short after its first sector damages the record   *)
(* it was about, and no other.                                             *)
LEMMA TreeDamaged ==
  ASSUME NtfsInv, NtfsInv', BusyInv, BusyInv', PlaceInv,
         op.call \in {"link", "write"}, op.pc = "tail", op' = Idle, UNCHANGED disk,
         MixedRecords # {}
  PROVE  Tree!Damage \/ (TreeLinks' = TreeLinks /\ TreeFiles' = TreeFiles)
<1>0. /\ VolumeTypes /\ LinkInv /\ WriteInv /\ EntriesNamed
      /\ TreeView /\ TreeView' /\ TornRecords = {}
  BY BothSides DEF NtfsInv
<1>1. PICK x : x = op.rec
  OBVIOUS
<1>2. Good' = Good /\ Attr' = Attr /\ MixedRecords' = MixedRecords
  BY ViewUnchanged, QuietMixes
<1>3. TornRecords' = {x}
  <2>1. op'.call = "none"
    BY DEF Idle
  <2>2. MixedRecords \subseteq {x}
    BY <1>1 DEF BusyInv
  <2> QED BY <1>2, <2>1, <2>2, BothSides
<1>4. ASSUME NEW l
      PROVE  l \in TreeLinks' <=> l \in TreeLinks /\ l.dir # x
  <2>1. l \in TreeLinks <=>
          \E d \in Good : /\ Attr[d].dir
                          /\ \E i \in 1..Len(Attr[d].index) : l = LinkOf(d, Attr[d].index[i])
    BY <1>0 DEF TreeView
  <2>2. l \in TreeLinks' <=>
          \E d \in Good : /\ Attr[d].dir /\ d # x
                          /\ \E i \in 1..Len(Attr[d].index) : l = LinkOf(d, Attr[d].index[i])
    BY <1>0, <1>2, <1>3 DEF TreeView
  <2> QED BY <2>1, <2>2, LinkFacts
<1>5. TreeLinks' = {l \in TreeLinks : l.dir # x}
  BY <1>4
<1>6. /\ DOMAIN TreeFiles = {Root} \cup {l.rec : l \in TreeLinks}
      /\ DOMAIN TreeFiles' = {Root} \cup {l.rec : l \in TreeLinks'}
      /\ \A s \in DOMAIN TreeFiles : TreeFiles[s] = FileOf(Attr[s])
      /\ \A s \in DOMAIN TreeFiles' :
           TreeFiles'[s] = IF s = x THEN Lost ELSE FileOf(Attr[s])
      /\ TreeFiles = [s \in DOMAIN TreeFiles |-> TreeFiles[s]]
      /\ TreeFiles' = [s \in DOMAIN TreeFiles' |-> TreeFiles'[s]]
  BY <1>0, <1>2, <1>3 DEF TreeView
<1>7. DOMAIN TreeFiles' \subseteq DOMAIN TreeFiles
  BY <1>5, <1>6
<1>8. CASE x \notin DOMAIN TreeFiles
  <2>1. op.call = "write"
    <3>1. op.call = "link" => InTree(x)
      BY <1>0, <1>1 DEF LinkInv, PlaceInv
    <3> QED BY <1>0, <1>8, <3>1, InTreeLinked
  <2>2. ~Attr[x].dir
    BY <1>1, <2>1 DEF PlaceInv
  <2>3. \A l \in TreeLinks : l.dir # x
    BY <1>0, <2>2, LinkFacts DEF TreeView
  <2>4. TreeLinks' = TreeLinks /\ DOMAIN TreeFiles' = DOMAIN TreeFiles
    BY <1>5, <1>6, <2>3
  <2>5. \A s \in DOMAIN TreeFiles : TreeFiles'[s] = TreeFiles[s]
    BY <1>6, <1>8, <2>4
  <2> QED BY <1>6, <2>4, <2>5
<1>9. CASE x \in DOMAIN TreeFiles
  <2>1. x \in DOMAIN TreeFiles'
    <3>1. CASE x = Root
      BY <1>6, <3>1
    <3>2. CASE x # Root
      <4>1. PICK l \in TreeLinks : l.rec = x
        BY <1>6, <1>9, <3>2
      <4>2. PICK d \in Good : \E i \in 1..Len(Attr[d].index) : l = LinkOf(d, Attr[d].index[i])
        BY <1>0 DEF TreeView
      <4>3. PICK i \in 1..Len(Attr[d].index) : l = LinkOf(d, Attr[d].index[i])
        BY <4>2
      <4>4. l.dir = d /\ Attr[d].index[i].rec = x
        BY <4>1, <4>3, LinkFacts
      <4>5. x \in Good /\ Attr[x].parent = d
        BY <1>0, <4>3, <4>4 DEF EntriesNamed
      <4>6. d # x
        BY <3>2, <4>5 DEF PlaceInv
      <4>7. l \in TreeLinks'
        BY <1>4, <4>4, <4>6
      <4> QED BY <1>6, <4>1, <4>7
    <3> QED BY <3>1, <3>2
  <2> DEFINE dom == {x, Root} \cup (DOMAIN TreeFiles \cap {l.rec : l \in TreeLinks'})
  <2>2. DOMAIN TreeFiles' = dom
    BY <1>6, <1>7, <2>1
  <2>3. \A s \in dom : TreeFiles'[s] = IF s = x THEN Lost ELSE TreeFiles[s]
    BY <1>6, <1>7, <2>2
  <2>4. TreeFiles' = [s \in dom |-> IF s = x THEN Lost ELSE TreeFiles[s]]
    BY <1>6, <2>2, <2>3
  <2> QED BY <1>5, <1>9, <2>4 DEF Tree!Damage, Tree!LinkedIn, Tree!Damaged, Lost
<1> QED BY <1>8, <1>9

(* A step of the driver is a step of the tree, or leaves it alone. *)
LEMMA TreeStep ==
  ASSUME NtfsInv, NtfsInv', RecordsKept, BusyInv, BusyInv', PlaceInv, [NtfsNext]_ntfsVars
  PROVE  \/ Tree!Create \/ Tree!Write \/ Tree!Damage
         \/ TreeLinks' = TreeLinks /\ TreeFiles' = TreeFiles
<1> DEFINE Same == TreeLinks' = TreeLinks /\ TreeFiles' = TreeFiles
<1>0. TreeView /\ TreeView'
  BY BothSides
<1>1. ASSUME UNCHANGED disk, MixedRecords = {} PROVE Same
  <2>1. MixedRecords' = {}
    BY <1>1, QuietMixes
  <2>2. TornRecords = {} /\ TornRecords' = {}
    BY <1>1, <2>1, BothSides
  <2> QED BY <1>0, <1>1, <2>2, QuietTree
<1>2. ASSUME NEW d, NEW n, NEW p, NEW isDir,
             CreateBegins(d, n, isDir, p) \/ CreatePanics(d, n, isDir, p)
      PROVE  Same
  BY <1>1, <1>2 DEF CreateBegins, CreatePanics, Undamaged, MixedRecords
<1>3. ASSUME NEW r, NEW p, WriteBegins(r, p) PROVE Same
  BY <1>1, <1>3 DEF WriteBegins, Undamaged, MixedRecords
<1>4. CASE AddToResident \/ AddToExternal \/ AddPanics \/ AddFails \/ OpenNew
  BY <1>1, <1>4 DEF AddToResident, AddToExternal, AddPanics, AddFails, OpenNew, AtEntry,
     BusyInv
<1>5. CASE WriteFirst
  <2>1. CASE op.call = "link"
    BY <1>5, <2>1, TreeCreates
  <2>2. CASE op.call = "write"
    BY <1>5, <2>2, TreeWrites
  <2>3. CASE op.call = "create"
    <3>1. NoNewEntries
      BY <1>5, <2>3, CreateFirstStep
    <3>2. op'.call = "create"
      <4>1. op \in CreateOps /\ op' = [op EXCEPT !.pc = "tail"]
        BY <1>5, <2>3, CallShapes DEF NtfsInv, WriteFirst
      <4> QED BY <4>1 DEF CreateOps
    <3>3. TornRecords = {} /\ TornRecords' = {}
      BY <2>3, <3>2, BothSides
    <3>4. \A r \in DOMAIN TreeFiles : Attr'[r].payload = Attr[r].payload
      BY <1>0, <2>3 DEF TreeView, RecordsKept
    <3> QED BY <1>0, <3>1, <3>3, <3>4, SameTree
  <2> QED BY <1>5, <2>1, <2>2, <2>3 DEF WriteFirst
<1>6. CASE WriteSecond
  <2>1. op.call \in {"create", "link", "write"} /\ op.pc = "tail"
    BY <1>6 DEF WriteSecond
  <2>2. NoNewEntries
    BY <1>6, <2>1, CreateSecondStep, UpdateSecondStep
  <2>3. MixedRecords' \subseteq MixedRecords \ {op.rec} /\ Attr' = Attr
    BY <1>6, SecondUnmixes
  <2>4. MixedRecords' = {}
    BY <2>1, <2>3 DEF BusyInv
  <2>5. TornRecords = {} /\ TornRecords' = {}
    BY <2>1, <2>4, BothSides
  <2> QED BY <1>0, <2>2, <2>3, <2>5, SameTree
<1>7. CASE IoFails \/ PowerLoss
  <2>1. op' = Idle /\ UNCHANGED disk /\ op'.call = "none"
    BY <1>7 DEF IoFails, PowerLoss, Idle
  <2>2. CASE op.call \notin {"create", "link", "write"}
    <3>1. TornRecords' = TornRecords
      BY <2>1, <2>2, BothSides, QuietMixes
    <3> QED BY <1>0, <2>1, <3>1, QuietTree
  <2>3. CASE op.call \in {"create", "link", "write"} /\ MixedRecords = {}
    BY <1>1, <2>1, <2>3
  <2>4. CASE op.call \in {"create", "link", "write"} /\ MixedRecords # {}
    <3>1. op.call \in {"link", "write"} /\ op.pc = "tail"
      BY <2>4 DEF BusyInv
    <3> QED BY <2>1, <2>4, <3>1, TreeDamaged
  <2> QED BY <2>2, <2>3, <2>4
<1>8. CASE UNCHANGED ntfsVars
  <2>1. UNCHANGED <<disk, op>>
    BY <1>8 DEF ntfsVars
  <2>2. TornRecords' = TornRecords
    BY <2>1, BothSides, QuietMixes
  <2> QED BY <1>0, <2>1, <2>2, QuietTree
<1> QED
  BY <1>2, <1>3, <1>4, <1>5, <1>6, <1>7, <1>8 DEF NtfsNext, NtfsStep

(* The driver's two-sector writes, with I/O errors and power losses        *)
(* between any two, implement FileTree: a file enters the tree complete    *)
(* and in one step, stays, and changes only when it is written; a cut      *)
(* update damages at most the record it was about.                         *)
THEOREM NtfsImplementsFileTree == Spec => ImplementsFileTree
<1>1. VfsInit => Tree!TreeInit
  <2>1. NtfsInv => Root \in DOMAIN TreeFiles
    BY DEF TreeFiles
  <2> QED BY <2>1, NtfsInitInv DEF VfsInit, Tree!TreeInit
<1>2. /\ NtfsInv /\ BusyInv /\ PlaceInv
      /\ (NtfsInv /\ BusyInv /\ PlaceInv)' /\ [Next]_vars
      => [Tree!TreeNext]_(Tree!treeVars)
  <2> SUFFICES ASSUME NtfsInv, BusyInv, PlaceInv, NtfsInv', BusyInv', [Next]_vars
               PROVE  [Tree!TreeNext]_(Tree!treeVars)
    OBVIOUS
  <2>1. [NtfsNext]_ntfsVars /\ RecordsKept
    BY VfsOnVolume, NtfsStepInv
  <2>2. \/ Tree!Create \/ Tree!Write \/ Tree!Damage
        \/ TreeLinks' = TreeLinks /\ TreeFiles' = TreeFiles
    BY <2>1, TreeStep
  <2> QED BY <2>2 DEF Tree!TreeNext, Tree!treeVars
<1> QED
  BY <1>1, <1>2, PlaceInvariant, PTL DEF Spec, ImplementsFileTree, Tree!TreeSpec
==============================================================================
