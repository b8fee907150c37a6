-------------------------------- MODULE Ntfs --------------------------------
(***************************************************************************)
(* The NTFS driver of lib/vfs/src/fs/ntfs: MFT records of two sectors with *)
(* their fixups, the directory index in the record and the one outside it, *)
(* create_file and write_file as the sequence of sector writes they are,   *)
(* with I/O errors and a power loss between any two.                       *)
(*                                                                         *)
(* The driver sits behind one Mutex: operations follow each other, and     *)
(* what can come between two writes is the end of the power, not another   *)
(* operation.  A record is where the code looks for it: at the byte offset *)
(* that read_mft_record and the writers hand to the device as an address.  *)
(*                                                                         *)
(* The device is an ideal BlockDevice: it moves the whole buffer, in the   *)
(* order of its sectors, and reports what fails.  The AHCI driver moves    *)
(* one sector of it, the virtio driver writes its status byte into the     *)
(* second one and reports no failure (AhciPort, VirtioBlk): over them a    *)
(* record is not even read.  What holds here is what this driver adds.     *)
(***************************************************************************)
EXTENDS Integers, Sequences, FiniteSets

CONSTANTS
  Root,         \* record of the root directory: 5
  Records,      \* free records from START_SCAN to MAX_SCAN
  Names,        \* names, as components of paths
  NewNames,     \* the ones given to create_file
  NameLen,      \* their lengths in UTF-16 units
  NameBytes,    \* and in bytes
  Shown,        \* what a stored name is read back as: not ASCII becomes '?'
  Fold,         \* a name with its ASCII letters in one case
  Payloads,     \* resident contents, [len, val]
  Volumes,      \* volumes a start may find, [bodies, indx, stale]
  MftCluster, BytesPerCluster

ASSUME RecordsAssumption == Records \subseteq Nat /\ Root \in Nat \ Records
ASSUME NamesAssumption ==
  /\ NewNames \subseteq Names
  /\ NameLen \in [Names -> Nat] /\ NameBytes \in [Names -> Nat]
  /\ \A n \in Names : NameLen[n] <= NameBytes[n]
  /\ Shown \in [Names -> Names]
  /\ Fold \in [Names -> Names]
ASSUME GeometryAssumption == MftCluster \in Nat /\ BytesPerCluster \in Nat

VARIABLES
  disk,         \* sector number -> what it holds
  indx,         \* the index block outside the root's record, as IndexBlock says
  op,           \* the call in progress
  created       \* history: records that a create_file returned

ntfsVars == <<disk, indx, op, created>>

(***************************************************************************)
(* Layout.                                                                 *)
(***************************************************************************)
RecordSize == 1024

\* read_mft_record: the byte offset of a record goes to read_blocks as it is.
MftLba(r) == MftCluster * BytesPerCluster + r * RecordSize

Align8(n) == ((n + 7) \div 8) * 8

\* Header and $STANDARD_INFORMATION, $FILE_NAME, $DATA, $INDEX_ROOT.
FixedPart == 56 + 96
NameAttr(n) == Align8(24 + 66 + 2 * NameLen[n])
DataAttr(len) == Align8(24 + len)
IndexRootAttr == 24 + 48
MaxResidentData == 700
MaxName == 255

\* A directory entry: header, key, name.
EntryLen(n) == Align8(16 + 66 + 2 * NameLen[n])

(***************************************************************************)
(* Sectors and records.                                                    *)
(***************************************************************************)
Blank == [tag |-> "blank"]
HeadOf(b) == [tag |-> "head", body |-> b]
TailOf(b) == [tag |-> "tail", body |-> b]
\* A sector of the data of some file, with its last two bytes.
DataSector(n) == [tag |-> "data", end |-> n]

FirstSector(r) == disk[MftLba(r)]
SecondSector(r) == disk[MftLba(r) + 1]

\* The last two bytes of a second sector. One that was never written is zero.
SectorEnd(s) ==
  CASE s.tag = "tail" -> s.body.seq [] s.tag = "data" -> s.end [] OTHER -> 0

\* apply_fixups: the sectors end with the sequence number the first one holds.
FixupsMatchUnread(h, t) == TRUE
FixupsMatch(h, t) == SectorEnd(t) = h.body.seq

\* read_mft_record succeeds.
Accepted(r) ==
  /\ FirstSector(r).tag = "head" /\ FirstSector(r).body.sig = "FILE"
  /\ FixupsMatch(FirstSector(r), SecondSector(r))

\* What the attributes of a record say: the first sector's version of it.
Stat(r) == FirstSector(r).body

\* Accepted, with sectors of two versions of the record.
Mixed(r) ==
  Accepted(r) /\ SecondSector(r).tag = "tail" /\ SecondSector(r).body # Stat(r)

AllRecords == Records \cup UNION {DOMAIN v.bodies : v \in Volumes}

\* What the attributes of a record can say.
Signature == {"FILE", "BAAD"}
SequenceNumber == 0..65535
Payload == [len : Nat, val : Nat]
Run == [delta : Int, len : Nat]
Entry == [name : Names, rec : AllRecords]
RecordBody ==
  [sig : Signature, seq : SequenceNumber, dir : BOOLEAN, name : Names,
   parent : AllRecords, payload : Payload, runs : Seq(Run), index : Seq(Entry),
   room : Nat, ext : BOOLEAN]

\* The index block as add_to_external_index takes it to be: two-byte fields
\* where the block has four-byte ones. "total" is the upper half of the offset of
\* the first entry, which is 0 until the driver writes it; "used" is the lower
\* half of the length of the entries; "kept" says that they are still there.
IndexBlock == [size : Nat, first : Nat, total : Nat, used : Nat, kept : BOOLEAN]

\* A volume a start may find: the root is a directory and the only one in
\* itself, every entry names a record that is there under that name, and no
\* free record is followed by a sector that happens to end with the number the
\* record would get. A free record may be a sector of file data: the scan goes
\* past the end of the MFT and looks at four bytes only.
Consistent(v) ==
  LET Named(e) == /\ e.rec \in DOMAIN v.bodies /\ v.bodies[e.rec].sig = "FILE"
                   /\ v.bodies[e.rec].name = e.name
  IN  /\ DOMAIN v.bodies \subseteq Nat
      /\ \A r \in DOMAIN v.bodies : v.bodies[r] \in RecordBody
      /\ Root \in DOMAIN v.bodies
      /\ v.bodies[Root].sig = "FILE" /\ v.bodies[Root].dir
      /\ \A r \in DOMAIN v.bodies : v.bodies[r].parent = r => r = Root
      /\ \A r \in DOMAIN v.bodies : \A i \in 1..Len(v.bodies[r].index) :
           LET e == v.bodies[r].index[i]
           IN  Named(e) /\ v.bodies[e.rec].parent = r
      /\ v.indx \in IndexBlock
      /\ \A s \in DOMAIN v.stale :
           /\ v.stale[s] \in [tag : {"tail"}, body : RecordBody]
                              \cup [tag : {"data"}, end : SequenceNumber]
           /\ \A r \in Records : s = MftLba(r) + 1 => SectorEnd(v.stale[s]) # r % 65536

ASSUME VolumesAssumption == \A v \in Volumes : Consistent(v)
ASSUME PayloadsAssumption == Payloads \subseteq Payload

\* The model ends where a record is mixed: its attributes may be cut anywhere.
Undamaged == \A r \in AllRecords : ~Mixed(r)

(***************************************************************************)
(* parse_data_runs adds up signed distances and gives up below zero.  A    *)
(* run without a distance (a hole) repeats the cluster before it.          *)
(***************************************************************************)
Clusters(runs) ==
  LET at[i \in 0..Len(runs)] == IF i = 0 THEN 0 ELSE at[i - 1] + runs[i].delta
  IN  [i \in 1..Len(runs) |-> at[i]]

RunsParse(b) == \A i \in 1..Len(b.runs) : Clusters(b.runs)[i] >= 0

StatOk(r) == Accepted(r) /\ RunsParse(Stat(r))

(***************************************************************************)
(* find_in_directory looks at the index in the record only, and takes the  *)
(* first name that matches as it is read back.                             *)
(***************************************************************************)
Matches(stored, asked) == Fold[Shown[stored]] = Fold[asked]

Hits(b, n) == {i \in 1..Len(b.index) : Matches(b.index[i].name, n)}
Find(b, n) ==
  b.index[CHOOSE i \in Hits(b, n) : \A j \in Hits(b, n) : i <= j].rec

(***************************************************************************)
(* State.  A call works on one record at a time: op.rec gets op.body, the  *)
(* first sector at pc "head", the second at pc "tail".                     *)
(***************************************************************************)
Idle == [call |-> "none"]

Sectors == {MftLba(r) + k : r \in AllRecords, k \in {0, 1}}
           \cup UNION {DOMAIN v.stale : v \in Volumes}

Formatted(v) ==
  [s \in Sectors |->
     IF \E r \in DOMAIN v.bodies : s = MftLba(r)
     THEN HeadOf(v.bodies[CHOOSE r \in DOMAIN v.bodies : s = MftLba(r)])
     ELSE IF \E r \in DOMAIN v.bodies : s = MftLba(r) + 1
     THEN TailOf(v.bodies[CHOOSE r \in DOMAIN v.bodies : s = MftLba(r) + 1])
     ELSE IF s \in DOMAIN v.stale THEN v.stale[s] ELSE Blank]

NtfsInit ==
  /\ \E v \in Volumes : disk = Formatted(v) /\ indx = v.indx
  /\ op = Idle
  /\ created = {}

(***************************************************************************)
(* create_file.                                                            *)
(***************************************************************************)
\* Neither "FILE" nor "BAAD" in the first four bytes.
FreeUnlessBad(r) == ~(FirstSector(r).tag = "head" /\ FirstSector(r).body.sig = "BAAD")
Free(r) == FirstSector(r).tag # "head"

RecordUse(n, isDir, p) ==
  FixedPart + NameAttr(n) + IF isDir THEN IndexRootAttr ELSE DataAttr(p.len)

NewRecord(r, d, n, isDir, p) ==
  [sig |-> "FILE", seq |-> r % 65536, dir |-> isDir, name |-> n, parent |-> d,
   payload |-> IF isDir THEN [len |-> 0, val |-> 0] ELSE p, runs |-> <<>>,
   index |-> <<>>, room |-> 0, ext |-> FALSE]

\* The call at its first write: the record, then the entry.
CreateCallUnwritten(r, d, n, isDir, p) ==
  [call |-> "create", pc |-> "entry", rec |-> r,
   body |-> NewRecord(r, d, n, isDir, p), dir |-> d, name |-> n, new |-> r]
CreateCall(r, d, n, isDir, p) ==
  [call |-> "create", pc |-> "head", rec |-> r,
   body |-> NewRecord(r, d, n, isDir, p), dir |-> d, name |-> n, new |-> r]

IsDirectory(d) == d = Root \/ (StatOk(d) /\ Stat(d).dir)

\* The tests before anything is written, the scan for a record aside.
MayCreateTwice(d, n, isDir, p) ==
  /\ IsDirectory(d) /\ StatOk(d)
  /\ NameBytes[n] <= MaxName
  /\ isDir \/ p.len <= MaxResidentData
  /\ RecordUse(n, isDir, p) <= RecordSize
MayCreate(d, n, isDir, p) ==
  /\ IsDirectory(d) /\ StatOk(d)
  /\ Hits(Stat(d), n) = {}
  /\ NameBytes[n] <= MaxName
  /\ isDir \/ p.len <= MaxResidentData
  /\ RecordUse(n, isDir, p) <= RecordSize

\* A call that fails one of them returns an error and has changed nothing.
\* The scan takes the lowest free record, and skips the ones it cannot read:
\* with read errors, any free record.
CreateBegins(d, n, isDir, p) ==
  /\ op = Idle /\ Undamaged
  /\ MayCreate(d, n, isDir, p)
  /\ RecordUse(n, isDir, p) + 4 <= RecordSize
  /\ \E r \in Records : Free(r) /\ op' = CreateCall(r, d, n, isDir, p)
  /\ UNCHANGED <<disk, indx, created>>

\* build_mft_record puts the end marker behind a record that is full: the
\* slice is out of bounds, and the kernel panics.
CreatePanics(d, n, isDir, p) ==
  /\ op = Idle /\ Undamaged
  /\ MayCreate(d, n, isDir, p)
  /\ RecordUse(n, isDir, p) + 4 > RecordSize
  /\ \E r \in Records : Free(r)
  /\ op' = [call |-> "panic"]
  /\ UNCHANGED <<disk, indx, created>>

(***************************************************************************)
(* write_blocks of a record, sector after sector, by a device that writes  *)
(* them all.                                                               *)
(***************************************************************************)
WriteFirst ==
  /\ op.call \in {"create", "link", "write"} /\ op.pc = "head"
  /\ disk' = [disk EXCEPT ![MftLba(op.rec)] = HeadOf(op.body)]
  /\ op' = [op EXCEPT !.pc = "tail"]
  /\ UNCHANGED <<indx, created>>

\* The call goes on: the new record gets its entry, the new entry is opened,
\* and write_file is done.
WriteSecond ==
  /\ op.call \in {"create", "link", "write"} /\ op.pc = "tail"
  /\ disk' = [disk EXCEPT ![MftLba(op.rec) + 1] = TailOf(op.body)]
  /\ \/ op.call = "create" /\ op' = [op EXCEPT !.pc = "entry"]
     \/ op.call = "link"   /\ op' = [op EXCEPT !.pc = "open"]
     \/ op.call = "write"  /\ op' = Idle
  /\ UNCHANGED <<indx, created>>

(***************************************************************************)
(* add_directory_entry: the index in the parent's record first, then the   *)
(* index block outside, if the parent has one.                             *)
(***************************************************************************)
AtEntry == op.call = "create" /\ op.pc = "entry"
NewEntry == [name |-> op.name, rec |-> op.new]

Roomy(d) == Stat(d).room >= EntryLen(op.name)

AddToResidentOverLast ==
  /\ AtEntry /\ Accepted(op.dir) /\ Roomy(op.dir)
  /\ LET b == Stat(op.dir)
         n == Len(b.index)
     IN  op' = [op EXCEPT !.call = "link", !.pc = "head", !.rec = op.dir,
                          !.body = [b EXCEPT !.index =
                                      SubSeq(b.index, 1, n - 1) \o <<NewEntry>>]]
  /\ UNCHANGED <<disk, indx, created>>
AddToResident ==
  /\ AtEntry /\ Accepted(op.dir) /\ Roomy(op.dir)
  /\ LET b == Stat(op.dir)
     IN  op' = [op EXCEPT !.call = "link", !.pc = "head", !.rec = op.dir,
                          !.body = [b EXCEPT !.index = Append(b.index, NewEntry),
                                             !.room = b.room - EntryLen(op.name)]]
  /\ UNCHANGED <<disk, indx, created>>

\* entries_end, and the tests of add_to_external_index.
IndxEnd == 24 + indx.first + indx.total
IndxRoomy ==
  /\ Stat(op.dir).ext
  /\ IndxEnd <= indx.size /\ indx.total + EntryLen(op.name) <= indx.used

\* The entry goes to the 16 bytes before entries_end, over the update sequence
\* and the entries that are there. Nothing in the driver reads it.
AddToExternal ==
  /\ AtEntry /\ Accepted(op.dir) /\ ~Roomy(op.dir) /\ IndxRoomy
  /\ IndxEnd + EntryLen(op.name) <= indx.size
  /\ indx' = [indx EXCEPT !.total = @ + EntryLen(op.name), !.kept = FALSE]
  /\ op' = [op EXCEPT !.call = "link", !.pc = "open"]
  /\ UNCHANGED <<disk, created>>

\* "used" counts from the header and entries_end from behind it: the copy of
\* the end marker can pass the end of the buffer, and the kernel panics.
AddPanics ==
  /\ AtEntry /\ Accepted(op.dir) /\ ~Roomy(op.dir) /\ IndxRoomy
  /\ IndxEnd + EntryLen(op.name) > indx.size
  /\ op' = [call |-> "panic"]
  /\ UNCHANGED <<disk, indx, created>>

\* The record stays where it is, without an entry.
AddFails ==
  /\ AtEntry
  /\ ~Accepted(op.dir) \/ (~Roomy(op.dir) /\ ~IndxRoomy)
  /\ op' = Idle
  /\ UNCHANGED <<disk, indx, created>>

\* open_file on the new record ends create_file.
OpenNew ==
  /\ op.call = "link" /\ op.pc = "open"
  /\ op' = Idle
  /\ created' = IF Accepted(op.new) THEN created \cup {op.new} ELSE created
  /\ UNCHANGED <<disk, indx>>

(***************************************************************************)
(* write_file: a resident file, and as many bytes as it has.               *)
(***************************************************************************)
MayWrite(r, p) ==
  /\ StatOk(r) /\ ~Stat(r).dir /\ Stat(r).runs = <<>>
  /\ p.len = Stat(r).payload.len

WriteBegins(r, p) ==
  /\ op = Idle /\ Undamaged /\ MayWrite(r, p)
  /\ op' = [call |-> "write", pc |-> "head", rec |-> r,
            body |-> [Stat(r) EXCEPT !.payload = p]]
  /\ UNCHANGED <<disk, indx, created>>

(***************************************************************************)
(* The device reports an error, or the power goes and comes back.          *)
(***************************************************************************)
IoFails ==
  /\ op.call \in {"create", "link", "write"}
  /\ op' = Idle
  /\ UNCHANGED <<disk, indx, created>>

PowerLoss ==
  /\ op' = Idle
  /\ UNCHANGED <<disk, indx, created>>

\* The records a caller can hold a NtfsFile of: the root's, what a lookup
\* returns, and what create_file returned.
Found ==
  {r \in AllRecords :
     \E d \in AllRecords :
       /\ Accepted(d) /\ Stat(d).dir
       /\ \E i \in 1..Len(Stat(d).index) : Stat(d).index[i].rec = r}
Held == {Root} \cup Found \cup created

NtfsStep ==
  \/ \E d \in Held, n \in NewNames, p \in Payloads, isDir \in BOOLEAN :
       \/ CreateBegins(d, n, isDir, p)
       \/ CreatePanics(d, n, isDir, p)
  \/ WriteFirst \/ WriteSecond
  \/ AddToResident \/ AddToExternal \/ AddPanics \/ AddFails \/ OpenNew
  \/ \E r \in Held, p \in Payloads : WriteBegins(r, p)
  \/ IoFails

NtfsNext == NtfsStep \/ PowerLoss

NtfsSpec == NtfsInit /\ [][NtfsNext]_ntfsVars

(***************************************************************************)
(* Properties.                                                             *)
(***************************************************************************)
Entries(d) == {Stat(d).index[i] : i \in 1..Len(Stat(d).index)}
Directories == {d \in AllRecords : Accepted(d) /\ Stat(d).dir}

\* The ones that are not cut between two versions of themselves.
WholeDirectories == {d \in Directories : ~Mixed(d)}

Updating(r) == op.call \in {"link", "write"} /\ op.rec = r

(* Sectors, the call in progress and its result have their shapes, and an  *)
(* index never outgrows the room it was given.                             *)
NtfsTypeOK ==
  /\ DOMAIN disk = Sectors
  /\ \A s \in Sectors : disk[s].tag \in {"blank", "head", "tail", "data"}
  /\ op.call \in {"none", "panic", "create", "link", "write"}
  /\ op.call \in {"create", "link", "write"} =>
       op.pc \in {"head", "tail", "entry", "open"} /\ op.rec \in AllRecords
  /\ created \subseteq Records
  /\ indx \in IndexBlock /\ \A d \in Directories : Stat(d).room >= 0

(* Whatever write was the last to reach the disk, an entry that a lookup   *)
(* can return names a record that is there, whole enough to be accepted,   *)
(* with the name and the parent the entry gives it: create_file writes the *)
(* record before the entry. A directory whose own record is cut between    *)
(* its sectors is left out: what its index then says is not defined.       *)
NoDanglingEntry ==
  \A d \in WholeDirectories : \A e \in Entries(d) :
    Accepted(e.rec) /\ Stat(e.rec).name = e.name /\ Stat(e.rec).parent = d

(* The fixups tell a half-written new record from a complete one: a record *)
(* that is accepted has a second sector written for it, not what happened  *)
(* to be there. Sequence number 0 (record 65536) is the exception: it is   *)
(* also what a sector that was never written ends with.                    *)
NoForeignTail ==
  \A r \in AllRecords :
    Accepted(r) /\ Stat(r).seq # 0 =>
      /\ SecondSector(r).tag = "tail"
      /\ SecondSector(r).body.name = Stat(r).name
      /\ SecondSector(r).body.parent = Stat(r).parent

(* "Check for existing name": a file that create_file returned is the one  *)
(* its name finds in the directory that has its entry, also when an        *)
(* earlier create_file of the name failed behind its record or was cut     *)
(* short, and whatever is created later. Only for ASCII names: others are  *)
(* read back as '?' and may find another file.                             *)
LookupFindsCreated ==
  \A d \in WholeDirectories : \A e \in Entries(d) :
    e.rec \in created /\ Shown[e.name] = e.name => Find(Stat(d), e.name) = e.rec

(* No call and no power loss turns a record that is accepted into another  *)
(* file: it keeps its name, its parent and its entries, and its resident   *)
(* contents unless the call is write_file on it. File data outside the     *)
(* records has no such protection ("does not check $MFT Bitmap"): a sector *)
(* of it is lost to the new record of a create_file, and to nothing else.  *)
FilesKept ==
  [][/\ \A r \in AllRecords :
          Accepted(r) =>
            /\ Accepted(r)'
            /\ Stat(r)'.name = Stat(r).name /\ Stat(r)'.parent = Stat(r).parent
            /\ Len(Stat(r).index) <= Len(Stat(r)'.index)
            /\ \A i \in 1..Len(Stat(r).index) : Stat(r)'.index[i] = Stat(r).index[i]
            /\ Stat(r)'.payload # Stat(r).payload => op.call = "write" /\ op.rec = r
     /\ \A s \in Sectors :
          disk[s].tag = "data" /\ disk'[s] # disk[s] =>
            op.call = "create" /\ s \in {MftLba(op.new), MftLba(op.new) + 1}
    ]_ntfsVars

(***************************************************************************)
(* The tree a lookup sees.  An update in progress has happened with its    *)
(* first sector; one that stopped between the sectors has done damage.     *)
(***************************************************************************)
Torn(r) == Mixed(r) /\ ~Updating(r)

TreeLinks ==
  UNION {{[dir |-> d, name |-> e.name, rec |-> e.rec] : e \in Entries(d)} :
         d \in {x \in Directories : ~Torn(x)}}

TreeFiles ==
  [r \in {Root} \cup {l.rec : l \in TreeLinks} |->
     IF Torn(r) THEN [damaged |-> TRUE]
                ELSE [dir |-> Stat(r).dir, payload |-> Stat(r).payload]]

Tree == INSTANCE FileTree WITH links <- TreeLinks, files <- TreeFiles,
                               Same <- Matches

(* Under power losses and I/O errors at every point, what a lookup sees    *)
(* changes as FileTree says: a file appears at once with its contents.     *)
ImplementsFileTree == Tree!TreeSpec
=============================================================================
