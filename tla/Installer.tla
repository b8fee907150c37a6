------------------------------ MODULE Installer ------------------------------
(***************************************************************************)
(* The installer's disk scan (installer/src/lib.rs) over the GPT code: it  *)
(* visits the block devices in order, skips a disk that carries the boot   *)
(* signature or a readable GPT, and formats the others.  Each sector that  *)
(* it reads or writes is a step, the power may fail before any of them,    *)
(* and the machine is also started again after the installer has finished. *)
(*                                                                         *)
(* read_blocks and write_blocks fail as the drivers fail.  AHCI reports    *)
(* an error.  virtio-blk reports none: a read that the device refuses, or  *)
(* has not served yet, returns what the data area holds; a write may be    *)
(* refused, or served later with what the data area holds by then.  A      *)
(* request that is outstanding may also become a copy of a later one: all  *)
(* requests of a driver share one header.                                  *)
(***************************************************************************)
EXTENDS Gpt, FiniteSets

CONSTANTS Disks,        \* the block devices that for_each_block visits
          DiskOrder,    \* in this order
          Driver,       \* the driver of each
          TotalSectors, \* disk sizes
          OldGuids,     \* GUID numbers of formats of earlier installations
          MaxLate,      \* bound: requests of a disk that may be outstanding
          MaxBoots      \* bound: times the machine is started

ASSUME InstallerAssumption ==
  /\ DiskOrder \in Seq(Disks)
  /\ Driver \in [Disks -> {"virtio", "ahci"}]
  /\ TotalSectors \subseteq Nat \ {0}
  /\ OldGuids \subseteq Nat
  /\ MaxLate \in Nat /\ MaxBoots \in Nat \ {0}

VARIABLES pc,         \* the sector that is read or written next
          todo,       \* disks still to visit
          taken,      \* the GPT header that read_gpt has taken
          table,      \* the entries and the disk GUID that write_gpt writes
          guid,       \* GUID_COUNTER
          boots,      \* times the machine was started
          disk,       \* contents of the disks
          area,       \* the data area of each virtio-blk driver
          late,       \* requests that virtio-blk has not waited for
          orig,       \* history: contents before the first start
          whole,      \* history: this format has lost no write so far, and
                      \* nothing was outstanding when it began
          formatted   \* history: disks with a completed format that lost none

scanVars == <<taken, table, guid>>
history == <<orig, whole, formatted>>
vars == <<pc, todo, scanVars, boots, disk, area, late, history>>

ReadPc == {"scan", "primary", "backup", "array"}
WriteOrder == <<"mbr", "entries", "backup_entries", "header", "backup_header">>
WritePc == {WriteOrder[i] : i \in 1..5}

Total(d) == Cardinality(DOMAIN disk[d])
Last(d) == Total(d) - 1

NoTable == [entries |-> << >>, guid |-> 0]
NewTable(total, g) == [entries |-> Entries(total, 0, g), guid |-> g + 2]

-----------------------------------------------------------------------------
(* A disk before the first start: with or without 55AA, and with remains   *)
(* of earlier formats where this code looks for them, or other data.       *)
OldImages(n) ==
  LET old     == IF HasRoom(n) THEN {NewTable(n, g) : g \in OldGuids} ELSE {}
      headers == {PrimaryHeader(n - 1, t.entries, t.guid) : t \in old}
      arrays  == {EntryArray(t.entries) : t \in old}
  IN {[s \in 0..(n - 1) |-> IF s = 0 THEN first
                            ELSE IF s = Sector(1) THEN header
                            ELSE IF s = Sector(2) THEN array
                            ELSE Blank] :
        first \in {Blank, BootSector}, header \in headers \cup {Blank},
        array \in arrays \cup {Blank}}

Init ==
  /\ pc = "scan"
  /\ todo = DiskOrder
  /\ taken = Blank /\ table = NoTable
  /\ guid = 1
  /\ boots = 1
  /\ orig \in [Disks -> UNION {OldImages(n) : n \in TotalSectors}]
  /\ disk = orig
  /\ area = [d \in Disks |-> Blank]
  /\ late = [d \in Disks |-> {}]
  /\ whole = TRUE /\ formatted = {}

-----------------------------------------------------------------------------
(* The driver returns before the device has served the request. *)
LeftLate(d, kind, sector) ==
  /\ Cardinality(late[d]) < MaxLate
  /\ late' = [late EXCEPT ![d] = @ \cup {[kind |-> kind, sector |-> sector]}]

(* A request that is still outstanding takes the header of this one. *)
Refetched(d, kind, sector) ==
  /\ Driver[d] = "virtio" /\ sector \in DOMAIN disk[d]
  /\ \E q \in late[d] :
       late' = [late EXCEPT ![d] = (@ \ {q}) \cup {[kind |-> kind, sector |-> sector]}]

(* read_blocks returns Ok with contents r.  virtio-blk has no other        *)
(* answer.  AHCI refuses a buffer shorter than a sector and a sector that  *)
(* the disk does not have.                                                 *)
ReadOk(d, sector, short, r) ==
  \/ /\ Driver[d] = "ahci" /\ ~short
     /\ sector \in DOMAIN disk[d] /\ r = disk[d][sector]
     /\ UNCHANGED <<area, late>>
  \/ /\ Driver[d] = "virtio"
     /\ sector \in DOMAIN disk[d] /\ r = disk[d][sector]
     /\ area' = [area EXCEPT ![d] = r]
     /\ UNCHANGED late \/ Refetched(d, "in", sector)
  \/ /\ Driver[d] = "virtio"
     /\ r = area[d]
     /\ \/ UNCHANGED late
        \/ sector \in DOMAIN disk[d] /\ LeftLate(d, "in", sector)
        \/ Refetched(d, "in", sector)
     /\ UNCHANGED area

(* It returns an error, as AHCI may for reasons of its own. *)
ReadErr(d) == Driver[d] = "ahci" /\ UNCHANGED <<area, late>>

(* What a read can find. *)
Found(d, sector) == {area[d]} \cup {disk[d][s] : s \in DOMAIN disk[d] \cap {sector}}

Visiting(step, d) == pc = step /\ todo # << >> /\ d = Head(todo)

NextDisk ==
  /\ pc' = "scan"
  /\ todo' = Tail(todo)
  /\ taken' = Blank /\ table' = NoTable

(* Sector 0 cannot be read, or carries 55AA, or read_disk is called. *)
ReadFirst(d) ==
  /\ Visiting("scan", d)
  /\ \/ ReadErr(d) /\ NextDisk
     \/ \E r \in Found(d, 0) :
          /\ ReadOk(d, 0, FALSE, r)
          /\ \/ Signed(r) /\ NextDisk
             \/ ~Signed(r) /\ pc' = "primary" /\ UNCHANGED <<todo, taken, table>>
  /\ UNCHANGED <<guid, boots, disk, history>>

(* read_disk has failed: format the disk if it has room.  The GUIDs are    *)
(* drawn here; write_gpt's own test of the space cannot fail after this.   *)
FormatDisk(d) ==
  \/ /\ ~HasRoom(Total(d))
     /\ NextDisk
     /\ UNCHANGED <<guid, whole, formatted>>
  \/ /\ HasRoom(Total(d))
     /\ table' = NewTable(Total(d), guid)
     /\ guid' = guid + 3
     /\ taken' = Blank
     /\ pc' = "mbr"
     /\ whole' = (late'[d] = {})
     /\ formatted' = formatted \ {d}
     /\ UNCHANGED todo

(* read_gpt: the primary header, ... *)
ReadPrimary(d) ==
  /\ Visiting("primary", d)
  /\ \/ ReadErr(d) /\ pc' = "backup" /\ UNCHANGED taken
     \/ \E r \in Found(d, Sector(1)) :
          /\ ReadOk(d, Sector(1), FALSE, r)
          /\ \/ r.tag = "header" /\ taken' = r /\ pc' = "array"
             \/ r.tag # "header" /\ pc' = "backup" /\ UNCHANGED taken
  /\ UNCHANGED <<todo, table, guid, boots, disk, history>>

(* ... or else the backup, ... *)
ReadBackup(d) ==
  /\ Visiting("backup", d)
  /\ \/ ReadErr(d) /\ FormatDisk(d)
     \/ \E r \in Found(d, Sector(Last(d))) :
          /\ ReadOk(d, Sector(Last(d)), FALSE, r)
          /\ \/ /\ r.tag = "header" /\ taken' = r /\ pc' = "array"
                /\ UNCHANGED <<todo, table, guid, whole, formatted>>
             \/ r.tag # "header" /\ FormatDisk(d)
  /\ UNCHANGED <<boots, disk, orig>>

(* ... and the entries, whose two records are shorter than a sector.       *)
ReadArray(d) ==
  /\ Visiting("array", d)
  /\ LET sector == Sector(taken.partition_entry_lba)
     IN \/ ReadErr(d) /\ FormatDisk(d)
        \/ \E r \in Found(d, sector) :
             /\ ReadOk(d, sector, TRUE, r)
             /\ \/ /\ Accept(taken, r).ok /\ NextDisk
                   /\ UNCHANGED <<guid, whole, formatted>>
                \/ ~Accept(taken, r).ok /\ FormatDisk(d)
  /\ UNCHANGED <<boots, disk, orig>>

-----------------------------------------------------------------------------
(* What write_gpt writes at each of its steps, and where. *)
Target(step, last) ==
  CASE step = "mbr"            -> 0
    [] step = "entries"        -> Sector(2)
    [] step = "backup_entries" -> Sector(BackupEntriesLba(last))
    [] step = "header"         -> Sector(1)
    [] step = "backup_header"  -> Sector(last)

Contents(step, last) ==
  CASE step = "mbr"            -> ProtectiveMbr
    [] step = "entries"        -> EntryArray(table.entries)
    [] step = "backup_entries" -> EntryArray(table.entries)
    [] step = "header"         -> PrimaryHeader(last, table.entries, table.guid)
    [] step = "backup_header"  -> BackupHeader(last, table.entries, table.guid)

(* The two entries are shorter than a sector. *)
Short(step) == step \in {"entries", "backup_entries"}

Writing(d) == pc \in WritePc /\ d = Head(todo)

(* Mutant: a buffer that is shorter than a sector is written all the same. *)
RefusedLonger(d) == Driver[d] = "ahci" /\ Target(pc, Last(d)) > Last(d)

(* AHCI refuses the buffer or the sector. *)
Refused(d) == Driver[d] = "ahci" /\ (Short(pc) \/ Target(pc, Last(d)) > Last(d))

(* The sector is written, if there is such a sector. *)
Landed(d) ==
  disk' = [disk EXCEPT ![d] =
             [s \in DOMAIN disk[d] |-> IF s = Target(pc, Last(d))
                                         THEN Contents(pc, Last(d)) ELSE disk[d][s]]]

(* Whether it was lost: refused, or left to be served later. *)
Lost(d) ==
  /\ Driver[d] = "virtio" /\ Target(pc, Last(d)) <= Last(d)
  /\ whole' = FALSE
  /\ UNCHANGED disk
  /\ \/ UNCHANGED late
     \/ LeftLate(d, "out", Target(pc, Last(d)))
     \/ Refetched(d, "out", Target(pc, Last(d)))

(* write_blocks returns Ok. *)
WriteOk(d) ==
  /\ Writing(d)
  /\ ~Refused(d)
  /\ area' = IF Driver[d] = "virtio" THEN [area EXCEPT ![d] = Contents(pc, Last(d))] ELSE area
  /\ \/ /\ Landed(d) /\ UNCHANGED whole
        /\ UNCHANGED late \/ Refetched(d, "out", Target(pc, Last(d)))
     \/ Lost(d)
  /\ LET i == CHOOSE k \in 1..5 : WriteOrder[k] = pc
     IN IF i < 5
          THEN /\ pc' = WriteOrder[i + 1]
               /\ UNCHANGED <<todo, taken, table, formatted>>
          ELSE /\ NextDisk
               /\ formatted' = IF whole' THEN formatted \cup {d} ELSE formatted
  /\ UNCHANGED <<guid, boots, orig>>

(* It returns an error, which `?' hands up to the installer: AHCI refuses, *)
(* or the command fails or times out, and then the sector may have been    *)
(* written.                                                                *)
WriteErr(d) ==
  /\ Writing(d)
  /\ Driver[d] = "ahci"
  /\ \/ UNCHANGED disk
     \/ ~Refused(d) /\ Landed(d)
  /\ NextDisk
  /\ UNCHANGED <<guid, boots, area, late, history>>

(* The device serves a request that the driver did not wait for, with what *)
(* the data area now holds, or refuses it.  Two such requests may be       *)
(* alike: one may remain.                                                  *)
LateServed(d) ==
  \E q \in late[d] :
    /\ \/ /\ q.kind = "in"
          /\ area' = [area EXCEPT ![d] = disk[d][q.sector]]
          /\ UNCHANGED disk
       \/ /\ q.kind = "out"
          /\ disk' = [disk EXCEPT ![d][q.sector] = area[d]]
          /\ UNCHANGED area
       \/ UNCHANGED <<area, disk>>
    /\ late' \in {late, [late EXCEPT ![d] = @ \ {q}]}
    /\ UNCHANGED <<pc, todo, scanVars, boots, history>>

-----------------------------------------------------------------------------
(* Power loss, or a new start after the end.  GUID_COUNTER starts at 1, and *)
(* nobody clears the data areas.                                            *)
Restart ==
  /\ boots < MaxBoots
  /\ boots' = boots + 1
  /\ pc' = "scan"
  /\ todo' = DiskOrder
  /\ taken' = Blank /\ table' = NoTable
  /\ guid' = 1
  /\ late' = [d \in Disks |-> {}]
  /\ area' \in {area, [d \in Disks |-> Blank]}
  /\ UNCHANGED <<disk, history>>

Finished == pc = "scan" /\ todo = << >>

Stopped == Finished /\ UNCHANGED vars

Next ==
  \/ \E d \in Disks : \/ ReadFirst(d) \/ ReadPrimary(d) \/ ReadBackup(d) \/ ReadArray(d)
                      \/ WriteOk(d) \/ WriteErr(d) \/ LateServed(d)
  \/ Restart
  \/ Stopped

Spec == Init /\ [][Next]_vars

-----------------------------------------------------------------------------
(* When format_disk has returned Ok, no write of it was lost and nothing   *)
(* was outstanding when it began, read_gpt finds the partitions that       *)
(* format_disk laid out, now and after every later start, power loss and   *)
(* failed or late read, until the disk is formatted again.                 *)
FormatReadsBack ==
  \A d \in formatted :
    LET gpt == ReadGpt(disk[d])
    IN gpt.ok /\ SoundLayout(gpt.entries, Total(d))

(* read_gpt never accepts the header of one format with the entries of     *)
(* another, whatever the point where an earlier format was cut short, and  *)
(* whatever was lost, late or written in the wrong place.                  *)
NoTornTable ==
  \A d \in Disks :
    LET gpt == ReadGpt(disk[d])
    IN gpt.ok => /\ gpt.entries[2].guid = gpt.entries[1].guid + 1
                 /\ gpt.disk_guid = gpt.entries[1].guid + 2

(* A format of an AHCI disk costs its first sector and nothing else: the   *)
(* entries are refused before any header is written, on every start.       *)
AhciLosesMbrOnly ==
  \A d \in Disks :
    Driver[d] = "ahci" => \A s \in DOMAIN disk[d] \ {0} : disk[d][s] = orig[d][s]

(* "Primary GPT header (LBA 1)": that is where it is after a format. *)
HeaderAtLba1 == \A d \in formatted : disk[d][1].tag = "header"
==============================================================================
