--------------------------------- MODULE Gpt ---------------------------------
(***************************************************************************)
(* The GPT code of lib/vfs/src/partition/gpt as operators on a disk image: *)
(* the layout that format_disk computes, the sectors that write_gpt builds *)
(* and where it puts them, and what read_gpt makes of an image.            *)
(*                                                                         *)
(* A sector holds one value.  A CRC is the value it is computed over, so   *)
(* it has no collisions.  write_gpt and read_gpt pass lba * sector to      *)
(* read_blocks and write_blocks, whose parameter is a sector number: the   *)
(* product is the sector that is touched.                                  *)
(***************************************************************************)
EXTENDS Naturals, Sequences

CONSTANTS ESP_SIZE_SECTORS,      \* 1_048_576
          GPT_FIRST_USABLE_LBA,  \* 34
          GPT_RESERVED_LBAS,     \* 33
          Overhead,              \* the 128 of format_disk
          SectorSize             \* block_size(): 512

ASSUME GptAssumption ==
  /\ ESP_SIZE_SECTORS \in Nat \ {0}
  /\ GPT_FIRST_USABLE_LBA \in Nat /\ GPT_FIRST_USABLE_LBA > 2
  /\ GPT_RESERVED_LBAS \in Nat \ {0}
  /\ Overhead \in Nat
  /\ Overhead > GPT_FIRST_USABLE_LBA + GPT_RESERVED_LBAS + 1
  /\ SectorSize \in Nat \ {0}

(* The product lba * sector stays on every disk that passes the space test *)
(* of format_disk for the primary header and entries: 1024 < 1_048_704.    *)
ASSUME PrimaryFitsAssumption == 2 * SectorSize < ESP_SIZE_SECTORS + Overhead

-----------------------------------------------------------------------------
(* format_disk: the arithmetic, for a disk of `total' sectors and a        *)
(* requested NTFS size (0: the remainder).                                 *)
HasRoom(total) ==
  /\ total >= ESP_SIZE_SECTORS + Overhead
  /\ (total - (GPT_RESERVED_LBAS + 1)) - GPT_FIRST_USABLE_LBA >= ESP_SIZE_SECTORS + 1

LastUsable(total) == total - (GPT_RESERVED_LBAS + 1)
EspStart == GPT_FIRST_USABLE_LBA
EspEnd == EspStart + ESP_SIZE_SECTORS - 1
NtfsStart == EspEnd + 1
Available(total) == LastUsable(total) - NtfsStart
NtfsSize(total, requested) ==
  IF requested = 0 \/ requested > Available(total) THEN Available(total) ELSE requested
(* Mutant: the end is taken as the first sector after the partition. *)
NtfsEndPast(total, requested) == NtfsStart + NtfsSize(total, requested) + 1

NtfsEnd(total, requested) == NtfsStart + NtfsSize(total, requested) - 1

(* The entries of a format whose first GUID is number g of this boot. *)
Entries(total, requested, g) ==
  << [kind |-> "Esp", guid |-> g, start |-> EspStart, end |-> EspEnd],
     [kind |-> "Ntfs", guid |-> g + 1, start |-> NtfsStart,
      end |-> NtfsEnd(total, requested)] >>

-----------------------------------------------------------------------------
(* write_gpt: where things are in a disk with last sector `last', ... *)
BackupEntriesLba(last) == last - GPT_RESERVED_LBAS + 1
Sector(lba) == lba * SectorSize

(* ... and the sectors it writes. *)
Blank == [tag |-> "blank"]
BootSector == [tag |-> "boot"]
ProtectiveMbr == [tag |-> "mbr"]
EntryArray(entries) == [tag |-> "entries", entries |-> entries]
Header(my, alternate, entries_lba, entries, g) ==
  [tag |-> "header", my_lba |-> my, alternate_lba |-> alternate,
   partition_entry_lba |-> entries_lba, partition_array_crc32 |-> entries,
   disk_guid |-> g]

PrimaryHeader(last, entries, g) == Header(1, last, 2, entries, g)
BackupHeader(last, entries, g) ==
  Header(last, 1, BackupEntriesLba(last), entries, g)

(* The signature 55AA at the end of a sector. *)
Signed(sector) == sector \in {BootSector, ProtectiveMbr}

-----------------------------------------------------------------------------
(* What read_gpt makes of the header it has taken and of the entry array   *)
(* that it read for it.                                                    *)
NoGpt == [ok |-> FALSE]
(* Mutant: the CRC of the entry array is not verified. *)
AcceptUnverified(header, array) ==
  IF array.tag = "entries"
    THEN [ok |-> TRUE, disk_guid |-> header.disk_guid, entries |-> array.entries]
    ELSE NoGpt

Accept(header, array) ==
  IF array = EntryArray(header.partition_array_crc32)
    THEN [ok |-> TRUE, disk_guid |-> header.disk_guid, entries |-> array.entries]
    ELSE NoGpt

(* read_gpt over a device that delivers every sector it has: the primary   *)
(* header or else the backup, then the entries.                            *)
Content(image, sector) == IF sector \in DOMAIN image THEN image[sector] ELSE Blank

ReadGpt(image) ==
  LET last    == CHOOSE n \in DOMAIN image : n + 1 \notin DOMAIN image
      primary == Content(image, Sector(1))
      header  == IF primary.tag = "header" THEN primary ELSE Content(image, Sector(last))
  IN IF header.tag # "header" THEN NoGpt
     ELSE Accept(header, Content(image, Sector(header.partition_entry_lba)))

-----------------------------------------------------------------------------
(* The partitions of `entries' are in order, not empty, do not overlap,    *)
(* and keep clear of the sectors that the GPT reserves at both ends of the *)
(* disk: LBA 0 to 33, and the entries and header at the end.               *)
SoundLayout(entries, total) ==
  /\ \A i \in 1..2 : /\ entries[i].start <= entries[i].end
                     /\ GPT_FIRST_USABLE_LBA <= entries[i].start
                     /\ entries[i].end < BackupEntriesLba(total - 1)
  /\ entries[1].end < entries[2].start
==============================================================================
