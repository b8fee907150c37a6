--------------------------- MODULE InstallerProofs ---------------------------
(***************************************************************************)
(* Proofs about the GPT layout and the installer, for disks of every size  *)
(* and every number of disks, starts and power losses.                     *)
(***************************************************************************)
EXTENDS Installer, FiniteSetTheorems, TLAPS

(* The partitions that format_disk lays out on a disk that passes its two  *)
(* space tests are not empty, do not overlap each other, and keep clear of *)
(* the primary GPT and of the backup GPT, for every disk size and every    *)
(* requested NTFS size; the subtractions never go below zero, and the      *)
(* space test inside write_gpt (entries end at LBA 3) cannot fail.         *)
THEOREM FormatLayoutSound ==
  ASSUME NEW total \in Nat, NEW requested \in Nat, NEW g, HasRoom(total)
  PROVE  /\ SoundLayout(Entries(total, requested, g), total)
         /\ Available(total) > 0
         /\ 3 < (total - 1) - GPT_RESERVED_LBAS
<1> DEFINE e == Entries(total, requested, g)
<1>1. Available(total) > 0 /\ Available(total) \in Nat
  BY GptAssumption DEF HasRoom, Available, LastUsable, NtfsStart, EspEnd, EspStart
<1>2. /\ NtfsSize(total, requested) \in Nat
      /\ 0 < NtfsSize(total, requested)
      /\ NtfsSize(total, requested) <= Available(total)
  BY <1>1 DEF NtfsSize
<1>3. /\ e[1].start = EspStart /\ e[1].end = EspEnd
      /\ e[2].start = NtfsStart /\ e[2].end = NtfsEnd(total, requested)
  BY DEF Entries
<1>4. EspStart <= EspEnd /\ EspEnd < NtfsStart /\ EspEnd < BackupEntriesLba(total - 1)
  BY <1>1, GptAssumption
  DEF EspStart, EspEnd, NtfsStart, BackupEntriesLba, Available, LastUsable
<1>5. /\ NtfsStart <= NtfsEnd(total, requested)
      /\ NtfsEnd(total, requested) < BackupEntriesLba(total - 1)
      /\ GPT_FIRST_USABLE_LBA <= NtfsStart
  BY <1>1, <1>2, GptAssumption
  DEF EspStart, EspEnd, NtfsStart, NtfsEnd, BackupEntriesLba, Available, LastUsable
<1>6. SoundLayout(e, total)
  <2>1. GPT_FIRST_USABLE_LBA <= EspStart
    BY GptAssumption DEF EspStart
  <2>2. ASSUME NEW i \in 1..2
        PROVE  /\ e[i].start <= e[i].end
               /\ GPT_FIRST_USABLE_LBA <= e[i].start
               /\ e[i].end < BackupEntriesLba(total - 1)
    <3>1. i = 1 \/ i = 2
      OBVIOUS
    <3> HIDE DEF e
    <3> QED BY <1>3, <1>4, <1>5, <2>1, <3>1
  <2> HIDE DEF e
  <2> QED BY <2>2, <1>3, <1>4 DEF SoundLayout
<1>7. 3 < (total - 1) - GPT_RESERVED_LBAS
  BY GptAssumption DEF HasRoom
<1> QED BY <1>1, <1>6, <1>7

-----------------------------------------------------------------------------
(* The shape of the state: functions of the disks, sectors from 0 on, and  *)
(* reads outstanding only for sectors that the disk has.                   *)
ShapeInv ==
  /\ pc \in ReadPc \cup WritePc
  /\ guid \in Nat
  /\ disk \in [Disks -> {disk[d] : d \in Disks}]
  /\ area \in [Disks -> {area[d] : d \in Disks}]
  /\ late \in [Disks -> {late[d] : d \in Disks}]
  /\ formatted \subseteq Disks
  /\ \A d \in Disks : \E n \in Nat \ {0} : DOMAIN disk[d] = 0..(n - 1)
  /\ \A d \in Disks : \A q \in late[d] : q.kind = "in" => q.sector \in DOMAIN disk[d]

(* What a read may change: the data area, and the requests outstanding.    *)
ReadEffect ==
  /\ UNCHANGED disk
  /\ area' \in [Disks -> {area'[d] : d \in Disks}]
  /\ late' \in [Disks -> {late'[d] : d \in Disks}]
  /\ \A d \in Disks : \/ area'[d] = area[d]
                      \/ \E s \in DOMAIN disk[d] : area'[d] = disk[d][s]
  /\ \A d \in Disks : Driver[d] = "ahci" => late'[d] = late[d]
  /\ \A d \in Disks : \A q \in late'[d] :
       q \in late[d] \/ (q.kind = "in" /\ q.sector \in DOMAIN disk[d])

LEMMA ReadOkEffect ==
  ASSUME ShapeInv, NEW d \in Disks, NEW sector, NEW short, NEW r,
         ReadOk(d, sector, short, r), UNCHANGED disk
  PROVE  ReadEffect
<1>1. CASE UNCHANGED <<area, late>>
  BY <1>1 DEF ReadEffect, ShapeInv
<1>2. CASE Driver[d] = "virtio" /\ ~(UNCHANGED <<area, late>>)
  <2> DEFINE q0 == [kind |-> "in", sector |-> sector]
  <2>1. \/ area' = area
        \/ sector \in DOMAIN disk[d] /\ area' = [area EXCEPT ![d] = disk[d][sector]]
    BY <1>2 DEF ReadOk
  <2>2. \/ late' = late
        \/ sector \in DOMAIN disk[d] /\ late' = [late EXCEPT ![d] = @ \cup {q0}]
        \/ /\ sector \in DOMAIN disk[d]
           /\ \E q \in late[d] : late' = [late EXCEPT ![d] = (@ \ {q}) \cup {q0}]
    BY <1>2 DEF ReadOk, LeftLate, Refetched
  <2>3. /\ area' \in [Disks -> {area'[e] : e \in Disks}]
        /\ \A e \in Disks : \/ area'[e] = area[e]
                            \/ \E s \in DOMAIN disk[e] : area'[e] = disk[e][s]
    BY <2>1 DEF ShapeInv
  <2>4. q0.kind = "in" /\ q0.sector = sector
    OBVIOUS
  <2> HIDE DEF q0
  <2>5. /\ late' \in [Disks -> {late'[e] : e \in Disks}]
        /\ \A e \in Disks \ {d} : late'[e] = late[e]
        /\ \A q \in late'[d] : q \in late[d] \/ (q = q0 /\ sector \in DOMAIN disk[d])
    <3>0. late \in [Disks -> {late[e] : e \in Disks}]
      BY DEF ShapeInv
    <3>1. CASE late' = late
      BY <3>0, <3>1
    <3>2. CASE sector \in DOMAIN disk[d] /\ late' = [late EXCEPT ![d] = @ \cup {q0}]
      BY <3>0, <3>2
    <3>3. CASE /\ sector \in DOMAIN disk[d]
               /\ \E q \in late[d] : late' = [late EXCEPT ![d] = (@ \ {q}) \cup {q0}]
      BY <3>0, <3>3
    <3> QED BY <2>2, <3>1, <3>2, <3>3
  <2> QED BY <1>2, <2>3, <2>4, <2>5 DEF ReadEffect
<1> QED BY <1>1, <1>2 DEF ReadOk

(* A format begins. *)
FormatStarts(d) ==
  /\ HasRoom(Total(d))
  /\ table' = NewTable(Total(d), guid)
  /\ guid' = guid + 3
  /\ pc' = "mbr"
  /\ whole' = (late'[d] = {})
  /\ formatted' = formatted \ {d}
  /\ UNCHANGED todo /\ d = Head(todo)

(* Each of the four reads goes on reading, or starts a format. *)
LEMMA ReadSteps ==
  ASSUME ShapeInv, NEW d \in Disks,
         ReadFirst(d) \/ ReadPrimary(d) \/ ReadBackup(d) \/ ReadArray(d)
  PROVE  /\ ReadEffect
         /\ UNCHANGED orig
         /\ taken' \in {taken, Blank, area[d]} \cup {disk[d][s] : s \in DOMAIN disk[d]}
         /\ \/ pc' \in ReadPc /\ UNCHANGED <<guid, formatted>>
            \/ FormatStarts(d)
<1>1. ReadErr(d) /\ UNCHANGED disk => ReadEffect
  BY DEF ReadErr, ReadEffect, ShapeInv
<1>2. \A sector : \A r \in Found(d, sector) :
        r \in {area[d]} \cup {disk[d][s] : s \in DOMAIN disk[d]}
  BY DEF Found
<1>3. NextDisk => pc' \in ReadPc /\ taken' = Blank
  BY DEF NextDisk, ReadPc
<1>4. ASSUME FormatDisk(d), d = Head(todo)
      PROVE  /\ taken' = Blank
             /\ \/ pc' \in ReadPc /\ UNCHANGED <<guid, formatted>>
                \/ FormatStarts(d)
  BY <1>3, <1>4 DEF FormatDisk, FormatStarts
<1>5. CASE ReadFirst(d)
  <2>1. UNCHANGED <<disk, guid, orig, formatted>>
    BY <1>5 DEF ReadFirst, history
  <2>2. ReadEffect
    BY <1>1, <1>5, <2>1, ReadOkEffect DEF ReadFirst
  <2>3. pc' \in ReadPc /\ taken' \in {taken, Blank}
    BY <1>3, <1>5 DEF ReadFirst, ReadPc
  <2> QED BY <2>1, <2>2, <2>3
<1>6. CASE ReadPrimary(d)
  <2>1. UNCHANGED <<disk, guid, orig, formatted>>
    BY <1>6 DEF ReadPrimary, history
  <2>2. ReadEffect
    BY <1>1, <1>6, <2>1, ReadOkEffect DEF ReadPrimary
  <2>3. /\ pc' \in ReadPc
        /\ taken' = taken \/ \E r \in Found(d, Sector(1)) : taken' = r
    BY <1>6 DEF ReadPrimary, ReadPc
  <2> QED BY <1>2, <2>1, <2>2, <2>3
<1>7. CASE ReadBackup(d)
  <2>1. UNCHANGED <<disk, orig>> /\ d = Head(todo)
    BY <1>7 DEF ReadBackup, Visiting
  <2>2. ReadEffect
    BY <1>1, <1>7, <2>1, ReadOkEffect DEF ReadBackup
  <2>3. \/ FormatDisk(d)
        \/ /\ pc' \in ReadPc /\ UNCHANGED <<guid, formatted>>
           /\ \E r \in Found(d, Sector(Last(d))) : taken' = r
    BY <1>7 DEF ReadBackup, ReadPc
  <2>4. taken' \in {taken, Blank, area[d]} \cup {disk[d][s] : s \in DOMAIN disk[d]}
    BY <1>2, <1>4, <2>1, <2>3
  <2> QED BY <1>4, <2>1, <2>2, <2>3, <2>4
<1>8. CASE ReadArray(d)
  <2>1. UNCHANGED <<disk, orig>> /\ d = Head(todo)
    BY <1>8 DEF ReadArray, Visiting
  <2>2. ReadEffect
    BY <1>1, <1>8, <2>1, ReadOkEffect DEF ReadArray
  <2>3. \/ FormatDisk(d)
        \/ NextDisk /\ UNCHANGED <<guid, formatted>>
    BY <1>8 DEF ReadArray
  <2> QED BY <1>3, <1>4, <2>1, <2>2, <2>3
<1> QED BY <1>5, <1>6, <1>7, <1>8

-----------------------------------------------------------------------------
(* The place of a step in write_gpt, which is the CHOOSE of WriteOk. *)
LEMMA WriteOrderPlace ==
  ASSUME NEW k \in 1..5
  PROVE  (CHOOSE j \in 1..5 : WriteOrder[j] = WriteOrder[k]) = k
BY DEF WriteOrder

(* The steps of write_gpt. *)
LEMMA WriteSteps ==
  WritePc = {"mbr", "entries", "backup_entries", "header", "backup_header"}
<1>1. \A k \in 1..5 : k = 1 \/ k = 2 \/ k = 3 \/ k = 4 \/ k = 5
  OBVIOUS
<1>2. /\ WriteOrder[1] = "mbr" /\ WriteOrder[2] = "entries"
      /\ WriteOrder[3] = "backup_entries" /\ WriteOrder[4] = "header"
      /\ WriteOrder[5] = "backup_header"
  BY DEF WriteOrder
<1>3. {1, 2, 3, 4, 5} \subseteq 1..5
  OBVIOUS
<1> HIDE DEF WriteOrder
<1> QED BY <1>1, <1>2, <1>3 DEF WritePc

(* write_gpt goes on to its next step, or is done. *)
LEMMA WriteOkAdvances ==
  ASSUME NEW d \in Disks, WriteOk(d)
  PROVE  \/ /\ pc = "mbr" /\ pc' = "entries"
            /\ UNCHANGED <<todo, taken, table, formatted>>
         \/ /\ pc = "entries" /\ pc' = "backup_entries"
            /\ UNCHANGED <<todo, taken, table, formatted>>
         \/ /\ pc = "backup_entries" /\ pc' = "header"
            /\ UNCHANGED <<todo, taken, table, formatted>>
         \/ /\ pc = "header" /\ pc' = "backup_header"
            /\ UNCHANGED <<todo, taken, table, formatted>>
         \/ /\ pc = "backup_header" /\ pc' = "scan" /\ taken' = Blank
            /\ formatted' = IF whole' THEN formatted \cup {d} ELSE formatted
<1>1. PICK k \in 1..5 : pc = WriteOrder[k]
  BY DEF WritePc, WriteOk, Writing
<1>2. (CHOOSE j \in 1..5 : WriteOrder[j] = pc) = k
  BY <1>1, WriteOrderPlace
<1>3. IF k < 5 THEN pc' = WriteOrder[k + 1] /\ UNCHANGED <<todo, taken, table, formatted>>
      ELSE /\ pc' = "scan" /\ taken' = Blank
           /\ formatted' = IF whole' THEN formatted \cup {d} ELSE formatted
  BY <1>2 DEF WriteOk, NextDisk
<1> QED BY <1>1, <1>3 DEF WriteOrder

(* What a write that reaches the disk changes. *)
LEMMA LandedEffect ==
  ASSUME ShapeInv, NEW d \in Disks, Landed(d)
  PROVE  /\ disk' \in [Disks -> {disk'[e] : e \in Disks}]
         /\ \A e \in Disks : /\ DOMAIN disk'[e] = DOMAIN disk[e]
                             /\ Total(e)' = Total(e) /\ Last(e)' = Last(e)
         /\ \A e \in Disks \ {d} : disk'[e] = disk[e]
         /\ \A s \in DOMAIN disk[d] :
              disk'[d][s] = IF s = Target(pc, Last(d)) THEN Contents(pc, Last(d))
                                                       ELSE disk[d][s]
<1>1. disk' \in [Disks -> {disk'[e] : e \in Disks}]
  BY DEF ShapeInv, Landed
<1>2. \A e \in Disks \ {d} : disk'[e] = disk[e]
  BY DEF ShapeInv, Landed
<1>3. disk'[d] = [s \in DOMAIN disk[d] |-> IF s = Target(pc, Last(d))
                                             THEN Contents(pc, Last(d)) ELSE disk[d][s]]
  BY DEF ShapeInv, Landed
<1>4. \A e \in Disks : DOMAIN disk'[e] = DOMAIN disk[e]
  BY <1>2, <1>3
<1> QED BY <1>1, <1>2, <1>3, <1>4 DEF Total, Last

(* What a write changes besides the disk. *)
LEMMA WriteOkEffect ==
  ASSUME ShapeInv, NEW d \in Disks, WriteOk(d)
  PROVE  /\ area' \in [Disks -> {area'[e] : e \in Disks}]
         /\ late' \in [Disks -> {late'[e] : e \in Disks}]
         /\ \A e \in Disks : area'[e] = area[e] \/ area'[e] = Contents(pc, Last(d))
         /\ \A e \in Disks \ {d} : late'[e] = late[e]
         /\ \A q \in late'[d] : q \in late[d] \/ q.kind = "out"
         /\ Driver[d] = "ahci" => late' = late
         /\ whole' /\ late[d] = {} => late'[d] = {}
         /\ whole' => whole
         /\ Landed(d) \/ (disk' = disk /\ ~whole')
         /\ UNCHANGED <<guid, orig>>
<1> DEFINE sector == Target(pc, Last(d))
           q0 == [kind |-> "out", sector |-> sector]
<1>1. q0.kind = "out"
  OBVIOUS
<1>2. /\ area' \in [Disks -> {area'[e] : e \in Disks}]
      /\ \A e \in Disks : area'[e] = area[e] \/ area'[e] = Contents(pc, Last(d))
  BY DEF WriteOk, ShapeInv
<1>3. \/ late' = late
      \/ /\ Driver[d] = "virtio" /\ ~whole'
         /\ late' = [late EXCEPT ![d] = @ \cup {q0}]
      \/ /\ Driver[d] = "virtio"
         /\ \E q \in late[d] : late' = [late EXCEPT ![d] = (@ \ {q}) \cup {q0}]
  BY DEF WriteOk, Lost, LeftLate, Refetched
<1>4. (Landed(d) \/ (disk' = disk /\ ~whole')) /\ (whole' => whole)
  BY DEF WriteOk, Lost
<1> HIDE DEF q0
<1>5. /\ late' \in [Disks -> {late'[e] : e \in Disks}]
      /\ \A e \in Disks \ {d} : late'[e] = late[e]
      /\ \A q \in late'[d] : q \in late[d] \/ q = q0
      /\ Driver[d] = "ahci" => late' = late
      /\ whole' /\ late[d] = {} => late'[d] = {}
  <2>0. late \in [Disks -> {late[e] : e \in Disks}]
    BY DEF ShapeInv
  <2>1. CASE late' = late
    BY <2>0, <2>1
  <2>2. CASE /\ Driver[d] = "virtio" /\ ~whole'
             /\ late' = [late EXCEPT ![d] = @ \cup {q0}]
    BY <2>0, <2>2
  <2>3. CASE /\ Driver[d] = "virtio"
             /\ \E q \in late[d] : late' = [late EXCEPT ![d] = (@ \ {q}) \cup {q0}]
    BY <2>0, <2>3
  <2> QED BY <1>3, <2>1, <2>2, <2>3
<1> QED BY <1>1, <1>2, <1>4, <1>5 DEF WriteOk

(* What a request that is served late changes. *)
LEMMA LateEffect ==
  ASSUME ShapeInv, NEW d \in Disks, LateServed(d)
  PROVE  /\ disk' \in [Disks -> {disk'[e] : e \in Disks}]
         /\ area' \in [Disks -> {area'[e] : e \in Disks}]
         /\ late' \in [Disks -> {late'[e] : e \in Disks}]
         /\ \A e \in Disks : late'[e] \subseteq late[e]
         /\ \A e \in Disks : DOMAIN disk'[e] = DOMAIN disk[e]
         /\ \A e \in Disks : \/ area'[e] = area[e]
                             \/ \E s \in DOMAIN disk[e] : area'[e] = disk[e][s]
         /\ \A e \in Disks : \A s \in DOMAIN disk[e] :
              disk'[e][s] = disk[e][s] \/ disk'[e][s] = area[e]
         /\ \A e \in Disks : (\A q \in late[e] : q.kind # "out") => disk'[e] = disk[e]
         /\ UNCHANGED <<pc, todo, taken, table, guid, orig, whole, formatted>>
<1>1. PICK q \in late[d] :
        /\ \/ q.kind = "in" /\ area' = [area EXCEPT ![d] = disk[d][q.sector]] /\ UNCHANGED disk
           \/ q.kind = "out" /\ disk' = [disk EXCEPT ![d][q.sector] = area[d]] /\ UNCHANGED area
           \/ UNCHANGED <<area, disk>>
        /\ late' \in {late, [late EXCEPT ![d] = @ \ {q}]}
        /\ UNCHANGED <<pc, todo, taken, table, guid, orig, whole, formatted>>
  BY DEF LateServed, scanVars, history
<1>2. /\ late' \in [Disks -> {late'[e] : e \in Disks}]
      /\ \A e \in Disks : late'[e] \subseteq late[e]
  BY <1>1 DEF ShapeInv
<1>3. /\ area' \in [Disks -> {area'[e] : e \in Disks}]
      /\ \A e \in Disks : \/ area'[e] = area[e]
                          \/ \E s \in DOMAIN disk[e] : area'[e] = disk[e][s]
  BY <1>1 DEF ShapeInv
<1>4. CASE disk' = disk
  BY <1>1, <1>2, <1>3, <1>4 DEF ShapeInv
<1>5. CASE q.kind = "out" /\ disk' = [disk EXCEPT ![d] = [@ EXCEPT ![q.sector] = area[d]]]
  <2>1. /\ disk' \in [Disks -> {disk'[e] : e \in Disks}]
        /\ \A e \in Disks \ {d} : disk'[e] = disk[e]
        /\ disk'[d] = [disk[d] EXCEPT ![q.sector] = area[d]]
    BY <1>5 DEF ShapeInv
  <2> QED BY <1>1, <1>2, <1>3, <1>5, <2>1
<1> QED BY <1>1, <1>4, <1>5

(* The shape before the first start. *)
LEMMA ShapeStart == Init => ShapeInv
<1> SUFFICES ASSUME Init PROVE ShapeInv
  OBVIOUS
<1>1. /\ disk \in [Disks -> {disk[d] : d \in Disks}]
      /\ area \in [Disks -> {area[d] : d \in Disks}]
      /\ late \in [Disks -> {late[d] : d \in Disks}]
  BY DEF Init
<1>2. ASSUME NEW d \in Disks
      PROVE  \E n \in Nat \ {0} : DOMAIN disk[d] = 0..(n - 1)
  <2>1. PICK n \in TotalSectors : disk[d] \in OldImages(n)
    BY DEF Init
  <2>2. DOMAIN disk[d] = 0..(n - 1)
    BY <2>1 DEF OldImages
  <2> QED BY <2>2, InstallerAssumption
<1> QED BY <1>1, <1>2 DEF ShapeInv, Init, ReadPc

(* Every step keeps the shape. *)
LEMMA ShapeStep == ShapeInv /\ [Next]_vars => ShapeInv'
<1> SUFFICES ASSUME ShapeInv, [Next]_vars PROVE ShapeInv'
  OBVIOUS
<1>1. ASSUME NEW d \in Disks,
             ReadFirst(d) \/ ReadPrimary(d) \/ ReadBackup(d) \/ ReadArray(d)
      PROVE  ShapeInv'
  <2>1. /\ ReadEffect
        /\ \/ pc' \in ReadPc /\ UNCHANGED <<guid, formatted>>
           \/ FormatStarts(d)
    BY <1>1, ReadSteps
  <2>2. pc' \in ReadPc \cup WritePc /\ guid' \in Nat /\ formatted' \subseteq Disks
    <3>1. guid \in Nat /\ formatted \subseteq Disks /\ "mbr" \in WritePc
      BY WriteSteps DEF ShapeInv
    <3> QED BY <2>1, <3>1 DEF FormatStarts
  <2>3. \A e \in Disks : \A q \in late'[e] : q.kind = "in" => q.sector \in DOMAIN disk[e]
    BY <2>1 DEF ReadEffect, ShapeInv
  <2> QED BY <2>1, <2>2, <2>3 DEF ReadEffect, ShapeInv
<1>2. ASSUME NEW d \in Disks, WriteOk(d)
      PROVE  ShapeInv'
  <2>1. pc' \in ReadPc \cup WritePc /\ formatted' \subseteq Disks
    <3>1. pc' \in ReadPc \cup WritePc
      BY <1>2, WriteOkAdvances, WriteSteps DEF ReadPc
    <3> QED BY <1>2, <3>1, WriteOkAdvances DEF ShapeInv
  <2>2. /\ disk' \in [Disks -> {disk'[e] : e \in Disks}]
        /\ \A e \in Disks : DOMAIN disk'[e] = DOMAIN disk[e]
    BY <1>2, WriteOkEffect, LandedEffect DEF ShapeInv
  <2>3. \A e \in Disks : \A q \in late'[e] : q.kind = "in" => q.sector \in DOMAIN disk'[e]
    BY <1>2, <2>2, WriteOkEffect DEF ShapeInv
  <2>4. \A e \in Disks : \E n \in Nat \ {0} : DOMAIN disk'[e] = 0..(n - 1)
    BY <2>2 DEF ShapeInv
  <2> QED BY <1>2, <2>1, <2>2, <2>3, <2>4, WriteOkEffect DEF ShapeInv
<1>3. ASSUME NEW d \in Disks, WriteErr(d)
      PROVE  ShapeInv'
  <2>1. /\ pc' \in ReadPc /\ UNCHANGED <<guid, area, late, formatted>>
        /\ Landed(d) \/ UNCHANGED disk
    BY <1>3 DEF WriteErr, NextDisk, ReadPc, history
  <2>2. /\ disk' \in [Disks -> {disk'[e] : e \in Disks}]
        /\ \A e \in Disks : DOMAIN disk'[e] = DOMAIN disk[e]
    BY <2>1, LandedEffect DEF ShapeInv
  <2> QED BY <2>1, <2>2 DEF ShapeInv
<1>4. ASSUME NEW d \in Disks, LateServed(d)
      PROVE  ShapeInv'
  <2>1. \A e \in Disks : \A q \in late'[e] : q.kind = "in" => q.sector \in DOMAIN disk'[e]
    BY <1>4, LateEffect DEF ShapeInv
  <2>2. \A e \in Disks : \E n \in Nat \ {0} : DOMAIN disk'[e] = 0..(n - 1)
    BY <1>4, LateEffect DEF ShapeInv
  <2> QED BY <1>4, <2>1, <2>2, LateEffect DEF ShapeInv
<1>5. CASE Restart
  <2>1. /\ pc' \in ReadPc /\ guid' = 1 /\ UNCHANGED <<disk, formatted>>
        /\ late' = [d \in Disks |-> {}]
        /\ area' = area \/ area' = [d \in Disks |-> Blank]
    BY <1>5 DEF Restart, ReadPc, history
  <2>2. /\ late' \in [Disks -> {late'[d] : d \in Disks}]
        /\ area' \in [Disks -> {area'[d] : d \in Disks}]
        /\ \A d \in Disks : late'[d] = {}
    BY <2>1 DEF ShapeInv
  <2> QED BY <2>1, <2>2 DEF ShapeInv
<1>6. CASE Stopped \/ UNCHANGED vars
  BY <1>6 DEF Stopped, vars, scanVars, history, ShapeInv
<1> QED BY <1>1, <1>2, <1>3, <1>4, <1>5, <1>6 DEF Next

-----------------------------------------------------------------------------
(* A header in which the GUIDs are those of one format. *)
OfOneFormat(entries, g) ==
  entries[2].guid = entries[1].guid + 1 /\ g = entries[1].guid + 2

WholeSector(x) ==
  x.tag = "header" => OfOneFormat(x.partition_array_crc32, x.disk_guid)

(* Every header on a disk or in a data area, and the one about to be       *)
(* written, is the header of one format.                                   *)
WholeInv ==
  /\ \A d \in Disks : /\ WholeSector(area[d])
                      /\ \A s \in DOMAIN disk[d] : WholeSector(disk[d][s])
  /\ pc \in WritePc => OfOneFormat(table.entries, table.guid)

(* What read_gpt returns comes from one header of the image: the one whose *)
(* CRC the entry array matches.                                            *)
LEMMA ReadGptOfOneFormat ==
  ASSUME NEW image, \A s \in DOMAIN image : WholeSector(image[s]), ReadGpt(image).ok
  PROVE  OfOneFormat(ReadGpt(image).entries, ReadGpt(image).disk_guid)
<1> DEFINE last    == CHOOSE n \in DOMAIN image : n + 1 \notin DOMAIN image
           primary == Content(image, Sector(1))
           header  == IF primary.tag = "header" THEN primary ELSE Content(image, Sector(last))
           array   == Content(image, Sector(header.partition_entry_lba))
<1>1. \A s : WholeSector(Content(image, s))
  BY DEF Content, WholeSector, Blank
<1>2. WholeSector(header)
  <2> HIDE DEF last
  <2> QED BY <1>1
<1>3. ReadGpt(image) = IF header.tag # "header" THEN NoGpt ELSE Accept(header, array)
  BY DEF ReadGpt
<1> HIDE DEF header, array
<1>4. /\ header.tag = "header"
      /\ array = EntryArray(header.partition_array_crc32)
      /\ ReadGpt(image) =
           [ok |-> TRUE, disk_guid |-> header.disk_guid, entries |-> array.entries]
  BY <1>3 DEF NoGpt, Accept
<1>5. array.entries = header.partition_array_crc32
  BY <1>4 DEF EntryArray
<1> QED BY <1>2, <1>4, <1>5 DEF WholeSector

(* The GUIDs drawn by one format_disk are consecutive. *)
LEMMA NewTableOfOneFormat ==
  ASSUME NEW total, NEW g \in Nat
  PROVE  OfOneFormat(NewTable(total, g).entries, NewTable(total, g).guid)
BY DEF NewTable, Entries, OfOneFormat

(* Every sector that write_gpt writes is blank of headers or holds one     *)
(* with the table of this format.                                          *)
LEMMA ContentsWhole ==
  ASSUME NEW step \in WritePc, NEW last, OfOneFormat(table.entries, table.guid)
  PROVE  WholeSector(Contents(step, last))
<1>1. step \in {"mbr", "entries", "backup_entries", "header", "backup_header"}
  BY DEF WritePc, WriteOrder
<1> QED
  BY <1>1 DEF Contents, WholeSector, ProtectiveMbr, EntryArray, PrimaryHeader,
              BackupHeader, Header

(* Before the first start every header is one of an earlier format. *)
LEMMA WholeStart == Init => WholeInv
<1> SUFFICES ASSUME Init PROVE WholeInv
  OBVIOUS
<1>1. WholeSector(Blank) /\ WholeSector(BootSector)
  BY DEF WholeSector, Blank, BootSector
<1>2. ASSUME NEW d \in Disks
      PROVE  \A s \in DOMAIN disk[d] : WholeSector(disk[d][s])
  <2>1. PICK n \in TotalSectors : disk[d] \in OldImages(n)
    BY DEF Init
  <2> DEFINE old     == IF HasRoom(n) THEN {NewTable(n, g) : g \in OldGuids} ELSE {}
             headers == {PrimaryHeader(n - 1, t.entries, t.guid) : t \in old}
             arrays  == {EntryArray(t.entries) : t \in old}
             image(first, header, array) ==
               [s \in 0..(n - 1) |-> IF s = 0 THEN first
                                     ELSE IF s = Sector(1) THEN header
                                     ELSE IF s = Sector(2) THEN array
                                     ELSE Blank]
  <2>2. PICK first \in {Blank, BootSector}, header \in headers \cup {Blank},
             array \in arrays \cup {Blank} : disk[d] = image(first, header, array)
    <3>1. OldImages(n) = {image(first, header, array) :
                            first \in {Blank, BootSector}, header \in headers \cup {Blank},
                            array \in arrays \cup {Blank}}
      BY DEF OldImages
    <3> HIDE DEF image, headers, arrays
    <3> QED BY <2>1, <3>1
  <2>3. WholeSector(header)
    <3>1. ASSUME NEW t \in old PROVE WholeSector(PrimaryHeader(n - 1, t.entries, t.guid))
      <4>1. PICK g \in OldGuids : t = NewTable(n, g)
        OBVIOUS
      <4>2. OfOneFormat(t.entries, t.guid)
        BY <4>1, NewTableOfOneFormat, InstallerAssumption
      <4> QED BY <4>2 DEF WholeSector, PrimaryHeader, Header
    <3> QED BY <1>1, <3>1
  <2>4. WholeSector(array)
    BY <1>1 DEF WholeSector, EntryArray
  <2> HIDE DEF headers, arrays
  <2> QED BY <2>2, <1>1, <2>3, <2>4
<1>3. pc \notin WritePc
  BY DEF Init, WritePc, WriteOrder
<1> QED BY <1>1, <1>2, <1>3 DEF WholeInv, Init

(* A sector that is landed carries what was checked before. *)
LEMMA WholeLanded ==
  ASSUME ShapeInv, WholeInv, NEW d \in Disks, Writing(d), Landed(d)
  PROVE  \A e \in Disks : \A s \in DOMAIN disk'[e] : WholeSector(disk'[e][s])
<1>1. WholeSector(Contents(pc, Last(d)))
  BY ContentsWhole DEF WholeInv, Writing
<1> QED BY <1>1, LandedEffect DEF WholeInv

(* Every step keeps headers whole. *)
LEMMA WholeStep == ShapeInv /\ WholeInv /\ [Next]_vars => WholeInv'
<1> SUFFICES ASSUME ShapeInv, WholeInv, [Next]_vars PROVE WholeInv'
  OBVIOUS
<1>0. "scan" \notin WritePc /\ ReadPc \cap WritePc = {}
  BY DEF WritePc, WriteOrder, ReadPc
<1>1. ASSUME NEW d \in Disks,
             ReadFirst(d) \/ ReadPrimary(d) \/ ReadBackup(d) \/ ReadArray(d)
      PROVE  WholeInv'
  <2>1. /\ ReadEffect
        /\ \/ pc' \in ReadPc /\ UNCHANGED <<guid, formatted>>
           \/ FormatStarts(d)
    BY <1>1, ReadSteps
  <2>2. pc' \in WritePc => OfOneFormat(table'.entries, table'.guid)
    BY <1>0, <2>1, NewTableOfOneFormat DEF FormatStarts, ShapeInv
  <2> QED BY <2>1, <2>2 DEF ReadEffect, WholeInv
<1>2. ASSUME NEW d \in Disks, WriteOk(d)
      PROVE  WholeInv'
  <2>1. Writing(d) /\ pc \in WritePc /\ OfOneFormat(table.entries, table.guid)
    BY <1>2 DEF WriteOk, Writing, WholeInv
  <2>2. WholeSector(Contents(pc, Last(d)))
    BY <2>1, ContentsWhole
  <2>3. \A e \in Disks : WholeSector(area'[e])
    BY <1>2, <2>2, WriteOkEffect DEF WholeInv
  <2>4. \A e \in Disks : \A s \in DOMAIN disk'[e] : WholeSector(disk'[e][s])
    <3>1. CASE Landed(d)
      BY <2>1, <3>1, WholeLanded
    <3>2. CASE disk' = disk
      BY <3>2 DEF WholeInv
    <3> QED BY <1>2, <3>1, <3>2, WriteOkEffect
  <2>5. pc' \in WritePc => OfOneFormat(table'.entries, table'.guid)
    BY <1>0, <1>2, <2>1, WriteOkAdvances
  <2> QED BY <2>3, <2>4, <2>5 DEF WholeInv
<1>3. ASSUME NEW d \in Disks, WriteErr(d)
      PROVE  WholeInv'
  <2>1. Writing(d) /\ pc' = "scan" /\ UNCHANGED area /\ (Landed(d) \/ UNCHANGED disk)
    BY <1>3 DEF WriteErr, NextDisk
  <2>2. \A e \in Disks : \A s \in DOMAIN disk'[e] : WholeSector(disk'[e][s])
    BY <2>1, WholeLanded DEF WholeInv
  <2> QED BY <1>0, <2>1, <2>2 DEF WholeInv
<1>4. ASSUME NEW d \in Disks, LateServed(d)
      PROVE  WholeInv'
  <2>1. \A e \in Disks : WholeSector(area'[e])
    BY <1>4, LateEffect DEF WholeInv
  <2>2. \A e \in Disks : \A s \in DOMAIN disk'[e] : WholeSector(disk'[e][s])
    BY <1>4, LateEffect DEF WholeInv
  <2> QED BY <1>4, <2>1, <2>2, LateEffect DEF WholeInv
<1>5. CASE Restart
  <2>1. /\ pc' = "scan" /\ UNCHANGED disk
        /\ area' = area \/ area' = [d \in Disks |-> Blank]
    BY <1>5 DEF Restart
  <2>2. WholeSector(Blank)
    BY DEF WholeSector, Blank
  <2> QED BY <1>0, <2>1, <2>2 DEF WholeInv
<1>6. CASE Stopped \/ UNCHANGED vars
  BY <1>6 DEF Stopped, vars, scanVars, history, WholeInv
<1> QED BY <1>1, <1>2, <1>3, <1>4, <1>5, <1>6 DEF Next

(* NoTornTable, for disks of every size and content, with sectors lost,    *)
(* late, misplaced or cut off by a power loss anywhere: what read_gpt      *)
(* accepts is the table of one format, because every header is that of one *)
(* format and the CRC ties the entries to it.                              *)
THEOREM InstallerNoTornTable == Spec => []NoTornTable
<1>1. WholeInv => NoTornTable
  <2> SUFFICES ASSUME WholeInv, NEW d \in Disks, ReadGpt(disk[d]).ok
               PROVE  OfOneFormat(ReadGpt(disk[d]).entries, ReadGpt(disk[d]).disk_guid)
    BY DEF NoTornTable, OfOneFormat
  <2> QED BY ReadGptOfOneFormat DEF WholeInv
<1> QED BY <1>1, ShapeStart, ShapeStep, WholeStart, WholeStep, PTL DEF Spec

-----------------------------------------------------------------------------
(* The primary header and the entries of a format, where read_gpt looks    *)
(* for them.                                                               *)
Holds(d, entries, g) ==
  /\ disk[d][Sector(1)] = PrimaryHeader(Last(d), entries, g)
  /\ disk[d][Sector(2)] = EntryArray(entries)

(* A disk formatted without a loss: nothing outstanding will write to it.  *)
Formatted(d) ==
  /\ HasRoom(Total(d))
  /\ \E g : Holds(d, Entries(Total(d), 0, g), g + 2)
  /\ \A q \in late[d] : q.kind # "out"

(* How far write_gpt has come, if it has lost nothing. *)
Progress(d) ==
  /\ d \notin formatted
  /\ HasRoom(Total(d))
  /\ \E g : table = NewTable(Total(d), g)
  /\ whole => late[d] = {}
  /\ whole /\ pc \in {"backup_entries", "header", "backup_header"} =>
       disk[d][Sector(2)] = EntryArray(table.entries)
  /\ whole /\ pc = "backup_header" =>
       disk[d][Sector(1)] = PrimaryHeader(Last(d), table.entries, table.guid)

ReadBackInv ==
  /\ \A d \in formatted : Formatted(d)
  /\ \A d \in Disks : Writing(d) => Progress(d)

(* num_blocks() is the number of sectors. *)
LEMMA TotalIsSize ==
  ASSUME NEW d, NEW n \in Nat \ {0}, DOMAIN disk[d] = 0..(n - 1)
  PROVE  Total(d) = n /\ Last(d) = n - 1
<1> DEFINE m == n - 1
<1>1. 0 \in Int /\ m \in Int /\ ~(0 > m) /\ m - 0 + 1 = n
  OBVIOUS
<1> HIDE DEF m
<1>2. Cardinality(0..m) = IF 0 > m THEN 0 ELSE m - 0 + 1
  BY <1>1, FS_Interval, Zenon
<1>3. Cardinality(0..m) = n
  BY <1>1, <1>2, Zenon
<1> QED BY <1>3 DEF Total, Last, m

(* Different LBAs are different sectors. *)
LEMMA SectorInjective ==
  ASSUME NEW a \in Nat, NEW b \in Nat, a < b
  PROVE  Sector(a) < Sector(b) /\ Sector(a) \in Nat /\ Sector(b) \in Nat
<1>1. \A x, y, z \in Nat : x < y /\ z > 0 => x * z < y * z
  OBVIOUS
<1> QED BY <1>1, GptAssumption DEF Sector

(* On a disk with room, the primary header and entries are on the disk,    *)
(* and the backup does not fall on them.                                   *)
LEMMA SectorsApart ==
  ASSUME NEW n \in Nat, HasRoom(n)
  PROVE  /\ 0 < Sector(1) /\ Sector(1) < Sector(2) /\ Sector(2) < n
         /\ Sector(2) < Sector(BackupEntriesLba(n - 1))
         /\ Sector(2) < Sector(n - 1)
         /\ Sector(1) \in Nat /\ Sector(2) \in Nat
<1>1. BackupEntriesLba(n - 1) \in Nat /\ 2 < BackupEntriesLba(n - 1)
  BY GptAssumption DEF HasRoom, BackupEntriesLba
<1>2. n - 1 \in Nat /\ 2 < n - 1
  BY GptAssumption DEF HasRoom
<1>3. Sector(2) < n
  BY GptAssumption, PrimaryFitsAssumption DEF HasRoom, Sector
<1>4. Sector(0) = 0
  BY GptAssumption DEF Sector
<1> QED BY <1>1, <1>2, <1>3, <1>4, SectorInjective

(* read_gpt accepts a formatted disk and returns its entries. *)
LEMMA FormattedReads ==
  ASSUME NEW d \in Disks, NEW n \in Nat \ {0}, DOMAIN disk[d] = 0..(n - 1), Formatted(d)
  PROVE  LET gpt == ReadGpt(disk[d])
         IN gpt.ok /\ SoundLayout(gpt.entries, Total(d))
<1>1. Total(d) = n /\ Last(d) = n - 1
  BY TotalIsSize
<1>2. PICK g : Holds(d, Entries(n, 0, g), g + 2)
  BY <1>1 DEF Formatted
<1> DEFINE e == Entries(n, 0, g)
           image == disk[d]
           last    == CHOOSE m \in DOMAIN image : m + 1 \notin DOMAIN image
           primary == Content(image, Sector(1))
           header  == IF primary.tag = "header" THEN primary ELSE Content(image, Sector(last))
           array   == Content(image, Sector(header.partition_entry_lba))
<1>3. Sector(1) \in DOMAIN image /\ Sector(2) \in DOMAIN image
  BY <1>1, SectorsApart DEF Formatted
<1>4. primary = PrimaryHeader(n - 1, e, g + 2)
  BY <1>1, <1>2, <1>3 DEF Content, Holds
<1>5. header = PrimaryHeader(n - 1, e, g + 2)
  <2> HIDE DEF primary, last, e
  <2> QED BY <1>4 DEF PrimaryHeader, Header
<1>6. /\ header.tag = "header" /\ header.partition_entry_lba = 2
      /\ header.partition_array_crc32 = e
  <2> HIDE DEF header, e
  <2> QED BY <1>5 DEF PrimaryHeader, Header
<1>7. array = EntryArray(e)
  <2> HIDE DEF header
  <2> QED BY <1>2, <1>3, <1>6 DEF Content, Holds
<1>8. ReadGpt(image) = IF header.tag # "header" THEN NoGpt ELSE Accept(header, array)
  BY DEF ReadGpt
<1>9. ReadGpt(image).ok /\ ReadGpt(image).entries = e
  <2> HIDE DEF header, array, e
  <2> QED BY <1>6, <1>7, <1>8 DEF EntryArray, Accept
<1>10. SoundLayout(e, n)
  BY <1>1, FormatLayoutSound DEF Formatted
<1> QED BY <1>1, <1>9, <1>10

(* What a disk holds depends on the disk and its outstanding requests. *)
LEMMA FormattedKept ==
  ASSUME NEW d \in Disks, Formatted(d), disk'[d] = disk[d],
         \A q \in late'[d] : q.kind # "out"
  PROVE  Formatted(d)'
<1>1. Total(d)' = Total(d) /\ Last(d)' = Last(d)
  BY DEF Total, Last
<1>2. ASSUME NEW g, Holds(d, Entries(Total(d), 0, g), g + 2)
      PROVE  Holds(d, Entries(Total(d), 0, g), g + 2)'
  BY <1>1, <1>2 DEF Holds
<1> QED BY <1>1, <1>2 DEF Formatted

(* Nothing is formatted before the first start. *)
LEMMA ReadBackStart == Init => ReadBackInv
BY WriteSteps DEF Init, ReadBackInv, Writing

(* A write after which write_gpt goes on: what it wrote before is kept,    *)
(* since its targets are different sectors.                                *)
LEMMA ProgressKept ==
  ASSUME ShapeInv, ReadBackInv, NEW d \in Disks, WriteOk(d)
  PROVE  /\ pc' \in WritePc => Progress(d)'
         /\ pc' = "scan" /\ whole' => Formatted(d)'
<1>0. Writing(d) /\ Progress(d) /\ (Landed(d) \/ (disk' = disk /\ ~whole'))
  BY WriteOkEffect DEF WriteOk, ReadBackInv
<1>1. PICK n \in Nat \ {0} : DOMAIN disk[d] = 0..(n - 1)
  BY DEF ShapeInv
<1>2. Total(d) = n /\ Last(d) = n - 1
  BY <1>1, TotalIsSize
<1>2a. Total(d)' = n /\ Last(d)' = n - 1
  BY <1>0, <1>2, LandedEffect DEF Total, Last
<1>3. HasRoom(n) /\ d \notin formatted
  BY <1>0, <1>2 DEF Progress
<1>4. PICK g : table = NewTable(n, g)
  BY <1>0, <1>2 DEF Progress
<1>5. table.entries = Entries(n, 0, g) /\ table.guid = g + 2
  BY <1>4 DEF NewTable
<1>6. whole' => whole /\ late[d] = {} /\ late'[d] = {}
  BY <1>0, WriteOkEffect DEF Progress
<1> DEFINE image == disk[d]
           next == disk'[d]
<1>7. /\ 0 \in DOMAIN image /\ Sector(1) \in DOMAIN image /\ Sector(2) \in DOMAIN image
      /\ 0 # Sector(1) /\ 0 # Sector(2) /\ Sector(1) # Sector(2)
      /\ Sector(BackupEntriesLba(n - 1)) \notin {0, Sector(1), Sector(2)}
      /\ Sector(n - 1) \notin {0, Sector(1), Sector(2)}
  BY <1>1, <1>3, SectorsApart DEF Sector, BackupEntriesLba
<1>8. whole' => \A s \in {0, Sector(1), Sector(2)} :
        next[s] = IF s = Target(pc, n - 1) THEN Contents(pc, n - 1) ELSE image[s]
  BY <1>0, <1>2, <1>7, LandedEffect
<1>9. CASE pc \in {"mbr", "entries", "backup_entries", "header"}
  <2>1. /\ UNCHANGED <<table, formatted>> /\ pc' # "scan"
        /\ pc = "mbr" => pc' = "entries"
        /\ pc = "entries" => pc' = "backup_entries"
        /\ pc = "backup_entries" => pc' = "header"
        /\ pc = "header" => pc' = "backup_header"
    BY <1>9, WriteOkAdvances
  <2>2. whole' /\ pc' \in {"backup_entries", "header", "backup_header"} =>
          next[Sector(2)] = EntryArray(table.entries)
    <3> SUFFICES ASSUME whole', pc' \in {"backup_entries", "header", "backup_header"}
                 PROVE  next[Sector(2)] = EntryArray(table.entries)
      OBVIOUS
    <3>1. CASE pc = "entries"
      BY <3>1, <1>8 DEF Target, Contents
    <3>2. CASE pc \in {"backup_entries", "header"}
      <4>1. image[Sector(2)] = EntryArray(table.entries)
        BY <1>0, <1>6, <3>2 DEF Progress
      <4>2. Target(pc, n - 1) # Sector(2)
        BY <1>7, <3>2 DEF Target
      <4> QED BY <1>8, <4>1, <4>2
    <3> QED BY <1>9, <2>1, <3>1, <3>2
  <2>3. whole' /\ pc' = "backup_header" =>
          next[Sector(1)] = PrimaryHeader(n - 1, table.entries, table.guid)
    <3>1. pc' = "backup_header" => pc = "header"
      BY <1>9, <2>1
    <3> QED BY <1>8, <3>1 DEF Target, Contents
  <2> QED BY <1>2a, <1>3, <1>4, <1>6, <2>1, <2>2, <2>3 DEF Progress
<1>10. CASE pc = "backup_header"
  <2>1. pc' = "scan" /\ "scan" \notin WritePc
    BY <1>10, WriteOkAdvances, WriteSteps
  <2> SUFFICES ASSUME whole' PROVE Formatted(d)'
    BY <2>1
  <2>2. /\ image[Sector(2)] = EntryArray(table.entries)
        /\ image[Sector(1)] = PrimaryHeader(n - 1, table.entries, table.guid)
    BY <1>0, <1>2, <1>6, <1>10 DEF Progress
  <2>3. Target(pc, n - 1) \notin {Sector(1), Sector(2)}
    BY <1>7, <1>10 DEF Target
  <2>4. /\ next[Sector(2)] = EntryArray(table.entries)
        /\ next[Sector(1)] = PrimaryHeader(n - 1, table.entries, table.guid)
    BY <1>8, <2>2, <2>3
  <2>5. Holds(d, Entries(n, 0, g), g + 2)'
    BY <1>2a, <1>5, <2>4 DEF Holds
  <2> QED BY <1>2a, <1>3, <1>6, <2>5 DEF Formatted
<1> QED BY <1>0, <1>9, <1>10, WriteSteps DEF Writing

(* Every step keeps the invariant. *)
LEMMA ReadBackStep == ShapeInv /\ ReadBackInv /\ [Next]_vars => ReadBackInv'
<1> SUFFICES ASSUME ShapeInv, ReadBackInv, [Next]_vars PROVE ReadBackInv'
  OBVIOUS
<1>0. "scan" \notin WritePc /\ ReadPc \cap WritePc = {}
  BY WriteSteps DEF ReadPc
<1>1. ASSUME NEW d \in Disks,
             ReadFirst(d) \/ ReadPrimary(d) \/ ReadBackup(d) \/ ReadArray(d)
      PROVE  ReadBackInv'
  <2>1. /\ ReadEffect
        /\ \/ pc' \in ReadPc /\ UNCHANGED <<guid, formatted>>
           \/ FormatStarts(d)
    BY <1>1, ReadSteps
  <2>2. ASSUME NEW e \in formatted PROVE Formatted(e)'
    <3>1. e \in Disks /\ Formatted(e)
      BY DEF ShapeInv, ReadBackInv
    <3>2. disk'[e] = disk[e] /\ \A q \in late'[e] : q.kind # "out"
      BY <2>1, <3>1 DEF ReadEffect, Formatted
    <3> QED BY <3>1, <3>2, FormattedKept
  <2>3. CASE pc' \in ReadPc /\ UNCHANGED <<guid, formatted>>
    BY <1>0, <2>2, <2>3 DEF ReadBackInv, Writing
  <2>4. CASE FormatStarts(d)
    <3>1. Total(d)' = Total(d)
      BY <2>1 DEF ReadEffect, Total
    <3>2. Progress(d)'
      BY <2>4, <3>1 DEF FormatStarts, Progress
    <3>3. \A e \in Disks : Writing(e)' => e = d
      BY <2>4 DEF FormatStarts, Writing
    <3>4. formatted' \subseteq formatted
      BY <2>4 DEF FormatStarts
    <3> QED BY <2>2, <3>2, <3>3, <3>4 DEF ReadBackInv
  <2> QED BY <2>1, <2>3, <2>4
<1>2. ASSUME NEW d \in Disks, WriteOk(d)
      PROVE  ReadBackInv'
  <2>1. Writing(d) /\ d \notin formatted
    BY <1>2 DEF WriteOk, ReadBackInv, Progress
  <2>2. ASSUME NEW e \in formatted PROVE Formatted(e)'
    <3>1. e \in Disks \ {d} /\ Formatted(e)
      BY <2>1 DEF ShapeInv, ReadBackInv
    <3>2. disk'[e] = disk[e] /\ late'[e] = late[e]
      BY <1>2, <3>1, WriteOkEffect, LandedEffect
    <3> QED BY <3>1, <3>2, FormattedKept DEF Formatted
  <2>3. /\ pc' \in WritePc => UNCHANGED <<todo, formatted>>
        /\ pc' \in WritePc \/ pc' = "scan"
        /\ formatted' = formatted \/ (pc' = "scan" /\ whole' /\ formatted' = formatted \cup {d})
    BY <1>0, <1>2, WriteOkAdvances, WriteSteps
  <2>4. \A e \in formatted' : Formatted(e)'
    BY <1>2, <2>2, <2>3, ProgressKept
  <2>5. \A e \in Disks : Writing(e)' => Progress(e)'
    BY <1>2, <2>1, <2>3, ProgressKept DEF Writing
  <2> QED BY <2>4, <2>5 DEF ReadBackInv
<1>3. ASSUME NEW d \in Disks, WriteErr(d)
      PROVE  ReadBackInv'
  <2>1. /\ Writing(d) /\ d \notin formatted /\ pc' = "scan"
        /\ UNCHANGED <<late, formatted>> /\ (Landed(d) \/ UNCHANGED disk)
    BY <1>3 DEF WriteErr, NextDisk, history, ReadBackInv, Progress
  <2>2. ASSUME NEW e \in formatted PROVE Formatted(e)'
    <3>1. e \in Disks \ {d} /\ Formatted(e)
      BY <2>1 DEF ShapeInv, ReadBackInv
    <3>2. disk'[e] = disk[e] /\ late'[e] = late[e]
      BY <2>1, <3>1, LandedEffect
    <3> QED BY <3>1, <3>2, FormattedKept DEF Formatted
  <2> QED BY <1>0, <2>1, <2>2 DEF ReadBackInv, Writing
<1>4. ASSUME NEW d \in Disks, LateServed(d)
      PROVE  ReadBackInv'
  <2>1. ASSUME NEW e \in formatted PROVE Formatted(e)'
    <3>1. e \in Disks /\ Formatted(e)
      BY DEF ShapeInv, ReadBackInv
    <3>2. disk'[e] = disk[e] /\ \A q \in late'[e] : q.kind # "out"
      BY <1>4, <3>1, LateEffect DEF Formatted
    <3> QED BY <3>1, <3>2, FormattedKept
  <2>2. ASSUME NEW e \in Disks, Writing(e)' PROVE Progress(e)'
    <3>1. Writing(e) /\ Progress(e)
      BY <1>4, <2>2, LateEffect DEF Writing, ReadBackInv
    <3>2. Total(e)' = Total(e) /\ Last(e)' = Last(e)
      BY <1>4, LateEffect DEF Total, Last
    <3>3. whole => late'[e] = {} /\ disk'[e] = disk[e]
      BY <1>4, <3>1, LateEffect DEF Progress
    <3>4. UNCHANGED <<pc, table, whole, formatted>>
      BY <1>4, LateEffect
    <3> QED BY <3>1, <3>2, <3>3, <3>4 DEF Progress
  <2> QED BY <1>4, <2>1, <2>2, LateEffect DEF ReadBackInv
<1>5. CASE Restart
  <2>1. /\ pc' = "scan" /\ UNCHANGED <<disk, formatted>>
        /\ \A d \in Disks : late'[d] = {}
    BY <1>5 DEF Restart, history
  <2>2. ASSUME NEW e \in formatted PROVE Formatted(e)'
    BY <2>1, FormattedKept DEF ShapeInv, ReadBackInv
  <2> QED BY <1>0, <2>1, <2>2 DEF ReadBackInv, Writing
<1>6. CASE Stopped \/ UNCHANGED vars
  <2>1. UNCHANGED vars
    BY <1>6 DEF Stopped
  <2>2. \A e : (Formatted(e)' <=> Formatted(e)) /\ (Writing(e)' <=> Writing(e))
               /\ (Progress(e)' <=> Progress(e))
    BY <2>1 DEF vars, scanVars, history, Formatted, Writing, Progress, Holds, Total, Last
  <2> QED BY <2>1, <2>2 DEF vars, history, ReadBackInv
<1> QED BY <1>1, <1>2, <1>3, <1>4, <1>5, <1>6 DEF Next

(* FormatReadsBack, for every set of disks, every content, every disk size *)
(* and any number of starts, power losses and late requests: a disk for    *)
(* which format_disk returned Ok with every write served is read back by   *)
(* read_gpt with the partitions laid out.  A write that the device refuses *)
(* or serves late is not excluded: it makes the format one that the        *)
(* theorem does not speak of, and it must not damage the other disks.      *)
THEOREM InstallerFormatReadsBack == Spec => []FormatReadsBack
<1>1. ShapeInv /\ ReadBackInv => FormatReadsBack
  <2> SUFFICES ASSUME ShapeInv, ReadBackInv, NEW d \in formatted
               PROVE  LET gpt == ReadGpt(disk[d])
                      IN gpt.ok /\ SoundLayout(gpt.entries, Total(d))
    BY DEF FormatReadsBack
  <2>1. d \in Disks /\ Formatted(d)
    BY DEF ShapeInv, ReadBackInv
  <2>2. PICK n \in Nat \ {0} : DOMAIN disk[d] = 0..(n - 1)
    BY <2>1 DEF ShapeInv
  <2> QED BY <2>1, <2>2, FormattedReads
<1> QED BY <1>1, ShapeStart, ShapeStep, ReadBackStart, ReadBackStep, PTL DEF Spec

-----------------------------------------------------------------------------
(* AHCI disks have nothing outstanding, and write_gpt gets no further than *)
(* the entries on them.                                                    *)
AhciInv ==
  \A d \in Disks : Driver[d] = "ahci" =>
    /\ late[d] = {}
    /\ Writing(d) => pc \in {"mbr", "entries"}
    /\ \A s \in DOMAIN disk[d] \ {0} : disk[d][s] = orig[d][s]

(* Every step keeps it. *)
LEMMA AhciStep == ShapeInv /\ AhciInv /\ [Next]_vars => AhciInv'
<1> SUFFICES ASSUME ShapeInv, AhciInv, [Next]_vars PROVE AhciInv'
  OBVIOUS
<1>0. "scan" \notin WritePc /\ ReadPc \cap WritePc = {}
  BY WriteSteps DEF ReadPc
<1>1. ASSUME NEW d \in Disks,
             ReadFirst(d) \/ ReadPrimary(d) \/ ReadBackup(d) \/ ReadArray(d)
      PROVE  AhciInv'
  <2>1. /\ ReadEffect /\ UNCHANGED orig
        /\ \/ pc' \in ReadPc /\ UNCHANGED <<guid, formatted>>
           \/ FormatStarts(d)
    BY <1>1, ReadSteps
  <2> QED BY <1>0, <2>1 DEF ReadEffect, FormatStarts, Writing, AhciInv
<1>2. ASSUME NEW d \in Disks, NEW e \in Disks, Driver[e] = "ahci", Writing(d),
             Landed(d), d = e => pc = "mbr"
      PROVE  \A s \in DOMAIN disk'[e] \ {0} : disk'[e][s] = orig[e][s]
  <2>1. CASE d # e
    BY <1>2, <2>1, LandedEffect DEF AhciInv
  <2>2. CASE d = e
    <3>1. Target(pc, Last(d)) = 0
      BY <1>2, <2>2 DEF Target
    <3> QED BY <1>2, <2>2, <3>1, LandedEffect DEF AhciInv
  <2> QED BY <2>1, <2>2
<1>3. ASSUME NEW d \in Disks, WriteOk(d), NEW e \in Disks, Driver[e] = "ahci"
      PROVE  /\ late'[e] = {}
             /\ Writing(e)' => pc' \in {"mbr", "entries"}
             /\ \A s \in DOMAIN disk'[e] \ {0} : disk'[e][s] = orig'[e][s]
  <2>1. Writing(d) /\ UNCHANGED orig /\ late'[e] = {}
    BY <1>3, WriteOkEffect DEF WriteOk, AhciInv
  <2>2. d = e => pc = "mbr"
    BY <1>3, <2>1 DEF WriteOk, Refused, Short, AhciInv
  <2>3. \A s \in DOMAIN disk'[e] \ {0} : disk'[e][s] = orig[e][s]
    <3>1. CASE Landed(d)
      BY <1>2, <1>3, <2>1, <2>2, <3>1
    <3>2. CASE disk' = disk
      BY <1>3, <3>2 DEF AhciInv
    <3> QED BY <1>3, <3>1, <3>2, WriteOkEffect
  <2>4. Writing(e)' => pc' \in {"mbr", "entries"}
    <3>1. CASE d = e
      BY <1>0, <1>3, <2>2, <3>1, WriteOkAdvances DEF Writing
    <3>2. CASE d # e
      BY <1>0, <1>3, <2>1, <3>2, WriteOkAdvances DEF Writing
    <3> QED BY <3>1, <3>2
  <2> QED BY <2>1, <2>3, <2>4
<1>4. ASSUME NEW d \in Disks, WriteErr(d), NEW e \in Disks, Driver[e] = "ahci"
      PROVE  /\ late'[e] = {}
             /\ Writing(e)' => pc' \in {"mbr", "entries"}
             /\ \A s \in DOMAIN disk'[e] \ {0} : disk'[e][s] = orig'[e][s]
  <2>1. /\ Writing(d) /\ UNCHANGED <<orig, late>> /\ pc' = "scan"
        /\ UNCHANGED disk \/ (~Refused(d) /\ Landed(d))
        /\ Driver[d] = "ahci"
    BY <1>4 DEF WriteErr, NextDisk, history
  <2>2. ~Refused(d) /\ d = e => pc = "mbr"
    BY <2>1 DEF Refused, Short, AhciInv
  <2>3. \A s \in DOMAIN disk'[e] \ {0} : disk'[e][s] = orig[e][s]
    BY <1>2, <1>4, <2>1, <2>2 DEF AhciInv
  <2> QED BY <1>0, <1>4, <2>1, <2>3 DEF Writing, AhciInv
<1>5. ASSUME NEW d \in Disks, LateServed(d)
      PROVE  AhciInv'
  <2>1. \A e \in Disks : Driver[e] = "ahci" => disk'[e] = disk[e] /\ late'[e] = {}
    BY <1>5, LateEffect DEF AhciInv
  <2>2. UNCHANGED <<pc, todo, orig>>
    BY <1>5, LateEffect
  <2> QED BY <2>1, <2>2 DEF Writing, AhciInv
<1>6. CASE Restart
  BY <1>0, <1>6 DEF Restart, history, Writing, AhciInv
<1>7. CASE Stopped \/ UNCHANGED vars
  BY <1>7 DEF Stopped, vars, scanVars, history, Writing, AhciInv
<1> QED
  <2>1. ASSUME NEW d \in Disks, WriteOk(d) \/ WriteErr(d) PROVE AhciInv'
    BY <1>3, <1>4, <2>1 DEF AhciInv
  <2> QED BY <1>1, <1>5, <1>6, <1>7, <2>1 DEF Next

(* AhciLosesMbrOnly, for every set of disks, every content, every failing  *)
(* read or write and any number of starts: the format of an AHCI disk      *)
(* stops at the entries, whose buffer the driver refuses, so that it costs *)
(* the disk sector 0 and no other.                                         *)
THEOREM InstallerAhciLosesMbrOnly == Spec => []AhciLosesMbrOnly
<1>1. Init => AhciInv
  BY WriteSteps DEF Init, AhciInv, Writing
<1>2. AhciInv => AhciLosesMbrOnly
  BY DEF AhciInv, AhciLosesMbrOnly
<1> QED BY <1>1, <1>2, ShapeStart, ShapeStep, AhciStep, PTL DEF Spec
==============================================================================
