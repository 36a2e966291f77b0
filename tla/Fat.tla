---------------------------------- MODULE Fat ----------------------------------
(***************************************************************************)
(* fat.c, vfs.c and mbr.c as kernel_main uses them at boot: find the first *)
(* partition that mounts and log its root directory.  Every sector is read *)
(* by a call of ata_read28 that may fail.  Sector addresses are words of   *)
(* Word values (2^32), of which the disk sees those below Lba28 (2^28).    *)
(***************************************************************************)
EXTENDS Integers, Sequences, SequencesExt

CONSTANTS
  Word, Lba28,
  SectorSize,       \* 512; the modelled volumes have sectors of this size
  Min16, Min32,     \* cluster counts from which a volume is FAT16, FAT32
  EndOfChain,       \* 0x0FFFFFF8
  Disks             \* [valid, parts, boot, dir, fat]: sector 0's signature and
                    \* partitions, and sectors by address as a boot sector, as
                    \* directory entries, and as FAT32 entries by offset

DirEntrySize == 32
EntrySize == 4                 \* of the FAT of a FAT32 volume

VARIABLES
  disk,             \* the disk
  pc,               \* "ata", "mbr", "part", "mount", "root16", "root32",
                    \* "chain", "ui": the loop or read kernel_main is at
  part,             \* index of the partition
  fat, fat_mounted, \* vfs.c
  row,              \* the sector within the root directory or the cluster
  cluster,
  logged,           \* names log_entry has printed
  complete          \* ghost: fat_list_root returned 1

vars == <<disk, pc, part, fat, fat_mounted, row, cluster, logged, complete>>

NoFs == [part_lba |-> 0]

-----------------------------------------------------------------------------
(* Reading *)

Wrap(n) == n % Word

\* ata_read28 sends 28 bits of the address.
Sent(lba) == Wrap(lba) % Lba28

\* What a read may give: nothing, or the sector of an address.
Failure == [ok |-> FALSE, sector |-> 0]
Answers(lba) == {Failure, [ok |-> TRUE, sector |-> Sent(lba)]}

\* The sector r gave, as one of the disk's tables has it.
Sector(table, r, unknown) ==
  IF r.sector \in DOMAIN table THEN table[r.sector] ELSE unknown

\* A sector that is not part of a directory: its bytes look like some file's.
Junk == <<[mark |-> "file", name |-> "junk"]>>
NotBoot == [bytes_per_sector |-> 0, sectors_per_cluster |-> 0]

\* An end mark ends a directory.
Ends(entries) == {i \in DOMAIN entries : entries[i].mark = "end"}
HasEnd(entries) == Ends(entries) # {}
FirstEnd(entries) == CHOOSE i \in Ends(entries) : \A j \in Ends(entries) : i <= j
Used(entries) == IF HasEnd(entries) THEN FirstEnd(entries) - 1 ELSE Len(entries)

\* The names among the first entries, by their number: those that are neither
\* deleted nor part of a long name.
Skipped(entry) == entry.mark \in {"deleted", "longname"}
Names(entries) ==
  LET names[n \in 0 .. Len(entries)] ==
        IF n = 0 THEN << >>
        ELSE IF Skipped(entries[n]) THEN names[n - 1]
        ELSE Append(names[n - 1], entries[n].name)
  IN  names

Shown(entries) == Names(entries)[Used(entries)]

-----------------------------------------------------------------------------
(* fat_mount *)

RootDirSectors(bpb) ==
  (bpb.root_entries * DirEntrySize + bpb.bytes_per_sector - 1) \div bpb.bytes_per_sector

\* The subtraction is of unsigned words.
ClusterCount(bpb) ==
  Wrap(bpb.total_sectors
         - (bpb.reserved_sectors + bpb.fat_count * bpb.sectors_per_fat + RootDirSectors(bpb)))
    \div bpb.sectors_per_cluster

detect_fat_type(bpb) ==
  LET n == ClusterCount(bpb) IN IF n < Min16 THEN 12 ELSE IF n < Min32 THEN 16 ELSE 32

Mountable(bpb) ==
  /\ bpb.bytes_per_sector # 0 /\ bpb.sectors_per_cluster # 0
  /\ detect_fat_type(bpb) # 12

Mounted(bpb, lba) ==
  LET fat_lba  == Wrap(lba + bpb.reserved_sectors)
      root_lba == Wrap(fat_lba + bpb.fat_count * bpb.sectors_per_fat)
      type     == detect_fat_type(bpb)
  IN  [part_lba |-> lba, fat_type |-> type, fat_lba |-> fat_lba,
       root_dir_lba |-> root_lba, root_dir_sectors |-> RootDirSectors(bpb),
       data_lba |-> Wrap(root_lba + RootDirSectors(bpb)),
       sectors_per_cluster |-> bpb.sectors_per_cluster,
       root_cluster |-> IF type = 32 THEN bpb.root_cluster ELSE 0]

-----------------------------------------------------------------------------
(* kernel_main *)

ata_init(ok) ==
  /\ pc = "ata"
  /\ pc' = IF ok THEN "mbr" ELSE "ui"
  /\ UNCHANGED <<disk, part, fat, fat_mounted, row, cluster, logged, complete>>

\* The signature of what was read must be that of a partition table.
mbr_read(r) ==
  /\ pc = "mbr"
  /\ IF r.ok /\ r.sector = 0 /\ disk.valid
       THEN pc' = "part" /\ part' = 1
       ELSE pc' = "ui" /\ UNCHANGED part
  /\ UNCHANGED <<disk, fat, fat_mounted, row, cluster, logged, complete>>

Empty(p) == p.type = 0 \/ p.sectors = 0

NextPartition ==
  /\ pc = "part"
  /\ IF part > Len(disk.parts) THEN pc' = "ui" /\ UNCHANGED part
     ELSE IF Empty(disk.parts[part]) THEN part' = part + 1 /\ UNCHANGED pc
     ELSE pc' = "mount" /\ UNCHANGED part
  /\ UNCHANGED <<disk, fat, fat_mounted, row, cluster, logged, complete>>

\* Mutants of MountFails: the same partition is tried again; the index moves
\* twice.
MountFailsAgain ==
  /\ pc' = "part" /\ fat_mounted' = FALSE
  /\ UNCHANGED <<fat, cluster, part>>
MountFailsTwice ==
  /\ pc' = "part" /\ part' = part + 2
  /\ fat_mounted' = FALSE
  /\ UNCHANGED <<fat, cluster>>

\* vfs_mount_fat; the first partition that mounts is listed.
MountFails ==
  /\ pc' = "part" /\ part' = part + 1
  /\ fat_mounted' = FALSE
  /\ UNCHANGED <<fat, cluster>>

vfs_mount_fat(r) ==
  LET lba == disk.parts[part].lba_start
      bpb == Sector(disk.boot, r, NotBoot)
  IN  /\ pc = "mount"
      /\ IF r.ok /\ Mountable(bpb)
           THEN /\ fat' = Mounted(bpb, lba)
                /\ fat_mounted' = TRUE
                /\ cluster' = fat'.root_cluster
                /\ pc' = IF fat'.fat_type = 16 THEN "root16" ELSE "root32"
                /\ UNCHANGED part
           ELSE MountFails
      /\ row' = 0
      /\ UNCHANGED <<disk, logged, complete>>

-----------------------------------------------------------------------------
(* fat_list_root *)

Return(result) == pc' = "ui" /\ complete' = result

Read16Lba == fat.part_lba + fat.root_dir_lba + row
\* Mutant of Read32Lba: clusters are counted from 0, not from 2.
Read32LbaFrom0 ==
  fat.part_lba + fat.data_lba + cluster * fat.sectors_per_cluster + row

Read32Lba ==
  fat.part_lba + fat.data_lba + (cluster - 2) * fat.sectors_per_cluster + row

\* Mutant of ReadFails: the sector is skipped.
ReadFailsGoesOn == row' = row + 1 /\ UNCHANGED <<pc, complete, logged>>

\* The first sector that cannot be read ends the listing.
ReadFails == Return(FALSE) /\ UNCHANGED <<logged, row>>

\* One directory sector: its entries are logged up to an end mark, which ends
\* the listing.
ReadDirectory(r) ==
  LET entries == Sector(disk.dir, r, Junk)
  IN  /\ IF ~r.ok
           THEN ReadFails
           ELSE /\ logged' = logged \o Shown(entries)
                /\ IF HasEnd(entries) THEN Return(TRUE) /\ UNCHANGED row
                                      ELSE row' = row + 1 /\ UNCHANGED <<pc, complete>>
      /\ UNCHANGED <<disk, part, fat, fat_mounted, cluster>>

MoreIn16 == pc = "root16" /\ row < fat.root_dir_sectors
MoreIn32 == pc = "root32" /\ cluster < EndOfChain /\ row < fat.sectors_per_cluster

ListRoot16(r) == MoreIn16 /\ ReadDirectory(r)
ListRoot32(r) == MoreIn32 /\ ReadDirectory(r)

\* The loops' ends: all sectors of a FAT16 root directory, or a cluster value
\* that ends the chain.
ListedAll ==
  /\ \/ pc = "root16" /\ ~MoreIn16
     \/ pc = "root32" /\ cluster >= EndOfChain
  /\ Return(TRUE)
  /\ UNCHANGED <<disk, part, fat, fat_mounted, row, cluster, logged>>

ListedCluster ==
  /\ pc = "root32" /\ cluster < EndOfChain /\ row = fat.sectors_per_cluster
  /\ pc' = "chain"
  /\ UNCHANGED <<disk, part, fat, fat_mounted, row, cluster, logged, complete>>

FatLba(c) == fat.fat_lba + (Wrap(c * EntrySize) \div SectorSize)

NoEntries == [o \in 0 .. SectorSize - 1 |-> 0]

\* entry & 0x0FFFFFFF: the upper bits of an entry are reserved.
Masked(entry) == entry % (EndOfChain + 8)

fat_get_next_cluster(r) ==
  /\ pc = "chain"
  /\ IF r.ok
       THEN /\ cluster' = Masked(Sector(disk.fat, r, NoEntries)
                                   [Wrap(cluster * EntrySize) % SectorSize])
            /\ pc' = "root32" /\ UNCHANGED complete
       ELSE Return(FALSE) /\ UNCHANGED cluster
  /\ row' = 0
  /\ UNCHANGED <<disk, part, fat, fat_mounted, logged>>

-----------------------------------------------------------------------------
Init ==
  /\ disk \in Disks
  /\ pc = "ata" /\ part = 1
  /\ fat = NoFs /\ fat_mounted = FALSE
  /\ row = 0 /\ cluster = 0
  /\ logged = << >> /\ complete = FALSE

\* The address kernel_main reads next, if it is at a read.
Wanted ==
  CASE pc = "mbr" -> {0}
    [] pc = "mount" -> {disk.parts[part].lba_start}
    [] MoreIn16 -> {Read16Lba}
    [] MoreIn32 -> {Read32Lba}
    [] pc = "chain" -> {FatLba(cluster)}
    [] OTHER -> {}

\* The steps that use the answer to that read, and those that read nothing.
Use(r) ==
  \/ mbr_read(r) \/ vfs_mount_fat(r)
  \/ ListRoot16(r) \/ ListRoot32(r) \/ fat_get_next_cluster(r)
NoRead == NextPartition \/ ListedAll \/ ListedCluster

Boot ==
  \/ NoRead
  \/ \E ok \in BOOLEAN : ata_init(ok)
  \/ \E lba \in Wanted : \E r \in Answers(lba) : Use(r)

\* The boot goes on to the UI, which this module leaves alone.
Next == Boot \/ (pc = "ui" /\ UNCHANGED vars)

Spec == Init /\ [][Next]_vars /\ WF_vars(Boot)

-----------------------------------------------------------------------------
DirEntries == [mark : {"file", "deleted", "longname", "end"}, name : STRING]

\* The numbers in the disks' tables have the width of their fields.
DisksTyped ==
  \A d \in Disks :
    /\ d.parts \in Seq([type : Nat, lba_start : 0 .. Word - 1, sectors : Nat])
    /\ \A a \in DOMAIN d.boot :
         d.boot[a] \in [bytes_per_sector : Nat, sectors_per_cluster : Nat,
                       reserved_sectors : Nat, fat_count : Nat, root_entries : Nat,
                       total_sectors : Nat, sectors_per_fat : Nat,
                       root_cluster : 0 .. Word - 1]
    /\ \A a \in DOMAIN d.dir : d.dir[a] \in Seq(DirEntries)
    /\ \A a \in DOMAIN d.fat : d.fat[a] \in [0 .. SectorSize - 1 -> 0 .. Word - 1]

TypeOK ==
  /\ disk \in Disks
  /\ pc \in {"ata", "mbr", "part", "mount", "root16", "root32", "chain", "ui"}
  /\ part \in 1 .. Len(disk.parts) + 1
  /\ fat_mounted \in BOOLEAN /\ complete \in BOOLEAN
  /\ row \in Nat /\ cluster \in 0 .. Word - 1
  /\ complete => fat_mounted

\* What FAT says the root directory of the mounted volume is: its clusters,
\* each named by the table's entry of the one before it, its sectors by
\* address, and the entries in them, all in order.
NextCluster(k) ==
  Masked(Sector(disk.fat, [sector |-> fat.fat_lba + ((k * EntrySize) \div SectorSize)],
                NoEntries)[(k * EntrySize) % SectorSize])
ClusterAt[n \in 0 .. Word] ==
  IF n = 0 THEN fat.root_cluster ELSE NextCluster(ClusterAt[n - 1])

IsChainLength(n) ==
  ClusterAt[n] >= EndOfChain /\ \A i \in 0 .. n - 1 : ClusterAt[i] < EndOfChain
ChainEnds == \E n \in 0 .. Word : IsChainLength(n)
ChainLength == CHOOSE n \in 0 .. Word : IsChainLength(n)

RootLength ==
  IF fat.fat_type = 16 THEN fat.root_dir_sectors ELSE ChainLength * fat.sectors_per_cluster
RootSector(i) ==
  IF fat.fat_type = 16 THEN fat.root_dir_lba + i
  ELSE LET spc == fat.sectors_per_cluster
       IN  fat.data_lba + (ClusterAt[i \div spc] - 2) * spc + (i % spc)

EntriesPerSector == SectorSize \div DirEntrySize
RootEntries ==
  [n \in 1 .. RootLength * EntriesPerSector |->
     disk.dir[RootSector((n - 1) \div EntriesPerSector)][((n - 1) % EntriesPerSector) + 1]]

\* All of it is on the disk.
RootOnDisk ==
  /\ fat.fat_type = 32 => ChainEnds
  /\ \A i \in 0 .. RootLength - 1 :
       /\ RootSector(i) \in DOMAIN disk.dir \cap 0 .. Lba28 - 1
       /\ Len(disk.dir[RootSector(i)]) = EntriesPerSector
  /\ fat.fat_type = 32 =>
       \A i \in 0 .. ChainLength - 1 :
         fat.fat_lba + ((ClusterAt[i] * EntrySize) \div SectorSize) < Lba28

RootNames == Shown(RootEntries)

\* The log shows the root directory of the mounted volume: the beginning of
\* it while it is read or when a read failed, and all of it on success.
ListsRoot ==
  fat_mounted =>
    /\ IsPrefix(logged, RootNames)
    /\ complete => logged = RootNames

\* A disk that fails at any read, or a volume without an end mark, does not
\* keep the kernel from starting its UI.
ReachesUi == <>(pc = "ui")
=============================================================================
