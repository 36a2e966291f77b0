------------------------------- MODULE AtaProofs -------------------------------
(***************************************************************************)
(* Proofs about Ata - how the call and the disk hang together, and that    *)
(* the two of them are a SectorStore - and about DiskBoot: the boot uses   *)
(* the driver as Ata allows, which sector an answer can be, and that the   *)
(* root directory that is listed is the volume's.                          *)
(***************************************************************************)
EXTENDS DiskBoot, NumberLemmas

\* An address is cut to one the disk has.
LEMMA CutAddress ==
  ASSUME NEW lba \in 0 .. Lba28 - 1
  PROVE  lba % Lba28 \in 0 .. Lba28 - 1
BY AtaAssumption

\* A call starts with a command the disk knows.
LEMMA StartsAreCommands ==
  ASSUME ata_init \/ \E lba \in 0 .. Lba28 - 1 : ata_read28(lba)
  PROVE  \E c \in Commands : Start(c)
BY CutAddress DEF ata_init, ata_read28, Commands

\* Every step of a call or of the disk keeps them together.
LEMMA TypeStep ==
  ASSUME TypeOK, [Next]_ataVars
  PROVE  TypeOK'
<1> USE DEF TypeOK
<1>1. ASSUME NEW c \in Commands, Start(c) PROVE TypeOK'
  BY <1>1 DEF Start
<1>2. CASE ata_wait_not_busy
  BY <1>2, AtaAssumption DEF ata_wait_not_busy, GiveUp, GoTo, Failure
<1>3. CASE WriteCommand
  <2>1. /\ call.at = "command" /\ answer' = answer /\ ~drive.mine
        /\ call' = [call EXCEPT !.at = IF call.command = Identify THEN "status" ELSE "drq"]
    BY <1>3 DEF WriteCommand, GoTo
  <2>2. CASE UNCHANGED drive
    BY <2>1, <2>2
  <2>3. CASE /\ MayAccept
             /\ drive' = [drive EXCEPT !.state = "busy", !.of = call.command, !.mine = TRUE]
    BY <2>1, <2>3 DEF MayAccept
  <2> QED BY <1>3, <2>2, <2>3 DEF WriteCommand
<1>4. CASE ReadStatus
  BY <1>4, AtaAssumption DEF ReadStatus, GiveUp, GoTo, Failure
<1>5. CASE ata_wait_drq
  BY <1>5, AtaAssumption DEF ata_wait_drq, GiveUp, GoTo, Failure
<1>6. CASE ReadWords
  BY <1>6, AtaAssumption DEF ReadWords, Emptied, GoTo, Commands
<1>7. CASE Serve
  BY <1>7 DEF Serve
<1>8. CASE Return
  BY <1>8 DEF Return, GoTo
<1>9. CASE UNCHANGED ataVars
  BY <1>9 DEF ataVars
<1> QED
  BY StartsAreCommands, <1>1, <1>2, <1>3, <1>4, <1>5, <1>6, <1>7, <1>8, <1>9
  DEF Next, CallStep

\* A call has no answer exactly while it is under way, and the disk works for
\* it only from its command to its end.
THEOREM TypeCorrect == Spec => []TypeOK
<1>1. Init => TypeOK
  BY AtaAssumption DEF Init, TypeOK, Failure, Commands
<1> QED BY <1>1, TypeStep, PTL DEF Spec

\* A call that is given up leaves the sector it asked for, or what was there.
LEMMA GiveUpFails ==
  ASSUME TypeOK, GiveUp, call.at \notin {"idle", "return"}
  PROVE  Store!Fail
<1>1. /\ answer = Pending /\ answer' = Store!Failure
      /\ call'.command = call.command
  BY DEF TypeOK, GiveUp, GoTo, Failure, Store!Failure
<1>2. Owed' = Owed \/ Owed' = {call.command}
  BY DEF TypeOK, GiveUp, Owed
<1> QED BY <1>1, <1>2 DEF Store!Fail

\* Every step of a call or of the disk is one of the store.
LEMMA StoreStep ==
  ASSUME TypeOK, [Next]_ataVars
  PROVE  [Store!Next]_(<<call.command, answer, Owed>>)
<1>1. ASSUME NEW c \in Commands, Start(c) PROVE Store!Next
  <2>1. Store!Ask(c)
    BY <1>1 DEF Start, TypeOK, Store!Ask, Owed
  <2> QED BY <2>1 DEF Store!Next
<1>2. CASE ata_wait_not_busy
  BY <1>2, GiveUpFails DEF ata_wait_not_busy, GoTo, Owed, TypeOK, Store!Next
<1>3. CASE WriteCommand
  <2>1. answer' = answer /\ call'.command = call.command
    BY <1>3 DEF WriteCommand, GoTo, TypeOK
  <2>2. Owed' = Owed \/ Owed' = {}
    BY <1>3 DEF WriteCommand, Owed, TypeOK
  <2>3. Owed' = {} => Store!Forget
    BY <2>1 DEF Store!Forget
  <2> QED BY <2>1, <2>2, <2>3 DEF Store!Next
<1>4. CASE ReadStatus
  BY <1>4, GiveUpFails DEF ReadStatus, GoTo, Owed, TypeOK, Store!Next
<1>5. CASE ata_wait_drq
  BY <1>5, GiveUpFails DEF ata_wait_drq, Store!Next
<1>6. CASE ReadWords
  <2>1. /\ answer = Pending /\ answer' = Store!Read(drive.of)
        /\ call'.command = call.command /\ Owed' = {}
    BY <1>6 DEF ReadWords, Emptied, GoTo, Owed, TypeOK, Store!Read
  <2>2. CASE drive.mine
    <3>1. Owed = {} /\ drive.of = call.command
      BY <2>2 DEF Owed, TypeOK
    <3>2. Store!Own
      BY <2>1, <3>1 DEF Store!Own
    <3> QED BY <3>2 DEF Store!Next
  <2>3. CASE ~drive.mine
    <3>1. drive.of \in Owed
      BY <1>6, <2>3 DEF ReadWords, Owed
    <3>2. Store!Stale
      BY <2>1, <3>1 DEF Store!Stale
    <3> QED BY <3>2 DEF Store!Next
  <2> QED BY <2>2, <2>3
<1>7. CASE Serve
  <2>1. UNCHANGED <<call.command, answer>>
    BY <1>7 DEF Serve
  <2>2. Owed' = Owed \/ Owed' = {}
    BY <1>7 DEF Serve, Owed, TypeOK
  <2>3. Owed' = {} => Store!Forget
    BY <2>1 DEF Store!Forget
  <2> QED BY <2>1, <2>2, <2>3 DEF Store!Next
<1>8. CASE Return
  BY <1>8 DEF Return, GoTo, Owed, TypeOK
<1>9. CASE UNCHANGED ataVars
  BY <1>9 DEF ataVars, Owed
<1> QED
  BY StartsAreCommands, <1>1, <1>2, <1>3, <1>4, <1>5, <1>6, <1>7, <1>8, <1>9
  DEF Next, CallStep

\* ata.c with any disk behind it is a store that answers a request with its
\* own sector, with a failure, or with the one an abandoned request left.
THEOREM StoreRefinement == Spec => StoreSpec
<1>1. Init => Store!Init
  BY DEF Init, Store!Init, Owed, Failure, Store!Failure, Commands
<1> QED
  BY <1>1, StoreStep, TypeCorrect, PTL DEF Spec, StoreSpec, Store!Spec, Store!storeVars
-----------------------------------------------------------------------------
(* DiskBoot: what the boot knows of the partitions and the volume.           *)

BootSectors ==
  [bytes_per_sector : Nat, sectors_per_cluster : Nat, reserved_sectors : Nat,
   fat_count : Nat, root_entries : Nat, total_sectors : Nat, sectors_per_fat : Nat,
   root_cluster : 0 .. Word - 1]

Volumes ==
  [part_lba : 0 .. Word - 1, fat_type : {16, 32}, fat_lba : 0 .. Word - 1,
   root_dir_lba : 0 .. Word - 1, root_dir_sectors : Nat, data_lba : 0 .. Word - 1,
   sectors_per_cluster : Nat \ {0}, root_cluster : 0 .. Word - 1]

\* A partition that is mounted is in the table; a volume that is mounted was
\* there, is of the kind its loop is for, and each loop stays in its bounds.
\* Nothing is logged before.
AtPartition == pc = "mount" => part <= Len(disk.parts) /\ ~F!Empty(disk.parts[part])
AtVolume ==
  /\ pc \in {"root16", "root32", "chain"} => fat_mounted
  /\ fat_mounted => fat \in Volumes /\ pc \in {"root16", "root32", "chain", "ui"}
  /\ ~fat_mounted => logged = << >>
InLoop ==
  /\ pc = "root16" => fat.fat_type = 16 /\ row <= fat.root_dir_sectors
  /\ pc = "root32" => fat.fat_type = 32 /\ row <= fat.sectors_per_cluster
  /\ pc = "chain" => fat.fat_type = 32 /\ row = fat.sectors_per_cluster
                      /\ cluster < EndOfChain

FatInv == F!TypeOK /\ AtPartition /\ AtVolume /\ InLoop

\* Words of Word values.
LEMMA Wrapped ==
  ASSUME NEW n \in Int
  PROVE  F!Wrap(n) \in 0 .. Word - 1 /\ F!Sent(n) \in 0 .. Lba28 - 1
<1>1. Word \in Nat \ {0} /\ Lba28 \in Nat \ {0}
  BY AtaAssumption, DiskAssumption
<1>2. F!Wrap(n) \in 0 .. Word - 1
  BY <1>1 DEF F!Wrap
<1>3. F!Wrap(n) % Lba28 \in 0 .. Lba28 - 1
  BY <1>1, <1>2
<1> QED BY <1>2, <1>3 DEF F!Sent

\* An element of a sequence over S is in S.
LEMMA ElementOf ==
  ASSUME NEW S, NEW s \in Seq(S)
  PROVE  \A i \in 1 .. Len(s) : s[i] \in S
  OBVIOUS

\* The partition table of any disk.
LEMMA PartitionTyped ==
  ASSUME NEW d \in Disks, NEW i \in 1 .. Len(d.parts)
  PROVE  d.parts[i].lba_start \in 0 .. Word - 1
<1> DEFINE S == [type : Nat, lba_start : 0 .. Word - 1, sectors : Nat]
<1>1. d.parts \in Seq(S)
  BY DiskAssumption DEF F!DisksTyped
<1>2. d.parts[i] \in S
  <2> HIDE DEF S
  <2> QED BY <1>1, ElementOf
<1> QED BY <1>2

\* The fields of a boot sector, and of none.
LEMMA BootSectorTyped ==
  ASSUME NEW d \in Disks, NEW r, F!Mountable(F!Sector(d.boot, r, F!NotBoot))
  PROVE  F!Sector(d.boot, r, F!NotBoot) \in BootSectors
<1>1. \A a \in DOMAIN d.boot : d.boot[a] \in BootSectors
  BY DiskAssumption DEF F!DisksTyped, BootSectors
<1>2. ~F!Mountable(F!NotBoot)
  BY DEF F!Mountable, F!NotBoot
<1> QED BY <1>1, <1>2 DEF F!Sector

\* A division rounded up.
LEMMA RootDirTyped ==
  ASSUME NEW bpb \in BootSectors, bpb.bytes_per_sector # 0
  PROVE  F!RootDirSectors(bpb) \in Nat
<1> DEFINE b == bpb.bytes_per_sector
           n == bpb.root_entries * F!DirEntrySize + b - 1
<1>1. b \in Nat \ {0} /\ n \in Nat
  BY DEF BootSectors, F!DirEntrySize
<1> HIDE DEF b, n
<1>2. n \div b \in Nat
  BY <1>1
<1> QED BY <1>2 DEF F!RootDirSectors, b, n

\* What fat_mount makes of a boot sector it accepts.
LEMMA MountedTyped ==
  ASSUME NEW bpb \in BootSectors, NEW lba \in 0 .. Word - 1, F!Mountable(bpb)
  PROVE  F!Mounted(bpb, lba) \in Volumes
<1> DEFINE type == F!detect_fat_type(bpb)
           dirs == F!RootDirSectors(bpb)
           flba == F!Wrap(lba + bpb.reserved_sectors)
           rlba == F!Wrap(flba + bpb.fat_count * bpb.sectors_per_fat)
           dlba == F!Wrap(rlba + dirs)
<1>1. type \in {16, 32}
  BY DEF F!Mountable, F!detect_fat_type
<1>2. dirs \in Nat /\ bpb.sectors_per_cluster \in Nat \ {0}
  BY RootDirTyped DEF F!Mountable, BootSectors
<1>3. Word \in Nat \ {0}
  BY AtaAssumption, DiskAssumption
<1>4. bpb.root_cluster \in 0 .. Word - 1 /\ 0 \in 0 .. Word - 1
  BY <1>3 DEF BootSectors
<1>5. flba \in 0 .. Word - 1
  BY Wrapped DEF BootSectors
<1>6. rlba \in 0 .. Word - 1
  <2> HIDE DEF flba
  <2>1. flba + bpb.fat_count * bpb.sectors_per_fat \in Int
    BY <1>5 DEF BootSectors
  <2> QED BY <2>1, Wrapped
<1>7. dlba \in 0 .. Word - 1
  <2> HIDE DEF rlba, dirs
  <2> QED BY <1>2, <1>6, Wrapped
<1> HIDE DEF type, dirs, flba, rlba, dlba
<1>8. F!Mounted(bpb, lba) =
        [part_lba |-> lba, fat_type |-> type, fat_lba |-> flba,
         root_dir_lba |-> rlba, root_dir_sectors |-> dirs, data_lba |-> dlba,
         sectors_per_cluster |-> bpb.sectors_per_cluster,
         root_cluster |-> IF type = 32 THEN bpb.root_cluster ELSE 0]
  BY DEF F!Mounted, type, dirs, flba, rlba, dlba
<1> QED BY <1>1, <1>2, <1>4, <1>5, <1>6, <1>7, <1>8 DEF Volumes

\* An entry of the allocation table.
LEMMA EntryTyped ==
  ASSUME NEW d \in Disks, NEW r, NEW n \in Nat
  PROVE  F!Sector(d.fat, r, F!NoEntries)[n % SectorSize] \in 0 .. Word - 1
<1> DEFINE o == n % SectorSize
<1>1. SectorSize \in Nat \ {0} /\ Word \in Nat \ {0}
  BY AtaAssumption, DiskAssumption DEF F!DirEntrySize
<1>2. o \in 0 .. SectorSize - 1
  BY <1>1
<1> HIDE DEF o
<1>3. \A a \in DOMAIN d.fat : d.fat[a] \in [0 .. SectorSize - 1 -> 0 .. Word - 1]
  BY DiskAssumption DEF F!DisksTyped
<1>4. F!NoEntries \in [0 .. SectorSize - 1 -> 0 .. Word - 1]
  BY <1>1 DEF F!NoEntries
<1>5. F!Sector(d.fat, r, F!NoEntries) \in [0 .. SectorSize - 1 -> 0 .. Word - 1]
  BY <1>3, <1>4 DEF F!Sector
<1>6. F!Sector(d.fat, r, F!NoEntries)[o] \in 0 .. Word - 1
  BY <1>2, <1>5
<1> QED BY <1>6 DEF o
\* The entry's reserved bits are masked.
LEMMA MaskedTyped ==
  ASSUME NEW entry \in 0 .. Word - 1
  PROVE  F!Masked(entry) \in 0 .. Word - 1
<1> DEFINE m == EndOfChain + 8
<1>1. m \in Nat \ {0} /\ Word \in Nat
  BY AtaAssumption, DiskAssumption
<1> HIDE DEF m
<1>2. entry % m \in Nat /\ entry % m <= entry
  BY <1>1
<1> QED BY <1>1, <1>2 DEF F!Masked, m

\* What an answer can be.
IsAnswer(r) == r \in [ok : BOOLEAN, sector : Commands]

Counters == Len(disk.parts) \in Nat /\ part \in 1 .. Len(disk.parts) + 1 /\ row \in Nat
              /\ cluster \in 0 .. Word - 1 /\ Word \in Nat \ {0} /\ EndOfChain \in Nat

LEMMA CountersTyped ==
  ASSUME FatInv
  PROVE  Counters
<1>1. disk.parts \in Seq([type : Nat, lba_start : 0 .. Word - 1, sectors : Nat])
  BY DiskAssumption DEF F!DisksTyped, FatInv, F!TypeOK
<1> QED BY <1>1, AtaAssumption, DiskAssumption DEF FatInv, F!TypeOK, Counters

\* The steps of the loops over the partitions and over a directory.
LEMMA NoReadInv ==
  ASSUME FatInv, F!NoRead
  PROVE  FatInv'
<1> USE CountersTyped DEF FatInv, F!TypeOK, AtPartition, AtVolume, InLoop, Counters
<1>1. CASE F!NextPartition
  BY <1>1 DEF F!NextPartition
<1>2. CASE F!ListedAll
  BY <1>2 DEF F!ListedAll, F!Return
<1>3. CASE F!ListedCluster
  BY <1>3 DEF F!ListedCluster
<1> QED BY <1>1, <1>2, <1>3 DEF F!NoRead

\* The disk's identity opens the way to the partition table.
LEMMA AtaInitInv ==
  ASSUME FatInv, NEW ok \in BOOLEAN, F!ata_init(ok)
  PROVE  FatInv'
BY CountersTyped
   DEF F!ata_init, FatInv, F!TypeOK, AtPartition, AtVolume, InLoop, Counters

\* fat_mount and the way to the next partition.
LEMMA MountInv ==
  ASSUME FatInv, NEW r, IsAnswer(r), F!vfs_mount_fat(r)
  PROVE  FatInv'
<1> DEFINE lba == disk.parts[part].lba_start
           bpb == F!Sector(disk.boot, r, F!NotBoot)
<1>1. /\ pc = "mount" /\ part \in 1 .. Len(disk.parts) /\ disk \in Disks
      /\ row' = 0 /\ disk' = disk /\ logged' = logged /\ complete' = complete
      /\ ~fat_mounted /\ logged = << >> /\ ~complete /\ complete \in BOOLEAN
      /\ cluster \in 0 .. Word - 1 /\ Len(disk.parts) \in Nat
  BY CountersTyped DEF F!vfs_mount_fat, FatInv, F!TypeOK, AtPartition, AtVolume, Counters
<1>2. CASE r.ok /\ F!Mountable(bpb)
  <2>1. /\ fat' = F!Mounted(bpb, lba) /\ fat_mounted' = TRUE
        /\ cluster' = fat'.root_cluster /\ part' = part
        /\ pc' = IF fat'.fat_type = 16 THEN "root16" ELSE "root32"
    BY <1>2 DEF F!vfs_mount_fat
  <2>2. fat' \in Volumes
    <3>1. lba \in 0 .. Word - 1
      BY <1>1, PartitionTyped
    <3>2. bpb \in BootSectors
      BY <1>1, <1>2, BootSectorTyped
    <3> HIDE DEF lba, bpb
    <3> QED BY <1>2, <2>1, <3>1, <3>2, MountedTyped
  <2>3. /\ fat'.fat_type \in {16, 32} /\ fat'.root_dir_sectors \in Nat
        /\ fat'.sectors_per_cluster \in Nat /\ cluster' \in 0 .. Word - 1
    BY <2>1, <2>2 DEF Volumes
  <2> HIDE DEF lba, bpb
  <2>4. F!TypeOK'
    BY <1>1, <2>1, <2>3 DEF F!TypeOK
  <2>5. AtPartition' /\ AtVolume'
    BY <1>1, <2>1, <2>2 DEF AtPartition, AtVolume
  <2>6. InLoop'
    BY <1>1, <2>1, <2>3 DEF InLoop
  <2> QED BY <2>4, <2>5, <2>6 DEF FatInv
<1>3. CASE F!MountFails
  <2>1. pc' = "part" /\ part' = part + 1 /\ fat_mounted' = FALSE /\ cluster' = cluster
    BY <1>3 DEF F!MountFails
  <2> HIDE DEF lba, bpb
  <2>2. F!TypeOK'
    <3>1. part' \in 1 .. Len(disk'.parts) + 1 /\ row' \in Nat /\ cluster' \in 0 .. Word - 1
      BY <1>1, <2>1
    <3>2. /\ fat_mounted' \in BOOLEAN /\ complete' \in BOOLEAN
          /\ complete' => fat_mounted'
      BY <1>1, <2>1
    <3> QED BY <1>1, <2>1, <3>1, <3>2 DEF F!TypeOK
  <2>3. AtPartition' /\ AtVolume' /\ InLoop'
    BY <1>1, <2>1 DEF AtPartition, AtVolume, InLoop
  <2> QED BY <2>2, <2>3 DEF FatInv
<1> QED BY <1>2, <1>3 DEF F!vfs_mount_fat

\* One sector of a directory.
LEMMA DirectoryInv ==
  ASSUME FatInv, NEW r, IsAnswer(r), F!ListRoot16(r) \/ F!ListRoot32(r)
  PROVE  FatInv'
<1>1. /\ F!MoreIn16 \/ F!MoreIn32
      /\ F!ReadDirectory(r)
  BY DEF F!ListRoot16, F!ListRoot32
<1>2. UNCHANGED <<disk, part, fat, fat_mounted, cluster>>
  BY <1>1 DEF F!ReadDirectory
<1>3. \/ pc' = "ui" /\ complete' \in BOOLEAN /\ row' = row
      \/ pc' = pc /\ complete' = complete /\ row' = row + 1
  BY <1>1 DEF F!ReadDirectory, F!ReadFails, F!Return
<1>4. fat_mounted /\ fat \in Volumes
  BY <1>1 DEF F!MoreIn16, F!MoreIn32, FatInv, AtVolume
<1>5. fat.root_dir_sectors \in Nat /\ fat.sectors_per_cluster \in Nat
  BY <1>4 DEF Volumes
<1>6. F!TypeOK'
  BY <1>2, <1>3, <1>4, CountersTyped DEF FatInv, F!TypeOK, Counters
<1>7. AtPartition' /\ AtVolume'
  BY <1>1, <1>2, <1>3, <1>4
  DEF FatInv, AtPartition, AtVolume, F!MoreIn16, F!MoreIn32
<1>8. InLoop'
  BY <1>1, <1>2, <1>3, <1>5, CountersTyped
  DEF FatInv, InLoop, F!MoreIn16, F!MoreIn32, Counters
<1> QED BY <1>6, <1>7, <1>8 DEF FatInv

\* One entry of the allocation table.
LEMMA ChainInv ==
  ASSUME FatInv, NEW r, IsAnswer(r), F!fat_get_next_cluster(r)
  PROVE  FatInv'
<1>1. /\ pc = "chain" /\ row' = 0 /\ fat_mounted /\ fat \in Volumes /\ fat.fat_type = 32
      /\ UNCHANGED <<disk, part, fat, fat_mounted, logged>>
  BY DEF F!fat_get_next_cluster, FatInv, AtVolume, InLoop
<1>2. fat.sectors_per_cluster \in Nat
  BY <1>1 DEF Volumes
<1>3. /\ \/ pc' = "root32" /\ complete' = complete
         \/ pc' = "ui" /\ complete' = FALSE
      /\ cluster' \in 0 .. Word - 1
  <2>1. CASE r.ok
    <3> DEFINE n == F!Wrap(cluster * F!EntrySize)
               entry == F!Sector(disk.fat, r, F!NoEntries)[n % SectorSize]
    <3>1. cluster * F!EntrySize \in Int
      BY CountersTyped DEF Counters, F!EntrySize
    <3>2. n \in Nat
      BY <3>1, Wrapped
    <3>3. F!Masked(entry) \in 0 .. Word - 1
      <4> HIDE DEF n
      <4>1. entry \in 0 .. Word - 1
        BY <3>2, EntryTyped DEF FatInv, F!TypeOK
      <4> QED BY <4>1, MaskedTyped
    <3>4. cluster' = F!Masked(entry) /\ pc' = "root32" /\ complete' = complete
      BY <2>1 DEF F!fat_get_next_cluster
    <3> QED BY <3>3, <3>4
  <2>2. CASE ~r.ok
    BY <2>2, CountersTyped DEF F!fat_get_next_cluster, F!Return, Counters
  <2> QED BY <2>1, <2>2
<1>4. F!TypeOK'
  BY <1>1, <1>3, CountersTyped DEF FatInv, F!TypeOK, Counters
<1>5. AtPartition' /\ AtVolume'
  BY <1>1, <1>3 DEF AtPartition, AtVolume
<1>6. InLoop'
  BY <1>1, <1>2, <1>3 DEF InLoop
<1> QED BY <1>4, <1>5, <1>6 DEF FatInv

\* Whatever a call returns, kernel_main goes on within its tables.
LEMMA UseInv ==
  ASSUME FatInv, NEW r, IsAnswer(r), F!Use(r)
  PROVE  FatInv'
<1>1. CASE F!mbr_read(r)
  BY <1>1, CountersTyped
  DEF F!mbr_read, FatInv, F!TypeOK, AtPartition, AtVolume, InLoop, Counters
<1> QED BY <1>1, MountInv, DirectoryInv, ChainInv DEF F!Use
-----------------------------------------------------------------------------
(* DiskBoot: which sector an answer can be.  A call asks for what the boot   *)
(* wants at that point; what an abandoned call has left is the boot sector   *)
(* of a partition that was tried, as any other failure ends the disk part.   *)

Asked ==
  IF pc = "ata" THEN call.command = Identify
  ELSE \E lba \in F!Wanted : call.command = F!Sent(lba)

Tried(s, n) == \E i \in 1 .. n : ~F!Empty(disk.parts[i]) /\ s = F!Sent(Lba(i))

AskInv == call.at # "idle" => Asked

AnswerInv ==
  call.at = "return" =>
    /\ IsAnswer(answer)
    /\ answer.ok => /\ Owed = {}
                    /\ \/ answer.sector = call.command
                       \/ pc = "mount" /\ Tried(answer.sector, part - 1)

OweInv ==
  pc # "ui" =>
    \A s \in Owed : \/ call.at = "return" /\ ~answer.ok /\ s = call.command
                    \/ pc \in {"part", "mount"} /\ Tried(s, part - 1)

DiskInv == TypeOK /\ FatInv /\ AskInv /\ AnswerInv /\ OweInv

\* What is wanted where.
LEMMA WantedAt ==
  /\ pc \in {"ata", "part", "ui"} => F!Wanted = {}
  /\ pc = "mbr" => F!Wanted = {0}
  /\ pc = "mount" => F!Wanted = {disk.parts[part].lba_start}
  /\ F!MoreIn16 => F!Wanted = {F!Read16Lba}
  /\ F!MoreIn32 => F!Wanted = {F!Read32Lba}
  /\ pc = "chain" => F!Wanted = {F!FatLba(cluster)}
  /\ pc \in {"root16", "root32"} /\ ~F!MoreIn16 /\ ~F!MoreIn32 => F!Wanted = {}
BY DEF F!Wanted, F!MoreIn16, F!MoreIn32

\* It is an address, if perhaps a negative one.
LEMMA WantedInt ==
  ASSUME FatInv, NEW lba \in F!Wanted
  PROVE  lba \in Int
<1>1. CASE pc = "mbr"
  BY <1>1, WantedAt
<1>2. CASE pc = "mount"
  <2>1. part \in 1 .. Len(disk.parts) /\ disk \in Disks
    BY <1>2, CountersTyped DEF FatInv, AtPartition, Counters, F!TypeOK
  <2> QED BY <1>2, <2>1, WantedAt, PartitionTyped
<1>3. CASE pc \in {"root16", "root32", "chain"}
  <2>1. /\ fat.part_lba \in Int /\ fat.fat_lba \in Int /\ fat.root_dir_lba \in Int
        /\ fat.data_lba \in Int /\ fat.sectors_per_cluster \in Int
    BY <1>3 DEF FatInv, AtVolume, Volumes
  <2>2. row \in Int /\ cluster \in Int /\ SectorSize \in Nat \ {0}
    BY CountersTyped, DiskAssumption DEF Counters, F!DirEntrySize
  <2>3. F!Read16Lba \in Int /\ F!Read32Lba \in Int
    BY <2>1, <2>2 DEF F!Read16Lba, F!Read32Lba
  <2>4. F!FatLba(cluster) \in Int
    <3> DEFINE n == F!Wrap(cluster * F!EntrySize)
    <3>1. n \in Int
      BY <2>2, Wrapped DEF F!EntrySize
    <3> HIDE DEF n
    <3>2. n \div SectorSize \in Int
      BY <2>2, <3>1
    <3> QED BY <2>1, <3>2 DEF F!FatLba, n
  <2> QED BY <1>3, <2>3, <2>4, WantedAt
<1> QED BY <1>1, <1>2, <1>3, WantedAt DEF FatInv, F!TypeOK

\* While the driver works the boot wants what it wanted.
LEMMA WantedKept ==
  ASSUME UNCHANGED fatVars
  PROVE  F!Wanted' = F!Wanted
BY DEF fatVars, F!Wanted, F!MoreIn16, F!MoreIn32, F!Read16Lba, F!Read32Lba, F!FatLba

\* A sector below the limit is sent as it is.
LEMMA SentAgain ==
  ASSUME NEW c \in 0 .. Lba28 - 1
  PROVE  c % Lba28 = c
BY AtaAssumption

\* kernel_main and the disk use the driver as Ata lets them.
LEMMA DriverStep ==
  ASSUME FatInv, [DiskNext]_bootVars
  PROVE  [Next]_ataVars
<1>1. ASSUME NEW lba \in F!Wanted, ata_read28(F!Wrap(lba))
      PROVE  Next
  <2>1. F!Sent(lba) \in 0 .. Lba28 - 1
    BY WantedInt, Wrapped
  <2>2. ata_read28(F!Sent(lba))
    <3>1. Start(F!Sent(lba))
      BY <1>1 DEF ata_read28, F!Sent
    <3> QED BY <2>1, <3>1, SentAgain DEF ata_read28
  <2> QED BY <2>1, <2>2 DEF Next
<1>2. Ask => Next
  BY <1>1 DEF Ask, Next
<1>3. Resume => Next
  BY DEF Resume, Next
<1>4. Compute => UNCHANGED ataVars
  BY DEF Compute
<1>5. UNCHANGED bootVars => UNCHANGED ataVars
  BY DEF bootVars, ataVars
<1> QED BY <1>2, <1>3, <1>4, <1>5 DEF DiskNext, Kernel, Next

\* What a call in progress does to the answer and to what is owed.
LEMMA CallStepOwes ==
  ASSUME TypeOK, CallStep
  PROVE  /\ call.at \notin {"idle", "return"}
         /\ call'.command = call.command /\ call'.at # "idle"
         /\ \/ call'.at # "return" /\ Owed' \subseteq Owed
            \/ call'.at = "return" /\ answer' = Failure /\ Owed' \subseteq Owed \cup {call.command}
            \/ /\ call'.at = "return" /\ Owed' = {}
               /\ \E s \in Owed \cup {call.command} : answer' = [ok |-> TRUE, sector |-> s]
<1> USE DEF TypeOK
<1>1. ASSUME GiveUp, call.at \notin {"idle", "return"}
      PROVE  /\ call'.command = call.command /\ call'.at = "return"
             /\ answer' = Failure /\ Owed' \subseteq Owed \cup {call.command}
  BY <1>1 DEF GiveUp, GoTo, Owed
<1>2. CASE ata_wait_not_busy
  BY <1>1, <1>2 DEF ata_wait_not_busy, GoTo, Owed
<1>3. CASE WriteCommand
  <2>1. /\ call.at = "command" /\ call'.command = call.command
        /\ call'.at \in {"status", "drq"}
    BY <1>3 DEF WriteCommand, GoTo
  <2>2. Owed' \subseteq Owed
    BY <1>3 DEF WriteCommand, Owed
  <2> QED BY <2>1, <2>2
<1>4. CASE ReadStatus
  BY <1>1, <1>4 DEF ReadStatus, GoTo, Owed
<1>5. CASE ata_wait_drq
  BY <1>1, <1>5 DEF ata_wait_drq
<1>6. CASE ReadWords
  <2>1. /\ call.at = "drq" /\ call'.command = call.command /\ call'.at = "return"
        /\ answer' = [ok |-> TRUE, sector |-> drive.of]
    BY <1>6 DEF ReadWords, GoTo
  <2>2. Owed' = {}
    BY <1>6 DEF ReadWords, Emptied, Owed
  <2>3. drive.of \in Owed \cup {call.command}
    BY <1>6 DEF ReadWords, Owed
  <2> QED BY <2>1, <2>2, <2>3
<1> QED BY <1>2, <1>3, <1>4, <1>5, <1>6 DEF CallStep
\* What was asked for and owed stays so while the boot waits.
LEMMA AskStep ==
  ASSUME DiskInv, Ask
  PROVE  DiskInv'
<1>1. /\ UNCHANGED fatVars /\ UNCHANGED drive /\ call.at = "idle"
      /\ call'.at = "notbusy"
  BY DEF Ask, ata_init, ata_read28, Start
<1>2. TypeOK'
  <2>1. [Next]_ataVars
    BY DriverStep DEF DiskInv, DiskNext, Kernel
  <2> QED BY <2>1, TypeStep DEF DiskInv
<1>3. FatInv'
  BY <1>1
  DEF DiskInv, FatInv, F!TypeOK, AtPartition, AtVolume, InLoop, fatVars
<1>4. AskInv'
  <2>1. CASE pc = "ata" /\ ata_init
    BY <1>1, <2>1 DEF AskInv, Asked, ata_init, Start, fatVars
  <2>2. CASE \E lba \in F!Wanted : ata_read28(F!Wrap(lba))
    <3>1. PICK lba \in F!Wanted : call'.command = F!Sent(lba)
      BY <2>2 DEF ata_read28, Start, F!Sent
    <3>2. pc' = pc /\ pc # "ata" /\ F!Wanted' = F!Wanted
      BY <1>1, <3>1, WantedKept, WantedAt DEF fatVars
    <3>3. F!Sent(lba)' = F!Sent(lba)
      OBVIOUS
    <3> QED BY <3>1, <3>2 DEF AskInv, Asked
  <2> QED BY <2>1, <2>2 DEF Ask
<1>5. AnswerInv'
  BY <1>1 DEF AnswerInv
<1>6. OweInv'
  <2>1. Owed' = Owed
    BY <1>1 DEF Owed
  <2>2. \A s : Tried(s, part - 1)' <=> Tried(s, part - 1)
    BY <1>1 DEF Tried, Lba, fatVars
  <2> QED BY <1>1, <2>1, <2>2 DEF DiskInv, OweInv, fatVars
<1> QED BY <1>2, <1>3, <1>4, <1>5, <1>6 DEF DiskInv

\* So it does at the steps of the call and of the disk.
LEMMA DriverKeeps ==
  ASSUME DiskInv, UNCHANGED fatVars, CallStep \/ Serve
  PROVE  DiskInv'
<1> DEFINE old(s) == Tried(s, part - 1)
<1>1. TypeOK'
  BY TypeStep DEF DiskInv, Next
<1>2. FatInv'
  BY DEF DiskInv, FatInv, F!TypeOK, AtPartition, AtVolume, InLoop, fatVars
<1>3. /\ pc' = pc /\ part' = part /\ F!Wanted' = F!Wanted
      /\ \A s : Tried(s, part - 1)' <=> old(s)
  BY WantedKept DEF Tried, Lba, fatVars
<1>4. /\ call'.command = call.command
      /\ call'.at # "idle" => call.at # "idle"
  BY CallStepOwes DEF DiskInv, Serve
<1>5. AskInv'
  BY <1>3, <1>4 DEF DiskInv, AskInv, Asked
<1>6. CASE Serve
  <2>1. call' = call /\ answer' = answer
    BY <1>6 DEF Serve
  <2>2. Owed' \subseteq Owed
    BY <1>6 DEF Serve, Owed, DiskInv, TypeOK
  <2>3. AnswerInv'
    BY <1>3, <2>1, <2>2 DEF DiskInv, AnswerInv, IsAnswer, Commands
  <2>4. OweInv'
    BY <1>3, <2>1, <2>2 DEF DiskInv, OweInv
  <2> QED BY <1>1, <1>2, <1>5, <2>3, <2>4 DEF DiskInv
<1>7. CASE CallStep
  <2> HIDE DEF old
  <2>0. call.at \notin {"idle", "return"} /\ call.command \in Commands /\ Owed \subseteq Commands
    BY <1>7, CallStepOwes DEF DiskInv, TypeOK, Owed
  <2>1. Asked /\ pc # "ui"
    BY <2>0, WantedAt DEF DiskInv, AskInv, Asked
  <2>2. \A s \in Owed : pc \in {"part", "mount"} /\ old(s)
    BY <2>0, <2>1 DEF DiskInv, OweInv, old
  <2>3. pc # "part"
    BY <2>1, WantedAt DEF Asked
  <2>4. AnswerInv'
    <3>1. CASE call'.at = "return" /\ answer' = Failure
      <4>1. answer' \in [ok : BOOLEAN, sector : Commands] /\ ~answer'.ok
        BY <3>1, AtaAssumption DEF Failure, Commands
      <4>2. IsAnswer(answer)'
        BY <4>1 DEF IsAnswer, Commands
      <4> QED BY <4>1, <4>2 DEF AnswerInv
    <3>2. ASSUME NEW s \in Owed \cup {call.command}, Owed' = {},
                 answer' = [ok |-> TRUE, sector |-> s]
          PROVE  AnswerInv'
      <4>1. IsAnswer(answer')
        BY <2>0, <3>2 DEF IsAnswer
      <4>2. \/ answer'.sector = call.command
            \/ pc = "mount" /\ old(answer'.sector)
        <5>1. answer'.sector = s
          BY <3>2
        <5>2. s # call.command => pc = "mount" /\ old(s)
          BY <2>2, <2>3
        <5> QED BY <5>1, <5>2
      <4>3. IsAnswer(answer)'
        BY <4>1 DEF IsAnswer, Commands
      <4> QED BY <1>3, <1>4, <3>2, <4>2, <4>3 DEF AnswerInv
    <3>3. CASE call'.at # "return"
      BY <3>3 DEF AnswerInv
    <3> QED BY <1>7, <3>1, <3>2, <3>3, CallStepOwes DEF DiskInv
  <2>5. OweInv'
    <3>1. CASE Owed' \subseteq Owed
      BY <1>3, <2>2, <3>1 DEF OweInv
    <3>2. CASE call'.at = "return" /\ answer' = Failure /\ Owed' \subseteq Owed \cup {call.command}
      BY <1>3, <1>4, <2>2, <3>2 DEF OweInv, Failure
    <3> QED BY <1>7, <3>1, <3>2, CallStepOwes DEF DiskInv
  <2> QED BY <1>1, <1>2, <1>5, <2>4, <2>5 DEF DiskInv
<1> QED BY <1>6, <1>7

\* A failed mount goes on; every other failure leads to the UI.
LEMMA ResumeStep ==
  ASSUME DiskInv, Resume
  PROVE  DiskInv'
<1>1. /\ call.at = "return" /\ call' = [call EXCEPT !.at = "idle"]
      /\ drive' = drive /\ answer' = answer
      /\ F!ata_init(answer.ok) \/ F!Use(answer)
  BY DEF Resume, Return, GoTo
<1>2. call'.at = "idle" /\ Owed' = Owed /\ IsAnswer(answer)
  BY <1>1 DEF Owed, DiskInv, TypeOK, AnswerInv
<1>3. TypeOK'
  BY TypeStep DEF DiskInv, Next, Resume
<1>4. FatInv'
  <2>1. answer.ok \in BOOLEAN
    BY <1>2 DEF IsAnswer
  <2> QED BY <1>1, <1>2, <2>1, AtaInitInv, UseInv DEF DiskInv
<1>5. AskInv' /\ AnswerInv'
  BY <1>2 DEF AskInv, AnswerInv
<1>6. Asked
  BY <1>1 DEF DiskInv, AskInv
<1>7. OweInv'
  <2> SUFFICES ASSUME pc' # "ui", NEW s \in Owed
               PROVE  pc' \in {"part", "mount"} /\ Tried(s, part - 1)'
    BY <1>2 DEF OweInv
  <2>1. ~answer.ok
    BY <1>1 DEF DiskInv, AnswerInv
  <2>2. F!vfs_mount_fat(answer)
    BY <1>1, <2>1
    DEF F!ata_init, F!Use, F!mbr_read, F!ListRoot16, F!ListRoot32, F!ReadDirectory,
        F!ReadFails, F!Return, F!fat_get_next_cluster
  <2>3. /\ pc = "mount" /\ pc' = "part" /\ part' = part + 1 /\ disk' = disk
    BY <2>1, <2>2 DEF F!vfs_mount_fat, F!MountFails
  <2>4. /\ part \in Nat /\ part >= 1 /\ ~F!Empty(disk.parts[part])
    BY <2>3, CountersTyped DEF DiskInv, FatInv, AtPartition, Counters
  <2>5. call.command = F!Sent(Lba(part))
    BY <1>6, <2>3, WantedAt DEF Asked, Lba
  <2>6. \E i \in 1 .. part : ~F!Empty(disk.parts[i]) /\ s = F!Sent(Lba(i))
    <3>1. s = call.command \/ Tried(s, part - 1)
      BY <2>3 DEF DiskInv, OweInv
    <3> QED BY <2>4, <2>5, <3>1 DEF Tried
  <2>7. part' - 1 = part
    BY <2>3, <2>4
  <2>8. Tried(s, part - 1)'
    BY <2>3, <2>6, <2>7 DEF Tried, Lba
  <2> QED BY <2>3, <2>8
<1> QED BY <1>3, <1>4, <1>5, <1>7 DEF DiskInv

\* The loops of kernel_main leave the driver alone.
LEMMA ComputeStep ==
  ASSUME DiskInv, Compute
  PROVE  DiskInv'
<1>1. call.at = "idle" /\ F!NoRead /\ UNCHANGED <<call, drive, answer>>
  BY DEF Compute, ataVars
<1>2. TypeOK'
  BY <1>1 DEF DiskInv, TypeOK
<1>3. FatInv'
  BY <1>1, NoReadInv DEF DiskInv
<1>4. AskInv' /\ AnswerInv'
  BY <1>1 DEF AskInv, AnswerInv
<1>5. OweInv'
  <2> SUFFICES ASSUME pc' # "ui", NEW s \in Owed
               PROVE  pc' \in {"part", "mount"} /\ Tried(s, part - 1)'
    BY <1>1 DEF OweInv, Owed
  <2>1. pc \in {"part", "mount"} /\ Tried(s, part - 1)
    BY <1>1 DEF DiskInv, OweInv, F!NoRead, F!NextPartition, F!ListedAll, F!ListedCluster
  <2>2. F!NextPartition
    BY <1>1, <2>1 DEF F!NoRead, F!ListedAll, F!ListedCluster
  <2>3. /\ pc' \in {"part", "mount"} /\ disk' = disk
        /\ part' = part \/ part' = part + 1
    BY <2>2 DEF F!NextPartition
  <2>4. part \in Nat
    BY CountersTyped DEF DiskInv, Counters
  <2>5. Tried(s, part - 1)'
    BY <2>1, <2>3, <2>4 DEF Tried, Lba
  <2> QED BY <2>3, <2>5
<1> QED BY <1>2, <1>3, <1>4, <1>5 DEF DiskInv

\* Nothing changes.
LEMMA DiskStutter ==
  ASSUME DiskInv, UNCHANGED bootVars
  PROVE  DiskInv'
<1>1. UNCHANGED fatVars /\ UNCHANGED <<call, drive, answer>>
  BY DEF bootVars
<1>2. TypeOK' /\ Owed' = Owed
  BY <1>1 DEF DiskInv, TypeOK, Owed
<1>3. FatInv'
  BY <1>1 DEF DiskInv, FatInv, F!TypeOK, AtPartition, AtVolume, InLoop, fatVars
<1>4. F!Wanted' = F!Wanted /\ \A s : Tried(s, part - 1)' <=> Tried(s, part - 1)
  BY <1>1, WantedKept DEF Tried, Lba, fatVars
<1>5. AskInv'
  BY <1>1, <1>4 DEF DiskInv, AskInv, Asked, fatVars
<1>6. AnswerInv' /\ OweInv'
  BY <1>1, <1>2, <1>4 DEF DiskInv, AnswerInv, OweInv, IsAnswer, Commands, fatVars
<1> QED BY <1>2, <1>3, <1>5, <1>6 DEF DiskInv

LEMMA DiskInvHolds == DiskSpec => []DiskInv
<1>1. DiskInit => DiskInv
  <2> SUFFICES ASSUME DiskInit PROVE DiskInv
    OBVIOUS
  <2>1. TypeOK /\ call.at = "idle" /\ Owed = {}
    BY AtaAssumption DEF DiskInit, Init, TypeOK, Failure, Commands, Owed
  <2>2. disk.parts \in Seq([type : Nat, lba_start : 0 .. Word - 1, sectors : Nat])
    BY DiskAssumption DEF DiskInit, F!Init, F!DisksTyped
  <2>3. 1 \in 1 .. Len(disk.parts) + 1 /\ 0 \in 0 .. Word - 1
    BY <2>2, AtaAssumption, DiskAssumption
  <2>4. FatInv
    BY <2>3 DEF DiskInit, F!Init, FatInv, F!TypeOK, AtPartition, AtVolume, InLoop
  <2> QED BY <2>1, <2>4 DEF DiskInv, AskInv, AnswerInv, OweInv
<1>2. DiskInv /\ [DiskNext]_bootVars => DiskInv'
  BY AskStep, DriverKeeps, ResumeStep, ComputeStep, DiskStutter DEF DiskNext, Kernel
<1> QED BY <1>1, <1>2, PTL DEF DiskSpec

\* The boot over the driver keeps to its tables: the partition index, the
\* cluster and the rows stay in range, and a listing completes only of a
\* mounted volume.
THEOREM DiskTypeCorrect == DiskSpec => []DiskTypeOK
<1>1. DiskInv => DiskTypeOK
  BY DEF DiskInv, FatInv, DiskTypeOK
<1> QED BY <1>1, DiskInvHolds, PTL

\* The sector of an abandoned call is only ever taken for a boot sector, and
\* it is that of a partition tried before.
THEOREM StaleBootSectorsOnly == DiskSpec => []StaleOnlyWhenMounting
<1>1. DiskInv => StaleOnlyWhenMounting
  BY DEF DiskInv, AnswerInv, StaleOnlyWhenMounting, Tried
<1> QED BY <1>1, DiskInvHolds, PTL

\* The driver as the boot uses it is the same store.
THEOREM BootStoreRefinement == DiskSpec => StoreSpec
<1>1. DiskInit => Init
  BY DEF DiskInit
<1>2. DiskInv /\ [DiskNext]_bootVars => [Next]_ataVars
  BY DriverStep DEF DiskInv
<1>3. DiskSpec => Spec
  BY <1>1, <1>2, DiskInvHolds, PTL DEF DiskSpec, Spec
<1> QED BY <1>3, StoreRefinement
-----------------------------------------------------------------------------
(* DiskBoot: what is listed.                                                 *)

\* What the root directory is depends on the disk and the volume alone.
LEMMA ClustersKept ==
  ASSUME UNCHANGED <<disk, fat>>
  PROVE  F!ClusterAt' = F!ClusterAt
BY DEF F!ClusterAt, F!NextCluster
LEMMA LengthKept ==
  ASSUME UNCHANGED <<disk, fat>>
  PROVE  F!RootLength' = F!RootLength
BY ClustersKept DEF F!RootLength, F!ChainLength, F!IsChainLength
LEMMA SectorsKept ==
  ASSUME UNCHANGED <<disk, fat>>
  PROVE  F!RootEntries' = F!RootEntries
BY ClustersKept, LengthKept DEF F!RootEntries, F!RootSector
LEMMA NamesKept ==
  ASSUME UNCHANGED <<disk, fat>>
  PROVE  F!RootNames' = F!RootNames
BY SectorsKept DEF F!RootNames
\* The names that are in a directory's entries.
NamesIn(S, e) == Len(e) \in Nat /\ \A n \in 1 .. Len(e) : e[n].name \in S

\* What the loop over a directory's entries makes of the names so far.
Shows(entry, names) ==
  IF F!Skipped(entry) THEN names ELSE Append(names, entry.name)

NameTurns(e, f) ==
  [n \in 0 .. Len(e) |->
     IF n = 0 THEN << >>
     ELSE IF F!Skipped(e[n]) THEN f[n - 1]
     ELSE Append(f[n - 1], e[n].name)]

\* Names is that loop.
LEMMA NamesLoop ==
  ASSUME NEW S, NEW e, NamesIn(S, e)
  PROVE  /\ F!Names(e)[0] = << >>
         /\ \A n \in 1 .. Len(e) : F!Names(e)[n] = Shows(e[n], F!Names(e)[n - 1])
         /\ \A n \in 0 .. Len(e) : F!Names(e)[n] \in Seq(S)
<1> DEFINE N == Len(e)
           Turn == (1 .. N) \X Seq(S)
           step == [p \in Turn |-> Shows(e[p[1]], p[2])]
<1>1. N \in Nat /\ \A n \in 1 .. N : e[n].name \in S
  BY DEF NamesIn
<1>2. step \in [Turn -> Seq(S)]
  <2> SUFFICES ASSUME NEW p \in Turn PROVE Shows(e[p[1]], p[2]) \in Seq(S)
    OBVIOUS
  <2>1. p[1] \in 1 .. N /\ p[2] \in Seq(S)
    OBVIOUS
  <2>2. e[p[1]].name \in S
    BY <1>1, <2>1
  <2>3. Append(p[2], e[p[1]].name) \in Seq(S)
    BY <2>1, <2>2
  <2> QED BY <2>1, <2>3 DEF Shows
<1>3. PICK f : LoopStates(f, N, Seq(S), << >>, step)
  <2>1. LoopBody(step, N, Seq(S)) /\ << >> \in Seq(S)
    BY <1>2 DEF LoopBody
  <2> HIDE DEF step, N
  <2> QED BY <1>1, <2>1, Recursion
<1>4. f = NameTurns(e, f)
  <2>1. ASSUME NEW n \in 1 .. N
        PROVE  f[n] = IF F!Skipped(e[n]) THEN f[n - 1] ELSE Append(f[n - 1], e[n].name)
    <3>1. n - 1 \in 0 .. N
      BY <1>1
    <3>2. <<n, f[n - 1]>> \in Turn
      BY <1>3, <3>1 DEF LoopStates
    <3> QED BY <1>3, <3>2 DEF LoopStates, Shows
  <2>2. \A n \in 0 .. N : n # 0 => n \in 1 .. N
    BY <1>1
  <2> QED BY <1>3, <2>1, <2>2 DEF LoopStates, NameTurns
<1> DEFINE g == CHOOSE h : h = NameTurns(e, h)
<1>5. F!Names(e) = g
  BY DEF F!Names, NameTurns
<1>6. g = NameTurns(e, g)
  BY <1>4
<1> HIDE DEF g
<1>7. g[0] = << >>
  BY <1>1, <1>6 DEF NameTurns
<1>8. ASSUME NEW n \in 1 .. N PROVE g[n] = Shows(e[n], g[n - 1])
  <2>1. n \in 0 .. Len(e) /\ n # 0
    BY <1>1
  <2> QED BY <1>6, <2>1 DEF NameTurns, Shows
<1>9. \A n \in 0 .. N : g[n] \in Seq(S)
  <2> DEFINE T == {n \in Nat : n <= N => g[n] \in Seq(S)}
  <2>1. 0 \in T
    <3>1. << >> \in Seq(S)
      OBVIOUS
    <3> QED BY <1>7, <3>1
  <2>2. ASSUME NEW n \in Nat, n \in T, n + 1 <= N PROVE g[n + 1] \in Seq(S)
    <3>1. n + 1 \in 1 .. N /\ (n + 1) - 1 = n /\ n <= N
      BY <1>1, <2>2
    <3>2. g[n] \in Seq(S) /\ e[n + 1].name \in S
      BY <1>1, <2>2, <3>1
    <3>3. g[n + 1] = Shows(e[n + 1], g[n])
      BY <1>8, <3>1
    <3>4. Append(g[n], e[n + 1].name) \in Seq(S)
      BY <3>2
    <3> QED BY <3>2, <3>3, <3>4 DEF Shows
  <2>3. \A n \in Nat : n \in T => n + 1 \in T
    BY <2>2
  <2> HIDE DEF T
  <2>4. \A n \in Nat : n \in T
    BY <2>1, <2>3, Induction
  <2> QED BY <1>1, <2>4 DEF T
<1> QED BY <1>5, <1>7, <1>8, <1>9

\* One entry more behind two sequences of names.
Behind(s, t) == s \o t
LEMMA ShowsBehind ==
  ASSUME NEW S, NEW s \in Seq(S), NEW t \in Seq(S), NEW entry, entry.name \in S
  PROVE  Shows(entry, Behind(s, t)) = Behind(s, Shows(entry, t))
<1> DEFINE name == entry.name
<1> HIDE DEF name
<1>1. Append(Behind(s, t), name) = Behind(s, Append(t, name))
  BY DEF Behind, name
<1> QED BY <1>1 DEF Shows, name

\* d is the part of e from p on.
PartOf(d, e, p) ==
  /\ p \in Nat /\ Len(d) \in Nat /\ p + Len(d) <= Len(e)
  /\ \A i \in 1 .. Len(d) : d[i] = e[p + i]
NamesJoin(d, e, p) ==
  \A n \in 0 .. Len(d) : F!Names(e)[p + n] = Behind(F!Names(e)[p], F!Names(d)[n])

\* The names of entries that are a part of others come behind the names of
\* those before them.
LEMMA NamesOfPart ==
  ASSUME NEW S, NEW e, NEW d, NEW p, NamesIn(S, e), PartOf(d, e, p)
  PROVE  NamesJoin(d, e, p)
<1> DEFINE m == Len(d)
           N == Len(e)
           a == F!Names(e)
           b == F!Names(d)
           Joined(n) == n <= m => a[p + n] = Behind(a[p], b[n])
           T == {n \in Nat : Joined(n)}
<1>1. NamesIn(S, d)
  BY DEF NamesIn, PartOf
<1>2. /\ \A n \in 1 .. N : a[n] = Shows(e[n], a[n - 1])
      /\ \A n \in 0 .. N : a[n] \in Seq(S)
  BY NamesLoop
<1>3. /\ b[0] = << >>
      /\ \A n \in 1 .. m : b[n] = Shows(d[n], b[n - 1])
      /\ \A n \in 0 .. m : b[n] \in Seq(S)
  BY <1>1, NamesLoop
<1>4. /\ m \in Nat /\ N \in Nat /\ p \in Nat /\ p + m <= N
      /\ \A i \in 1 .. m : d[i] = e[p + i] /\ d[i].name \in S
  BY <1>1 DEF NamesIn, PartOf
<1> HIDE DEF m, N, a, b
<1>5. 0 \in T
  <2>1. p \in 0 .. N /\ p + 0 = p
    BY <1>4
  <2>2. a[p] \in Seq(S)
    BY <1>2, <2>1
  <2>3. a[p] \o << >> = a[p]
    BY <2>2
  <2> QED BY <1>3, <2>1, <2>3 DEF Behind
<1>6. ASSUME NEW n \in Nat, Joined(n), n + 1 <= m
      PROVE  a[p + (n + 1)] = Behind(a[p], b[n + 1])
  <2>1. /\ p + (n + 1) \in 1 .. N /\ (p + (n + 1)) - 1 = p + n
        /\ n + 1 \in 1 .. m /\ (n + 1) - 1 = n /\ n \in 0 .. m /\ p \in 0 .. N
        /\ n <= m
    BY <1>4, <1>6
  <2>2. a[p + n] = Behind(a[p], b[n])
    BY <1>6, <2>1
  <2>3. d[n + 1] = e[p + (n + 1)] /\ d[n + 1].name \in S
    BY <1>4, <2>1
  <2>4. a[p + (n + 1)] = Shows(d[n + 1], Behind(a[p], b[n]))
    BY <1>2, <2>1, <2>2, <2>3
  <2>5. b[n + 1] = Shows(d[n + 1], b[n])
    BY <1>3, <2>1
  <2>6. a[p] \in Seq(S) /\ b[n] \in Seq(S)
    BY <1>2, <1>3, <2>1
  <2> QED BY <2>3, <2>4, <2>5, <2>6, ShowsBehind
<1>7. \A n \in Nat : n \in T => n + 1 \in T
  <2>1. ASSUME NEW n \in Nat, Joined(n) PROVE Joined(n + 1)
    BY <1>6, <2>1
  <2> HIDE DEF Joined
  <2> QED BY <2>1
<1>8. \A n \in Nat : n \in T
  <2> HIDE DEF T
  <2> QED BY <1>5, <1>7, Induction
<1>9. \A n \in Nat : Joined(n)
  <2> HIDE DEF Joined
  <2> QED BY <1>8
<1>10. ASSUME NEW n \in 0 .. m PROVE a[p + n] = Behind(a[p], b[n])
  <2>1. n \in Nat /\ n <= m
    BY <1>4
  <2>2. Joined(n)
    <3> HIDE DEF Joined
    <3> QED BY <1>9, <2>1
  <2> QED BY <2>1, <2>2
<1> QED BY <1>10 DEF m, a, b, NamesJoin

\* The names of the first entries begin the names of more of them.
LEMMA NamesGrow ==
  ASSUME NEW S, NEW e, NamesIn(S, e), NEW p \in Nat, NEW q \in Nat, p <= q, q <= Len(e)
  PROVE  F!IsPrefix(F!Names(e)[p], F!Names(e)[q])
<1> DEFINE N == Len(e)
           a == F!Names(e)
           Begins(n) == p + n <= N => F!IsPrefix(a[p], a[p + n])
           T == {n \in Nat : Begins(n)}
<1>1. /\ \A n \in 1 .. N : a[n] = Shows(e[n], a[n - 1])
      /\ \A n \in 0 .. N : a[n] \in Seq(S)
  BY NamesLoop
<1>2. N \in Nat /\ \A n \in 1 .. N : e[n].name \in S
  BY DEF NamesIn
<1> HIDE DEF N, a
<1>3. \A s \in Seq(S) : F!IsPrefix(s, s)
  BY DEF F!IsPrefix
<1>4. \A s \in Seq(S), t \in Seq(S), x \in S : F!IsPrefix(s, t) => F!IsPrefix(s, Append(t, x))
  BY DEF F!IsPrefix
<1>5. p \in 0 .. N /\ a[p] \in Seq(S)
  BY <1>1, <1>2 DEF N
<1>6. 0 \in T
  BY <1>3, <1>5
<1>7. ASSUME NEW n \in Nat, Begins(n), p + (n + 1) <= N
      PROVE  F!IsPrefix(a[p], a[p + (n + 1)])
  <2>1. p + (n + 1) \in 1 .. N /\ (p + (n + 1)) - 1 = p + n /\ p + n \in 0 .. N
    BY <1>2, <1>7
  <2>2. F!IsPrefix(a[p], a[p + n]) /\ a[p + n] \in Seq(S) /\ e[p + (n + 1)].name \in S
    BY <1>1, <1>2, <1>7, <2>1
  <2>3. a[p + (n + 1)] = Shows(e[p + (n + 1)], a[p + n])
    BY <1>1, <2>1
  <2> QED BY <1>4, <1>5, <2>2, <2>3 DEF Shows
<1>8. \A n \in Nat : n \in T => n + 1 \in T
  BY <1>7
<1>9. \A n \in Nat : n \in T
  <2> HIDE DEF T
  <2> QED BY <1>6, <1>8, Induction
<1>10. q - p \in Nat /\ p + (q - p) = q
  OBVIOUS
<1> QED BY <1>9, <1>10 DEF N, a
\* The entries of a directory have names.
LEMMA EntriesIn ==
  ASSUME NEW e \in Seq(F!DirEntries)
  PROVE  NamesIn(STRING, e) /\ DOMAIN e = 1 .. Len(e)
<1>1. Len(e) \in Nat /\ DOMAIN e = 1 .. Len(e)
  OBVIOUS
<1>2. \A n \in 1 .. Len(e) : e[n] \in F!DirEntries
  BY ElementOf
<1> QED BY <1>1, <1>2 DEF NamesIn, F!DirEntries

NoEndIn(e, n) == \A i \in 1 .. n : e[i].mark # "end"

\* The entries in use are those before the first end mark.
LEMMA UsedFacts ==
  ASSUME NEW e \in Seq(F!DirEntries)
  PROVE  /\ F!Used(e) \in 0 .. Len(e) /\ NoEndIn(e, F!Used(e))
         /\ F!HasEnd(e) => F!Used(e) + 1 \in 1 .. Len(e) /\ e[F!Used(e) + 1].mark = "end"
         /\ ~F!HasEnd(e) => F!Used(e) = Len(e)
<1> DEFINE ends == F!Ends(e)
           c == CHOOSE i \in ends : \A j \in ends : i <= j
<1>1. Len(e) \in Nat /\ DOMAIN e = 1 .. Len(e)
  BY EntriesIn DEF NamesIn
<1>2. ends = {i \in 1 .. Len(e) : e[i].mark = "end"}
  BY <1>1 DEF F!Ends
<1>3. CASE F!HasEnd(e)
  <2>1. F!Used(e) = c - 1
    BY <1>3 DEF F!Used, F!FirstEnd
  <2>2. c \in ends /\ \A j \in ends : c <= j
    <3>1. ends \subseteq Nat /\ ends # {}
      BY <1>2, <1>3 DEF F!HasEnd
    <3> HIDE DEF ends
    <3> QED BY <3>1, LeastMember
  <2> HIDE DEF c, ends
  <2>3. c \in 1 .. Len(e) /\ e[c].mark = "end" /\ (c - 1) + 1 = c
    BY <1>1, <1>2, <2>2
  <2>4. ASSUME NEW i \in 1 .. c - 1 PROVE e[i].mark # "end"
    <3>1. i \in 1 .. Len(e) /\ ~(c <= i)
      BY <1>1, <2>3
    <3> QED BY <1>2, <2>2, <3>1
  <2>5. c - 1 \in 0 .. Len(e)
    BY <1>1, <2>3
  <2> QED BY <1>3, <2>1, <2>3, <2>4, <2>5 DEF NoEndIn
<1>4. CASE ~F!HasEnd(e)
  <2>1. F!Used(e) = Len(e)
    BY <1>4 DEF F!Used
  <2>2. \A i \in 1 .. Len(e) : e[i].mark # "end"
    BY <1>2, <1>4 DEF F!HasEnd
  <2> QED BY <1>1, <1>4, <2>1, <2>2 DEF NoEndIn
<1> QED BY <1>3, <1>4

\* They are so many and no more.
LEMMA UsedIs ==
  ASSUME NEW e \in Seq(F!DirEntries), NEW u \in 0 .. Len(e), NoEndIn(e, u),
         u = Len(e) \/ e[u + 1].mark = "end"
  PROVE  F!Used(e) = u
<1> DEFINE v == F!Used(e)
           N == Len(e)
<1>1. N \in Nat
  BY EntriesIn DEF NamesIn
<1>2. /\ v \in 0 .. N /\ NoEndIn(e, v)
      /\ v = N \/ e[v + 1].mark = "end"
  BY UsedFacts
<1>3. u \in 0 .. N /\ NoEndIn(e, u) /\ (u = N \/ e[u + 1].mark = "end")
  OBVIOUS
<1> HIDE DEF v, N
<1>4. ~(u < v)
  BY <1>1, <1>2, <1>3 DEF NoEndIn
<1>5. ~(v < u)
  BY <1>1, <1>2, <1>3 DEF NoEndIn
<1>6. v = u
  BY <1>1, <1>2, <1>3, <1>4, <1>5
<1> QED BY <1>6 DEF v

\* What is logged before any end mark begins what the directory shows.
LEMMA Begins ==
  ASSUME NEW e \in Seq(F!DirEntries), NEW p \in 0 .. Len(e), NoEndIn(e, p)
  PROVE  /\ F!IsPrefix(F!Names(e)[p], F!Shown(e))
         /\ p = Len(e) => F!Names(e)[p] = F!Shown(e)
<1> DEFINE v == F!Used(e)
           N == Len(e)
<1>1. NamesIn(STRING, e) /\ N \in Nat
  BY EntriesIn DEF NamesIn
<1>2. v \in 0 .. N /\ (v = N \/ e[v + 1].mark = "end")
  BY UsedFacts
<1>3. F!Shown(e) = F!Names(e)[v]
  BY DEF F!Shown
<1>4. p \in 0 .. N
  OBVIOUS
<1> HIDE DEF v
<1>5. p <= v
  BY <1>1, <1>2, <1>4 DEF NoEndIn
<1>6. p = Len(e) => v = p
  BY <1>1, <1>2, <1>4, <1>5
<1>7. p \in Nat /\ v \in Nat /\ v <= Len(e)
  BY <1>1, <1>2, <1>4
<1> HIDE DEF N
<1>8. F!IsPrefix(F!Names(e)[p], F!Names(e)[v])
  BY <1>1, <1>5, <1>7, NamesGrow
<1> QED BY <1>3, <1>6, <1>8

\* One more part of a directory is logged: up to its end mark, then it is all
\* of the directory, or to the end of the part.
LEMMA OneMore ==
  ASSUME NEW e \in Seq(F!DirEntries), NEW d \in Seq(F!DirEntries), NEW p,
         PartOf(d, e, p), NoEndIn(e, p)
  PROVE  /\ F!HasEnd(d) => Behind(F!Names(e)[p], F!Shown(d)) = F!Shown(e)
         /\ ~F!HasEnd(d) => /\ Behind(F!Names(e)[p], F!Shown(d)) = F!Names(e)[p + Len(d)]
                            /\ NoEndIn(e, p + Len(d))
<1> DEFINE u == F!Used(d)
           m == Len(d)
           N == Len(e)
<1>1. NamesIn(STRING, e) /\ N \in Nat /\ m \in Nat
  BY EntriesIn DEF NamesIn
<1>2. /\ u \in 0 .. m /\ NoEndIn(d, u)
      /\ F!HasEnd(d) => u + 1 \in 1 .. m /\ d[u + 1].mark = "end"
      /\ ~F!HasEnd(d) => u = m
  BY UsedFacts
<1>3. Behind(F!Names(e)[p], F!Shown(d)) = F!Names(e)[p + u]
  <2>1. NamesJoin(d, e, p)
    BY <1>1, NamesOfPart
  <2> QED BY <1>2, <2>1 DEF F!Shown, NamesJoin
<1>4. /\ p \in Nat /\ p + m <= N /\ NoEndIn(e, p)
      /\ \A i \in 1 .. m : d[i] = e[p + i]
  BY DEF PartOf
<1> HIDE DEF u, m, N
<1>5. NoEndIn(e, p + u)
  <2> SUFFICES ASSUME NEW i \in 1 .. p + u PROVE e[i].mark # "end"
    BY DEF NoEndIn
  <2>1. CASE i <= p
    BY <1>4, <2>1 DEF NoEndIn
  <2>2. CASE i > p
    <3>1. i - p \in 1 .. u /\ i - p \in 1 .. m /\ p + (i - p) = i
      BY <1>1, <1>2, <1>4, <2>2
    <3>2. d[i - p] = e[i] /\ d[i - p].mark # "end"
      BY <1>2, <1>4, <3>1 DEF NoEndIn
    <3> QED BY <3>2
  <2>3. i <= p \/ i > p
    BY <1>1, <1>2, <1>4
  <2> QED BY <2>1, <2>2, <2>3
<1>6. CASE F!HasEnd(d)
  <2>1. e[(p + u) + 1].mark = "end"
    <3>1. u + 1 \in 1 .. m /\ p + (u + 1) = (p + u) + 1
      BY <1>1, <1>2, <1>4, <1>6
    <3> QED BY <1>2, <1>4, <1>6, <3>1
  <2>2. p + u \in 0 .. Len(e)
    BY <1>1, <1>2, <1>4 DEF N
  <2>3. F!Used(e) = p + u
    BY <1>5, <2>1, <2>2, UsedIs
  <2> QED BY <1>3, <1>6, <2>3 DEF F!Shown
<1>7. CASE ~F!HasEnd(d)
  BY <1>2, <1>3, <1>5, <1>7 DEF m
<1> QED BY <1>6, <1>7
\* A volume at sector 0, mounted from its own boot sector, whose root directory
\* is all on the disk.
Own == fat_mounted /\ fat.part_lba = 0 /\ MountedOwn /\ F!RootOnDisk

ClusterTurns(f) ==
  [n \in 0 .. Word |-> IF n = 0 THEN fat.root_cluster ELSE F!NextCluster(f[n - 1])]

\* ClusterAt follows the table from the root cluster.
LEMMA ClusterFacts ==
  ASSUME FatInv, fat_mounted
  PROVE  /\ F!ClusterAt[0] = fat.root_cluster
         /\ \A n \in 1 .. Word : F!ClusterAt[n] = F!NextCluster(F!ClusterAt[n - 1])
         /\ \A n \in 0 .. Word : F!ClusterAt[n] \in 0 .. Word - 1
<1> DEFINE S == 0 .. Word - 1
           Turn == (1 .. Word) \X S
           step == [p \in Turn |-> F!NextCluster(p[2])]
<1>1. Word \in Nat \ {0} /\ fat.root_cluster \in S /\ disk \in Disks
  BY CountersTyped DEF Counters, FatInv, AtVolume, Volumes, F!TypeOK
<1>2. \A k \in S : F!NextCluster(k) \in S
  <2> TAKE k \in S
  <2>1. k * F!EntrySize \in Nat
    BY <1>1 DEF F!EntrySize
  <2> QED BY <1>1, <2>1, EntryTyped, MaskedTyped DEF F!NextCluster
<1>3. step \in [Turn -> S]
  <2> HIDE DEF S
  <2> QED BY <1>2
<1>4. PICK f : LoopStates(f, Word, S, fat.root_cluster, step)
  <2>1. LoopBody(step, Word, S)
    BY <1>3 DEF LoopBody
  <2> HIDE DEF step, S
  <2> QED BY <1>1, <2>1, Recursion
<1>5. f = ClusterTurns(f)
  <2>1. ASSUME NEW n \in 1 .. Word PROVE f[n] = F!NextCluster(f[n - 1])
    <3>1. n - 1 \in 0 .. Word
      BY <1>1
    <3>2. <<n, f[n - 1]>> \in Turn
      BY <1>4, <3>1 DEF LoopStates
    <3> QED BY <1>4, <3>2 DEF LoopStates
  <2>2. \A n \in 0 .. Word : n # 0 => n \in 1 .. Word
    BY <1>1
  <2> QED BY <1>4, <2>1, <2>2 DEF LoopStates, ClusterTurns
<1> DEFINE g == CHOOSE h : h = ClusterTurns(h)
<1>6. F!ClusterAt = g
  BY DEF F!ClusterAt, ClusterTurns
<1>7. g = ClusterTurns(g)
  BY <1>5
<1> HIDE DEF g
<1>8. g[0] = fat.root_cluster
  BY <1>1, <1>7 DEF ClusterTurns
<1>9. ASSUME NEW n \in 1 .. Word PROVE g[n] = F!NextCluster(g[n - 1])
  <2>1. n \in 0 .. Word /\ n # 0
    BY <1>1
  <2> QED BY <1>7, <2>1 DEF ClusterTurns
<1>10. ASSUME NEW n \in 0 .. Word PROVE g[n] \in S
  <2> DEFINE Typed(i) == i <= Word => g[i] \in S
             T == {i \in Nat : Typed(i)}
  <2> HIDE DEF S
  <2>1. Typed(0)
    BY <1>1, <1>8
  <2>2. ASSUME NEW i \in Nat, Typed(i) PROVE Typed(i + 1)
    <3> SUFFICES ASSUME i + 1 <= Word PROVE g[i + 1] \in S
      OBVIOUS
    <3>1. i + 1 \in 1 .. Word /\ (i + 1) - 1 = i /\ i <= Word
      BY <1>1
    <3>2. g[i] \in S
      BY <2>2, <3>1
    <3>3. g[i + 1] = F!NextCluster(g[i])
      BY <1>9, <3>1
    <3> QED BY <1>2, <3>2, <3>3
  <2>3. \A i \in Nat : Typed(i)
    <3> HIDE DEF Typed
    <3>1. 0 \in T /\ \A i \in Nat : i \in T => i + 1 \in T
      BY <2>1, <2>2
    <3>2. \A i \in Nat : i \in T
      <4> HIDE DEF T
      <4> QED BY <3>1, Induction
    <3> QED BY <3>2
  <2> QED BY <1>1, <2>3
<1> QED BY <1>6, <1>8, <1>9, <1>10

\* A chain that ends has a length, of clusters that do not end it.
LEMMA ChainFacts ==
  ASSUME FatInv, Own, fat.fat_type = 32
  PROVE  /\ F!ChainLength \in 0 .. Word
         /\ F!ClusterAt[F!ChainLength] >= EndOfChain
         /\ \A i \in 0 .. F!ChainLength - 1 : F!ClusterAt[i] < EndOfChain
BY DEF Own, F!RootOnDisk, F!ChainEnds, F!ChainLength, F!IsChainLength

\* The root directory is a number of sectors, and its entries are theirs.
LEMMA RootFacts ==
  ASSUME FatInv, Own
  PROVE  /\ F!RootLength \in Nat /\ F!EntriesPerSector \in Nat \ {0}
         /\ F!RootEntries \in Seq(F!DirEntries)
         /\ Len(F!RootEntries) = F!RootLength * F!EntriesPerSector
         /\ \A n \in 0 .. F!RootLength - 1 :
              LET d == disk.dir[F!RootSector(n)]
              IN  /\ d \in Seq(F!DirEntries) /\ Len(d) = F!EntriesPerSector
                  /\ F!RootSector(n) \in DOMAIN disk.dir \cap 0 .. Lba28 - 1
                  /\ PartOf(d, F!RootEntries, n * F!EntriesPerSector)
<1> DEFINE L == F!RootLength
           E == F!EntriesPerSector
           e == F!RootEntries
           d(n) == disk.dir[F!RootSector(n)]
<1>1. E \in Nat \ {0}
  BY DiskAssumption DEF F!EntriesPerSector, F!DirEntrySize
<1>2. L \in Nat
  <2>1. fat \in Volumes
    BY DEF FatInv, AtVolume, Own
  <2>2. fat.root_dir_sectors \in Nat /\ fat.sectors_per_cluster \in Nat /\ fat.fat_type \in {16, 32}
    BY <2>1 DEF Volumes
  <2>3. CASE fat.fat_type = 16
    BY <2>2, <2>3 DEF F!RootLength
  <2>4. CASE fat.fat_type = 32
    <3>1. F!ChainLength \in Nat
      BY <2>4, ChainFacts, CountersTyped DEF Counters
    <3> QED BY <2>2, <2>4, <3>1 DEF F!RootLength
  <2> QED BY <2>2, <2>3, <2>4
<1>3. disk \in Disks
  BY DEF FatInv, F!TypeOK
<1>4. ASSUME NEW n \in 0 .. L - 1
      PROVE  /\ d(n) \in Seq(F!DirEntries) /\ Len(d(n)) = E
             /\ F!RootSector(n) \in DOMAIN disk.dir \cap 0 .. Lba28 - 1
  <2>1. /\ F!RootSector(n) \in DOMAIN disk.dir \cap 0 .. Lba28 - 1
        /\ Len(d(n)) = E
    BY DEF Own, F!RootOnDisk
  <2>2. \A a \in DOMAIN disk.dir : disk.dir[a] \in Seq(F!DirEntries)
    BY <1>3, DiskAssumption DEF F!DisksTyped
  <2> QED BY <2>1, <2>2
<1>5. e = [n \in 1 .. L * E |-> d((n - 1) \div E)[((n - 1) % E) + 1]]
  BY DEF F!RootEntries
<1> HIDE DEF L, E, e, d
<1>6. L * E \in Nat
  BY <1>1, <1>2
<1>7. ASSUME NEW n \in 1 .. L * E
      PROVE  (n - 1) \div E \in 0 .. L - 1 /\ ((n - 1) % E) + 1 \in 1 .. E
  <2> DEFINE x == n - 1
  <2>1. x \in Nat /\ x < L * E
    BY <1>6
  <2> HIDE DEF x
  <2>2. x \div E \in Nat /\ (x \div E) * E <= x /\ x % E \in 0 .. E - 1
    BY <1>1, <2>1, DivBounds, ModBounds
  <2>3. x \div E < L
    <3> DEFINE q == x \div E
    <3>1. q \in Nat /\ q * E < L * E
      BY <1>1, <1>2, <2>1, <2>2
    <3> HIDE DEF q
    <3>2. q < L
      <4> SUFFICES ASSUME L <= q PROVE FALSE
        BY <1>2, <3>1
      <4>1. L * E <= q * E
        BY <1>1, <1>2, <3>1, TimesMonotone
      <4>2. q * E \in Nat
        BY <1>1, <3>1
      <4> QED BY <1>6, <3>1, <4>1, <4>2
    <3> QED BY <3>2 DEF q
  <2> QED BY <1>1, <1>2, <2>2, <2>3 DEF x
<1>8. e \in Seq(F!DirEntries) /\ Len(e) = L * E
  <2>1. ASSUME NEW n \in 1 .. L * E
        PROVE  d((n - 1) \div E)[((n - 1) % E) + 1] \in F!DirEntries
    <3>1. /\ d((n - 1) \div E) \in Seq(F!DirEntries)
          /\ Len(d((n - 1) \div E)) = E
      BY <1>4, <1>7
    <3>2. ((n - 1) % E) + 1 \in 1 .. Len(d((n - 1) \div E))
      BY <1>7, <3>1
    <3> QED BY <3>1, <3>2, ElementOf
  <2>2. e \in [1 .. L * E -> F!DirEntries]
    BY <1>5, <2>1
  <2> QED BY <1>6, <2>2
<1>9. ASSUME NEW n \in 0 .. L - 1 PROVE PartOf(d(n), e, n * E)
  <2>1. n \in Nat /\ n + 1 <= L /\ n * E \in Nat /\ Len(d(n)) = E
    BY <1>1, <1>2, <1>4
  <2>2. n * E + E <= L * E
    <3>1. (n + 1) * E <= L * E
      BY <1>1, <1>2, <2>1, TimesMonotone
    <3>2. (n + 1) * E = n * E + E
      BY <1>1, <2>1
    <3> QED BY <3>1, <3>2
  <2>3. ASSUME NEW i \in 1 .. E PROVE d(n)[i] = e[n * E + i]
    <3> DEFINE x == n * E + i
    <3>1. x \in 1 .. L * E /\ x - 1 = n * E + (i - 1) /\ i - 1 \in 0 .. E - 1
      BY <1>1, <1>6, <2>1, <2>2
    <3>2. (n * E + (i - 1)) \div E = n /\ (n * E + (i - 1)) % E = i - 1
      BY <1>1, <2>1, <3>1, RowAndColumn
    <3> HIDE DEF x
    <3>3. (x - 1) \div E = n /\ ((x - 1) % E) + 1 = i
      BY <1>1, <3>1, <3>2
    <3>4. e[x] = d((x - 1) \div E)[((x - 1) % E) + 1]
      BY <1>5, <3>1
    <3> QED BY <3>3, <3>4 DEF x
  <2> QED BY <1>1, <1>8, <2>1, <2>2, <2>3 DEF PartOf
<1> QED BY <1>1, <1>2, <1>4, <1>8, <1>9 DEF L, E, e, d
\* The log shows the first n sectors of the root directory, which no end mark
\* has ended.
ListedIn(n, log) ==
  /\ n \in 0 .. F!RootLength
  /\ log = F!Names(F!RootEntries)[n * F!EntriesPerSector]
  /\ NoEndIn(F!RootEntries, n * F!EntriesPerSector)

AtCluster(k) ==
  /\ k \in 0 .. F!ChainLength /\ cluster = F!ClusterAt[k]
  /\ ListedIn(k * fat.sectors_per_cluster + row, logged)

WalkInv ==
  Own => /\ pc = "root16" => ListedIn(row, logged)
         /\ pc \in {"root32", "chain"} => \E k \in Nat : AtCluster(k)
         /\ pc # "ui" => ~complete
         /\ pc = "ui" => F!ListsRoot

\* Such a log begins what FAT says, and after all sectors is all of it.
LEMMA ListedBegins ==
  ASSUME FatInv, Own, NEW n, ListedIn(n, logged)
  PROVE  /\ F!IsPrefix(logged, F!RootNames)
         /\ n = F!RootLength => logged = F!RootNames
<1> DEFINE L == F!RootLength
           E == F!EntriesPerSector
           e == F!RootEntries
<1>1. L \in Nat /\ E \in Nat \ {0} /\ e \in Seq(F!DirEntries) /\ Len(e) = L * E
  BY RootFacts
<1>2. n \in 0 .. L /\ logged = F!Names(e)[n * E] /\ NoEndIn(e, n * E)
  BY DEF ListedIn
<1>3. F!RootNames = F!Shown(e)
  BY DEF F!RootNames
<1> HIDE DEF L, E, e
<1>4. n * E \in Nat /\ n * E <= L * E
  BY <1>1, <1>2, TimesMonotone
<1>5. n * E \in 0 .. Len(e)
  BY <1>1, <1>4
<1>6. n = L => n * E = Len(e)
  BY <1>1
<1> QED BY <1>1, <1>2, <1>3, <1>5, <1>6, Begins DEF L

\* The next sector of the root directory, once it is read, is logged.
LEMMA SectorListed ==
  ASSUME FatInv, Own, NEW n \in 0 .. F!RootLength - 1, ListedIn(n, logged),
         NEW r, r.ok, r.sector = F!RootSector(n), F!ReadDirectory(r)
  PROVE  \/ pc' = "ui" /\ logged' = F!RootNames
         \/ /\ pc' = pc /\ complete' = complete /\ row' = row + 1
            /\ ListedIn(n + 1, logged')
<1> DEFINE L == F!RootLength
           E == F!EntriesPerSector
           e == F!RootEntries
           d == disk.dir[F!RootSector(n)]
           p == n * E
<1>1. L \in Nat /\ E \in Nat \ {0} /\ e \in Seq(F!DirEntries)
  BY RootFacts
<1>2. /\ d \in Seq(F!DirEntries) /\ Len(d) = E /\ PartOf(d, e, p)
      /\ F!RootSector(n) \in DOMAIN disk.dir
  BY RootFacts
<1>3. n \in 0 .. L - 1 /\ logged = F!Names(e)[p] /\ NoEndIn(e, p)
  BY DEF ListedIn
<1>4. F!Sector(disk.dir, r, F!Junk) = d
  BY <1>2 DEF F!Sector
<1>5. F!RootNames = F!Shown(e)
  BY DEF F!RootNames
<1> HIDE DEF L, E, e, d
<1>6. /\ logged' = Behind(logged, F!Shown(d))
      /\ F!HasEnd(d) => pc' = "ui"
      /\ ~F!HasEnd(d) => pc' = pc /\ complete' = complete /\ row' = row + 1
  BY <1>4 DEF F!ReadDirectory, F!Return, Behind
<1>7. /\ F!HasEnd(d) => Behind(F!Names(e)[p], F!Shown(d)) = F!Shown(e)
      /\ ~F!HasEnd(d) => /\ Behind(F!Names(e)[p], F!Shown(d)) = F!Names(e)[p + Len(d)]
                         /\ NoEndIn(e, p + Len(d))
  <2> HIDE DEF p
  <2> QED BY <1>1, <1>2, <1>3, OneMore
<1>8. p + Len(d) = (n + 1) * E /\ n + 1 \in 0 .. L
  <2>1. n \in Nat /\ n + 1 \in 0 .. L
    BY <1>1, <1>3
  <2>2. n * E + E = (n + 1) * E
    BY <1>1, <2>1
  <2>3. p + Len(d) = n * E + E
    BY <1>2
  <2> QED BY <2>1, <2>2, <2>3
<1> HIDE DEF p
<1>9. CASE F!HasEnd(d)
  BY <1>3, <1>5, <1>6, <1>7, <1>9
<1>10. CASE ~F!HasEnd(d)
  <2>1. ListedIn(n + 1, logged')
    BY <1>3, <1>6, <1>7, <1>8, <1>10 DEF ListedIn, L, E, e
  <2> QED BY <1>6, <1>10, <2>1
<1> QED BY <1>9, <1>10

\* What is listed stays so while disk and volume stay.
LEMMA ListedKept ==
  ASSUME UNCHANGED <<disk, fat>>, NEW n, NEW log, ListedIn(n, log)
  PROVE  ListedIn(n, log)'
<1>1. F!RootLength' = F!RootLength /\ F!RootEntries' = F!RootEntries
  BY LengthKept, SectorsKept
<1> QED BY <1>1 DEF ListedIn

LEMMA OwnKept ==
  ASSUME UNCHANGED <<disk, fat, fat_mounted>>
  PROVE  Own' <=> Own
<1>1. /\ F!ClusterAt' = F!ClusterAt /\ F!RootLength' = F!RootLength
      /\ F!ChainLength' = F!ChainLength
  BY ClustersKept, LengthKept DEF F!ChainLength, F!IsChainLength
<1>2. MountedOwn' <=> MountedOwn
  BY DEF MountedOwn
<1>3. F!ChainEnds' <=> F!ChainEnds
  BY <1>1 DEF F!ChainEnds, F!IsChainLength
<1>4. F!RootOnDisk' <=> F!RootOnDisk
  BY <1>1, <1>3 DEF F!RootOnDisk, F!RootSector
<1> QED BY <1>2, <1>4 DEF Own

\* The listing begins with nothing listed.
LEMMA ListingBegins ==
  FatInv /\ logged = << >> /\ ~complete /\ row = 0 /\ cluster = fat.root_cluster
    /\ pc \in {"root16", "root32"}
  => WalkInv
<1> SUFFICES ASSUME FatInv, Own, logged = << >>, ~complete, row = 0,
                    cluster = fat.root_cluster, pc \in {"root16", "root32"}
             PROVE  WalkInv
  BY DEF WalkInv
<1> DEFINE L == F!RootLength
           E == F!EntriesPerSector
           e == F!RootEntries
<1>1. L \in Nat /\ E \in Nat \ {0} /\ e \in Seq(F!DirEntries)
  BY RootFacts
<1>2. F!Names(e)[0] = << >>
  BY <1>1, EntriesIn, NamesLoop
<1> HIDE DEF L, E, e
<1>3. 0 * E = 0 /\ 0 \in 0 .. L
  BY <1>1
<1>4. ListedIn(0, logged)
  BY <1>2, <1>3 DEF ListedIn, NoEndIn, L, E, e
<1>5. CASE pc = "root32"
  <2>1. fat.fat_type = 32 /\ fat.sectors_per_cluster \in Nat
    BY <1>5 DEF FatInv, InLoop, AtVolume, Volumes
  <2>2. F!ChainLength \in Nat /\ F!ClusterAt[0] = cluster
    BY <2>1, ChainFacts, ClusterFacts, CountersTyped DEF Counters, Own
  <2>3. 0 * fat.sectors_per_cluster + row = 0
    BY <2>1
  <2>4. AtCluster(0)
    BY <1>4, <2>2, <2>3 DEF AtCluster
  <2> QED BY <1>5, <2>4 DEF WalkInv
<1>6. CASE pc = "root16"
  BY <1>4, <1>6 DEF WalkInv
<1> QED BY <1>5, <1>6
\* What a directory shows is a sequence of names.
LEMMA ShownTyped ==
  ASSUME NEW e \in Seq(F!DirEntries)
  PROVE  F!Shown(e) \in Seq(STRING)
<1>1. NamesIn(STRING, e) /\ F!Used(e) \in 0 .. Len(e)
  BY EntriesIn, UsedFacts
<1> QED BY <1>1, NamesLoop DEF F!Shown

LEMMA PrefixOfItself ==
  ASSUME NEW S, NEW s \in Seq(S)
  PROVE  F!IsPrefix(s, s)
BY DEF F!IsPrefix

\* A sector asked for below the limit of the driver is the one asked for.
LEMMA SentBelow ==
  ASSUME NEW a \in 0 .. Lba28 - 1
  PROVE  F!Sent(a) = a /\ F!Wrap(a) = a
<1>1. Word \in Nat \ {0} /\ Lba28 \in Nat \ {0} /\ Lba28 <= Word
  BY AtaAssumption, DiskAssumption
<1>2. a \in Nat /\ a < Word /\ a < Lba28
  BY <1>1
<1>3. a % Word = a /\ a % Lba28 = a
  BY <1>1, <1>2, ModSmall
<1> QED BY <1>3 DEF F!Sent, F!Wrap

\* Past the mount, an answer with a sector is the sector asked for.
LEMMA OwnAnswer ==
  ASSUME DiskInv, Resume, answer.ok, NEW a, F!Wanted = {a}, pc \notin {"ata", "mount"}
  PROVE  answer.sector = F!Sent(a)
BY DEF DiskInv, AskInv, Asked, AnswerInv, Resume, Return

\* A step of the listing: the next sector is logged, or the listing ends with
\* a log that is right.
LEMMA StepListed ==
  ASSUME FatInv, Own, ~complete, NEW n \in 0 .. F!RootLength - 1, ListedIn(n, logged),
         NEW r, r.ok => r.sector = F!RootSector(n), F!ReadDirectory(r)
  PROVE  \/ pc' = "ui" /\ F!ListsRoot'
         \/ /\ pc' = pc /\ complete' = complete /\ row' = row + 1
            /\ ListedIn(n + 1, logged)'
<1>1. UNCHANGED <<disk, fat>>
  BY DEF F!ReadDirectory
<1>2. F!RootNames' = F!RootNames
  BY <1>1, NamesKept
<1>3. CASE r.ok
  <2>1. \/ pc' = "ui" /\ logged' = F!RootNames
        \/ /\ pc' = pc /\ complete' = complete /\ row' = row + 1
           /\ ListedIn(n + 1, logged')
    BY <1>3, SectorListed
  <2>2. ASSUME logged' = F!RootNames PROVE F!ListsRoot'
    <3>1. F!RootEntries \in Seq(F!DirEntries)
      BY RootFacts
    <3>2. F!IsPrefix(F!RootNames, F!RootNames)
      BY <3>1, ShownTyped, PrefixOfItself DEF F!RootNames
    <3> QED BY <1>2, <2>2, <3>2 DEF F!ListsRoot
  <2>3. ListedIn(n + 1, logged') => ListedIn(n + 1, logged)'
    BY <1>1, LengthKept, SectorsKept DEF ListedIn
  <2> QED BY <2>1, <2>2, <2>3
<1>4. CASE ~r.ok
  <2>1. pc' = "ui" /\ complete' = FALSE /\ logged' = logged
    BY <1>4 DEF F!ReadDirectory, F!ReadFails, F!Return
  <2>2. F!IsPrefix(logged, F!RootNames)
    BY ListedBegins
  <2> QED BY <1>2, <2>1, <2>2 DEF F!ListsRoot
<1> QED BY <1>3, <1>4

\* Listing goes on in a FAT16 root directory.
LEMMA Walk16 ==
  ASSUME DiskInv, WalkInv, Resume, F!ListRoot16(answer)
  PROVE  WalkInv'
<1>1. /\ F!MoreIn16 /\ pc = "root16" /\ row < fat.root_dir_sectors
      /\ F!ReadDirectory(answer)
  BY DEF F!ListRoot16, F!MoreIn16
<1>2. UNCHANGED <<disk, fat, fat_mounted>>
  BY <1>1 DEF F!ReadDirectory
<1> SUFFICES ASSUME Own PROVE WalkInv'
  BY <1>2, OwnKept DEF WalkInv
<1>3. FatInv /\ fat.fat_type = 16 /\ fat \in Volumes /\ ListedIn(row, logged) /\ ~complete
  BY <1>1 DEF DiskInv, FatInv, InLoop, AtVolume, WalkInv
<1>4. F!RootLength = fat.root_dir_sectors /\ fat.root_dir_sectors \in Nat /\ row \in Nat
  BY <1>3, CountersTyped DEF F!RootLength, Volumes, Counters
<1>5. PICK n \in 0 .. F!RootLength - 1 : n = row
  BY <1>1, <1>4
<1>6. F!RootSector(n) \in 0 .. Lba28 - 1
  BY <1>3, RootFacts
<1>7. F!RootSector(n) = F!Read16Lba
  <2>1. fat.part_lba = 0 /\ fat.root_dir_lba \in Nat
    BY <1>3 DEF Own, Volumes
  <2> QED BY <1>3, <1>4, <1>5, <2>1 DEF F!RootSector, F!Read16Lba
<1>8. answer.ok => answer.sector = F!RootSector(n)
  <2>1. F!Wanted = {F!Read16Lba}
    BY <1>1, WantedAt
  <2> QED BY <1>1, <1>6, <1>7, <2>1, OwnAnswer, SentBelow
<1>9. \/ pc' = "ui" /\ F!ListsRoot'
      \/ /\ pc' = pc /\ complete' = complete /\ row' = n + 1
         /\ ListedIn(n + 1, logged)'
  BY <1>1, <1>3, <1>5, <1>8, StepListed
<1>10. row' = n + 1 /\ ListedIn(n + 1, logged)' => ListedIn(row, logged)'
  BY DEF ListedIn
<1> QED BY <1>1, <1>3, <1>9, <1>10 DEF WalkInv

\* The cluster of the chain that is being listed.
LEMMA InChain ==
  ASSUME FatInv, Own, pc \in {"root32", "chain"}, NEW k \in Nat, AtCluster(k)
  PROVE  /\ fat.fat_type = 32 /\ fat \in Volumes /\ fat.sectors_per_cluster \in Nat \ {0}
         /\ row \in 0 .. fat.sectors_per_cluster
         /\ F!ChainLength \in 0 .. Word
         /\ F!RootLength = F!ChainLength * fat.sectors_per_cluster
         /\ cluster < EndOfChain => k \in 0 .. F!ChainLength - 1
         /\ cluster >= EndOfChain => k = F!ChainLength
<1>1. fat.fat_type = 32 /\ fat \in Volumes /\ row <= fat.sectors_per_cluster
  BY DEF FatInv, InLoop, AtVolume, Volumes
<1>2. fat.sectors_per_cluster \in Nat \ {0} /\ row \in Nat
  BY <1>1, CountersTyped DEF Volumes, Counters
<1>3. /\ F!ChainLength \in 0 .. Word
      /\ F!ClusterAt[F!ChainLength] >= EndOfChain
      /\ \A i \in 0 .. F!ChainLength - 1 : F!ClusterAt[i] < EndOfChain
  BY <1>1, ChainFacts
<1>4. k \in 0 .. F!ChainLength /\ cluster = F!ClusterAt[k]
  BY DEF AtCluster
<1>5. cluster \in Nat /\ EndOfChain \in Nat /\ Word \in Nat
  BY CountersTyped DEF Counters
<1>6. F!RootLength = F!ChainLength * fat.sectors_per_cluster
  BY <1>1 DEF F!RootLength
<1>7. k = F!ChainLength \/ k \in 0 .. F!ChainLength - 1
  BY <1>3, <1>4, <1>5
<1>8. /\ cluster < EndOfChain => k \in 0 .. F!ChainLength - 1
      /\ cluster >= EndOfChain => k = F!ChainLength
  BY <1>3, <1>4, <1>5, <1>7
<1> QED BY <1>1, <1>2, <1>3, <1>6, <1>8

\* Listing goes on in a cluster of a FAT32 root directory.
LEMMA Walk32 ==
  ASSUME DiskInv, WalkInv, Resume, F!ListRoot32(answer)
  PROVE  WalkInv'
<1> DEFINE spc == fat.sectors_per_cluster
<1>1. /\ F!MoreIn32 /\ pc = "root32" /\ cluster < EndOfChain /\ row < spc
      /\ F!ReadDirectory(answer)
  BY DEF F!ListRoot32, F!MoreIn32
<1>2. UNCHANGED <<disk, fat, fat_mounted, cluster>>
  BY <1>1 DEF F!ReadDirectory
<1> SUFFICES ASSUME Own PROVE WalkInv'
  BY <1>2, OwnKept DEF WalkInv
<1>3. FatInv /\ ~complete
  BY <1>1 DEF DiskInv, WalkInv
<1>4. PICK k \in Nat : AtCluster(k)
  BY <1>1 DEF WalkInv
<1>5. /\ fat.fat_type = 32 /\ fat \in Volumes /\ spc \in Nat \ {0} /\ row \in 0 .. spc - 1
      /\ k \in 0 .. F!ChainLength - 1 /\ F!ChainLength \in Nat
      /\ F!RootLength = F!ChainLength * spc
  <2>1. Word \in Nat
    BY <1>3, CountersTyped DEF Counters
  <2> QED BY <1>1, <1>3, <1>4, <2>1, InChain
<1>6. PICK n \in Nat : n = k * spc + row
  <2>1. k \in Nat /\ k * spc \in Nat /\ row \in Nat
    BY <1>5
  <2> QED BY <2>1
<1>7. cluster = F!ClusterAt[k] /\ ListedIn(n, logged) /\ n \in 0 .. F!RootLength - 1
  <2>1. k + 1 <= F!ChainLength /\ k + 1 \in Nat /\ k \in Nat /\ spc \in Nat
    BY <1>5
  <2>2. (k + 1) * spc <= F!ChainLength * spc
    BY <1>5, <2>1, TimesMonotone
  <2> DEFINE m == k * spc
             l == F!ChainLength * spc
  <2>3. (k + 1) * spc = m + spc /\ m \in Nat /\ l \in Nat
    BY <1>5, <2>1
  <2> HIDE DEF m, l
  <2>4. n = m + row /\ m + spc <= l
    BY <1>6, <2>2, <2>3 DEF m, l
  <2>5. n \in 0 .. l - 1
    BY <1>5, <2>3, <2>4
  <2> QED BY <1>4, <1>5, <1>6, <2>5 DEF AtCluster, l
<1>8. F!RootSector(n) \in 0 .. Lba28 - 1
  BY <1>3, <1>7, RootFacts
<1>9. F!RootSector(n) = F!Read32Lba
  <2>1. n \div spc = k /\ n % spc = row
    BY <1>5, <1>6, RowAndColumn
  <2>2. fat.part_lba = 0 /\ fat.data_lba \in Nat /\ cluster \in Nat
    BY <1>3, <1>5, CountersTyped DEF Own, Volumes, Counters
  <2>3. F!RootSector(n) = fat.data_lba + (cluster - 2) * spc + row
    BY <1>5, <1>7, <2>1 DEF F!RootSector
  <2> DEFINE m == (cluster - 2) * spc
  <2>4. m \in Int
    BY <1>5, <2>2
  <2> HIDE DEF m
  <2>5. 0 + fat.data_lba + m + row = fat.data_lba + m + row
    BY <1>5, <2>2, <2>4
  <2> QED BY <2>2, <2>3, <2>5 DEF F!Read32Lba, m
<1>10. answer.ok => answer.sector = F!RootSector(n)
  <2>1. F!Wanted = {F!Read32Lba}
    BY <1>1, WantedAt
  <2> QED BY <1>1, <1>8, <1>9, <2>1, OwnAnswer, SentBelow
<1>11. \/ pc' = "ui" /\ F!ListsRoot'
       \/ /\ pc' = pc /\ complete' = complete /\ row' = row + 1
          /\ ListedIn(n + 1, logged)'
  BY <1>1, <1>3, <1>7, <1>10, StepListed
<1>12. row' = row + 1 /\ ListedIn(n + 1, logged)' => AtCluster(k)'
  <2> SUFFICES ASSUME row' = row + 1, ListedIn(n + 1, logged)' PROVE AtCluster(k)'
    OBVIOUS
  <2>1. F!ClusterAt' = F!ClusterAt /\ F!ChainLength' = F!ChainLength
    BY <1>2, ClustersKept DEF F!ChainLength, F!IsChainLength
  <2>2. k * fat'.sectors_per_cluster + row' = n + 1
    <3>1. k * spc \in Nat /\ row \in Nat
      BY <1>5
    <3> QED BY <1>2, <1>6, <3>1
  <2>3. ListedIn(k * fat.sectors_per_cluster + row, logged)'
    BY <2>2 DEF ListedIn
  <2> QED BY <1>2, <1>4, <1>7, <2>1, <2>3 DEF AtCluster
<1> QED BY <1>1, <1>3, <1>11, <1>12 DEF WalkInv
\* A cluster is followed by the one its entry of the table names.
LEMMA WalkChain ==
  ASSUME DiskInv, WalkInv, Resume, F!fat_get_next_cluster(answer)
  PROVE  WalkInv'
<1> DEFINE spc == fat.sectors_per_cluster
<1>1. /\ pc = "chain" /\ row' = 0
      /\ UNCHANGED <<disk, fat, fat_mounted, logged>>
  BY DEF F!fat_get_next_cluster
<1> SUFFICES ASSUME Own PROVE WalkInv'
  BY <1>1, OwnKept DEF WalkInv
<1>2. FatInv /\ ~complete /\ row = spc /\ cluster < EndOfChain
  BY <1>1 DEF DiskInv, WalkInv, FatInv, InLoop
<1>3. PICK k \in Nat : AtCluster(k)
  BY <1>1 DEF WalkInv
<1>4. /\ fat.fat_type = 32 /\ fat \in Volumes /\ spc \in Nat \ {0}
      /\ k \in 0 .. F!ChainLength - 1 /\ F!ChainLength \in 0 .. Word
  BY <1>1, <1>2, <1>3, InChain
<1>5. PICK n \in Nat : n = k * spc + row
  <2>1. k * spc \in Nat
    BY <1>4
  <2> QED BY <1>2, <1>4, <2>1
<1>6. cluster = F!ClusterAt[k] /\ ListedIn(n, logged)
  BY <1>3, <1>5 DEF AtCluster
<1>7. CASE ~answer.ok
  <2>1. pc' = "ui" /\ complete' = FALSE
    BY <1>7 DEF F!fat_get_next_cluster, F!Return
  <2>2. F!IsPrefix(logged, F!RootNames)
    BY <1>2, <1>6, ListedBegins
  <2>3. F!RootNames' = F!RootNames
    BY <1>1, NamesKept
  <2>4. F!ListsRoot'
    BY <1>1, <2>1, <2>2, <2>3 DEF F!ListsRoot
  <2> QED BY <2>1, <2>4 DEF WalkInv
<1>8. CASE answer.ok
  <2> DEFINE o == cluster * F!EntrySize
             a == fat.fat_lba + (o \div SectorSize)
  <2>1. /\ o \in Nat /\ o < Word /\ Word \in Nat
        /\ SectorSize \in Nat \ {0} /\ fat.fat_lba \in Nat
    <3>1. cluster \in Nat /\ EndOfChain \in Nat /\ Word \in Nat
      BY <1>2, CountersTyped DEF Counters
    <3>2. EndOfChain * F!EntrySize <= Word /\ SectorSize \in Nat \ {0}
      BY DiskAssumption DEF F!DirEntrySize
    <3> QED BY <1>2, <1>4, <3>1, <3>2 DEF F!EntrySize, Volumes
  <2>2. a \in 0 .. Lba28 - 1
    <3>1. a < Lba28
      BY <1>4, <1>6 DEF Own, F!RootOnDisk
    <3> HIDE DEF o
    <3>2. o \div SectorSize \in Nat
      BY <2>1, DivBounds
    <3>3. a \in Nat
      BY <2>1, <3>2
    <3> HIDE DEF a
    <3> QED BY <3>1, <3>3, AtaAssumption
  <2>3. F!Wrap(o) = o
    <3> HIDE DEF o
    <3>1. Word # 0
      BY <2>1
    <3> QED BY <2>1, <3>1, ModSmall DEF F!Wrap
  <2>4. F!FatLba(cluster) = a
    BY <2>3 DEF F!FatLba
  <2>5. answer.sector = a
    <3>1. F!Wanted = {a}
      BY <1>1, <2>4, WantedAt
    <3> HIDE DEF a
    <3> QED BY <1>1, <1>8, <2>2, <3>1, OwnAnswer, SentBelow
  <2>6. cluster' = F!Masked(F!Sector(disk.fat, answer, F!NoEntries)[o % SectorSize])
    BY <1>8, <2>3 DEF F!fat_get_next_cluster
  <2>7. F!NextCluster(cluster)
          = F!Masked(F!Sector(disk.fat, answer, F!NoEntries)[o % SectorSize])
    BY <2>5 DEF F!NextCluster, F!Sector
  <2>8. k + 1 \in 1 .. Word /\ k + 1 \in 0 .. F!ChainLength /\ (k + 1) - 1 = k
    BY <1>4, <2>1
  <2>9. cluster' = F!ClusterAt[k + 1]
    BY <1>2, <1>6, <2>6, <2>7, <2>8, ClusterFacts DEF Own
  <2>10. (k + 1) * spc + 0 = n
    <3>1. (k + 1) * spc = k * spc + spc
      BY <1>4
    <3>2. (k + 1) * spc \in Nat
      BY <1>4
    <3> QED BY <1>2, <1>5, <3>1, <3>2
  <2>11. F!ClusterAt' = F!ClusterAt /\ F!ChainLength' = F!ChainLength
    BY <1>1, ClustersKept DEF F!ChainLength, F!IsChainLength
  <2>12. ListedIn(n, logged)'
    BY <1>1, <1>6, LengthKept, SectorsKept DEF ListedIn
  <2>13. AtCluster(k + 1)'
    <3>1. ListedIn((k + 1) * fat.sectors_per_cluster + row, logged)'
      <4>1. (k + 1) * fat'.sectors_per_cluster + row' = n
        BY <1>1, <2>10
      <4> QED BY <2>12, <4>1 DEF ListedIn
    <3> QED BY <2>8, <2>9, <2>11, <3>1 DEF AtCluster
  <2>14. pc' = "root32" /\ complete' = complete
    BY <1>8 DEF F!fat_get_next_cluster
  <2> QED BY <1>2, <2>13, <2>14 DEF WalkInv
<1> QED BY <1>7, <1>8

\* The loops end, or a cluster does.
LEMMA WalkEnds ==
  ASSUME FatInv, WalkInv, F!NoRead
  PROVE  WalkInv'
<1>1. UNCHANGED <<disk, fat, fat_mounted, row, cluster, logged>>
  BY DEF F!NoRead, F!NextPartition, F!ListedAll, F!ListedCluster
<1> SUFFICES ASSUME Own PROVE WalkInv'
  BY <1>1, OwnKept DEF WalkInv
<1>2. F!RootNames' = F!RootNames /\ F!ClusterAt' = F!ClusterAt /\ F!ChainLength' = F!ChainLength
      /\ F!RootLength' = F!RootLength /\ F!RootEntries' = F!RootEntries
  BY <1>1, NamesKept, ClustersKept, LengthKept, SectorsKept DEF F!ChainLength, F!IsChainLength
<1>3. pc \in {"root16", "root32", "chain"}
  BY DEF FatInv, AtVolume, Own, F!NoRead, F!NextPartition, F!ListedAll, F!ListedCluster
<1>4. CASE F!ListedAll
  <2>1. pc' = "ui" /\ complete' = TRUE
    BY <1>4 DEF F!ListedAll, F!Return
  <2>2. logged = F!RootNames
    <3>1. CASE pc = "root16"
      <4>1. ListedIn(row, logged) /\ row >= fat.root_dir_sectors /\ fat.fat_type = 16
        BY <1>4, <3>1, CountersTyped
        DEF WalkInv, F!ListedAll, F!MoreIn16, FatInv, InLoop, Counters, AtVolume, Volumes
      <4>2. F!RootLength = fat.root_dir_sectors
        BY <4>1 DEF F!RootLength
      <4>3. row <= fat.root_dir_sectors /\ row \in Nat /\ fat.root_dir_sectors \in Nat
        BY <3>1, CountersTyped DEF FatInv, InLoop, Counters, AtVolume, Volumes, Own
      <4>4. row = F!RootLength
        BY <4>1, <4>2, <4>3
      <4> QED BY <4>1, <4>4, ListedBegins
    <3>2. CASE pc = "root32"
      <4>1. PICK k \in Nat : AtCluster(k)
        BY <3>2 DEF WalkInv
      <4>2. cluster >= EndOfChain
        BY <1>4, <3>2 DEF F!ListedAll
      <4>3. /\ k = F!ChainLength /\ row \in Nat /\ fat.sectors_per_cluster \in Nat
            /\ F!RootLength = F!ChainLength * fat.sectors_per_cluster
            /\ ListedIn(F!RootLength + row, logged)
        BY <3>2, <4>1, <4>2, InChain DEF AtCluster
      <4>4. F!RootLength + row \in 0 .. F!RootLength /\ F!RootLength \in Nat
        BY <4>3, RootFacts DEF ListedIn
      <4>5. F!RootLength + row = F!RootLength
        BY <4>3, <4>4
      <4> QED BY <4>3, <4>5, ListedBegins
    <3> QED BY <1>4, <3>1, <3>2 DEF F!ListedAll
  <2>3. F!IsPrefix(logged, F!RootNames)
    <3>1. F!RootNames \in Seq(STRING)
      BY RootFacts, ShownTyped DEF F!RootNames
    <3> QED BY <2>2, <3>1, PrefixOfItself
  <2>4. F!ListsRoot'
    BY <1>1, <1>2, <2>1, <2>2, <2>3 DEF F!ListsRoot
  <2> QED BY <2>1, <2>4 DEF WalkInv
<1>5. CASE F!ListedCluster
  <2>1. pc = "root32" /\ pc' = "chain" /\ complete' = complete
    BY <1>5 DEF F!ListedCluster
  <2>2. PICK k \in Nat : AtCluster(k)
    BY <2>1 DEF WalkInv
  <2>3. AtCluster(k)'
    BY <1>1, <1>2, <2>2 DEF AtCluster, ListedIn
  <2> QED BY <2>1, <2>3 DEF WalkInv
<1> QED BY <1>3, <1>4, <1>5 DEF F!NoRead, F!NextPartition

\* Waiting for the driver, or for nothing, leaves the listing as it is.
LEMMA WalkKept ==
  ASSUME WalkInv, UNCHANGED fatVars
  PROVE  WalkInv'
<1>1. UNCHANGED <<disk, pc, part, fat, fat_mounted, row, cluster, logged, complete>>
  BY DEF fatVars
<1>2. F!RootNames' = F!RootNames /\ F!ClusterAt' = F!ClusterAt /\ F!ChainLength' = F!ChainLength
      /\ F!RootLength' = F!RootLength /\ F!RootEntries' = F!RootEntries
  BY <1>1, NamesKept, ClustersKept, LengthKept, SectorsKept DEF F!ChainLength, F!IsChainLength
<1>3. Own' <=> Own
  BY <1>1, OwnKept
<1>4. \A n : ListedIn(n, logged)' <=> ListedIn(n, logged)
  BY <1>1, <1>2 DEF ListedIn
<1>5. ListedIn(row, logged)' <=> ListedIn(row, logged)
  BY <1>1, <1>2 DEF ListedIn
<1>6. \A k \in Nat : AtCluster(k)' <=> AtCluster(k)
  BY <1>1, <1>2 DEF AtCluster, ListedIn
<1>7. F!ListsRoot' <=> F!ListsRoot
  BY <1>1, <1>2 DEF F!ListsRoot
<1> QED BY <1>1, <1>3, <1>5, <1>6, <1>7 DEF WalkInv
\* A volume that mounts is listed from its beginning.
LEMMA WalkMounts ==
  ASSUME FatInv, FatInv', NEW r, F!vfs_mount_fat(r)
  PROVE  WalkInv'
<1>1. /\ ~fat_mounted /\ logged = << >> /\ ~complete
      /\ logged' = logged /\ complete' = complete /\ row' = 0
  BY DEF F!vfs_mount_fat, FatInv, F!TypeOK, AtVolume
<1>2. CASE F!MountFails
  BY <1>2 DEF F!MountFails, WalkInv, Own
<1>3. CASE ~F!MountFails
  <2>1. /\ cluster' = fat'.root_cluster /\ pc' \in {"root16", "root32"}
    BY <1>3 DEF F!vfs_mount_fat
  <2>2. (FatInv /\ logged = << >> /\ ~complete /\ row = 0 /\ cluster = fat.root_cluster
           /\ pc \in {"root16", "root32"})'
    BY <1>1, <2>1
  <2> QED BY <2>2, ListingBegins, PTL
<1> QED BY <1>2, <1>3

LEMMA WalkInvHolds == DiskSpec => [](DiskInv /\ WalkInv)
<1>1. DiskInit => WalkInv
  BY DEF DiskInit, F!Init, WalkInv, Own
<1>2. DiskInv /\ DiskInv' /\ WalkInv /\ [DiskNext]_bootVars => WalkInv'
  <2> SUFFICES ASSUME DiskInv, DiskInv', WalkInv, [DiskNext]_bootVars PROVE WalkInv'
    OBVIOUS
  <2>1. CASE UNCHANGED fatVars
    BY <2>1, WalkKept
  <2>2. CASE Resume
    <3>1. ~fat_mounted => WalkInv' \/ F!vfs_mount_fat(answer)
      BY <2>2
      DEF Resume, F!ata_init, F!Use, F!mbr_read, F!ListRoot16, F!ListRoot32, F!MoreIn16,
          F!MoreIn32, F!fat_get_next_cluster, DiskInv, FatInv, AtVolume, WalkInv, Own
    <3>2. F!vfs_mount_fat(answer) => WalkInv'
      BY WalkMounts DEF DiskInv
    <3>3. fat_mounted => F!ListRoot16(answer) \/ F!ListRoot32(answer)
                           \/ F!fat_get_next_cluster(answer)
      BY <2>2
      DEF Resume, F!ata_init, F!Use, F!mbr_read, F!vfs_mount_fat, DiskInv, FatInv, AtVolume
    <3> QED BY <2>2, <3>1, <3>2, <3>3, Walk16, Walk32, WalkChain
  <2>3. CASE Compute
    BY <2>3, WalkEnds DEF Compute, DiskInv
  <2>4. CASE Ask
    BY <2>4, WalkKept DEF Ask
  <2>5. CASE UNCHANGED bootVars
    <3>1. UNCHANGED fatVars
      BY <2>5 DEF bootVars
    <3> QED BY <3>1, WalkKept
  <2>6. \/ UNCHANGED fatVars \/ Resume \/ Compute \/ Ask
        \/ UNCHANGED bootVars
    BY DEF DiskNext, Kernel
  <2> QED BY <2>1, <2>2, <2>3, <2>4, <2>5, <2>6
<1> QED BY <1>1, <1>2, DiskInvHolds, PTL DEF DiskSpec

\* Whatever the disk does to the calls, the log shows the root directory of
\* the volume as FAT defines it: its beginning while it is read or after a
\* failure, all of it on success.
THEOREM ListingIsRight == DiskSpec => []ListsRoot
<1>1. DiskInv /\ WalkInv => ListsRoot
  <2> SUFFICES ASSUME DiskInv, WalkInv, Own PROVE F!ListsRoot
    BY DEF ListsRoot, Own
  <2>1. FatInv /\ pc \in {"root16", "root32", "chain", "ui"}
    BY DEF DiskInv, FatInv, AtVolume, Own
  <2>2. CASE pc = "root16"
    <3>1. ListedIn(row, logged) /\ ~complete
      BY <2>2 DEF WalkInv
    <3> QED BY <2>1, <3>1, ListedBegins DEF F!ListsRoot
  <2>3. CASE pc \in {"root32", "chain"}
    <3>1. PICK k \in Nat : AtCluster(k)
      BY <2>3 DEF WalkInv
    <3>2. ListedIn(k * fat.sectors_per_cluster + row, logged) /\ ~complete
      BY <2>3, <3>1 DEF AtCluster, WalkInv
    <3> QED BY <2>1, <3>2, ListedBegins DEF F!ListsRoot
  <2>4. CASE pc = "ui"
    BY <2>4 DEF WalkInv
  <2> QED BY <2>1, <2>2, <2>3, <2>4
<1> QED BY <1>1, WalkInvHolds, PTL
=============================================================================
