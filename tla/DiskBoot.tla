-------------------------------- MODULE DiskBoot --------------------------------
(***************************************************************************)
(* The disk part of kernel_main over the driver it really has: Fat decides *)
(* what to read and what to make of the answer, Ata asks the disk.  A call *)
(* that gives up leaves the disk at work, and a mount that fails is        *)
(* followed by the mount of the next partition, which may get that sector. *)
(***************************************************************************)
EXTENDS Ata, Sequences

CONSTANTS Word, SectorSize, Min16, Min32, EndOfChain, Disks

VARIABLES disk, pc, part, fat, fat_mounted, row, cluster, logged, complete

F == INSTANCE Fat

ASSUME DiskAssumption ==
  /\ Word \in Nat /\ SectorSize \in Nat /\ Lba28 <= Word
  /\ SectorSize >= F!DirEntrySize
  /\ EndOfChain \in Nat /\ EndOfChain * F!EntrySize <= Word
  /\ F!DisksTyped

fatVars == <<disk, pc, part, fat, fat_mounted, row, cluster, logged, complete>>
bootVars == <<call, drive, answer, fatVars>>

\* kernel_main calls the driver for the sector it wants next.
Ask ==
  /\ \/ pc = "ata" /\ ata_init
     \/ \E lba \in F!Wanted : ata_read28(F!Wrap(lba))
  /\ UNCHANGED fatVars

\* The call returns, and kernel_main goes on with its result.
Resume ==
  /\ Return
  /\ F!ata_init(answer.ok) \/ F!Use(answer)

Compute == call.at = "idle" /\ F!NoRead /\ UNCHANGED ataVars

Kernel == Ask \/ Resume \/ Compute \/ (CallStep /\ UNCHANGED fatVars)

DiskInit == Init /\ F!Init

DiskNext ==
  \/ Kernel
  \/ Serve /\ UNCHANGED fatVars
  \/ pc = "ui" /\ UNCHANGED bootVars

\* Every wait of the driver is bounded, so the kernel goes on whether or not
\* the disk ever answers.
DiskSpec == DiskInit /\ [][DiskNext]_bootVars /\ WF_bootVars(Kernel)

-----------------------------------------------------------------------------
DiskTypeOK == TypeOK /\ F!TypeOK

Lba(i) == disk.parts[i].lba_start

\* A sector that an earlier call asked for is only ever taken for the boot
\* sector of a partition, and then it is the boot sector of one that was tried
\* before: the partition table, directories and allocation tables that are used
\* are those asked for, because the listing ends at the first failed call.
StaleOnlyWhenMounting ==
  call.at = "return" /\ answer.ok /\ answer.sector # call.command =>
    /\ pc = "mount"
    /\ \E i \in 1 .. part - 1 :
         ~F!Empty(disk.parts[i]) /\ answer.sector = F!Sent(Lba(i))

\* The boot sector the volume was mounted from is its own.
MountedOwn ==
  LET bpb == F!Sector(disk.boot, [sector |-> F!Sent(fat.part_lba)], F!NotBoot)
  IN  F!Mountable(bpb) /\ fat = F!Mounted(bpb, fat.part_lba)

\* A volume at sector 0 that was mounted from its own boot sector is listed as
\* FAT says, whatever the disk does to the calls.
ListsRoot == fat_mounted /\ fat.part_lba = 0 /\ MountedOwn /\ F!RootOnDisk => F!ListsRoot

\* No disk - none, one that never answers, one that fails at any command -
\* keeps the kernel from starting its UI.
ReachesUi == <>(pc = "ui")
=============================================================================
