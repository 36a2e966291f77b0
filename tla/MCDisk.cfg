SPECIFICATION DiskSpec
CONSTANTS
  Word = 1024
  Lba28 = 512
  SectorSize = 64
  Min16 = 4
  Min32 = 8
  EndOfChain = 248
  Identify = Identify
  Pending = Pending
  Disks <- AtZero
INVARIANTS
  DiskTypeOK
  StaleOnlyWhenMounting
  ListsRoot
PROPERTIES
  StoreSpec
  ReachesUi
