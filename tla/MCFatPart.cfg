SPECIFICATION Spec
CONSTANTS
  Word = 1024
  Lba28 = 512
  SectorSize = 64
  Min16 = 4
  Min32 = 8
  EndOfChain = 248
  Disks <- AtThirty
INVARIANT ListsRoot
