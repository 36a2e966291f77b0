SPECIFICATION Spec
CONSTANTS
  PageSize = 16
  HeapSize = 24
  Word = 128
  KernelEnd = 10
  MemoryMaps <- MCMaps
  Requests <- MCRequests
INVARIANTS
  TypeOK
  StatsExact
  HeldPagesPrivate
  BlocksSound
  PoolIsRam
PROPERTY
  PoolSpec
