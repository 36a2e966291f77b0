SPECIFICATION BootSpec
CONSTANTS
  Word = 4096
  Headers <- SomeHeaders
  Glyph = 8
  Config = {0, 2, 5, 6}
  Ack = {1, 3, 4, 5, 6, 7}
  Scancodes = {{2, 3, 4, 7}, {1, 2, 3}}
  MaxArrived = 2
  Machines <- AllMachines
  KernelEnd = 1024
  BitmapBytes = 16
  HeapUsed = 64
  BackBase = 2000
  BackWidth = 12
  BackHeight = 10
  MaxTasks = 2
  Shapes <- AllShapes
INVARIANTS
  FindsFirst
  DrawnExactly
  DrawnInside
  RamReported
  LeftInPort
PROPERTIES
  BootEnds
  TasksKeepRunning
CHECK_DEADLOCK FALSE
