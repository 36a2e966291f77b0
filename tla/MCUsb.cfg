SPECIFICATION FairSpec
CONSTANTS
  HeapUnits = 44
  MaxControllers = 2
  Devs = 3
  Funcs = 3
  BufferLen = 64
  Machines <- MCMachines
  HonoursRun = FALSE
  Patient = FALSE
INVARIANTS
  TypeOK
  AddressAgreed
  ReportsFromConfigured
  LayoutKnown
  ReportsBounded
  ControllersMet
PROPERTIES
  OwnAnswer
  AlwaysReturns
