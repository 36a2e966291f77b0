SPECIFICATION FairSpec
CONSTANTS
  QueueSize = 3
  ReportKeys = 2
  UsbPeriod = 3
  Machines <- AllMachines
  MaxDown = 3
  Motions <- TwoMotions
  MaxPending = 1
  Width = 2
  Height = 2
INVARIANTS
  TypeOK
  QueueEmptyAtReport
  NoStaleMotion
  PacketsAligned
  OffScreenOnlyMidPacket
PROPERTIES
  NoPhantomPress
  PortIsServed
