SPECIFICATION FairSpec
CONSTANTS
  QueueSize = 4
  ReportKeys = 2
  UsbPeriod = 3
  Machines <- UsbMouseAlone
  MaxDown = 0
  Motions <- TwoMotions
  MaxPending = 3
  Width = 4
  Height = 3
PROPERTY UsbMotionApplied
