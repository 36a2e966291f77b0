SPECIFICATION Spec
CONSTANTS
  QueueSize = 4
  ReportKeys = 2
  UsbPeriod = 3
  Machines <- Ps2Keyboard
  MaxDown = 0
  Motions <- TwoMotions
  MaxPending = 3
  Width = 4
  Height = 3
PROPERTY EveryPressDecoded
