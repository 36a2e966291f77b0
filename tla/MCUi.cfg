SPECIFICATION Spec
CONSTANTS
  AppCount = 2
  InitRects <- MCInitRects
  Icons <- MCIcons
  SettingsApp = 0
  Width = 640
  Height = 480
  Keys <- MCKeys
  Points <- MCPoints
INVARIANTS
  TypeOK
  DragSound
  WindowsOnScreen
  CloseBoxReachable
PROPERTIES
  OneEffectPerPress
  DragUndisturbed
