SPECIFICATION WorkingSpec
CONSTANTS
  HeapUnits = 44
  MaxControllers = 2
  Devs = 3
  Funcs = 3
  BufferLen = 64
  Machines <- OneKeyboard
  HonoursRun = TRUE
  Patient = TRUE
PROPERTY DeviceFound
