CONSTANTS
  Keys = {"power", "up"}
  KEY_POWER = "power"
  KEY_UP = "up"
  KEY_ENTER = "enter"
  Devices <- MCDevices
  queue_max = 1
  MaxPresses = 2
  PipeSize = 1
  MaxLines = 1
  MaxInstalls = 1
SPECIFICATION Spec
INVARIANTS LongPressRight RebootAllowed ResultRight
PROPERTIES InstallReturns
CHECK_DEADLOCK FALSE
