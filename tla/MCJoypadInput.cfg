CONSTANTS
  Ports = {1, 2, 3}
  Paths = {1, 2, 3}
  Devices = {1, 2, 3}
  BufferSize = 4
  BatchSize = 3
  Keys = {1, 2}
  JoypadScenarios <- MCScenarios
SPECIFICATION JoypadSpec
INVARIANT SlotsInv
PROPERTIES SlotsAreKept Settles
CHECK_DEADLOCK FALSE
