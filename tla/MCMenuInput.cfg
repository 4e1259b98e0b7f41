CONSTANTS
  BurstLimit = 1
  BurstWindow = 2
  QuietReset = 2
  MaxTime = 3
  MaxEdges = 4
  Kind <- MCKind
  Paths = {1, 2}
  Ports = {1, 2}
  MaxPads = 2
  MaxKeyboards = 1
  PadKeys <- MCPadKeys
  Keys <- MCKeys
  AxisValues = {0, 127, 170}
  AxisMin = 0
  AxisMax = 255
  BufferSize = 2
  BatchSize = 2
  Scenarios <- MCScenarios
  Workers = {1, 2}
  CueTime = 1
SPECIFICATION InputSpec
INVARIANTS BurstBound InputInv EveryCommandIsAPress
PROPERTIES QuietBeforeResume PluggedInIsRead
CHECK_DEADLOCK FALSE
