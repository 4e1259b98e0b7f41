SPECIFICATION EmulatorSpec
CONSTANTS
  Capacity = 3
  Chunk = 2
  MaxFrames = 4
  LogicalWidth = 6
  LogicalHeight = 4
  PhysicalWidth = 5
  SafeInset = 1
  HintPixels <- MCHintPixels
  Sizes <- MCSizes
  FrontEnds <- MCFrontEnds
  SaveEvery = 2
  SourceRate = 3
  OutputRate = 2
  MaxSource = 6
  Scenarios <- MCScenarios
CHECK_DEADLOCK FALSE
INVARIANTS EmulatorInv ShowsThePicture
PROPERTIES ImplementsFifo DrainsAndEnds
