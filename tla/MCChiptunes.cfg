CONSTANTS
  PlayerScenarios <- AllScenarios
  Points <- AllPoints
  Anything <- AnyCommand
  BufferSize = 3
  BatchSize = 3
  MaxPads = 2
  Loudest = 2
  VolumeStep = 1
SPECIFICATION PlayerSpec
INVARIANT PlayerInv
PROPERTIES SkipsToNearest PlaysEverything ErrorsAndBackAreSeen

CHECK_DEADLOCK FALSE
