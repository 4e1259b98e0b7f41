SPECIFICATION Spec
CONSTANTS
  DisplayWidth = 10
  DisplayHeight = 6
  SafeInset = 1
  BufferCount = 3
  Slices = 3
  Source <- MCSource
  Sizes <- MCSizes
  Fingers = {f1, f2}
  Scenarios <- MCScenarios
CHECK_DEADLOCK FALSE
INVARIANTS SurfaceInv NoGhostFinger
PROPERTY Answers
