SPECIFICATION ChildSpec
CONSTANTS
  Displays = {"evdev", "wayland"}
  Mirror = TRUE
  Supervised = TRUE
  ExitHold = 1
  Grace = 1
  Retry = 1
  Faults <- MCFaults
  BufferSize = 2
  QMax = 2
INVARIANT ChildInv
PROPERTIES StopsAreJustified ChildEnds
