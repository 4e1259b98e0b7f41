CONSTANTS
  Games <- SmallCatalog
  Touchscreens = {"evdev", "wayland"}
  ConfirmTicks = 2
  MaxBatch = 2
SPECIFICATION Spec
INVARIANTS LoopInv ScreenIsCurrent
PROPERTIES RebootNeedsTwoSelections ShutdownEndsSoon
CHECK_DEADLOCK FALSE
