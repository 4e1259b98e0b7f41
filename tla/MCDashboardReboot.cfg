CONSTANTS
  Games <- SmallCatalog
  Touchscreens = {"wayland"}
  ConfirmTicks = 2
  MaxBatch = 4
SPECIFICATION Spec
INVARIANT RebootRunsReboot
CHECK_DEADLOCK FALSE
