CONSTANTS
  Pads = {1}
  Target = 1
  Cap = 2
  Redraw = 1
  BufferSize = 3
  BatchSize = 3
  TimerScenarios <- MCScenarios
SPECIFICATION TimerSpec
INVARIANTS TimerInv EveryActivationIsAPress
PROPERTIES Leaves
CHECK_DEADLOCK FALSE
