CONSTANTS
  p1 = p1
  Values <- MCValues
  Missing = Missing
  Torn = Torn
  Pids = {p1}
  Writers <- MCWriters
  Menu <- MCMenu
  Player <- MCPlayer
  Sram <- MCSram
  On <- MCOn
  Off <- MCOff
  FullVolume = 5
  VolumeStep = 2
  DefaultVolume = 3
  FullBrightness = 6
  BrightnessStep = 2
  MaxBrightness = 4
  SsidLimit = 2
  PassphraseMinimum = 1
  PassphraseLimit = 2
  Points <- MCPoints
  Scenarios <- MCScenarios
  Shelves <- MCShelves
SPECIFICATION FairSpec
INVARIANTS FileInv SettingsInv
PROPERTIES ImplementsCell TypedIsTouched SignalEnds
CHECK_DEADLOCK FALSE
