CONSTANTS
  a = a
  b = b
  c = c
  Nets = {a, b, c}
  Home = a
  FileOrder <- MCFileOrder
  Sticky = {b}
  Changed = {c}
  Scenarios <- MCScenarios
  Prompt = TRUE
  ScanRounds = 1
  ScanRetries = 2
  Passes = 2
  AssociationTimeout = 1
  RecoveryAfter = 1
  SwitchTimeout = 3
  RollbackGrace = 1
  PreferredLimit = 2
  DisconnectThreshold = 2
SPECIFICATION FairSpec
 
PROPERTIES RunsAreSound RecoversAndTells
