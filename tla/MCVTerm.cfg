SPECIFICATION Spec
CONSTANTS
  Width = 2
  Height = 3
  HistoryLines = 2
  Chars = {"a"}
  Repertoires <- MCRepertoires
  MaxRead = 3
  MaxFunctions = 5
  MaxEvents = 2
INVARIANTS TermInv PanelIsTrue
PROPERTY ImplementsScrollback
CHECK_DEADLOCK FALSE
