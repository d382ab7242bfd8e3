CONSTANTS
  Options <- ChosenOptions
  Size = 1
SPECIFICATION FairSpec
CHECK_DEADLOCK FALSE
PROPERTIES
  DoneStops
