CONSTANTS
  Options <- ChosenOptions
  Size = 2
SPECIFICATION FairSpec
CHECK_DEADLOCK FALSE
VIEW LiveState
INVARIANTS
  TypeOK
  CauseNamed
  NothingLost
PROPERTIES
  StatsReturns
  CancelEnds
  SilenceEnds
  ReleasesHelpers
