CONSTANTS
  OptionSet <- ChosenOptions
  Size = 3
SPECIFICATION FairSpec
INVARIANT OutputWhole
PROPERTIES WaitReturns CopiesEnd
CHECK_DEADLOCK FALSE
