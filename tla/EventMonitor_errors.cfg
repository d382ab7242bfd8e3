CONSTANTS
  Listeners = {l1}
  CapC = 1
  MaxRetries = 1
  MaxAdds = 2
  MaxTime = 1
  MaxBoth = 2
  MaxErrs = 1
  Readd = FALSE
SPECIFICATION FairSpec
CHECK_DEADLOCK FALSE
VIEW LiveState
INVARIANTS
  PanicsOnlyOnErrC
  StaysMonitored
PROPERTIES
  MonitorsEnd
  RemoveReturnsUnlessClogged
