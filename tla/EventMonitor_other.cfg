CONSTANTS
  Listeners = {l1, l2}
  CapC = 1
  MaxRetries = 0
  MaxAdds = 2
  MaxTime = 0
  MaxBoth = 3
  MaxErrs = 0
  Readd = FALSE
SPECIFICATION Spec
CHECK_DEADLOCK FALSE
PROPERTIES
  RemovesOnlyItsListener
