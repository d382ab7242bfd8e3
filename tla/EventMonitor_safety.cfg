CONSTANTS
  Listeners = {l1, l2}
  CapC = 2
  MaxRetries = 0
  MaxAdds = 2
  MaxTime = 2
  MaxBoth = 3
  MaxErrs = 0
  Readd = TRUE
SPECIFICATION Spec
CHECK_DEADLOCK FALSE
SYMMETRY ListenerSymmetry
VIEW LiveState
INVARIANTS
  TypeOK
  WgBalance
  NeverWaits
  SendsToOpenC
  ListenersOpen
  InOrder
