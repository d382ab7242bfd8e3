SPECIFICATION Spec
CONSTANTS
  c1 = c1
  c2 = c2
  Callers = {c1, c2}
  Strings <- MCStrings
  MaxFaults = 1
  MaxChanges = 1
  Areas = {"container", "exec", "image", "network", "volume", "plugin", "system", "version"}
INVARIANTS TypeOK ResultsTrue OneVersion FitsDaemon
PROPERTY CallsReturn
CHECK_DEADLOCK FALSE
