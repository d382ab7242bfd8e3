SPECIFICATION Spec
CONSTANTS
  Diffs <- MCDiffs
  Archives <- MCArchives
INVARIANTS Regained ShowsMerged UpperAgain CopiesLikeCp ContextArrives
CHECK_DEADLOCK FALSE
