CONSTANTS
  a = a
  b = b
  Callers = {c1, c2}
  Names = {a, b}
  Anonymous = anonymous
  Matches <- Regexp
  Objects = {n1}
  Uses <- Both
  MaxCids = 2
  MaxNids = 1
SPECIFICATION Spec
CHECK_DEADLOCK FALSE
SYMMETRY Symmetry
INVARIANTS
  TypeOK
  ReturnedIsStarted
  Purgeable
PROPERTIES
  RemovesNamed
  RemoveNetworkRemoves
