SPECIFICATION FairSpec
CONSTANTS
  r1 = r1
  w1 = w1
  w2 = w2
  c1 = c1
  Readers = {r1}
  Writers = {w1, w2}
  Closers = {c1}
  MinCap = 1
  MaxCap = 2
  Threshold = 3
  ReadSizes = {0, 1, 3}
  WriteSizes = {1, 4}
  MaxBytes = 4
INVARIANTS Bounded ReadsSomething NoneForgotten
PROPERTIES IsPipe ClosedEnds
