SPECIFICATION Spec

CONSTANTS
  Subs = {s1}
  Cells = {c1, c2, c3}
  MaxLoans = 2
  BufferSize = 2
  BorrowedMax = 1
  MaxSessions = 1
  MaxItems = 3
  Overflow = TRUE
  Faults = FALSE
  Blocking = {"forever", "timed"}

SYMMETRY Symmetry

PROPERTIES
  NoneMeansElapsed
