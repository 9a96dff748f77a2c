SPECIFICATION FairSpec

CONSTANTS
  Subs = {s1}
  Cells = {c1, c2, c3}
  MaxLoans = 2
  BufferSize = 2
  BorrowedMax = 1
  MaxSessions = 1
  MaxItems = 5
  Overflow = TRUE
  Faults = TRUE
  Blocking = {"forever", "timed"}

INVARIANTS
  TypeOK
  NoSleepOnFrame

PROPERTIES
  ReaderAdvances

CHECK_DEADLOCK FALSE
