SPECIFICATION FairSpec

CONSTANTS
  Subs = {s1}
  Cells = {c1, c2, c3}
  MaxLoans = 2
  BufferSize = 2
  BorrowedMax = 2
  MaxSessions = 1
  MaxItems = 4
  Me = s1
  Malformed = {2}
  Capless = {4}
  Overflow = FALSE
  MaxStarts = 2

INVARIANTS
  TypeOK
  UnderItsCaps

PROPERTIES
  UnlockEndsCreate
  FrameArrives

CHECK_DEADLOCK FALSE
