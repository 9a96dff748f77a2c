SPECIFICATION FairSpec

CONSTANTS
  Subs = {s1}
  Cells = {c1, c2, c3}
  MaxLoans = 2
  BufferSize = 1
  BorrowedMax = 1
  MaxSessions = 1
  MaxItems = 3
  SafeOverflow = TRUE
  Lossless = TRUE
  WaitForConnection = FALSE
  MaxLive = 2
  Flushes = TRUE
  ClientsLeave = TRUE
  StopsEarly = FALSE
  Faults = FALSE

PROPERTIES
  UnlockFreesAll
