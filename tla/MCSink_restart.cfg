SPECIFICATION FairSpec

CONSTANTS
  Subs = {s1}
  Cells = {c1, c2}
  MaxLoans = 2
  BufferSize = 1
  BorrowedMax = 1
  MaxSessions = 2
  MaxItems = 3
  SafeOverflow = TRUE
  Lossless = FALSE
  WaitForConnection = FALSE
  MaxLive = 2
  Flushes = TRUE
  ClientsLeave = FALSE
  StopsEarly = FALSE
  Faults = TRUE

INVARIANTS
  NoLeakedLoan
  HeaderDescribesFrame

PROPERTIES
  RenderReturns
