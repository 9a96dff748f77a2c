SPECIFICATION FairSpec

CONSTANTS
  Subs = {s1}
  Cells = {c1, c2}
  MaxLoans = 2
  BufferSize = 1
  BorrowedMax = 1
  MaxSessions = 1
  MaxItems = 4
  SafeOverflow = TRUE
  Lossless = TRUE
  WaitForConnection = TRUE
  MaxLive = 1
  Flushes = TRUE
  ClientsLeave = FALSE
  StopsEarly = TRUE
  Faults = FALSE

PROPERTIES
  NoUnreadLoss
  UnlockFreesRender
  ImplementsChannel
