SPECIFICATION Spec

CONSTANTS
  Subs = {s1}
  Cells = {c1, c2}
  MaxLoans = 2
  BufferSize = 1
  BorrowedMax = 1
  MaxSessions = 1
  MaxItems = 4
  SafeOverflow = TRUE
  Lossless = TRUE
  WaitForConnection = FALSE
  MaxLive = 2
  Flushes = FALSE
  ClientsLeave = FALSE
  StopsEarly = FALSE
  Faults = FALSE

INVARIANTS
  LosslessWaitsForConsumer
