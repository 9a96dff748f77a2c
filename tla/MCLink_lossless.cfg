SPECIFICATION LinkFairSpec

CONSTANTS
  Subs = {s1}
  Me = s1
  Cells = {c1, c2, c3}
  MaxLoans = 2
  BufferSize = 1
  BorrowedMax = 2
  MaxSessions = 1
  MaxItems = 4
  MaxStarts = 1
  SafeOverflow = TRUE
  Lossless = TRUE
  WaitForConnection = TRUE
  MaxLive = 1
  Flushes = FALSE
  ClientsLeave = FALSE
  StopsEarly = FALSE
  Faults = FALSE
  SrcLeaves = FALSE

INVARIANTS
  DeliveredAsPushed
  DownstreamIntact

PROPERTIES
  EndToEnd
  EosArrives

CHECK_DEADLOCK FALSE
