SPECIFICATION Spec

CONSTANTS
  Subs = {s1}
  Cells = {c1, c2}
  MaxLoans = 2
  BufferSize = 1
  BorrowedMax = 1
  MaxSessions = 1
  MaxItems = 4
  SafeOverflow = TRUE
  Lossless = FALSE
  WaitForConnection = FALSE
  MaxLive = 1
  Flushes = TRUE
  ClientsLeave = TRUE
  StopsEarly = FALSE
  Faults = FALSE

SYMMETRY Symmetry

INVARIANTS
  TypeOK
  FrameIntact
  PoolBufferIsZeroCopy
  NoMissedWakeup
  CountersMatchPublished

PROPERTIES
  ImplementsChannel
