SPECIFICATION SystemSpec
CONSTANTS
  Node = {1, 2}
  Peers <- FullMesh
  Linked <- NoLinks
  Seat = {"A1"}
  SeatOrder <- AOnly
  Call = {1, 2}
  At <- OneEach
  On <- AllOnA
  Free = Free
  PollLimit = 1
  RpcMayFail = TRUE
  MayRestart = {1}
  ClockBound = 2
INVARIANTS
  SoldTwiceOnlyThroughHole
PROPERTIES
  ImplementsBooking
\* Every booking is made once: a behaviour ends when all have returned.
CHECK_DEADLOCK FALSE
