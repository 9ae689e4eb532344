SPECIFICATION FairSpec
CONSTANTS
  Node = {1, 2, 3}
  Peers <- FullMesh
  Linked <- FirstUnlinked
  Seat = {"A1", "B1"}
  SeatOrder <- BThenA
  Call = {1, 2, 3}
  Admin = {4}
  Kind <- ResetIsFour
  At <- SaleAt
  On <- SaleOn
  Conflict <- SameSeat
  Free = Free
  Losses <- CrowdedLoss
  RpcMayFail = FALSE
  MayRestart = {}
INVARIANTS
  TypeOK
  SoldOnce
  SoldIsKnownEverywhere
  DifferOnlyIfCrossed
PROPERTIES
  EveryBookingAnswered
\* Every operation runs once: a behaviour ends when all have returned.
CHECK_DEADLOCK FALSE
