SPECIFICATION Spec
CONSTANTS
  Node = {1, 2}
  Peers <- FullMesh
  Linked <- FullMesh
  Seat = {"A1"}
  SeatOrder <- AOnly
  Call = {1, 2, 3}
  Admin = {4}
  Kind <- ReleaseIsFour
  At <- FaultAt
  On <- AllOnA
  Conflict <- SameSeat
  Free = Free
  Losses <- AllAtOnce
  RpcMayFail = TRUE
  MayRestart = {2}
INVARIANTS
  NodeSellsOnce
  TurnedAwayOnlyIfSold
\* Every operation runs once: a behaviour ends when all have returned.
CHECK_DEADLOCK FALSE
