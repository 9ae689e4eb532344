SPECIFICATION Spec
CONSTANTS
  Node = {1, 2}
  Peers <- FullMesh
  Linked <- FullMesh
  Seat = {"A1"}
  Call = {1, 2}
  At <- OneEach
  On <- AllOnA
  PollLimit = 30
  RpcMayFail = FALSE
  MayRestart = {}
  ClockBound = 0
INVARIANTS
  MutualExclusion
\* Every call is made once: a behaviour ends when all have returned.
CHECK_DEADLOCK FALSE
