SPECIFICATION Spec
CONSTANTS
  Node = {1, 2}
  Peers <- FullMesh
  Linked <- NoLinks
  Seat = {"A1", "B1"}
  Call = {1, 2, 3}
  At <- OneAndTwo
  On <- LastOnB
  PollLimit = 1
  RpcMayFail = TRUE
  MayRestart = {}
  ClockBound = 0
INVARIANTS
  DeferredOnlyByRival
\* Every call is made once: a behaviour ends when all have returned.
CHECK_DEADLOCK FALSE
