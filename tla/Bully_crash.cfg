SPECIFICATION ElectionSpec
CONSTANTS
  Node = {1, 2}
  Peers <- FullMesh
  Linked <- LowerLinked
  SlotBound = 1
  ThreadBound = 1
  RpcMayFail = FALSE
  MayCrash = {2}
  MayRestart = {}
  MayTrigger = {}
  MutexLabels = FALSE
INVARIANTS
  HigherPeersBarTheWay
  LeaderHasDeclared
PROPERTIES
  MonitorNoticesDeadLeader
  ElectionEnds
\* A node that has nothing to do only sleeps.
CHECK_DEADLOCK FALSE
