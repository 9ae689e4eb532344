SPECIFICATION FairSpec
CONSTANTS
  Node = {1, 2}
  Peers <- FullMesh
  Linked <- NoLinks
  SlotBound = 1
  ThreadBound = 1
  RpcMayFail = FALSE
  MayCrash = {}
  MayRestart = {}
  MayTrigger = {}
  MutexLabels = FALSE
PROPERTIES
  HighestLeadsInTheEnd
\* A node that has nothing to do only sleeps.
CHECK_DEADLOCK FALSE
