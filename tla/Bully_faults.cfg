SPECIFICATION Spec
CONSTANTS
  Node = {1, 2}
  Peers <- FullMesh
  Linked <- FullMesh
  SlotBound = 2
  ThreadBound = 0
  RpcMayFail = TRUE
  MayCrash = {2}
  MayRestart = {2}
  MayTrigger = {2}
  MutexLabels = TRUE
INVARIANTS
  TypeOK
PROPERTIES
  FlagLeftOnlyByLabel
\* A node that has nothing to do only sleeps.
CHECK_DEADLOCK FALSE
