SPECIFICATION FairSpec
CONSTANTS
  Node = {1, 2}
  Peers <- FullMesh
  Linked <- NoLinks
  Seat = {"A1"}
  Call = {1, 2}
  At <- OneEach
  On <- AllOnA
  PollLimit = 1
  RpcMayFail = TRUE
  MayRestart = {1, 2}
  ClockBound = 2
INVARIANTS
  TypeOK
  ExclusionUnlessExcused
  GrantsRespectPriority
  EveryPeerAnsweredInCS
  RivalsAgreeOnOrder
  TimeOutOnlyWhenUnlinked
  LeftoverDeferrals
  Inductive
PROPERTIES
  ImplementsLock
  EveryCallReturns
\* Every call is made once: a behaviour ends when all have returned.
CHECK_DEADLOCK FALSE
