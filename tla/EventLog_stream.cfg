SPECIFICATION FairSpec
CONSTANTS
  request = request
  sold = sold
  rival = rival
  A1 = A1
  B1 = B1
  NoSeat = NoSeat
  c1 = c1
  c2 = c2
  Event = {request, sold, rival}
  Writer = {request, sold, rival}
  Type <- TypeOf
  SeatOf <- SeatsOf
  After <- Order
  Client = {c1, c2}
  MaxInMem = 2
  BufferSize = 1
  FileMayFail = {request}
  MaxLives = 2
INVARIANTS
  TypeOK
  RecentIsNewest
  NeverSendsOnClosed
  OfferedOnce
  AnswerFollowsRequest
  ReportsDifferByDeparted
PROPERTIES
  LogReturns
\* Every event is logged once: a behaviour ends when all are.
CHECK_DEADLOCK FALSE
