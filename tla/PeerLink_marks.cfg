SPECIFICATION FairSpec
CONSTANTS
  User = {"beat", "ask", "lock"}
  Kind <- ThreeKinds
  Conn = {1, 2, 3, 4, 5}
  DeathBound = 2
  PeerLeads = TRUE
INVARIANTS
  TypeOK
  StubIsOpen
  NoConnectionLeaks
  CutOffOnlyIfSuspected
PROPERTIES
  LinkComesBack
  DeadPeerIsMarked
