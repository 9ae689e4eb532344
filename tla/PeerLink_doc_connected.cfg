SPECIFICATION FairSpec
CONSTANTS
  User = {"beat"}
  Kind <- OneKind
  Conn = {1, 2, 3}
  DeathBound = 1
  PeerLeads = TRUE
PROPERTIES
  EveryPeerIsConnected
