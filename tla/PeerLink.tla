------------------------------ MODULE PeerLink ------------------------------
(***************************************************************************)
(* What a node knows of one of its peers: internal/node/hub.go.            *)
(*                                                                         *)
(* The hub keeps a connection, the stubs made of it and a mark that says   *)
(* whether the peer is alive.  A loop dials the peer whenever the mark     *)
(* says dead.  The other services fetch the stubs, make RPCs with them and *)
(* correct the mark when the RPC has ended; they do so later, under a lock *)
(* of its own, so that a mark may be about a connection that is no longer  *)
(* in use.  The entries of different peers do not depend on each other.    *)
(***************************************************************************)
EXTENDS Naturals, FiniteSets

CONSTANTS
  User,       \* goroutines that make RPCs to the peer, one after the other
  Kind,       \* Kind[u]: the service it belongs to
  Conn,       \* names of connections, used again when nobody holds them
  DeathBound, \* how often the peer may die
  PeerLeads   \* whether the peer is a leader that sends heartbeats to the node

ASSUME UserAssumption ==
  Kind \in [User -> {"heartbeat", "ping", "election", "mutex"}]
\* One connection in use, one new, and one held by each user.
ASSUME ConnAssumption ==
  /\ Conn \subseteq Nat \ {0}
  /\ IsFiniteSet(Conn) /\ IsFiniteSet(User)
  /\ Cardinality(Conn) >= Cardinality(User) + 2
ASSUME PeerAssumption == DeathBound \in Nat /\ PeerLeads \in BOOLEAN

VARIABLES
  up,         \* whether the peer's server listens
  deaths,     \* how often it has died
  peerConn,   \* hub.peerConns[p], which the stubs are made of; 0 when absent
  peerAlive,  \* hub.peerAlive[p]
  dial,       \* where connectWithRetry is
  conn,       \* its local conn
  rpc,        \* where each user is
  via,        \* the connection of the stub it fetched
  open,       \* connections that are not closed
  suspected   \* history: connections that were in use when a user found the
              \*   peer dead

hubVars == <<peerConn, peerAlive>>
dialVars == <<dial, conn>>
userVars == <<rpc, via>>
vars == <<up, deaths, hubVars, dialVars, userVars, open, suspected>>

NoConn == 0

Init ==
  /\ up \in BOOLEAN
  /\ deaths = 0
  /\ peerConn = NoConn
  /\ peerAlive = FALSE
  /\ dial = "off"
  /\ conn = NoConn
  /\ rpc = [u \in User |-> "idle"]
  /\ via = [u \in User |-> NoConn]
  /\ open = {}
  /\ suspected = {}
-----------------------------------------------------------------------------
(***************************************************************************)
(* The peer, and what it sends.                                            *)
(***************************************************************************)

\* The process of the peer ends.  gRPC keeps the connection for its return.
PeerDies ==
  /\ up
  /\ deaths < DeathBound
  /\ up' = FALSE
  /\ deaths' = deaths + 1
  /\ UNCHANGED <<hubVars, dialVars, userVars, open, suspected>>

PeerReturns ==
  /\ ~ up
  /\ up' = TRUE
  /\ UNCHANGED <<deaths, hubVars, dialVars, userVars, open, suspected>>

\* The Heartbeat handler marks the sender, whether there is a stub for it or
\* not; the server listens before the dialling begins.
HeartbeatArrives ==
  /\ PeerLeads /\ up
  /\ peerAlive' = TRUE
  /\ UNCHANGED <<up, deaths, peerConn, dialVars, userVars, open, suspected>>
-----------------------------------------------------------------------------
(***************************************************************************)
(* connectWithRetry.                                                       *)
(***************************************************************************)

\* ConnectToPeers, three seconds after the server.
StartDialling ==
  /\ dial = "off"
  /\ dial' = "idle"
  /\ UNCHANGED <<up, deaths, hubVars, conn, userVars, open, suspected>>

\* Broken: the loop dials every 5 seconds, needed or not.
AlwaysDial == TRUE

\* !alreadyConnected
MustDial == ~ peerAlive

Dial ==
  /\ dial = "idle"
  /\ MustDial
  /\ dial' = "dialling"
  /\ UNCHANGED <<up, deaths, hubVars, conn, userVars, open, suspected>>

\* A name that nobody holds.
NewConn ==
  CHOOSE c \in Conn : c \notin open \cup {peerConn} \cup {via[u] : u \in User}

DialSucceeds ==
  /\ dial = "dialling"
  /\ up
  /\ dial' = "dialled"
  /\ conn' = NewConn
  /\ open' = open \cup {NewConn}
  /\ suspected' = suspected \ {NewConn}
  /\ UNCHANGED <<up, deaths, hubVars, userVars>>

\* The 3 seconds are over, even if the peer has just returned.
DialFails ==
  /\ dial = "dialling"
  /\ dial' = "idle"
  /\ UNCHANGED <<up, deaths, hubVars, conn, userVars, open, suspected>>

\* Broken: the old connection is forgotten and stays open.
CloseNothing == {}

\* Broken: Close comes after the assignment and hits the new connection.
CloseNew == {conn}

\* old.Close()
CloseOld == {peerConn}

\* Broken: the mark is left to the heartbeats.
MarkUnchanged == peerAlive

\* h.peerAlive[p.ID] = true
MarkStored == TRUE

\* The locked block.  RPCs under way on the old connection are cut off.
StoreConnection ==
  /\ dial = "dialled"
  /\ open' = open \ CloseOld
  /\ peerConn' = conn
  /\ peerAlive' = MarkStored
  /\ dial' = "idle"
  /\ conn' = NoConn
  /\ UNCHANGED <<up, deaths, userVars, suspected>>
-----------------------------------------------------------------------------
(***************************************************************************)
(* The users of the stubs.                                                 *)
(***************************************************************************)

\* Broken: a peer without a stub is not left out.
StubOrNil(u) == TRUE

\* GetAllPeerClients and GetPeerClients have a stub for the peer, or leave it
\* out; GetHigherPeerClients leaves out a peer that is marked dead, too.
HasStub(u) == peerConn # NoConn /\ (Kind[u] = "election" => peerAlive)

FetchStub(u) ==
  /\ rpc[u] = "idle"
  /\ HasStub(u)
  /\ rpc' = [rpc EXCEPT ![u] = "sent"]
  /\ via' = [via EXCEPT ![u] = peerConn]
  /\ UNCHANGED <<up, deaths, hubVars, dialVars, open, suspected>>

RpcAnswered(u) ==
  /\ rpc[u] = "sent"
  /\ up /\ via[u] \in open
  /\ rpc' = [rpc EXCEPT ![u] = "answered"]
  /\ UNCHANGED <<up, deaths, hubVars, dialVars, via, open, suspected>>

\* The peer is down, the connection is closed, or the deadline is reached.
RpcFails(u) ==
  /\ rpc[u] = "sent"
  /\ rpc' = [rpc EXCEPT ![u] = "failed"]
  /\ UNCHANGED <<up, deaths, hubVars, dialVars, via, open, suspected>>

\* Broken: a heartbeat that fails is only logged.
MarksDeadNoHeartbeat(u) == Kind[u] \in {"ping", "election"}

\* SetPeerAlive(id, false) follows; requests for a lock and seat updates do not
\* touch the mark.
MarksDead(u) == Kind[u] # "mutex"

\* Only a leader marks a peer that has answered.
MarksAlive(u) == Kind[u] = "heartbeat"

EndRpc(u) ==
  /\ rpc[u] \in {"answered", "failed"}
  /\ rpc' = [rpc EXCEPT ![u] = "idle"]
  /\ via' = [via EXCEPT ![u] = NoConn]
  /\ peerAlive' = CASE rpc[u] = "failed" /\ MarksDead(u) -> FALSE
                    [] rpc[u] = "answered" /\ MarksAlive(u) -> TRUE
                    [] OTHER -> peerAlive
  /\ suspected' = IF peerAlive' THEN suspected ELSE suspected \cup {peerConn}
  /\ UNCHANGED <<up, deaths, peerConn, dialVars, open>>
-----------------------------------------------------------------------------
Peer == PeerDies \/ PeerReturns \/ HeartbeatArrives

ConnectWithRetry ==
  \/ StartDialling
  \/ Dial
  \/ DialSucceeds
  \/ DialFails
  \/ StoreConnection

UseStub(u) ==
  \/ FetchStub(u)
  \/ RpcAnswered(u)
  \/ RpcFails(u)
  \/ EndRpc(u)

Next ==
  \/ Peer
  \/ ConnectWithRetry
  \/ \E u \in User : UseStub(u)

Spec == Init /\ [][Next]_vars

(***************************************************************************)
(* The loop runs, and an RPC that is made ends.  A dial of a peer that     *)
(* listens succeeds some time, not every time.  Nobody has to make RPCs:   *)
(* sendHeartbeats returns when the node is no longer the leader.           *)
(***************************************************************************)
Fairness ==
  /\ WF_vars(ConnectWithRetry)
  /\ SF_vars(DialSucceeds)
  /\ \A u \in User :
       /\ WF_vars(RpcAnswered(u) \/ RpcFails(u))
       /\ WF_vars(EndRpc(u))

FairSpec == Spec /\ Fairness
-----------------------------------------------------------------------------
(***************************************************************************)
(* Properties.                                                             *)
(***************************************************************************)

\* Every variable has its type: no RPC is made with a stub that is nil.
TypeOK ==
  /\ up \in BOOLEAN
  /\ deaths \in 0..DeathBound
  /\ peerConn \in Conn \cup {NoConn}
  /\ peerAlive \in BOOLEAN
  /\ dial \in {"off", "idle", "dialling", "dialled"}
  /\ conn \in Conn \cup {NoConn}
  /\ rpc \in [User -> {"idle", "sent", "answered", "failed"}]
  /\ via \in [User -> Conn \cup {NoConn}]
  /\ \A u \in User : rpc[u] # "idle" => via[u] \in Conn
  /\ open \subseteq Conn
  /\ suspected \subseteq Conn \cup {NoConn}

\* Whoever fetches a stub fetches one whose connection is open, also in the
\* middle of a replacement.
StubIsOpen == peerConn # NoConn => peerConn \in open

\* However often the connection is replaced, the old one does not stay behind.
NoConnectionLeaks == open \subseteq {peerConn, conn}

\* A connection is closed under an RPC only if a user found the peer dead while
\* that connection was in use: an RPC that is cut off counts as a permission in
\* RequestCriticalSection.
CutOffOnlyIfSuspected ==
  \A u \in User : (rpc[u] = "sent" /\ via[u] \notin open) => via[u] \in suspected

Linked == peerAlive /\ peerConn # NoConn

\* The mark says alive and the loop rests, but there is no stub; no RPC can
\* correct the mark, since none is made.
Deceived == peerAlive /\ peerConn = NoConn

\* A peer that stays up is linked again and again, whatever stale marks do,
\* unless its heartbeat came before the first connection.
LinkComesBack == <>[]up => []<>Linked \/ <>[]Deceived

\* A peer that stays down is marked dead for good, whatever late answers and
\* late connections say, if the node goes on sending it heartbeats, as a leader
\* does.  A leader that another one deposes (the leading peer, before it died)
\* stops and does not begin to monitor; then the mark may stay.
BeatUnderWay == \E u \in User : Kind[u] = "heartbeat" /\ rpc[u] = "sent"
DeadPeerIsMarked == (<>[](~ up) /\ []<>BeatUnderWay) => <>[](~ peerAlive)
-----------------------------------------------------------------------------
(***************************************************************************)
(* What the documentation says and the code does not keep.                 *)
(***************************************************************************)

\* hub.go:125-126: every configured peer is connected to, failures are retried.
EveryPeerIsConnected == <>[]up => <>(peerConn # NoConn)
=============================================================================
