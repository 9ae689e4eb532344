---------------------------- MODULE Bully_proofs ----------------------------
(***************************************************************************)
(* Theorems of Bully, for every set of nodes, every configuration of peers *)
(* and any number of executions, crashes and restarts.                     *)
(***************************************************************************)
EXTENDS Bully, TLAPS

\* Nothing of a process that is down goes on, and no request waits for it.
DownIsQuiet ==
  /\ \A n \in Node :
       ~ Up(n) => /\ \A k \in Slot : election[n][k] = "none"
                  /\ starting[n] = 0
                  /\ ~ monitoring[n]
                  /\ pinged[n] = NoLeader
  /\ \A m \in wire : Up(m.to)

\* Whoever is named as a leader, here or in a request, has declared itself.
NamesHaveDeclared ==
  /\ \A n \in Node, k \in Slot : election[n][k] = "declared" => n \in declared
  /\ \A m \in wire :
       /\ m.type \in {"coordinator", "heartbeat"} => m.from \in declared
       /\ m.type = "ping" => m.to \in declared

\* Where no RPC fails, a node that is down has crashed and stays down.
DownHasFallen == ~ RpcMayFail => \A n \in Node : n \in fell <=> ~ Up(n)

\* A live peer with a stub is marked alive.
StubsAreAlive ==
  ~ RpcMayFail =>
    \A n \in Node : \A p \in peerClients[n] \ fell : p \in peerAlive[n]

\* What is noted in above is higher, and an execution that asks has the OK of
\* each of these peers that lives, or awaits it.
AsksOrOK ==
  ~ RpcMayFail =>
    \A n \in Node, k \in Slot : \A p \in above[n][k] :
      /\ p > n
      /\ election[n][k] = "asking" => p \in fell \cup asks[n][k] \/ gotOK[n][k]

-----------------------------------------------------------------------------
(***************************************************************************)
(* Types.                                                                  *)
(***************************************************************************)
LEMMA MessageParts ==
  \A m \in Message :
    /\ m.from \in Node /\ m.to \in Node /\ m.from # m.to
    /\ m.type = "election" => m.slot \in Slot
  BY DEF Message, Question, Notice, Pairs, ElectionMsg, CoordinatorMsg, HeartbeatMsg, PingMsg

LEMMA MessagesMade ==
  \A n, p \in Node :
    n # p => /\ \A k \in Slot : ElectionMsg(n, k, p) \in Message
             /\ {CoordinatorMsg(n, p), HeartbeatMsg(n, p), PingMsg(n, p)}
                  \subseteq Message
<1> SUFFICES ASSUME NEW n \in Node, NEW p \in Node, n # p
             PROVE  /\ \A k \in Slot : ElectionMsg(n, k, p) \in Message
                    /\ {CoordinatorMsg(n, p), HeartbeatMsg(n, p), PingMsg(n, p)}
                         \subseteq Message
  OBVIOUS
<1> DEFINE q == <<n, p>>
<1>1. q \in Pairs /\ q[1] = n /\ q[2] = p
  BY DEF Pairs
<1> HIDE DEF q
<1> QED
  BY <1>1 DEF Message, Question, Notice

LEMMA SpawnType ==
  ASSUME NEW pcs \in [Node -> [Slot -> ElectionPC]], NEW n \in Node
  PROVE  Spawn(pcs, n) \in [Node -> [Slot -> ElectionPC]]
  BY DEF Spawn, ElectionPC

\* So does an execution that moves on.
LEMMA MoveType ==
  ASSUME NEW pcs \in [Node -> [Slot -> ElectionPC]], NEW n \in Node,
         NEW k \in Slot, NEW pc \in ElectionPC
  PROVE  [pcs EXCEPT ![n][k] = pc] \in [Node -> [Slot -> ElectionPC]]
  OBVIOUS

LEMMA DecideMoves ==
  ASSUME NEW n \in Node, NEW k \in Slot, DecideElection(n, k)
  PROVE  \E pc \in {"waiting", "won"} :
           election' = [election EXCEPT ![n][k] = pc]
  BY DEF DecideElection, AfterOK

LEMMA DecideAbove ==
  ASSUME NEW n \in Node, NEW k \in Slot, DecideElection(n, k),
         above \in [Node -> [Slot -> SUBSET Node]]
  PROVE  above' \in [Node -> [Slot -> SUBSET Node]]
<1>1. CASE above' = above
  BY <1>1
<1>2. CASE above' = [above EXCEPT ![n][k] = {}]
  BY <1>2
<1> QED
  BY <1>1, <1>2 DEF DecideElection

LEMMA TimeoutMoves ==
  ASSUME NEW n \in Node, NEW k \in Slot, CoordinatorTimeout(n, k)
  PROVE  \E pc \in {"spawned", "none"} :
           election' = [election EXCEPT ![n][k] = pc]
  BY DEF CoordinatorTimeout

LEMMA OneMoreType ==
  \A t \in 0..ThreadBound : OneMore(t) \in 0..ThreadBound
  BY BoundAssumption DEF OneMore

\* A new execution takes a slot that is free, and touches no other.
LEMMA SpawnFree ==
  ASSUME NEW n \in Node, FreeSlot(election, n) # {}
  PROVE  \E k \in Slot : /\ election[n][k] = "none"
                         /\ Spawn(election, n) =
                              [election EXCEPT ![n][k] = "spawned"]
  BY DEF Spawn, FreeSlot

LEMMA TypeNode ==
  ASSUME TypeOK, NEW n \in Node, NodeStep(n) PROVE TypeOK'
<1> USE SpawnType, PeersAssumption, BoundAssumption
<1> USE DEF TypeOK, hubVars, electionVars, heartbeatVars, history
<1>1. CASE BootElection(n)
  BY <1>1 DEF BootElection, Boot
<1>2. CASE BootHeartbeat(n)
  <2>1. starting' \in [Node -> 0..ThreadBound]
    BY <1>2, OneMoreType DEF BootHeartbeat
  <2> QED
    BY <1>2, <2>1 DEF BootHeartbeat, Boot
<1>3. CASE Crash(n)
  <2>1. 0 \in 0..ThreadBound
    OBVIOUS
  <2>2. /\ starting' \in [Node -> 0..ThreadBound]
        /\ senders' \in [Node -> 0..ThreadBound]
    BY <1>3, <2>1 DEF Crash
  <2>3. /\ asks' \in [Node -> [Slot -> SUBSET Node]]
        /\ gotOK' \in [Node -> [Slot -> BOOLEAN]]
        /\ election' \in [Node -> [Slot -> ElectionPC]]
        /\ above' \in [Node -> [Slot -> SUBSET Node]]
    BY <1>3 DEF Crash, ElectionPC
  <2>4. /\ boot' \in [Node -> Boot]
        /\ leaderID' \in [Node -> Node \cup {NoLeader}]
        /\ hubState' \in [Node -> HubState]
        /\ pinged' \in [Node -> Node \cup {NoLeader}]
    BY <1>3 DEF Crash, Boot, HubState
  <2>5. /\ peerClients' \in [Node -> SUBSET Node]
        /\ peerAlive' \in [Node -> SUBSET Node]
        /\ \A m \in Node : peerClients'[m] \subseteq Peers[m]
        /\ electionRunning' \in [Node -> BOOLEAN]
        /\ accepting' \in [Node -> SUBSET Node]
        /\ beats' \in [Node -> SUBSET Node]
        /\ monitoring' \in [Node -> BOOLEAN]
    BY <1>3 DEF Crash
  <2>6. /\ wire' \subseteq Message /\ fell' \subseteq Node
        /\ UNCHANGED <<declared, triggered>>
    BY <1>3 DEF Crash
  <2> QED
    BY <2>2, <2>3, <2>4, <2>5, <2>6
<1>4. CASE Restart(n)
  BY <1>4 DEF Restart, Boot
<1>5. CASE MutexLabel(n)
  BY <1>5 DEF MutexLabel, HubState
<1>6. CASE TriggerElection(n)
  BY <1>6 DEF TriggerElection
<1>7. ASSUME NEW p \in Node, Connect(n, p) PROVE TypeOK'
  BY <1>7 DEF Connect, Dialled
<1> QED
  BY <1>1, <1>2, <1>3, <1>4, <1>5, <1>6, <1>7 DEF NodeStep

LEMMA TypeElection ==
  ASSUME TypeOK, NEW n \in Node, NEW k \in Slot, ElectionStep(n, k)
  PROVE  TypeOK'
<1>0. \A m, p \in Node : p \in peerClients[m] => m # p
  BY PeersAssumption DEF TypeOK
<1> USE PeersAssumption, BoundAssumption
<1> USE DEF TypeOK, hubVars, electionVars, heartbeatVars, history, HubState,
      ElectionPC
<1>1. CASE BeginElection(n, k)
  BY <1>1 DEF BeginElection
<1>2. CASE AskHigherPeers(n, k)
  <2>1. HigherPeers(n) \subseteq Node
    BY DEF HigherPeers
  <2>2. \A p \in HigherPeers(n) : ElectionMsg(n, k, p) \in Message
    BY <1>0, MessagesMade DEF HigherPeers
  <2>3. wire' \subseteq Message
    BY <1>2, <2>2 DEF AskHigherPeers, Send
  <2> QED
    BY <1>2, <2>1, <2>3 DEF AskHigherPeers
<1>3. CASE DecideElection(n, k)
  <2>1. {"waiting", "won"} \subseteq ElectionPC
    OBVIOUS
  <2>2. election' \in [Node -> [Slot -> ElectionPC]]
    <3>1. PICK pc \in {"waiting", "won"} : election' = [election EXCEPT ![n][k] = pc]
      BY <1>3, DecideMoves
    <3>2. pc \in ElectionPC
      BY <2>1
    <3> QED
      BY <3>1, <3>2, MoveType
  <2>3. hubState' \in [Node -> HubState]
    BY <1>3 DEF DecideElection
  <2>4. above' \in [Node -> [Slot -> SUBSET Node]]
    BY <1>3, DecideAbove
  <2> QED
    BY <1>3, <2>2, <2>3, <2>4 DEF DecideElection
<1>4. CASE CoordinatorTimeout(n, k)
  <2>1. {"spawned", "none"} \subseteq ElectionPC
    OBVIOUS
  <2>2. election' \in [Node -> [Slot -> ElectionPC]]
    <3>1. PICK pc \in {"spawned", "none"} : election' = [election EXCEPT ![n][k] = pc]
      BY <1>4, TimeoutMoves
    <3>2. pc \in ElectionPC
      BY <2>1
    <3> QED
      BY <3>1, <3>2, MoveType
  <2>3. electionRunning' \in [Node -> BOOLEAN]
    BY <1>4 DEF CoordinatorTimeout
  <2> QED
    BY <1>4, <2>2, <2>3 DEF CoordinatorTimeout
<1>5. CASE DeclareLeader(n, k)
  BY <1>5 DEF DeclareLeader
<1>6. CASE AnnounceLeader(n, k)
  <2>0. OneMore(starting[n]) \in 0..ThreadBound
    BY OneMoreType
  <2>1. \A p \in peerClients[n] : CoordinatorMsg(n, p) \in Message
    BY <1>0, MessagesMade
  <2>2. wire' \subseteq Message
    BY <1>6, <2>1 DEF AnnounceLeader, Send
  <2>3. starting' \in [Node -> 0..ThreadBound]
    BY <1>6, <2>0 DEF AnnounceLeader
  <2>4. election' \in [Node -> [Slot -> ElectionPC]]
    BY <1>6 DEF AnnounceLeader
  <2> QED
    BY <1>6, <2>2, <2>3, <2>4 DEF AnnounceLeader
<1>7. ASSUME NEW p \in Node, ElectionFails(n, k, p) PROVE TypeOK'
  BY <1>7 DEF ElectionFails
<1> QED
  BY <1>1, <1>2, <1>3, <1>4, <1>5, <1>6, <1>7 DEF ElectionStep

LEMMA TypeHeartbeat ==
  ASSUME TypeOK, NEW n \in Node, HeartbeatStep(n) PROVE TypeOK'
<1>0. \A m, p \in Node : p \in peerClients[m] => m # p
  BY PeersAssumption DEF TypeOK
<1> USE SpawnType
<1> USE DEF TypeOK, hubVars, electionVars, heartbeatVars, history
<1>1. CASE StartHeartbeat(n)
  <2>1. starting' \in [Node -> 0..ThreadBound]
    BY <1>1, BoundAssumption DEF StartHeartbeat
  <2>2. senders' \in [Node -> 0..ThreadBound]
    <3>1. OneMore(senders[n]) \in 0..ThreadBound
      BY OneMoreType
    <3>2. \/ senders' = [senders EXCEPT ![n] = OneMore(senders[n])]
          \/ senders' = senders
      BY <1>1 DEF StartHeartbeat
    <3> QED
      BY <3>1, <3>2
  <2> QED
    BY <1>1, <2>1, <2>2 DEF StartHeartbeat
<1>2. CASE SendHeartbeats(n)
  <2>1. \A p \in peerClients[n] : HeartbeatMsg(n, p) \in Message
    BY <1>0, MessagesMade
  <2>2. wire' \subseteq Message
    BY <1>2, <2>1 DEF SendHeartbeats, Send
  <2> QED
    BY <1>2, <2>2 DEF SendHeartbeats
<1>3. CASE StopSending(n)
  <2>1. senders' \in [Node -> 0..ThreadBound]
    BY <1>3, BoundAssumption DEF StopSending
  <2> QED
    BY <1>3, <2>1 DEF StopSending
<1>4. CASE PingLeader(n)
  <2>1. PingMsg(n, leaderID[n]) \in Message /\ leaderID[n] \in Node
    BY <1>0, <1>4, MessagesMade DEF PingLeader, Pingable
  <2>2. wire' \subseteq Message
    BY <1>4, <2>1 DEF PingLeader, Send
  <2> QED
    BY <1>4, <2>1, <2>2 DEF PingLeader
<1>5. CASE LeaderUnreachable(n)
  BY <1>5 DEF LeaderUnreachable
<1>6. CASE PingFails(n)
  BY <1>6 DEF PingFails
<1>7. ASSUME NEW l \in Node, StopElection(n, l) PROVE TypeOK'
  BY <1>7 DEF StopElection
<1>8. ASSUME NEW l \in Node, HeartbeatFails(n, l) PROVE TypeOK'
  BY <1>8 DEF HeartbeatFails
<1> QED
  BY <1>1, <1>2, <1>3, <1>4, <1>5, <1>6, <1>7, <1>8 DEF HeartbeatStep

LEMMA TypeHandle ==
  ASSUME TypeOK, NEW m \in wire, Handle(m) PROVE TypeOK'
<1>0. /\ m.from \in Node /\ m.to \in Node
      /\ m.type = "election" => m.slot \in Slot
  BY MessageParts DEF TypeOK
<1> USE <1>0, SpawnType
<1> USE DEF TypeOK, hubVars, electionVars, heartbeatVars, history
<1>1. CASE HandleElection(m)
  <2>1. election' \in [Node -> [Slot -> ElectionPC]]
    BY <1>1 DEF HandleElection
  <2>2. m.slot \in Slot
    BY <1>1 DEF HandleElection
  <2>3. CASE UNCHANGED <<asks, gotOK>>
    BY <1>1, <2>1, <2>3 DEF HandleElection
  <2>4. CASE /\ asks' = [asks EXCEPT ![m.from][m.slot] = @ \ {m.to}]
             /\ gotOK' = [gotOK EXCEPT ![m.from][m.slot] = @ \/ m.to > m.from]
    <3>1. asks' \in [Node -> [Slot -> SUBSET Node]]
      BY <2>2, <2>4
    <3>2. (gotOK[m.from][m.slot] \/ m.to > m.from) \in BOOLEAN
      OBVIOUS
    <3>3. gotOK' \in [Node -> [Slot -> BOOLEAN]]
      BY <2>2, <2>4, <3>2
    <3> QED
      BY <1>1, <2>1, <3>1, <3>3 DEF HandleElection
  <2> QED
    BY <1>1, <2>3, <2>4 DEF HandleElection
<1>2. CASE HandleCoordinator(m)
  BY <1>2 DEF HandleCoordinator, HubState
<1>3. CASE HandleHeartbeat(m)
  <2>1. peerAlive' \in [Node -> SUBSET Node]
    BY <1>3 DEF HandleHeartbeat
  <2>2. beats' \in [Node -> SUBSET Node]
    BY <1>3 DEF HandleHeartbeat
  <2> QED
    BY <1>3, <2>1, <2>2 DEF HandleHeartbeat
<1>4. CASE HandlePing(m)
  BY <1>4 DEF HandlePing, PingNames
<1> QED
  BY <1>1, <1>2, <1>3, <1>4 DEF Handle

LEMMA TypeStep == TypeOK /\ [Next]_vars => TypeOK'
<1> SUFFICES ASSUME TypeOK, UNCHANGED vars PROVE TypeOK'
  BY TypeNode, TypeElection, TypeHeartbeat, TypeHandle DEF Next
<1> QED
  BY DEF TypeOK, vars, hubVars, electionVars, heartbeatVars, history

LEMMA TypeInit == Init => TypeOK
<1> SUFFICES ASSUME Init PROVE TypeOK
  OBVIOUS
<1>1. 0 \in 0..ThreadBound
  BY BoundAssumption
<1> QED
  BY <1>1, PeersAssumption DEF Init, TypeOK, Boot, HubState, ElectionPC

\* The fields of every node keep their types, no thread is counted below zero,
\* and no request is made to the node itself.
THEOREM BullyType == Spec => []TypeOK
  BY TypeInit, TypeStep, PTL DEF Spec
-----------------------------------------------------------------------------
(***************************************************************************)
(* A leader has declared itself.  The invariant follows the name through   *)
(* the requests: announcements and heartbeats carry the name of a node     *)
(* that has declared itself, and a ping goes to one.                       *)
(***************************************************************************)
Names == TypeOK /\ NamesHaveDeclared /\ LeaderHasDeclared

LEMMA SpawnTouches ==
  ASSUME TypeOK, NEW n \in Node
  PROVE  \A m \in Node, j \in Slot :
           /\ Spawn(election, n)[m][j] \in {election[m][j], "spawned"}
           /\ m # n => Spawn(election, n)[m][j] = election[m][j]
  BY DEF TypeOK, Spawn

LEMMA NamesNode ==
  ASSUME Names, NEW n \in Node, NodeStep(n)
  PROVE  NamesHaveDeclared' /\ LeaderHasDeclared'
<1> USE DEF Names, TypeOK, NamesHaveDeclared, LeaderHasDeclared, hubVars,
      electionVars, heartbeatVars, history
<1>1. CASE BootElection(n)
  BY <1>1, SpawnTouches DEF BootElection
<1>2. CASE BootHeartbeat(n)
  BY <1>2 DEF BootHeartbeat
<1>3. CASE Crash(n)
  BY <1>3 DEF Crash
<1>4. CASE Restart(n)
  BY <1>4 DEF Restart
<1>5. CASE MutexLabel(n)
  BY <1>5 DEF MutexLabel
<1>6. CASE TriggerElection(n)
  BY <1>6, SpawnTouches DEF TriggerElection
<1>7. ASSUME NEW p \in Node, Connect(n, p)
      PROVE  NamesHaveDeclared' /\ LeaderHasDeclared'
  BY <1>7 DEF Connect
<1> QED
  BY <1>1, <1>2, <1>3, <1>4, <1>5, <1>6, <1>7 DEF NodeStep

LEMMA NamesElection ==
  ASSUME Names, NEW n \in Node, NEW k \in Slot, ElectionStep(n, k)
  PROVE  NamesHaveDeclared' /\ LeaderHasDeclared'
<1> USE DEF Names, TypeOK, NamesHaveDeclared, LeaderHasDeclared, hubVars,
      electionVars, heartbeatVars, history
<1>1. CASE BeginElection(n, k)
  BY <1>1 DEF BeginElection
<1>2. CASE AskHigherPeers(n, k)
  <2>1. \A m \in wire' : m \in wire \/ m.type = "election"
    BY <1>2 DEF AskHigherPeers, Send, ElectionMsg
  <2> QED
    BY <1>2, <2>1 DEF AskHigherPeers
<1>3. CASE DecideElection(n, k)
  <2>1. PICK pc \in {"waiting", "won"} : election' = [election EXCEPT ![n][k] = pc]
    BY <1>3, DecideMoves
  <2> QED
    BY <1>3, <2>1 DEF DecideElection
<1>4. CASE CoordinatorTimeout(n, k)
  <2>1. PICK pc \in {"spawned", "none"} : election' = [election EXCEPT ![n][k] = pc]
    BY <1>4, TimeoutMoves
  <2> QED
    BY <1>4, <2>1 DEF CoordinatorTimeout
<1>5. CASE DeclareLeader(n, k)
  BY <1>5 DEF DeclareLeader
<1>6. CASE AnnounceLeader(n, k)
  <2>1. n \in declared
    BY <1>6 DEF AnnounceLeader
  <2>2. \A m \in wire' : m \in wire \/ (m.type = "coordinator" /\ m.from = n)
    BY <1>6 DEF AnnounceLeader, Send, CoordinatorMsg
  <2> QED
    BY <1>6, <2>1, <2>2 DEF AnnounceLeader
<1>7. ASSUME NEW p \in Node, ElectionFails(n, k, p)
      PROVE  NamesHaveDeclared' /\ LeaderHasDeclared'
  BY <1>7 DEF ElectionFails
<1> QED
  BY <1>1, <1>2, <1>3, <1>4, <1>5, <1>6, <1>7 DEF ElectionStep

LEMMA NamesHeartbeat ==
  ASSUME Names, NEW n \in Node, HeartbeatStep(n)
  PROVE  NamesHaveDeclared' /\ LeaderHasDeclared'
<1>0. NoLeader \notin Node
  BY NodeAssumption DEF NoLeader
<1> USE DEF Names, TypeOK, NamesHaveDeclared, LeaderHasDeclared, hubVars,
      electionVars, heartbeatVars, history
<1>1. CASE StartHeartbeat(n)
  BY <1>1 DEF StartHeartbeat
<1>2. CASE SendHeartbeats(n)
  <2>1. n \in declared
    BY <1>0, <1>2 DEF SendHeartbeats
  <2>2. \A m \in wire' : m \in wire \/ (m.type = "heartbeat" /\ m.from = n)
    BY <1>2 DEF SendHeartbeats, Send, HeartbeatMsg
  <2> QED
    BY <1>2, <2>1, <2>2 DEF SendHeartbeats
<1>3. CASE StopSending(n)
  BY <1>3 DEF StopSending
<1>4. CASE PingLeader(n)
  <2>1. leaderID[n] \in declared
    BY <1>0, <1>4 DEF PingLeader, Pingable
  <2>2. \A m \in wire' :
          m \in wire \/ (m.type = "ping" /\ m.to = leaderID[n])
    BY <1>4 DEF PingLeader, Send, PingMsg
  <2> QED
    BY <1>4, <2>1, <2>2 DEF PingLeader
<1>5. CASE LeaderUnreachable(n)
  BY <1>5, SpawnTouches DEF LeaderUnreachable
<1>6. CASE PingFails(n)
  BY <1>6, SpawnTouches DEF PingFails
<1>7. ASSUME NEW l \in Node, StopElection(n, l) \/ HeartbeatFails(n, l)
      PROVE  NamesHaveDeclared' /\ LeaderHasDeclared'
  BY <1>7 DEF StopElection, HeartbeatFails
<1> QED
  BY <1>1, <1>2, <1>3, <1>4, <1>5, <1>6, <1>7 DEF HeartbeatStep

LEMMA NamesHandle ==
  ASSUME Names, NEW m \in wire, Handle(m)
  PROVE  NamesHaveDeclared' /\ LeaderHasDeclared'
<1>0. m.from \in Node /\ m.to \in Node
  BY MessageParts DEF Names, TypeOK
<1> USE DEF Names, TypeOK, NamesHaveDeclared, LeaderHasDeclared, hubVars,
      electionVars, heartbeatVars, history
<1>1. CASE HandleElection(m)
  BY <1>0, <1>1, SpawnTouches DEF HandleElection
<1>2. CASE HandleCoordinator(m)
  BY <1>0, <1>2 DEF HandleCoordinator
<1>3. CASE HandleHeartbeat(m)
  BY <1>0, <1>3 DEF HandleHeartbeat
<1>4. CASE HandlePing(m)
  BY <1>0, <1>4 DEF HandlePing, PingNames
<1> QED
  BY <1>1, <1>2, <1>3, <1>4 DEF Handle

LEMMA NamesStep == Names /\ [Next]_vars => Names'
<1> SUFFICES ASSUME Names, [Next]_vars PROVE Names'
  OBVIOUS
<1>1. TypeOK'
  BY TypeStep DEF Names
<1>2. CASE UNCHANGED vars
  BY <1>1, <1>2 DEF Names, NamesHaveDeclared, LeaderHasDeclared, vars, hubVars,
    electionVars, history
<1>3. CASE Next
  BY <1>1, <1>3, NamesNode, NamesElection, NamesHeartbeat, NamesHandle
    DEF Next, Names
<1> QED
  BY <1>2, <1>3

LEMMA NamesInit == Init => Names
  BY TypeInit DEF Init, Names, NamesHaveDeclared, LeaderHasDeclared

\* No node follows one that has never declared itself: what the handlers of
\* Coordinator and Heartbeat store as the leader, and the monitor pings, is
\* always the name of a node that has run declareLeader.
THEOREM LeadersDeclared == Spec => []LeaderHasDeclared
<1>1. Names => LeaderHasDeclared
  BY DEF Names
<1> QED
  BY <1>1, NamesInit, NamesStep, PTL DEF Spec
-----------------------------------------------------------------------------
(***************************************************************************)
(* A process that is down does nothing, and is not waited upon by a        *)
(* request.                                                                *)
(***************************************************************************)
Quiet == TypeOK /\ DownIsQuiet

\* A new execution, in a process that runs.
LEMMA QuietSpawn ==
  ASSUME Quiet, NEW n \in Node, Up(n), wire' \subseteq wire,
         \A m \in Node, j \in Slot : m # n => election'[m][j] = election[m][j],
         UNCHANGED <<boot, starting, monitoring, pinged>>
  PROVE  DownIsQuiet'
<1> USE DEF Quiet, DownIsQuiet, Up
<1>1. \A m \in wire' : Up(m.to)'
  OBVIOUS
<1>2. ASSUME NEW q \in Node, ~ Up(q)'
      PROVE  /\ \A j \in Slot : election'[q][j] = "none"
             /\ starting'[q] = 0
             /\ ~ monitoring'[q]
             /\ pinged'[q] = NoLeader
  <2>1. ~ Up(q) /\ q # n
    BY <1>2
  <2> QED
    BY <2>1
<1> QED
  BY <1>1, <1>2

LEMMA QuietNode ==
  ASSUME Quiet, NEW n \in Node, NodeStep(n) PROVE DownIsQuiet'
<1>0. \A m \in wire : m.to \in Node
  BY MessageParts DEF Quiet, TypeOK
<1> USE DEF Quiet, TypeOK, DownIsQuiet, Up, hubVars, electionVars,
      heartbeatVars, history
<1>1. CASE BootElection(n)
  BY <1>1, SpawnTouches DEF BootElection
<1>2. CASE BootHeartbeat(n)
  BY <1>2 DEF BootHeartbeat
<1>3. CASE Crash(n)
  BY <1>0, <1>3 DEF Crash
<1>4. CASE Restart(n)
  BY <1>0, <1>4 DEF Restart
<1>5. CASE MutexLabel(n)
  BY <1>5 DEF MutexLabel
<1>6. CASE TriggerElection(n)
  <2>1. \A m \in Node, j \in Slot : m # n => election'[m][j] = election[m][j]
    BY <1>6, SpawnTouches DEF TriggerElection
  <2>2. Up(n)
    BY <1>6 DEF TriggerElection
  <2>3. UNCHANGED <<boot, starting, monitoring, pinged, wire>>
    BY <1>6 DEF TriggerElection
  <2> QED
    BY <2>1, <2>2, <2>3, QuietSpawn
<1>7. ASSUME NEW p \in Node, Connect(n, p) PROVE DownIsQuiet'
  BY <1>7 DEF Connect
<1> QED
  BY <1>1, <1>2, <1>3, <1>4, <1>5, <1>6, <1>7 DEF NodeStep

LEMMA QuietElection ==
  ASSUME Quiet, NEW n \in Node, NEW k \in Slot, ElectionStep(n, k)
  PROVE  DownIsQuiet'
<1> USE DEF Quiet, TypeOK, DownIsQuiet, Up, hubVars, electionVars,
      heartbeatVars, history
<1>1. CASE BeginElection(n, k)
  BY <1>1 DEF BeginElection
<1>2. CASE AskHigherPeers(n, k)
  <2>1. \A m \in wire' : Up(m.to)
    BY <1>2 DEF AskHigherPeers, Send
  <2> QED
    BY <1>2, <2>1 DEF AskHigherPeers
<1>3. CASE DecideElection(n, k)
  <2>1. PICK pc \in {"waiting", "won"} : election' = [election EXCEPT ![n][k] = pc]
    BY <1>3, DecideMoves
  <2> QED
    BY <1>3, <2>1 DEF DecideElection
<1>4. CASE CoordinatorTimeout(n, k)
  <2>1. PICK pc \in {"spawned", "none"} : election' = [election EXCEPT ![n][k] = pc]
    BY <1>4, TimeoutMoves
  <2> QED
    BY <1>4, <2>1 DEF CoordinatorTimeout
<1>5. CASE DeclareLeader(n, k)
  BY <1>5 DEF DeclareLeader
<1>6. CASE AnnounceLeader(n, k)
  <2>1. \A m \in wire' : Up(m.to)
    BY <1>6 DEF AnnounceLeader, Send
  <2> QED
    BY <1>6, <2>1 DEF AnnounceLeader
<1>7. ASSUME NEW p \in Node, ElectionFails(n, k, p) PROVE DownIsQuiet'
  BY <1>7 DEF ElectionFails
<1> QED
  BY <1>1, <1>2, <1>3, <1>4, <1>5, <1>6, <1>7 DEF ElectionStep

LEMMA QuietHeartbeat ==
  ASSUME Quiet, NEW n \in Node, HeartbeatStep(n) PROVE DownIsQuiet'
<1> USE DEF Quiet, TypeOK, DownIsQuiet, Up, hubVars, electionVars,
      heartbeatVars, history
<1>1. CASE StartHeartbeat(n)
  BY <1>1 DEF StartHeartbeat
<1>2. CASE SendHeartbeats(n)
  <2>1. \A m \in wire' : Up(m.to)
    BY <1>2 DEF SendHeartbeats, Send
  <2> QED
    BY <1>2, <2>1 DEF SendHeartbeats
<1>3. CASE StopSending(n)
  BY <1>3 DEF StopSending
<1>4. CASE PingLeader(n)
  <2>1. \A m \in wire' : Up(m.to)
    BY <1>4 DEF PingLeader, Send
  <2> QED
    BY <1>4, <2>1 DEF PingLeader
<1>5. CASE LeaderUnreachable(n)
  <2>1. \A m \in Node, j \in Slot : m # n => election'[m][j] = election[m][j]
    BY <1>5, SpawnTouches DEF LeaderUnreachable
  <2>2. Up(n)
    BY <1>5 DEF LeaderUnreachable
  <2>3. UNCHANGED <<boot, starting, monitoring, pinged, wire>>
    BY <1>5 DEF LeaderUnreachable
  <2> QED
    BY <2>1, <2>2, <2>3, QuietSpawn
<1>6. CASE PingFails(n)
  <2>1. \A m \in Node, j \in Slot : m # n => election'[m][j] = election[m][j]
    BY <1>6, SpawnTouches DEF PingFails
  <2>2. Up(n)
    BY <1>6 DEF PingFails
  <2> QED
    BY <1>6, <2>1, <2>2 DEF PingFails
<1>7. ASSUME NEW l \in Node, StopElection(n, l) \/ HeartbeatFails(n, l)
      PROVE  DownIsQuiet'
  BY <1>7 DEF StopElection, HeartbeatFails
<1> QED
  BY <1>1, <1>2, <1>3, <1>4, <1>5, <1>6, <1>7 DEF HeartbeatStep

LEMMA QuietHandle ==
  ASSUME Quiet, NEW m \in wire, Handle(m) PROVE DownIsQuiet'
<1>0. m.from \in Node /\ m.to \in Node
  BY MessageParts DEF Quiet, TypeOK
<1> USE DEF Quiet, TypeOK, DownIsQuiet, Up, hubVars, electionVars,
      heartbeatVars, history
<1>1. CASE HandleElection(m)
  <2>1. \A n \in Node, k \in Slot : n # m.to => election'[n][k] = election[n][k]
    BY <1>0, <1>1, SpawnTouches DEF HandleElection
  <2>2. Up(m.to) /\ wire' \subseteq wire
    BY <1>1 DEF HandleElection
  <2>3. UNCHANGED <<boot, starting, monitoring, pinged>>
    BY <1>1 DEF HandleElection
  <2> QED
    BY <1>0, <2>1, <2>2, <2>3, QuietSpawn
<1>2. CASE HandleCoordinator(m)
  BY <1>2 DEF HandleCoordinator
<1>3. CASE HandleHeartbeat(m)
  BY <1>3 DEF HandleHeartbeat
<1>4. CASE HandlePing(m)
  BY <1>0, <1>4 DEF HandlePing
<1> QED
  BY <1>1, <1>2, <1>3, <1>4 DEF Handle

LEMMA QuietStep == Quiet /\ [Next]_vars => Quiet'
<1> SUFFICES ASSUME Quiet, [Next]_vars PROVE Quiet'
  OBVIOUS
<1>1. TypeOK'
  BY TypeStep DEF Quiet
<1>2. CASE UNCHANGED vars
  BY <1>1, <1>2 DEF Quiet, DownIsQuiet, Up, vars, electionVars, heartbeatVars
<1>3. CASE Next
  BY <1>1, <1>3, QuietNode, QuietElection, QuietHeartbeat, QuietHandle
    DEF Next, Quiet
<1> QED
  BY <1>2, <1>3

LEMMA QuietInit == Init => Quiet
  BY TypeInit DEF Init, Quiet, DownIsQuiet, Up
-----------------------------------------------------------------------------
(***************************************************************************)
(* Where no RPC fails between live nodes, a live node that there is a stub *)
(* for and that has the higher number is asked by every execution, answers *)
(* OK, and so bars it from winning.                                        *)
(***************************************************************************)
Barred ==
  /\ DownHasFallen
  /\ StubsAreAlive
  /\ AsksOrOK
  /\ HigherPeersBarTheWay

\* What most steps have in common: processes stay as they are, only dead peers
\* are marked dead, and a higher peer leaves asks with an OK, or dead.
LEMMA BarKept ==
  ASSUME Quiet, Barred, ~ RpcMayFail,
         \A n \in Node : Up(n)' <=> Up(n),
         UNCHANGED fell,
         \A n \in Node : \A p \in peerClients'[n] :
           p \in peerClients[n] \cup peerAlive'[n],
         \A n \in Node : \A p \in peerAlive[n] : p \in peerAlive'[n] \/ ~ Up(p),
         \A n \in Node, k \in Slot :
           election'[n][k] \in {election[n][k], "none", "spawned", "begun",
                                "waiting"},
         \A n \in Node, k \in Slot : above'[n][k] \subseteq above[n][k],
         \A n \in Node, k \in Slot : gotOK[n][k] => gotOK'[n][k],
         \A n \in Node, k \in Slot : \A p \in asks[n][k] :
           p \in asks'[n][k] \/ ~ Up(p) \/ (p > n => gotOK'[n][k])
  PROVE  Barred'
<1>0. TypeOK
  BY DEF Quiet
<1>1. DownHasFallen'
  BY DEF Barred, DownHasFallen
<1>2. \A p \in Node \ fell : Up(p)
  BY DEF Barred, DownHasFallen
<1>3. StubsAreAlive'
  <2>1. \A n \in Node : peerClients[n] \subseteq Node
    BY <1>0 DEF TypeOK
  <2> QED
    BY <1>2, <2>1 DEF Barred, StubsAreAlive
<1>4. AsksOrOK'
  <2>1. \A n \in Node, k \in Slot : above[n][k] \subseteq Node
    BY <1>0 DEF TypeOK
  <2> QED
    BY <1>2, <2>1 DEF Barred, AsksOrOK
<1>5. HigherPeersBarTheWay'
  BY DEF Barred, HigherPeersBarTheWay
<1> QED
  BY <1>1, <1>3, <1>4, <1>5 DEF Barred

LEMMA BarNode ==
  ASSUME Quiet, Barred, ~ RpcMayFail, NEW n \in Node, NodeStep(n) PROVE Barred'
<1> USE DEF hubVars, electionVars, heartbeatVars, history
<1>0. TypeOK
  BY DEF Quiet
<1>1. CASE BootElection(n)
  <2>1. \A q \in Node : Up(q)' <=> Up(q)
    BY <1>0, <1>1 DEF BootElection, Up, TypeOK
  <2> QED
    BY <1>0, <1>1, <2>1, SpawnTouches, BarKept DEF BootElection
<1>2. CASE BootHeartbeat(n)
  <2>1. \A q \in Node : Up(q)' <=> Up(q)
    BY <1>0, <1>2 DEF BootHeartbeat, Up, TypeOK
  <2> QED
    BY <1>2, <2>1, BarKept DEF BootHeartbeat
<1>3. CASE Crash(n)
  <2>1. DownHasFallen'
    BY <1>0, <1>3 DEF Crash, Barred, DownHasFallen, Up, TypeOK
  <2>2. StubsAreAlive'
    BY <1>0, <1>3 DEF Crash, Barred, StubsAreAlive, TypeOK
  <2>3. \A q \in Node, k \in Slot :
          \/ election'[q][k] = "none" /\ above'[q][k] = {}
          \/ /\ election'[q][k] = election[q][k] /\ above'[q][k] = above[q][k]
             /\ asks'[q][k] = asks[q][k] /\ gotOK'[q][k] = gotOK[q][k]
    BY <1>0, <1>3 DEF Crash, TypeOK
  <2>4. fell \subseteq fell'
    BY <1>3 DEF Crash
  <2>5. AsksOrOK'
    BY <2>3, <2>4 DEF Barred, AsksOrOK
  <2>6. HigherPeersBarTheWay'
    BY <2>3, <2>4 DEF Barred, HigherPeersBarTheWay
  <2> QED
    BY <2>1, <2>2, <2>5, <2>6 DEF Barred
<1>4. CASE Restart(n)
  BY <1>4, BoundAssumption DEF Restart
<1>5. CASE MutexLabel(n)
  BY <1>5, BarKept DEF MutexLabel, Up
<1>6. CASE TriggerElection(n)
  BY <1>0, <1>6, SpawnTouches, BarKept DEF TriggerElection, Up
<1>7. ASSUME NEW p \in Node, Connect(n, p) PROVE Barred'
  <2>1. \A q \in Node : /\ peerClients'[q] \subseteq peerClients[q] \cup peerAlive'[q]
                        /\ peerAlive[q] \subseteq peerAlive'[q]
    BY <1>0, <1>7 DEF Connect, TypeOK
  <2> QED
    BY <1>7, <2>1, BarKept DEF Connect, Up
<1> QED
  BY <1>1, <1>2, <1>3, <1>4, <1>5, <1>6, <1>7 DEF NodeStep

LEMMA BarElection ==
  ASSUME Quiet, Barred, ~ RpcMayFail, NEW n \in Node, NEW k \in Slot,
         ElectionStep(n, k)
  PROVE  Barred'
<1> USE DEF hubVars, electionVars, heartbeatVars, history
<1>0. TypeOK
  BY DEF Quiet
<1>1. CASE BeginElection(n, k)
  <2>1. \A q \in Node, j \in Slot :
          election'[q][j] \in {election[q][j], "none", "begun"}
    BY <1>0, <1>1 DEF BeginElection, TypeOK
  <2> QED
    BY <1>1, <2>1, BarKept DEF BeginElection, Up
<1>2. CASE AskHigherPeers(n, k)
  <2>1. above'[n][k] = {p \in peerClients[n] : p > n}
    BY <1>0, <1>2 DEF AskHigherPeers, TypeOK
  <2>2. above'[n][k] \ fell \subseteq HigherPeers(n)
    BY <2>1 DEF HigherPeers, Barred, StubsAreAlive
  <2>3. \A q \in Node, j \in Slot :
          \/ q = n /\ j = k
          \/ /\ election'[q][j] = election[q][j] /\ above'[q][j] = above[q][j]
             /\ asks'[q][j] = asks[q][j] /\ gotOK'[q][j] = gotOK[q][j]
    BY <1>0, <1>2 DEF AskHigherPeers, TypeOK
  <2>4. /\ asks'[n][k] = HigherPeers(n)
        /\ election'[n][k] = IF HigherPeers(n) = {} THEN "won" ELSE "asking"
    BY <1>0, <1>2 DEF AskHigherPeers, TypeOK
  <2>5. fell' = fell
    BY <1>2 DEF AskHigherPeers
  <2>6. AsksOrOK'
    BY <2>1, <2>2, <2>3, <2>4, <2>5 DEF Barred, AsksOrOK
  <2>7. HigherPeersBarTheWay'
    BY <2>2, <2>3, <2>4, <2>5 DEF Barred, HigherPeersBarTheWay
  <2>8. DownHasFallen' /\ StubsAreAlive'
    BY <1>2 DEF AskHigherPeers, Barred, DownHasFallen, StubsAreAlive, Up
  <2> QED
    BY <2>6, <2>7, <2>8 DEF Barred
<1>3. CASE DecideElection(n, k)
  <2>1. PICK pc \in {"waiting", "won"} : election' = [election EXCEPT ![n][k] = pc]
    BY <1>3, DecideMoves
  <2>2. \A q \in Node, j \in Slot :
          election'[q][j] = IF q = n /\ j = k THEN pc ELSE election[q][j]
    BY <1>0, <2>1 DEF TypeOK
  <2>3. CASE gotOK[n][k]
    <3>1. election'[n][k] = "waiting"
      BY <1>0, <1>3, <2>3 DEF DecideElection, AfterOK, TypeOK
    <3>2. above' = [above EXCEPT ![n][k] = {}]
      BY <1>3, <2>3 DEF DecideElection
    <3>3. \A q \in Node, j \in Slot : above'[q][j] \subseteq above[q][j]
      <4>1. above \in [Node -> [Slot -> SUBSET Node]]
        BY <1>0 DEF TypeOK
      <4> QED
        BY <3>2, <4>1
    <3> QED
      BY <1>3, <2>2, <3>1, <3>3, BarKept DEF DecideElection, Up
  <2>4. CASE ~ gotOK[n][k]
    <3>1. UNCHANGED <<above, asks, gotOK, fell>>
      BY <1>3, <2>4 DEF DecideElection
    <3>2. above[n][k] \subseteq fell
      BY <1>3, <2>4 DEF DecideElection, Barred, AsksOrOK
    <3>3. AsksOrOK'
      BY <2>2, <3>1 DEF Barred, AsksOrOK
    <3>4. HigherPeersBarTheWay'
      BY <2>2, <3>1, <3>2 DEF Barred, HigherPeersBarTheWay
    <3>5. DownHasFallen' /\ StubsAreAlive'
      BY <1>3 DEF DecideElection, Barred, DownHasFallen, StubsAreAlive, Up
    <3> QED
      BY <3>3, <3>4, <3>5 DEF Barred
  <2> QED
    BY <2>3, <2>4
<1>4. CASE CoordinatorTimeout(n, k)
  <2>1. PICK pc \in {"spawned", "none"} : election' = [election EXCEPT ![n][k] = pc]
    BY <1>4, TimeoutMoves
  <2>2. \A q \in Node, j \in Slot :
          election'[q][j] \in {election[q][j], "spawned", "none"}
    BY <1>0, <2>1 DEF TypeOK
  <2> QED
    BY <1>4, <2>2, BarKept DEF CoordinatorTimeout, Up
<1>5. CASE DeclareLeader(n, k)
  <2>1. \A q \in Node, j \in Slot :
          /\ election'[q][j] = IF q = n /\ j = k THEN "declared" ELSE election[q][j]
          /\ above'[q][j] = IF q = n /\ j = k THEN {} ELSE above[q][j]
    BY <1>0, <1>5 DEF DeclareLeader, TypeOK
  <2>2. AsksOrOK' /\ HigherPeersBarTheWay'
    BY <1>5, <2>1 DEF DeclareLeader, Barred, AsksOrOK, HigherPeersBarTheWay
  <2>3. DownHasFallen' /\ StubsAreAlive'
    BY <1>5 DEF DeclareLeader, Barred, DownHasFallen, StubsAreAlive, Up
  <2> QED
    BY <2>2, <2>3 DEF Barred
<1>6. CASE AnnounceLeader(n, k)
  <2>1. \A q \in Node, j \in Slot : election'[q][j] \in {election[q][j], "none"}
    BY <1>0, <1>6 DEF AnnounceLeader, TypeOK
  <2> QED
    BY <1>6, <2>1, BarKept DEF AnnounceLeader, Up
<1>7. ASSUME NEW p \in Node, ElectionFails(n, k, p) PROVE Barred'
  <2>1. ~ Up(p)
    BY <1>7 DEF ElectionFails, CanFail
  <2>2. /\ \A q \in Node : \A r \in peerAlive[q] : r \in peerAlive'[q] \/ r = p
        /\ \A q \in Node, j \in Slot : \A r \in asks[q][j] :
             r \in asks'[q][j] \/ r = p
    BY <1>0, <1>7 DEF ElectionFails, TypeOK
  <2> QED
    BY <1>7, <2>1, <2>2, BarKept DEF ElectionFails, Up
<1> QED
  BY <1>1, <1>2, <1>3, <1>4, <1>5, <1>6, <1>7 DEF ElectionStep

LEMMA BarHeartbeat ==
  ASSUME Quiet, Barred, ~ RpcMayFail, NEW n \in Node, HeartbeatStep(n)
  PROVE  Barred'
<1> USE DEF hubVars, electionVars, heartbeatVars, history
<1>0. TypeOK
  BY DEF Quiet
<1>1. CASE StartHeartbeat(n)
  BY <1>1, BarKept DEF StartHeartbeat, Up
<1>2. CASE SendHeartbeats(n)
  BY <1>2, BarKept DEF SendHeartbeats, Up
<1>3. CASE StopSending(n)
  BY <1>3, BarKept DEF StopSending, Up
<1>4. CASE PingLeader(n)
  BY <1>4, BarKept DEF PingLeader, Up
<1>5. CASE LeaderUnreachable(n)
  BY <1>0, <1>5, SpawnTouches, BarKept DEF LeaderUnreachable, Up
<1>6. CASE PingFails(n)
  <2>1. ~ Up(pinged[n])
    BY <1>6 DEF PingFails, CanFail
  <2>2. \A q \in Node : \A r \in peerAlive[q] :
          r \in peerAlive'[q] \/ r = pinged[n]
    BY <1>0, <1>6 DEF PingFails, TypeOK
  <2> QED
    BY <1>0, <1>6, <2>1, <2>2, SpawnTouches, BarKept DEF PingFails, Up
<1>7. ASSUME NEW l \in Node, StopElection(n, l) PROVE Barred'
  BY <1>7, BarKept DEF StopElection, Up
<1>8. ASSUME NEW l \in Node, HeartbeatFails(n, l) PROVE Barred'
  <2>1. ~ Up(l)
    BY <1>8 DEF HeartbeatFails, CanFail
  <2>2. \A q \in Node : \A r \in peerAlive[q] : r \in peerAlive'[q] \/ r = l
    BY <1>0, <1>8 DEF HeartbeatFails, TypeOK
  <2> QED
    BY <1>8, <2>1, <2>2, BarKept DEF HeartbeatFails, Up
<1> QED
  BY <1>1, <1>2, <1>3, <1>4, <1>5, <1>6, <1>7, <1>8 DEF HeartbeatStep

LEMMA BarHandle ==
  ASSUME Quiet, Barred, ~ RpcMayFail, NEW m \in wire, Handle(m) PROVE Barred'
<1> USE DEF hubVars, electionVars, heartbeatVars, history
<1>0. /\ TypeOK
      /\ m.from \in Node /\ m.to \in Node
      /\ m.type = "election" => m.slot \in Slot
  BY MessageParts DEF Quiet, TypeOK
<1>1. CASE HandleElection(m)
  <2>1. \A q \in Node, j \in Slot : election'[q][j] \in {election[q][j], "spawned"}
    BY <1>0, <1>1, SpawnTouches DEF HandleElection
  <2>2. CASE UNCHANGED <<asks, gotOK>>
    BY <1>1, <2>1, <2>2, BarKept DEF HandleElection, Up
  <2>3. CASE /\ asks' = [asks EXCEPT ![m.from][m.slot] = @ \ {m.to}]
             /\ gotOK' = [gotOK EXCEPT ![m.from][m.slot] = @ \/ m.to > m.from]
    <3>1. m.slot \in Slot
      BY <1>0, <1>1 DEF HandleElection
    <3>2. \A q \in Node, j \in Slot : \A p \in asks[q][j] :
            \/ p \in asks'[q][j]
            \/ p = m.to /\ q = m.from /\ j = m.slot
      BY <1>0, <2>3, <3>1 DEF TypeOK
    <3>3. gotOK'[m.from][m.slot] = (gotOK[m.from][m.slot] \/ m.to > m.from)
      BY <1>0, <2>3, <3>1 DEF TypeOK
    <3>4. \A q \in Node, j \in Slot : gotOK[q][j] => gotOK'[q][j]
      BY <1>0, <2>3, <3>1 DEF TypeOK
    <3> QED
      BY <1>1, <2>1, <3>2, <3>3, <3>4, BarKept DEF HandleElection, Up
  <2> QED
    BY <1>1, <2>2, <2>3 DEF HandleElection
<1>2. CASE HandleCoordinator(m)
  BY <1>2, BarKept DEF HandleCoordinator, Up
<1>3. CASE HandleHeartbeat(m)
  <2>1. \A q \in Node : peerAlive[q] \subseteq peerAlive'[q]
    BY <1>0, <1>3 DEF HandleHeartbeat, TypeOK
  <2> QED
    BY <1>3, <2>1, BarKept DEF HandleHeartbeat, Up
<1>4. CASE HandlePing(m)
  <2>1. \A q \in Node : peerAlive[q] \subseteq peerAlive'[q]
    BY <1>0, <1>4 DEF HandlePing, TypeOK
  <2> QED
    BY <1>4, <2>1, BarKept DEF HandlePing, Up
<1> QED
  BY <1>1, <1>2, <1>3, <1>4 DEF Handle

Bar == Quiet /\ Barred

LEMMA BarStep == Bar /\ [Next]_vars => Bar'
<1> SUFFICES ASSUME Bar, [Next]_vars PROVE Bar'
  OBVIOUS
<1>1. Quiet'
  BY QuietStep DEF Bar
<1>2. CASE RpcMayFail
  BY <1>1, <1>2 DEF Bar, Barred, DownHasFallen, StubsAreAlive, AsksOrOK,
    HigherPeersBarTheWay
<1>3. CASE ~ RpcMayFail
  <2>1. CASE UNCHANGED vars
    BY <1>1, <1>3, <2>1, BarKept DEF Bar, vars, hubVars, electionVars, history, Up
  <2>2. CASE Next
    BY <1>1, <1>3, <2>2, BarNode, BarElection, BarHeartbeat, BarHandle
      DEF Next, Bar
  <2> QED
    BY <2>1, <2>2
<1> QED
  BY <1>2, <1>3

LEMMA BarInit == Init => Bar
  BY QuietInit, PeersAssumption DEF Init, Bar, Barred, DownHasFallen,
    StubsAreAlive, AsksOrOK, HigherPeersBarTheWay, Up

\* No execution of StartElection comes out as the winner over a live higher
\* node that it had a stub for when it asked: whichever of the node's elections,
\* in whatever order the answers come, and however often it is triggered.
THEOREM BullyRule == Spec => []HigherPeersBarTheWay
<1>1. Bar => HigherPeersBarTheWay
  BY DEF Bar, Barred
<1> QED
  BY <1>1, BarInit, BarStep, PTL DEF Spec
-----------------------------------------------------------------------------
(***************************************************************************)
(* The flag of a running election is cleared by somebody.  The timer of an *)
(* execution that got an OK clears it while the status label still says    *)
(* waiting_coordinator.  Only a Coordinator handler, which clears the flag *)
(* itself, another execution, and the mutual exclusion service set another *)
(* label.                                                                  *)
(***************************************************************************)
OnItsWay == {"begun", "asking", "won", "declared"}
FlagServed(n) == electionRunning[n] => Served(n)

\* Steps that leave the label, the flag and the executions under way of q alone.
LEMMA FlagKept ==
  ASSUME NEW q \in Node, FlagServed(q), hubState'[q] = hubState[q],
         electionRunning'[q] => electionRunning[q],
         accepting[q] \subseteq accepting'[q],
         \A k \in Slot :
           election[q][k] \in OnItsWay \cup {"waiting"} =>
             election'[q][k] = election[q][k]
  PROVE  FlagServed(q)'
<1> SUFFICES ASSUME electionRunning'[q] PROVE Served(q)'
  BY DEF FlagServed
<1>1. Served(q)
  BY DEF FlagServed
<1> QED
  BY <1>1 DEF Served, OnItsWay

\* A step of one node.
LEMMA FlagOther ==
  ASSUME NEW q \in Node, FlagServed(q),
         NEW n \in Node, q = n /\ electionRunning'[n] => Served(n)',
         q # n => /\ electionRunning'[q] = electionRunning[q]
                  /\ hubState'[q] = hubState[q]
                  /\ accepting'[q] = accepting[q]
                  /\ election'[q] = election[q]
  PROVE  FlagServed(q)'
<1>1. CASE q = n
  BY <1>1 DEF FlagServed, Served
<1>2. CASE q # n
  BY <1>2 DEF FlagServed, Served
<1> QED
  BY <1>1, <1>2

\* A new execution takes a free slot, never one of an execution under way.
LEMMA SpawnSpares ==
  ASSUME TypeOK, NEW n \in Node, FreeSlot(election, n) # {}
  PROVE  \A q \in Node, k \in Slot :
           election[q][k] \in OnItsWay \cup {"waiting"} =>
             Spawn(election, n)[q][k] = election[q][k]
<1>1. PICK j \in Slot : /\ election[n][j] = "none"
                        /\ Spawn(election, n) =
                             [election EXCEPT ![n][j] = "spawned"]
  BY SpawnFree
<1> QED
  BY <1>1 DEF TypeOK, OnItsWay

LEMMA FlagNode ==
  ASSUME TypeOK, NEW q \in Node, FlagServed(q), NEW n \in Node, NodeStep(n),
         ~ MutexLabel(q)
  PROVE  FlagServed(q)'
<1> USE DEF hubVars, electionVars, heartbeatVars, history
<1>1. CASE BootElection(n)
  BY <1>1, SpawnSpares, FlagKept DEF BootElection
<1>2. CASE BootHeartbeat(n)
  BY <1>2, FlagKept DEF BootHeartbeat
<1>3. CASE Crash(n)
  BY <1>3, FlagOther DEF Crash, TypeOK
<1>4. CASE Restart(n)
  BY <1>4, FlagKept DEF Restart
<1>5. CASE MutexLabel(n)
  BY <1>5, FlagOther DEF MutexLabel, TypeOK
<1>6. CASE TriggerElection(n)
  BY <1>6, SpawnSpares, FlagKept DEF TriggerElection
<1>7. ASSUME NEW p \in Node, Connect(n, p) PROVE FlagServed(q)'
  BY <1>7, FlagKept DEF Connect
<1> QED
  BY <1>1, <1>2, <1>3, <1>4, <1>5, <1>6, <1>7 DEF NodeStep

LEMMA FlagElection ==
  ASSUME TypeOK, NEW q \in Node, FlagServed(q), NEW n \in Node, NEW k \in Slot,
         ElectionStep(n, k)
  PROVE  FlagServed(q)'
<1> USE DEF hubVars, electionVars, heartbeatVars, history
<1>1. CASE BeginElection(n, k)
  <2>1. CASE electionRunning[n]
    BY <1>1, <2>1, FlagKept DEF BeginElection, TypeOK, OnItsWay
  <2>2. CASE ~ electionRunning[n]
    <3>1. election'[n][k] = "begun"
      BY <1>1, <2>2 DEF BeginElection, TypeOK
    <3>2. Served(n)'
      BY <3>1 DEF Served, OnItsWay
    <3> QED
      BY <1>1, <3>2, FlagOther DEF BeginElection, TypeOK
  <2> QED
    BY <2>1, <2>2
<1>2. CASE AskHigherPeers(n, k)
  <2>1. election'[n][k] \in {"won", "asking"}
    BY <1>2 DEF AskHigherPeers, TypeOK
  <2>2. Served(n)'
    BY <2>1 DEF Served, OnItsWay
  <2> QED
    BY <1>2, <2>2, FlagOther DEF AskHigherPeers, TypeOK
<1>3. CASE DecideElection(n, k)
  <2>1. \/ /\ election'[n][k] = "waiting"
           /\ hubState'[n] = "waiting_coordinator"
        \/ election'[n][k] = "won"
    BY <1>3 DEF DecideElection, AfterOK, TypeOK
  <2>2. Served(n)'
    BY <2>1 DEF Served, OnItsWay
  <2>3. \A r \in Node \ {n} :
          hubState'[r] = hubState[r] /\ election'[r] = election[r]
    BY <1>3, DecideMoves DEF DecideElection, TypeOK
  <2> QED
    BY <1>3, <2>2, <2>3, FlagOther DEF DecideElection
<1>4. CASE CoordinatorTimeout(n, k)
  <2>1. CASE q = n /\ electionRunning'[n]
    <3>1. hubState[n] # "waiting_coordinator" /\ UNCHANGED electionRunning
      BY <1>4, <2>1 DEF CoordinatorTimeout, TypeOK
    <3>2. Served(n)
      BY <2>1, <3>1 DEF FlagServed
    <3>3. \A j \in Slot \ {k} : election'[n][j] = election[n][j]
      <4>1. PICK pc \in {"spawned", "none"} :
                   election' = [election EXCEPT ![n][k] = pc]
        BY <1>4, TimeoutMoves
      <4> QED
        BY <4>1 DEF TypeOK
    <3>4. Served(n)'
      BY <1>4, <3>1, <3>2, <3>3 DEF CoordinatorTimeout, Served, OnItsWay
    <3>5. \A r \in Node \ {n} : election'[r] = election[r]
      BY <1>4, TimeoutMoves DEF TypeOK
    <3> QED
      BY <1>4, <3>1, <3>4, <3>5, FlagOther DEF CoordinatorTimeout
  <2>2. CASE ~ (q = n /\ electionRunning'[n])
    <3>1. \A r \in Node \ {n} : /\ election'[r] = election[r]
                                /\ electionRunning'[r] = electionRunning[r]
      BY <1>4, TimeoutMoves DEF CoordinatorTimeout, TypeOK
    <3> QED
      BY <1>4, <2>2, <3>1, FlagOther DEF CoordinatorTimeout
  <2> QED
    BY <2>1, <2>2
<1>5. CASE DeclareLeader(n, k)
  <2>1. election'[n][k] = "declared"
    BY <1>5 DEF DeclareLeader, TypeOK
  <2>2. Served(n)'
    BY <2>1 DEF Served, OnItsWay
  <2> QED
    BY <1>5, <2>2, FlagOther DEF DeclareLeader, TypeOK
<1>6. CASE AnnounceLeader(n, k)
  BY <1>6, FlagOther DEF AnnounceLeader, TypeOK
<1>7. ASSUME NEW p \in Node, ElectionFails(n, k, p) PROVE FlagServed(q)'
  BY <1>7, FlagKept DEF ElectionFails
<1> QED
  BY <1>1, <1>2, <1>3, <1>4, <1>5, <1>6, <1>7 DEF ElectionStep

LEMMA FlagHeartbeat ==
  ASSUME TypeOK, NEW q \in Node, FlagServed(q), NEW n \in Node,
         HeartbeatStep(n)
  PROVE  FlagServed(q)'
<1> USE DEF hubVars, electionVars, heartbeatVars, history
<1>1. CASE StartHeartbeat(n)
  BY <1>1, FlagKept DEF StartHeartbeat
<1>2. CASE SendHeartbeats(n)
  BY <1>2, FlagKept DEF SendHeartbeats
<1>3. CASE StopSending(n)
  BY <1>3, FlagKept DEF StopSending
<1>4. CASE PingLeader(n)
  BY <1>4, FlagKept DEF PingLeader
<1>5. CASE LeaderUnreachable(n)
  BY <1>5, SpawnSpares, FlagKept DEF LeaderUnreachable
<1>6. CASE PingFails(n)
  BY <1>6, SpawnSpares, FlagKept DEF PingFails
<1>7. ASSUME NEW l \in Node, StopElection(n, l) PROVE FlagServed(q)'
  BY <1>7, FlagOther DEF StopElection, TypeOK
<1>8. ASSUME NEW l \in Node, HeartbeatFails(n, l) PROVE FlagServed(q)'
  BY <1>8, FlagKept DEF HeartbeatFails
<1> QED
  BY <1>1, <1>2, <1>3, <1>4, <1>5, <1>6, <1>7, <1>8 DEF HeartbeatStep

LEMMA FlagHandle ==
  ASSUME TypeOK, NEW q \in Node, FlagServed(q), NEW m \in wire, Handle(m)
  PROVE  FlagServed(q)'
<1> USE DEF hubVars, electionVars, heartbeatVars, history
<1>0. m.from \in Node /\ m.to \in Node
  BY MessageParts DEF TypeOK
<1>1. CASE HandleElection(m)
  BY <1>0, <1>1, SpawnSpares, FlagKept DEF HandleElection
<1>2. CASE HandleCoordinator(m)
  <2>1. accepting'[m.to] # {}
    BY <1>0, <1>2 DEF HandleCoordinator, TypeOK
  <2>2. Served(m.to)'
    BY <2>1 DEF Served
  <2> QED
    BY <1>0, <1>2, <2>2, FlagOther DEF HandleCoordinator, TypeOK
<1>3. CASE HandleHeartbeat(m)
  BY <1>3, FlagKept DEF HandleHeartbeat
<1>4. CASE HandlePing(m)
  BY <1>4, FlagKept DEF HandlePing
<1> QED
  BY <1>1, <1>2, <1>3, <1>4 DEF Handle

\* No step of a node or of another one leaves the flag of q behind, but one.
LEMMA FlagStep ==
  ASSUME TypeOK, [Next]_vars, NEW q \in Node, FlagServed(q), ~ MutexLabel(q)
  PROVE  FlagServed(q)'
<1>1. CASE UNCHANGED vars
  BY <1>1, FlagKept DEF vars, hubVars, electionVars
<1>2. CASE Next
  BY <1>2, FlagNode, FlagElection, FlagHeartbeat, FlagHandle DEF Next
<1> QED
  BY <1>1, <1>2

\* electionRunning is never left behind but by a booking that overwrites the
\* label of an election that waits for a Coordinator: in every other step of the
\* executions, their timers and the announcements of other leaders, a set flag
\* keeps a goroutine or a timer that clears it.
THEOREM FlagLeftByLabel == Spec => FlagLeftOnlyByLabel
<1>1. TypeOK /\ [Next]_vars =>
        [\A n \in Node :
           (electionRunning[n] => Served(n)) =>
             (electionRunning[n] => Served(n))' \/ MutexLabel(n)]_vars
  BY FlagStep DEF FlagServed
<1> QED
  BY <1>1, BullyType, PTL DEF Spec, FlagLeftOnlyByLabel

\* Where the status label is the election's alone, the flag is never left behind.
THEOREM FlagNeverLeftBehind ==
  ASSUME ~ MutexLabels PROVE Spec => [](\A n \in Node : FlagServed(n))
<1> DEFINE AllServed == \A n \in Node : FlagServed(n)
<1>1. Init => AllServed
  BY DEF Init, FlagServed
<1>2. TypeOK /\ AllServed /\ [Next]_vars => AllServed'
  BY FlagStep DEF MutexLabel
<1> HIDE DEF AllServed
<1>3. Spec => []AllServed
  BY <1>1, <1>2, BullyType, PTL DEF Spec
<1> QED
  BY <1>3 DEF AllServed
=============================================================================
