------------------------------- MODULE Bully -------------------------------
(***************************************************************************)
(* Leader election and failure detection: internal/bully/election.go, with *)
(* the parts of internal/node/hub.go, cmd/node/main.go and                 *)
(* internal/dashboard/api.go that start elections and keep the peers.      *)
(*                                                                         *)
(* A node runs several goroutines that share the hub's fields: executions  *)
(* of StartElection (with the timer each of them may leave behind), the    *)
(* senders and the monitor of heartbeats, and a handler for every RPC that *)
(* arrives.  Sleeps, tickers and deadlines have no duration here: a timer  *)
(* may go off at any time, and an RPC fails when its target is down or     *)
(* when RpcMayFail.                                                        *)
(***************************************************************************)
EXTENDS Integers, FiniteSets

CONSTANTS
  Node,         \* node identifiers, compared by the election
  Peers,        \* Peers[n]: the nodes in n's configuration file
  Linked,       \* Linked[n]: peers n is connected to when the behaviour begins
  SlotBound,    \* bound on the live executions of StartElection of a node
  ThreadBound,  \* bound on the heartbeat senders, and starters, of a node
  RpcMayFail,   \* whether an RPC between live nodes may fail
  MayCrash,     \* nodes whose process may die, once
  MayRestart,   \* nodes that may be started again
  MayTrigger,   \* nodes whose dashboard may trigger an election, once
  MutexLabels   \* whether the mutual exclusion service sets the status label

ASSUME NodeAssumption == Node \subseteq Nat /\ IsFiniteSet(Node)
ASSUME PeersAssumption ==
  /\ Peers \in [Node -> SUBSET Node]
  /\ Linked \in [Node -> SUBSET Node]
  /\ \A n \in Node : n \notin Peers[n] /\ Linked[n] \subseteq Peers[n]
ASSUME BoundAssumption ==
  /\ SlotBound \in Nat \ {0}
  /\ ThreadBound \in Nat   \* 0: the elections alone, without heartbeats
  /\ {RpcMayFail, MutexLabels} \subseteq BOOLEAN
  /\ {MayCrash, MayRestart, MayTrigger} \subseteq SUBSET Node
  /\ MayRestart # {} => RpcMayFail   \* a restart breaks the RPCs under way

VARIABLES
  boot,             \* how far main has come; "off" when the process is down
  leaderID,         \* hub.leaderID
  hubState,         \* hub.state
  peerClients,      \* hub.peerClients: the peers a stub exists for
  peerAlive,        \* hub.peerAlive: the peers marked alive
  electionRunning,  \* es.electionRunning
  election,         \* where each execution of StartElection is
  asks,             \* the higher peers whose answer an execution waits for
  gotOK,            \* its local gotOK
  accepting,        \* leaders whose Coordinator handler is about to end
  starting,         \* go StartHeartbeat, not yet decided what to be
  senders,          \* running sendHeartbeats loops
  beats,            \* peers whose answer to a heartbeat is awaited
  monitoring,       \* whether a monitorHeartbeats loop runs
  pinged,           \* the leader it waits for, or NoLeader
  wire,             \* requests sent and not handled
  declared,         \* history: nodes that have declared themselves leader
  fell, triggered,  \* history: nodes that have crashed, have been triggered
  above             \* history: the higher peers an undecided execution had a
                    \* stub for when it asked

hubVars == <<leaderID, hubState, peerClients, peerAlive>>
electionVars == <<electionRunning, election, asks, gotOK, accepting>>
heartbeatVars == <<starting, senders, beats, monitoring, pinged>>
history == <<declared, fell, triggered, above>>
vars == <<boot, hubVars, electionVars, heartbeatVars, wire, history>>
-----------------------------------------------------------------------------
NoLeader == -1
Slot == 1..SlotBound
Up(n) == boot[n] # "off"

Boot == {"off", "serving", "electing", "ready"}
HubState == {"running", "election", "waiting_coordinator", "waiting_cs"}
ElectionPC == {"none", "spawned", "begun", "asking", "won", "declared", "waiting"}

ElectionMsg(n, k, p) == [type |-> "election", from |-> n, slot |-> k, to |-> p]
CoordinatorMsg(n, p) == [type |-> "coordinator", from |-> n, to |-> p]
\* The request of sendHeartbeats names its sender, that of the monitor the
\* node it goes to.
HeartbeatMsg(n, p) == [type |-> "heartbeat", from |-> n, to |-> p]
PingMsg(n, p) == [type |-> "ping", from |-> n, to |-> p]

\* A request to a node that is down fails at once.
Send(msgs) == wire' = wire \cup {m \in msgs : Up(m.to)}

\* Failing is possible for an RPC from n to p.
CanFail(p) == RpcMayFail \/ ~ Up(p)

\* Whether the caller gets the answer of a request that has been handled.
Answered == {TRUE} \cup {~ RpcMayFail}

\* go StartElection(): an execution that has not taken the lock yet.
FreeSlot(pcs, n) == {k \in Slot : pcs[n][k] = "none"}
Spawn(pcs, n) ==
  [pcs EXCEPT ![n][CHOOSE k \in FreeSlot(pcs, n) : TRUE] = "spawned"]

\* One more thread, as long as the bound allows to tell them apart.
OneMore(threads) == IF threads < ThreadBound THEN threads + 1 ELSE threads
-----------------------------------------------------------------------------
Init ==
  /\ boot = [n \in Node |-> "serving"]
  /\ leaderID = [n \in Node |-> NoLeader]
  /\ hubState = [n \in Node |-> "running"]
  /\ peerClients = Linked
  /\ peerAlive = Linked
  /\ electionRunning = [n \in Node |-> FALSE]
  /\ election = [n \in Node |-> [k \in Slot |-> "none"]]
  /\ asks = [n \in Node |-> [k \in Slot |-> {}]]
  /\ gotOK = [n \in Node |-> [k \in Slot |-> FALSE]]
  /\ accepting = [n \in Node |-> {}]
  /\ starting = [n \in Node |-> 0]
  /\ senders = [n \in Node |-> 0]
  /\ beats = [n \in Node |-> {}]
  /\ monitoring = [n \in Node |-> FALSE]
  /\ pinged = [n \in Node |-> NoLeader]
  /\ wire = {}
  /\ declared = {}
  /\ fell = {}
  /\ triggered = {}
  /\ above = [n \in Node |-> [k \in Slot |-> {}]]
-----------------------------------------------------------------------------
(***************************************************************************)
(* main, and the hub's connections.                                        *)
(***************************************************************************)

\* The first election starts a second after the dialling of the peers did.
BootElection(n) ==
  /\ boot[n] = "serving"
  /\ FreeSlot(election, n) # {}
  /\ boot' = [boot EXCEPT ![n] = "electing"]
  /\ election' = Spawn(election, n)
  /\ UNCHANGED <<hubVars, electionRunning, asks, gotOK, accepting,
                 heartbeatVars, wire, history>>

BootHeartbeat(n) ==
  /\ boot[n] = "electing"
  /\ boot' = [boot EXCEPT ![n] = "ready"]
  /\ starting' = [starting EXCEPT ![n] = OneMore(@)]
  /\ UNCHANGED <<hubVars, electionVars, senders, beats, monitoring, pinged,
                 wire, history>>

\* Broken: a node dials itself.
DialledAll(n) == Node \ peerAlive[n]

\* connectWithRetry dials a peer that is not marked alive.
Dialled(n) == Peers[n] \ peerAlive[n]

Connect(n, p) ==
  /\ Up(n) /\ Up(p)
  /\ p \in Dialled(n)
  /\ peerClients' = [peerClients EXCEPT ![n] = @ \cup {p}]
  /\ peerAlive' = [peerAlive EXCEPT ![n] = @ \cup {p}]
  /\ UNCHANGED <<boot, leaderID, hubState, electionVars, heartbeatVars, wire,
                 history>>

\* The process dies: its goroutines end, and with it the requests it has not
\* handled.
Crash(n) ==
  /\ Up(n)
  /\ n \in MayCrash \ fell
  /\ boot' = [boot EXCEPT ![n] = "off"]
  /\ fell' = fell \cup {n}
  /\ leaderID' = [leaderID EXCEPT ![n] = NoLeader]
  /\ hubState' = [hubState EXCEPT ![n] = "running"]
  /\ peerClients' = [peerClients EXCEPT ![n] = {}]
  /\ peerAlive' = [peerAlive EXCEPT ![n] = {}]
  /\ electionRunning' = [electionRunning EXCEPT ![n] = FALSE]
  /\ election' = [election EXCEPT ![n] = [k \in Slot |-> "none"]]
  /\ asks' = [asks EXCEPT ![n] = [k \in Slot |-> {}]]
  /\ gotOK' = [gotOK EXCEPT ![n] = [k \in Slot |-> FALSE]]
  /\ accepting' = [accepting EXCEPT ![n] = {}]
  /\ starting' = [starting EXCEPT ![n] = 0]
  /\ senders' = [senders EXCEPT ![n] = 0]
  /\ beats' = [beats EXCEPT ![n] = {}]
  /\ monitoring' = [monitoring EXCEPT ![n] = FALSE]
  /\ pinged' = [pinged EXCEPT ![n] = NoLeader]
  /\ wire' = {m \in wire : m.to # n}
  /\ above' = [above EXCEPT ![n] = [k \in Slot |-> {}]]
  /\ UNCHANGED <<declared, triggered>>

\* NewHub and NewElectionService build what Init says; a crash left it so.
Restart(n) ==
  /\ ~ Up(n)
  /\ n \in MayRestart
  /\ boot' = [boot EXCEPT ![n] = "serving"]
  /\ UNCHANGED <<hubVars, electionVars, heartbeatVars, wire, history>>

\* RequestCriticalSection and ReleaseCriticalSection set the status label too.
MutexLabel(n) ==
  /\ MutexLabels
  /\ Up(n)
  /\ \E label \in {"waiting_cs", "running"} :
       hubState' = [hubState EXCEPT ![n] = label]
  /\ UNCHANGED <<boot, leaderID, peerClients, peerAlive, electionVars,
                 heartbeatVars, wire, history>>

\* handleTriggerElection of the dashboard.
TriggerElection(n) ==
  /\ Up(n)
  /\ n \in MayTrigger \ triggered
  /\ FreeSlot(election, n) # {}
  /\ leaderID' = [leaderID EXCEPT ![n] = NoLeader]
  /\ election' = Spawn(election, n)
  /\ triggered' = triggered \cup {n}
  /\ UNCHANGED <<boot, hubState, peerClients, peerAlive, electionRunning, asks,
                 gotOK, accepting, heartbeatVars, wire, declared, fell, above>>
-----------------------------------------------------------------------------
(***************************************************************************)
(* StartElection and declareLeader: execution k of node n.                 *)
(***************************************************************************)

\* The guard at the head of StartElection.
BeginElection(n, k) ==
  /\ election[n][k] = "spawned"
  /\ electionRunning' = [electionRunning EXCEPT ![n] = TRUE]
  /\ election' = [election EXCEPT ![n][k] =
                    IF electionRunning[n] THEN "none" ELSE "begun"]
  /\ UNCHANGED <<boot, hubVars, asks, gotOK, accepting, heartbeatVars, wire,
                 history>>

\* Broken: the comparison is reversed.
LowerPeers(n) == {p \in peerClients[n] \cap peerAlive[n] : p < n}

\* GetHigherPeerClients: a peer that is marked dead is not asked.
HigherPeers(n) == {p \in peerClients[n] \cap peerAlive[n] : p > n}

AskHigherPeers(n, k) ==
  /\ election[n][k] = "begun"
  /\ hubState' = [hubState EXCEPT ![n] = "election"]
  /\ election' = [election EXCEPT ![n][k] =
                    IF HigherPeers(n) = {} THEN "won" ELSE "asking"]
  /\ asks' = [asks EXCEPT ![n][k] = HigherPeers(n)]
  /\ gotOK' = [gotOK EXCEPT ![n][k] = FALSE]
  /\ above' = [above EXCEPT ![n][k] = {p \in peerClients[n] : p > n}]
  /\ Send({ElectionMsg(n, k, p) : p \in HigherPeers(n)})
  /\ UNCHANGED <<boot, leaderID, peerClients, peerAlive, electionRunning,
                 accepting, heartbeatVars, declared, fell, triggered>>

\* Election at node m.to: OK, and an election of its own.
HandleElection(m) ==
  LET n == m.from
      k == m.slot
      ok == m.to > n
  IN  /\ m \in wire /\ m.type = "election"
      /\ FreeSlot(election, m.to) # {}
      /\ election' = IF ok THEN Spawn(election, m.to) ELSE election
      /\ \E answered \in Answered :
           IF answered /\ m.to \in asks[n][k]
             THEN /\ asks' = [asks EXCEPT ![n][k] = @ \ {m.to}]
                  /\ gotOK' = [gotOK EXCEPT ![n][k] = @ \/ ok]
             ELSE UNCHANGED <<asks, gotOK>>
      /\ wire' = wire \ {m}
      /\ UNCHANGED <<boot, hubVars, electionRunning, accepting, heartbeatVars,
                     history>>

ElectionFails(n, k, p) ==
  /\ p \in asks[n][k]
  /\ CanFail(p)
  /\ asks' = [asks EXCEPT ![n][k] = @ \ {p}]
  /\ peerAlive' = [peerAlive EXCEPT ![n] = @ \ {p}]
  /\ UNCHANGED <<boot, leaderID, hubState, peerClients, electionRunning,
                 election, gotOK, accepting, heartbeatVars, wire, history>>

\* Broken: no timer is set for the announcement.
AfterOKNoTimer == "none"

\* The timer of 5 seconds is set, and StartElection returns.
AfterOK == "waiting"

\* wg.Wait() returns.
DecideElection(n, k) ==
  /\ election[n][k] = "asking"
  /\ asks[n][k] = {}
  /\ IF gotOK[n][k]
       THEN /\ hubState' = [hubState EXCEPT ![n] = "waiting_coordinator"]
            /\ election' = [election EXCEPT ![n][k] = AfterOK]
            /\ above' = [above EXCEPT ![n][k] = {}]
       ELSE /\ election' = [election EXCEPT ![n][k] = "won"]
            /\ UNCHANGED <<hubState, above>>
  /\ UNCHANGED <<boot, leaderID, peerClients, peerAlive, electionRunning, asks,
                 gotOK, accepting, heartbeatVars, wire, declared, fell,
                 triggered>>

\* The timer of an execution that got an OK.
CoordinatorTimeout(n, k) ==
  /\ election[n][k] = "waiting"
  /\ IF leaderID[n] = NoLeader \/ hubState[n] = "waiting_coordinator"
       THEN /\ electionRunning' = [electionRunning EXCEPT ![n] = FALSE]
            /\ election' = [election EXCEPT ![n][k] = "spawned"]
       ELSE /\ election' = [election EXCEPT ![n][k] = "none"]
            /\ UNCHANGED electionRunning
  /\ UNCHANGED <<boot, hubVars, asks, gotOK, accepting, heartbeatVars, wire,
                 history>>

\* declareLeader: what the node tells itself ...
DeclareLeader(n, k) ==
  /\ election[n][k] = "won"
  /\ leaderID' = [leaderID EXCEPT ![n] = n]
  /\ hubState' = [hubState EXCEPT ![n] = "running"]
  /\ election' = [election EXCEPT ![n][k] = "declared"]
  /\ declared' = declared \cup {n}
  /\ above' = [above EXCEPT ![n][k] = {}]
  /\ UNCHANGED <<boot, peerClients, peerAlive, electionRunning, asks, gotOK,
                 accepting, heartbeatVars, wire, fell, triggered>>

\* ... and what it tells the others, waiting for nobody.
AnnounceLeader(n, k) ==
  /\ election[n][k] = "declared"
  /\ Send({CoordinatorMsg(n, p) : p \in peerClients[n]})
  /\ electionRunning' = [electionRunning EXCEPT ![n] = FALSE]
  /\ election' = [election EXCEPT ![n][k] = "none"]
  /\ starting' = [starting EXCEPT ![n] = OneMore(@)]
  /\ UNCHANGED <<boot, hubVars, asks, gotOK, accepting, senders, beats,
                 monitoring, pinged, history>>

\* Coordinator at node m.to: any sender is accepted.
HandleCoordinator(m) ==
  /\ m \in wire /\ m.type = "coordinator"
  /\ leaderID' = [leaderID EXCEPT ![m.to] = m.from]
  /\ hubState' = [hubState EXCEPT ![m.to] = "running"]
  /\ accepting' = [accepting EXCEPT ![m.to] = @ \cup {m.from}]
  /\ wire' = wire \ {m}
  /\ UNCHANGED <<boot, peerClients, peerAlive, electionRunning, election, asks,
                 gotOK, heartbeatVars, history>>

\* The end of the handler: an election under way counts as over.
StopElection(n, l) ==
  /\ l \in accepting[n]
  /\ accepting' = [accepting EXCEPT ![n] = @ \ {l}]
  /\ electionRunning' = [electionRunning EXCEPT ![n] = FALSE]
  /\ UNCHANGED <<boot, hubVars, election, asks, gotOK, heartbeatVars, wire,
                 history>>
-----------------------------------------------------------------------------
(***************************************************************************)
(* Heartbeats.                                                             *)
(***************************************************************************)

\* StartHeartbeat decides once what the goroutine will be.  A monitor never
\* ends, and a second one does what the first does.
StartHeartbeat(n) ==
  /\ starting[n] > 0
  /\ starting' = [starting EXCEPT ![n] = @ - 1]
  /\ IF leaderID[n] = n
       THEN /\ senders' = [senders EXCEPT ![n] = OneMore(@)]
            /\ UNCHANGED monitoring
       ELSE /\ monitoring' = [monitoring EXCEPT ![n] = TRUE]
            /\ UNCHANGED senders
  /\ UNCHANGED <<boot, hubVars, electionVars, beats, pinged, wire, history>>

\* A tick of a sender that still leads.
SendHeartbeats(n) ==
  /\ senders[n] > 0
  /\ leaderID[n] = n
  /\ beats' = [beats EXCEPT ![n] = @ \cup peerClients[n]]
  /\ Send({HeartbeatMsg(n, p) : p \in peerClients[n]})
  /\ UNCHANGED <<boot, hubVars, electionVars, starting, senders, monitoring,
                 pinged, history>>

\* A tick of a sender that does not: it ends.
StopSending(n) ==
  /\ senders[n] > 0
  /\ leaderID[n] # n
  /\ senders' = [senders EXCEPT ![n] = @ - 1]
  /\ UNCHANGED <<boot, hubVars, electionVars, starting, beats, monitoring,
                 pinged, wire, history>>

\* Heartbeat at node m.to, from a sender: any sender is accepted.
HandleHeartbeat(m) ==
  LET n == m.from
      p == m.to
  IN  /\ m \in wire /\ m.type = "heartbeat"
      /\ leaderID' = [leaderID EXCEPT ![p] = n]
      /\ \E answered \in Answered :
           LET heard == answered /\ p \in beats[n]
           IN  /\ beats' = IF heard THEN [beats EXCEPT ![n] = @ \ {p}] ELSE beats
               /\ peerAlive' = [q \in Node |->
                    peerAlive[q] \cup (IF q = p THEN {n} ELSE {})
                                 \cup (IF q = n /\ heard THEN {p} ELSE {})]
      /\ wire' = wire \ {m}
      /\ UNCHANGED <<boot, hubState, peerClients, electionVars, starting,
                     senders, monitoring, pinged, history>>

HeartbeatFails(n, p) ==
  /\ p \in beats[n]
  /\ CanFail(p)
  /\ beats' = [beats EXCEPT ![n] = @ \ {p}]
  /\ peerAlive' = [peerAlive EXCEPT ![n] = @ \ {p}]
  /\ UNCHANGED <<boot, leaderID, hubState, peerClients, electionVars, starting,
                 senders, monitoring, pinged, wire, history>>

\* Broken: a leader that is marked dead already is not pinged.
PingableAlive(n) == peerClients[n] \cap peerAlive[n]

\* GetPeerClients returns a stub.
Pingable(n) == peerClients[n]

\* The monitor wakes and pings the leader, if there is one it can reach.
PingLeader(n) ==
  /\ monitoring[n]
  /\ pinged[n] = NoLeader
  /\ leaderID[n] \in Pingable(n)
  /\ pinged' = [pinged EXCEPT ![n] = leaderID[n]]
  /\ Send({PingMsg(n, leaderID[n])})
  /\ UNCHANGED <<boot, hubVars, electionVars, starting, senders, beats,
                 monitoring, history>>

\* The leader is a node there is no stub for.
LeaderUnreachable(n) ==
  /\ monitoring[n]
  /\ pinged[n] = NoLeader
  /\ leaderID[n] \notin peerClients[n] \cup {n, NoLeader}
  /\ FreeSlot(election, n) # {}
  /\ leaderID' = [leaderID EXCEPT ![n] = NoLeader]
  /\ election' = Spawn(election, n)
  /\ UNCHANGED <<boot, hubState, peerClients, peerAlive, electionRunning, asks,
                 gotOK, accepting, heartbeatVars, wire, history>>

\* Broken: the ping names the node it comes from, as heartbeats do.
PingNamesSender(m) == m.from

\* LeaderId of a ping: the leader that is asked.
PingNames(m) == m.to

\* Heartbeat at node m.to, from a monitor: the request names the node itself,
\* which takes it for the leader's.
HandlePing(m) ==
  LET n == m.from
      p == m.to
  IN  /\ m \in wire /\ m.type = "ping"
      /\ leaderID' = [leaderID EXCEPT ![p] = PingNames(m)]
      /\ peerAlive' = [peerAlive EXCEPT ![p] = @ \cup {PingNames(m)}]
      /\ \E answered \in Answered :
           pinged' = IF answered /\ pinged[n] = p
                       THEN [pinged EXCEPT ![n] = NoLeader] ELSE pinged
      /\ wire' = wire \ {m}
      /\ UNCHANGED <<boot, hubState, peerClients, electionVars, starting,
                     senders, beats, monitoring, history>>

\* The leader does not answer.  Whatever the node has learnt since the ping,
\* it knows no leader now.
PingFails(n) ==
  /\ pinged[n] # NoLeader
  /\ CanFail(pinged[n])
  /\ FreeSlot(election, n) # {}
  /\ peerAlive' = [peerAlive EXCEPT ![n] = @ \ {pinged[n]}]
  /\ leaderID' = [leaderID EXCEPT ![n] = NoLeader]
  /\ pinged' = [pinged EXCEPT ![n] = NoLeader]
  /\ election' = Spawn(election, n)
  /\ UNCHANGED <<boot, hubState, peerClients, electionRunning, asks, gotOK,
                 accepting, starting, senders, beats, monitoring, wire, history>>
-----------------------------------------------------------------------------
NodeStep(n) ==
  \/ BootElection(n)
  \/ BootHeartbeat(n)
  \/ Crash(n)
  \/ Restart(n)
  \/ MutexLabel(n)
  \/ TriggerElection(n)
  \/ \E p \in Node : Connect(n, p)

ElectionStep(n, k) ==
  \/ BeginElection(n, k)
  \/ AskHigherPeers(n, k)
  \/ DecideElection(n, k)
  \/ CoordinatorTimeout(n, k)
  \/ DeclareLeader(n, k)
  \/ AnnounceLeader(n, k)
  \/ \E p \in Node : ElectionFails(n, k, p)

HeartbeatStep(n) ==
  \/ StartHeartbeat(n)
  \/ SendHeartbeats(n)
  \/ StopSending(n)
  \/ PingLeader(n)
  \/ LeaderUnreachable(n)
  \/ PingFails(n)
  \/ \E l \in Node : StopElection(n, l) \/ HeartbeatFails(n, l)

Handle(m) ==
  \/ HandleElection(m)
  \/ HandleCoordinator(m)
  \/ HandleHeartbeat(m)
  \/ HandlePing(m)

Next ==
  \/ \E n \in Node : NodeStep(n) \/ HeartbeatStep(n)
  \/ \E n \in Node, k \in Slot : ElectionStep(n, k)
  \/ \E m \in wire : Handle(m)

Spec == Init /\ [][Next]_vars

(***************************************************************************)
(* Goroutines run, timers go off, and an RPC is answered or fails.  That a *)
(* request is handled is promised only where RPCs do not fail.  Nobody has *)
(* to crash, to be restarted or to trigger an election.                    *)
(***************************************************************************)
Pairs == {q \in Node \X Node : q[1] # q[2]}
Question ==
  {ElectionMsg(q[1], k, q[2]) : q \in Pairs, k \in Slot}
    \cup {PingMsg(q[1], q[2]) : q \in Pairs}
Notice ==
  {CoordinatorMsg(q[1], q[2]) : q \in Pairs}
    \cup {HeartbeatMsg(q[1], q[2]) : q \in Pairs}
Message == Question \cup Notice

\* What has begun goes on: elections, the monitor, and the end of a handler.
ElectionFairness ==
  /\ \A n \in Node :
       /\ WF_vars(PingLeader(n) \/ LeaderUnreachable(n))
       /\ WF_vars(PingFails(n))
  /\ \A q \in Pairs : WF_vars(StopElection(q[1], q[2]))
  /\ \A n \in Node, k \in Slot : WF_vars(ElectionStep(n, k))
  /\ ~ RpcMayFail => \A m \in Question : WF_vars(Handle(m))

\* Everything else does too.
Fairness ==
  /\ ElectionFairness
  /\ \A n \in Node :
       /\ WF_vars(BootElection(n) \/ BootHeartbeat(n))
       /\ WF_vars(StartHeartbeat(n))
       /\ WF_vars(SendHeartbeats(n))
       /\ WF_vars(StopSending(n))
  /\ \A q \in Pairs :
       /\ WF_vars(Connect(q[1], q[2]))
       /\ WF_vars(HeartbeatFails(q[1], q[2]))
  /\ ~ RpcMayFail => \A m \in Notice : WF_vars(Handle(m))

ElectionSpec == Spec /\ ElectionFairness
FairSpec == Spec /\ Fairness
-----------------------------------------------------------------------------
(***************************************************************************)
(* Properties.                                                             *)
(***************************************************************************)

\* Every variable has its type, and no node is a peer of itself.
TypeOK ==
  /\ boot \in [Node -> Boot]
  /\ leaderID \in [Node -> Node \cup {NoLeader}]
  /\ hubState \in [Node -> HubState]
  /\ peerClients \in [Node -> SUBSET Node]
  /\ peerAlive \in [Node -> SUBSET Node]
  /\ \A n \in Node : peerClients[n] \subseteq Peers[n]
  /\ electionRunning \in [Node -> BOOLEAN]
  /\ election \in [Node -> [Slot -> ElectionPC]]
  /\ asks \in [Node -> [Slot -> SUBSET Node]]
  /\ gotOK \in [Node -> [Slot -> BOOLEAN]]
  /\ accepting \in [Node -> SUBSET Node]
  /\ starting \in [Node -> 0..ThreadBound]
  /\ senders \in [Node -> 0..ThreadBound]
  /\ beats \in [Node -> SUBSET Node]
  /\ monitoring \in [Node -> BOOLEAN]
  /\ pinged \in [Node -> Node \cup {NoLeader}]
  /\ wire \subseteq Message
  /\ declared \subseteq Node
  /\ fell \subseteq Node
  /\ triggered \subseteq Node
  /\ above \in [Node -> [Slot -> SUBSET Node]]

\* No node follows one that has never declared itself: neither the election's
\* handlers nor the pings, which name the node they go to, invent a leader.
LeaderHasDeclared ==
  \A n \in Node : leaderID[n] # NoLeader => leaderID[n] \in declared

\* An execution comes out as the winner only if every higher node it had a stub
\* for when it asked has failed: while they live, they are asked and say OK.
HigherPeersBarTheWay ==
  \A n \in Node, k \in Slot :
    election[n][k] = "won" => above[n][k] \subseteq fell \/ RpcMayFail

\* Some goroutine of n is bound to clear electionRunning: an execution on its
\* way, its timer while the label says that it counts, a Coordinator handler.
Served(n) ==
  \/ \E k \in Slot : election[n][k] \in {"begun", "asking", "won", "declared"}
  \/ /\ \E k \in Slot : election[n][k] = "waiting"
     /\ hubState[n] = "waiting_coordinator"
  \/ accepting[n] # {}

\* electionRunning makes every further StartElection return at once, so it must
\* never be left behind.  One step only leaves it: a booking that overwrites the
\* label of an election that waits.
FlagLeftOnlyByLabel ==
  [][\A n \in Node :
       (electionRunning[n] => Served(n)) =>
         (electionRunning[n] => Served(n))' \/ MutexLabel(n)]_vars

\* An election that has begun is over some time.
ElectionEnds ==
  \A n \in Node : electionRunning[n] ~> ~ electionRunning[n]

\* A node that monitors and whose leader has died finds out, however many late
\* messages of the dead leader come in between.
MonitorNoticesDeadLeader ==
  \A l \in MayCrash : \A n \in Node \ {l} :
    (monitoring[n] /\ leaderID[n] = l /\ ~ Up(l)) ~> ~ (Up(n) /\ leaderID[n] = l)
-----------------------------------------------------------------------------
(***************************************************************************)
(* What the documentation says and the code does not keep.                 *)
(***************************************************************************)

\* election.go:8: of the nodes that live, the one with the highest id is elected,
\* and they all follow it in the end.
Highest(n) == Up(n) /\ \A p \in Node : Up(p) => p <= n
AllFollowHighest ==
  \A n \in Node : Up(n) => \E l \in Node : Highest(l) /\ leaderID[n] = l
HighestLeadsInTheEnd == <>[]AllFollowHighest

\* election.go:23-24: a node that hears no heartbeat takes the leader for dead.
DeadLeaderIsNoticed ==
  \A n, l \in Node :
    (Up(n) /\ leaderID[n] = l /\ ~ Up(l)) ~> ~ (Up(n) /\ leaderID[n] = l)

\* election.go:22: the leader sends heartbeats.
LeaderSendsHeartbeats ==
  \A n \in Node :
    leaderID[n] = n => \/ senders[n] + starting[n] > 0
                       \/ \E k \in Slot : election[n][k] = "declared"
=============================================================================
