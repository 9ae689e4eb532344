--------------------------- MODULE RicartAgrawala ---------------------------
(***************************************************************************)
(* Distributed mutual exclusion per seat: internal/ra/mutex.go, with the   *)
(* parts of internal/node/hub.go and internal/clock/lamport.go it uses.    *)
(*                                                                         *)
(* A call is one execution of RequestCriticalSection and the matching      *)
(* ReleaseCriticalSection: a goroutine of an HTTP or gRPC handler of the   *)
(* node At[c], for the seat On[c].  Nothing in the code keeps two calls of *)
(* one node from asking for the same seat at the same time; they share the *)
(* per-seat entries of the node's maps.  For every peer the call has a     *)
(* goroutine that sends the REQUEST and, when the answer is "deferred",    *)
(* polls the peer until it is granted.  A reply is never pushed: releasing *)
(* the seat only makes the next poll succeed.                              *)
(***************************************************************************)
EXTENDS Integers, Sequences, FiniteSets, LamportClock

CONSTANTS
  Node,        \* node identifiers: numbers, since the tie-break compares them
  Peers,       \* Peers[n]: the nodes in n's configuration file
  Linked,      \* Linked[n]: peers whose stubs exist when the behaviour begins
  Seat,        \* resources
  Call,        \* executions of RequestCriticalSection
  At, On,      \* the node and the seat of a call
  PollLimit,   \* polls before a deferred reply counts as given (30 in the code)
  RpcMayFail,  \* whether an RPC may end in an error or a deadline
  MayRestart,  \* the nodes whose process may be killed and started again
  ClockBound   \* bound on the ticks of the clock's other users (elections, ...)

ASSUME NodeAssumption == Node \subseteq Nat /\ IsFiniteSet(Node)
ASSUME PeersAssumption ==
  /\ Peers \in [Node -> SUBSET Node]
  /\ \A n \in Node : n \notin Peers[n]
ASSUME LinkedAssumption ==
  /\ Linked \in [Node -> SUBSET Node]
  /\ \A n \in Node : Linked[n] \subseteq Peers[n]
ASSUME CallAssumption == At \in [Call -> Node] /\ On \in [Call -> Seat]
ASSUME BoundAssumption ==
  /\ PollLimit \in Nat
  /\ RpcMayFail \in BOOLEAN
  /\ MayRestart \subseteq Node
  /\ MayRestart # {} => RpcMayFail   \* a restart breaks the RPCs under way
  /\ ClockBound \in Nat

VARIABLES
  (* Of a node: the hub's fields and the maps of MutexService.             *)
  clock,            \* hub.Clock
  hubState,         \* hub.state, the node's status label
  peerClients,      \* hub.peerClients: the peers a stub exists for
  state,            \* state[resource]
  requestTime,      \* requestTime[resource], 0 when the entry is absent
  repliesReceived,  \* repliesReceived[resource], 0 when absent
  repliesNeeded,    \* repliesNeeded[resource], 0 when absent
  deferredReplies,  \* deferredReplies[resource], the node of each entry
  (* Of a call: its program counter and locals.                            *)
  pc,
  lamportTime,      \* the timestamp of the request
  waitCh,           \* whether the one-place channel of the call is full
  (* Of a call and a peer: the sending goroutine and the RPC's handler.    *)
  goroutine,
  polls,            \* polls sent by waitForDeferredReply
  handler,
  (* History, read by no action: what may cost the call its exclusion.     *)
  implicit,         \* <<c, p>>: c counted p's reply without p's permission
  overtaken,        \* <<c, d>>: c was granted before d, of the granting node
                    \*   and with the older timestamp, had announced itself
  crowded,          \* calls that met another call of their node and seat
  reborn            \* nodes that lost their memory in a restart

nodeVars == <<clock, hubState, peerClients>>
mutexVars == <<state, requestTime, repliesReceived, repliesNeeded,
               deferredReplies>>
callVars == <<pc, lamportTime, waitCh>>
rpcVars == <<goroutine, polls, handler>>
history == <<implicit, overtaken, crowded, reborn>>
vars == <<nodeVars, mutexVars, callVars, rpcVars, history>>
-----------------------------------------------------------------------------
MutexState == {"released", "wanting", "held"}
HubState == {"running", "waiting_cs", "in_cs"}
PC == {"start", "ticked", "waiting", "cs", "done", "failed", "crashed"}
Goroutine == {"none", "ready", "waiting", "granted", "deferred", "counted"}
Handler == {"none", "wire", "handling"}

\* From the tick that stamps the request until the seat is given up.
Active(c) == pc[c] \in {"ticked", "waiting", "cs"}

\* Two calls that share the entries of one node's maps.
SamePlace(c, d) == At[c] = At[d] /\ On[c] = On[d]

\* The priority of two requests: the timestamp, then the node.
Before(c, d) ==
  \/ lamportTime[c] < lamportTime[d]
  \/ lamportTime[c] = lamportTime[d] /\ At[c] < At[d]

\* Calls of different nodes that compete for a seat and ask each other.
Rivals(c, d) ==
  /\ On[c] = On[d]
  /\ At[d] \in Peers[At[c]]
  /\ At[c] \in Peers[At[d]]

\* c holds the reply of p because p gave it.
Granted(c, p) ==
  \/ goroutine[c][p] = "granted"
  \/ goroutine[c][p] = "counted" /\ <<c, p>> \notin implicit
-----------------------------------------------------------------------------
Init ==
  /\ clock = [n \in Node |-> Tick(ClockStart)]
  /\ hubState = [n \in Node |-> "running"]
  /\ peerClients = Linked
  /\ state = [n \in Node |-> [s \in Seat |-> "released"]]
  /\ requestTime = [n \in Node |-> [s \in Seat |-> 0]]
  /\ repliesReceived = [n \in Node |-> [s \in Seat |-> 0]]
  /\ repliesNeeded = [n \in Node |-> [s \in Seat |-> 0]]
  /\ deferredReplies = [n \in Node |-> [s \in Seat |-> <<>>]]
  /\ pc = [c \in Call |-> "start"]
  /\ lamportTime = [c \in Call |-> 0]
  /\ waitCh = [c \in Call |-> FALSE]
  /\ goroutine = [c \in Call |-> [p \in Node |-> "none"]]
  /\ polls = [c \in Call |-> [p \in Node |-> 0]]
  /\ handler = [c \in Call |-> [p \in Node |-> "none"]]
  /\ implicit = {}
  /\ overtaken = {}
  /\ crowded = {}
  /\ reborn = {}
-----------------------------------------------------------------------------
(***************************************************************************)
(* The node around the mutex.                                              *)
(***************************************************************************)

\* connectWithRetry, ConnectToPeer: a dial succeeds and the stub is stored.
\* Nothing removes a stub, so a peer that has died keeps its own.
Connect(n, p) ==
  /\ p \in Peers[n] \ peerClients[n]
  /\ peerClients' = [peerClients EXCEPT ![n] = @ \cup {p}]
  /\ UNCHANGED <<clock, hubState, mutexVars, callVars, rpcVars, history>>

\* The elections, heartbeats and bookings of the node move its clock too.  A
\* stamp they receive from another node is several such steps at once.
OtherEvent(n) ==
  /\ clock[n] < ClockBound
  /\ clock' = [clock EXCEPT ![n] = Tick(@)]
  /\ UNCHANGED <<hubState, peerClients, mutexVars, callVars, rpcVars, history>>

\* The process of n dies and starts anew: NewHub and NewMutexService build
\* empty maps, the clock begins again and stubs are dialled again.
Restart(n) ==
  /\ n \in MayRestart \ reborn
  /\ clock' = [clock EXCEPT ![n] = Tick(ClockStart)]
  /\ hubState' = [hubState EXCEPT ![n] = "running"]
  /\ peerClients' = [peerClients EXCEPT ![n] = {}]
  /\ state' = [state EXCEPT ![n] = [s \in Seat |-> "released"]]
  /\ requestTime' = [requestTime EXCEPT ![n] = [s \in Seat |-> 0]]
  /\ repliesReceived' = [repliesReceived EXCEPT ![n] = [s \in Seat |-> 0]]
  /\ repliesNeeded' = [repliesNeeded EXCEPT ![n] = [s \in Seat |-> 0]]
  /\ deferredReplies' = [deferredReplies EXCEPT ![n] = [s \in Seat |-> <<>>]]
  /\ pc' = [c \in Call |-> IF At[c] = n /\ Active(c) THEN "crashed" ELSE pc[c]]
  /\ handler' = [c \in Call |-> [handler[c] EXCEPT
                   ![n] = IF @ = "handling" THEN "none" ELSE @]]
  /\ reborn' = reborn \cup {n}
  /\ UNCHANGED <<lamportTime, waitCh, goroutine, polls,
                 implicit, overtaken, crowded>>
-----------------------------------------------------------------------------
(***************************************************************************)
(* RequestCriticalSection up to the point where its goroutines run.        *)
(***************************************************************************)

\* The request is stamped.  The node's entries for the seat still say what
\* they said before: until Announce the node answers as if it asked nothing.
BeginRequest(c) ==
  LET n == At[c]
      others == {d \in Call : SamePlace(c, d) /\ Active(d)}
  IN  /\ pc[c] = "start"
      /\ clock' = [clock EXCEPT ![n] = Tick(@)]
      /\ lamportTime' = [lamportTime EXCEPT ![c] = clock'[n]]
      /\ hubState' = [hubState EXCEPT ![n] = "waiting_cs"]
      /\ pc' = [pc EXCEPT ![c] = "ticked"]
      /\ crowded' = IF others = {} THEN crowded
                                   ELSE crowded \cup others \cup {c}
      /\ UNCHANGED <<peerClients, mutexVars, waitCh, rpcVars,
                     implicit, overtaken, reborn>>

\* Broken: only the peers that are linked count, as in
\* numPeers := len(allPeers).
RepliesOfStubs(n) == Cardinality(peerClients[n])

\* numPeers: a reply is needed from every configured peer.
RepliesNeeded(n) == Cardinality(Peers[n])

\* GetAllPeerClients, then the locked block that makes the request visible.
\* There is a goroutine per stub only.
Announce(c) ==
  LET n == At[c]
      s == On[c]
  IN  /\ pc[c] = "ticked"
      /\ state' = [state EXCEPT ![n][s] = "wanting"]
      /\ requestTime' = [requestTime EXCEPT ![n][s] = lamportTime[c]]
      /\ repliesReceived' = [repliesReceived EXCEPT ![n][s] = 0]
      /\ repliesNeeded' = [repliesNeeded EXCEPT ![n][s] = RepliesNeeded(n)]
      /\ pc' = [pc EXCEPT ![c] = "waiting"]
      /\ goroutine' = [goroutine EXCEPT ![c] =
           [p \in Node |-> IF p \in peerClients[n] THEN "ready" ELSE "none"]]
      /\ UNCHANGED <<nodeVars, deferredReplies, lamportTime, waitCh,
                     polls, handler, history>>
-----------------------------------------------------------------------------
(***************************************************************************)
(* RequestAccess: node p handles the request of call c.  The clock is      *)
(* moved before the service's lock is taken; the decision is made under it.*)
(***************************************************************************)

ReceiveRequest(c, p) ==
  /\ handler[c][p] = "wire"
  /\ handler' = [handler EXCEPT ![c][p] = "handling"]
  /\ clock' = [clock EXCEPT ![p] = Update(@, lamportTime[c])]
  /\ UNCHANGED <<hubState, peerClients, mutexVars, callVars,
                 goroutine, polls, history>>

\* Broken: a request with the stamp of p's own is older.
OlderOrTied(c, p) == lamportTime[c] <= requestTime[p][On[c]]

\* The request of c has priority over the one p has announced.
Older(c, p) ==
  \/ lamportTime[c] < requestTime[p][On[c]]
  \/ lamportTime[c] = requestTime[p][On[c]] /\ At[c] < p

\* Broken: a node that holds or wants any seat answers as if it were this one.
ShouldReplyIfIdle(c, p) ==
  \/ \A s \in Seat : state[p][s] = "released"
  \/ state[p][On[c]] = "wanting" /\ Older(c, p)

\* The switch of RequestAccess: whether p, asked by c, replies at once.
ShouldReply(c, p) ==
  \/ state[p][On[c]] = "released"
  \/ state[p][On[c]] = "wanting" /\ Older(c, p)

\* The answer is of use only to a goroutine that still waits for it.
Answer(c, p, answer) ==
  /\ handler' = [handler EXCEPT ![c][p] = "none"]
  /\ goroutine' = [goroutine EXCEPT ![c][p] =
                     IF @ = "waiting" THEN answer ELSE @]

\* The calls of p that have stamped an older request and not announced it.
Unannounced(c, p) ==
  {d \in Call : /\ At[d] = p /\ On[d] = On[c]
                /\ pc[d] = "ticked" /\ Before(d, c)}

GrantRequest(c, p) ==
  /\ handler[c][p] = "handling"
  /\ ShouldReply(c, p)
  /\ Answer(c, p, "granted")
  /\ overtaken' = overtaken \cup {<<c, d>> : d \in Unannounced(c, p)}
  /\ UNCHANGED <<nodeVars, mutexVars, callVars, polls,
                 implicit, crowded, reborn>>

DeferRequest(c, p) ==
  /\ handler[c][p] = "handling"
  /\ ~ ShouldReply(c, p)
  /\ Answer(c, p, "deferred")
  /\ deferredReplies' =
       [deferredReplies EXCEPT ![p][On[c]] = Append(@, At[c])]
  /\ UNCHANGED <<nodeVars, state, requestTime, repliesReceived,
                 repliesNeeded, callVars, polls, history>>
-----------------------------------------------------------------------------
(***************************************************************************)
(* The goroutine of call c for peer p, waitForDeferredReply included.      *)
(***************************************************************************)

\* SendTime moves the clock, but the request carries the original stamp.
SendRequest(c, p) ==
  /\ pc[c] = "waiting"
  /\ goroutine[c][p] = "ready"
  /\ goroutine' = [goroutine EXCEPT ![c][p] = "waiting"]
  /\ handler' = [handler EXCEPT ![c][p] = "wire"]
  /\ clock' = [clock EXCEPT ![At[c]] = Tick(@)]
  /\ UNCHANGED <<hubState, peerClients, mutexVars, callVars, polls, history>>

\* Broken: > in place of >=.
MoreThanEnough(received, needed) == received > needed

Enough(received, needed) == received >= needed

\* The locked block that ends every goroutine: one more reply in the entry
\* of the seat, and a signal in the call's own channel once there are enough.
CountReply(c, p) ==
  LET n == At[c]
      s == On[c]
  IN  /\ goroutine' = [goroutine EXCEPT ![c][p] = "counted"]
      /\ repliesReceived' = [repliesReceived EXCEPT ![n][s] = @ + 1]
      /\ waitCh' = [waitCh EXCEPT ![c] =
           @ \/ Enough(repliesReceived[n][s] + 1, repliesNeeded[n][s])]
      /\ UNCHANGED <<nodeVars, state, requestTime, repliesNeeded,
                     deferredReplies, pc, lamportTime, polls, handler>>

CountGrant(c, p) ==
  /\ pc[c] = "waiting"
  /\ goroutine[c][p] = "granted"
  /\ CountReply(c, p)
  /\ UNCHANGED history

\* The RPC ends in an error or at its deadline, wherever the request or the
\* answer then is, and the reply is counted as if it had been given.
CountFailure(c, p) ==
  /\ RpcMayFail
  /\ pc[c] = "waiting"
  /\ goroutine[c][p] \in {"waiting", "granted", "deferred"}
  /\ CountReply(c, p)
  /\ implicit' = implicit \cup {<<c, p>>}
  /\ UNCHANGED <<overtaken, crowded, reborn>>

\* Broken: <= in place of <.
OnePollMore(c, p) == polls[c][p] <= PollLimit

PollsLeft(c, p) == polls[c][p] < PollLimit

\* After a second of sleep the same request is sent again.  The stub is still
\* there, since nothing removes one.
Poll(c, p) ==
  /\ pc[c] = "waiting"
  /\ goroutine[c][p] = "deferred"
  /\ PollsLeft(c, p)
  /\ polls' = [polls EXCEPT ![c][p] = @ + 1]
  /\ goroutine' = [goroutine EXCEPT ![c][p] = "waiting"]
  /\ handler' = [handler EXCEPT ![c][p] = "wire"]
  /\ UNCHANGED <<nodeVars, mutexVars, callVars, history>>

\* The polls are used up: the deferred reply counts as given.
GiveUpPolling(c, p) ==
  /\ pc[c] = "waiting"
  /\ goroutine[c][p] = "deferred"
  /\ polls[c][p] = PollLimit
  /\ CountReply(c, p)
  /\ implicit' = implicit \cup {<<c, p>>}
  /\ UNCHANGED <<overtaken, crowded, reborn>>
-----------------------------------------------------------------------------
(***************************************************************************)
(* The end of RequestCriticalSection, and ReleaseCriticalSection.          *)
(***************************************************************************)

\* Broken: wg.Add for every configured peer, with a stub or not.
AllPeersReturned(c) == \A p \in Peers[At[c]] : goroutine[c][p] = "counted"

\* wg.Wait has returned: every goroutine the call started has counted.
AllReturned(c) == \A p \in Node : goroutine[c][p] \in {"none", "counted"}

\* Broken: len(allPeers) == 0.
NoStubs(c) == peerClients[At[c]] = {}

\* numPeers == 0: the call does not wait for a signal.
NoPeers(c) == Peers[At[c]] = {}

EnterCS(c) ==
  /\ pc[c] = "waiting"
  /\ AllReturned(c)
  /\ NoPeers(c) \/ waitCh[c]
  /\ pc' = [pc EXCEPT ![c] = "cs"]
  /\ waitCh' = [waitCh EXCEPT ![c] = FALSE]
  /\ state' = [state EXCEPT ![At[c]][On[c]] = "held"]
  /\ hubState' = [hubState EXCEPT ![At[c]] = "in_cs"]
  /\ UNCHANGED <<clock, peerClients, requestTime, repliesReceived,
                 repliesNeeded, deferredReplies, lamportTime, rpcVars, history>>

\* Only the call's own goroutines signal its channel and all of them are over,
\* so a channel found empty stays empty for the 30 seconds.
TimeOut(c) ==
  /\ pc[c] = "waiting"
  /\ AllReturned(c)
  /\ ~ NoPeers(c) /\ ~ waitCh[c]
  /\ pc' = [pc EXCEPT ![c] = "failed"]
  /\ state' = [state EXCEPT ![At[c]][On[c]] = "released"]
  /\ hubState' = [hubState EXCEPT ![At[c]] = "running"]
  /\ UNCHANGED <<clock, peerClients, requestTime, repliesReceived,
                 repliesNeeded, deferredReplies, lamportTime, waitCh,
                 rpcVars, history>>

\* Broken: the deferred entries are kept.
EntriesKept(n, s) == deferredReplies[n][s]

\* delete(deferredReplies, resource)
EntriesLeft(n, s) == <<>>

\* The goroutines started for the deferred entries send nothing.
ReleaseCriticalSection(c) ==
  LET n == At[c]
      s == On[c]
  IN  /\ pc[c] = "cs"
      /\ pc' = [pc EXCEPT ![c] = "done"]
      /\ state' = [state EXCEPT ![n][s] = "released"]
      /\ deferredReplies' = [deferredReplies EXCEPT ![n][s] = EntriesLeft(n, s)]
      /\ requestTime' = [requestTime EXCEPT ![n][s] = 0]
      /\ repliesReceived' = [repliesReceived EXCEPT ![n][s] = 0]
      /\ repliesNeeded' = [repliesNeeded EXCEPT ![n][s] = 0]
      /\ hubState' = [hubState EXCEPT ![n] = "running"]
      /\ UNCHANGED <<clock, peerClients, lamportTime, waitCh, rpcVars, history>>
-----------------------------------------------------------------------------
NodeStep(n) ==
  \/ OtherEvent(n)
  \/ Restart(n)
  \/ \E p \in Node : Connect(n, p)

CallStep(c) ==
  \/ BeginRequest(c)
  \/ Announce(c)
  \/ EnterCS(c)
  \/ TimeOut(c)
  \/ ReleaseCriticalSection(c)

HandlerStep(c, p) ==
  \/ ReceiveRequest(c, p)
  \/ GrantRequest(c, p)
  \/ DeferRequest(c, p)

GoroutineStep(c, p) ==
  \/ SendRequest(c, p)
  \/ CountGrant(c, p)
  \/ CountFailure(c, p)
  \/ Poll(c, p)
  \/ GiveUpPolling(c, p)

Next ==
  \/ \E n \in Node : NodeStep(n)
  \/ \E c \in Call : CallStep(c)
  \/ \E c \in Call, p \in Node : HandlerStep(c, p) \/ GoroutineStep(c, p)

Spec == Init /\ [][Next]_vars

(***************************************************************************)
(* Goroutines that can run do run, and an RPC ends, by its deadline if not *)
(* by an answer: no handler is promised to run.  Nobody is obliged to make *)
(* a request.                                                              *)
(***************************************************************************)
Fairness ==
  /\ \A c \in Call :
       /\ WF_vars(Announce(c))
       /\ WF_vars(EnterCS(c))
       /\ WF_vars(TimeOut(c))
       /\ WF_vars(ReleaseCriticalSection(c))
  /\ \A c \in Call, p \in Node : WF_vars(GoroutineStep(c, p))

FairSpec == Spec /\ Fairness
-----------------------------------------------------------------------------
(***************************************************************************)
(* Properties.                                                             *)
(***************************************************************************)

NodeTypeOK ==
  /\ clock \in [Node -> Nat]
  /\ hubState \in [Node -> HubState]
  /\ peerClients \in [Node -> SUBSET Node]
  /\ \A n \in Node : peerClients[n] \subseteq Peers[n]

MutexTypeOK ==
  /\ state \in [Node -> [Seat -> MutexState]]
  /\ requestTime \in [Node -> [Seat -> Nat]]
  /\ repliesReceived \in [Node -> [Seat -> Nat]]
  /\ repliesNeeded \in [Node -> [Seat -> Nat]]
  /\ deferredReplies \in [Node -> [Seat -> Seq(Node)]]

CallTypeOK ==
  /\ pc \in [Call -> PC]
  /\ lamportTime \in [Call -> Nat]
  /\ waitCh \in [Call -> BOOLEAN]

RpcTypeOK ==
  /\ goroutine \in [Call -> [Node -> Goroutine]]
  /\ polls \in [Call -> [Node -> 0..PollLimit]]
  /\ handler \in [Call -> [Node -> Handler]]

HistoryTypeOK ==
  /\ implicit \subseteq Call \X Node
  /\ overtaken \subseteq Call \X Call
  /\ crowded \subseteq Call
  /\ reborn \subseteq Node

\* Every variable has its type, and a stub is only ever made for a peer.
TypeOK ==
  /\ NodeTypeOK
  /\ MutexTypeOK
  /\ CallTypeOK
  /\ RpcTypeOK
  /\ HistoryTypeOK

\* What one of two rivals inside has lost, when both are: a reply was taken for
\* granted, a grant was given in the window between the stamp and the
\* announcement of an older request, the entries of the seat were shared by
\* two local calls, or a node forgot its promises in a restart.
Excused(c, d) ==
  \/ <<c, At[d]>> \in implicit
  \/ <<c, d>> \in overtaken
  \/ c \in crowded
  \/ At[c] \in reborn

\* Two rivals are inside together only through one of the four known holes:
\* nothing else in the protocol (the order of polls and answers, late handlers,
\* stubs made in the middle, counters that go on after the decision) costs
\* mutual exclusion.
ExclusionUnlessExcused ==
  \A c, d \in Call :
    (c # d /\ Rivals(c, d) /\ pc[c] = "cs" /\ pc[d] = "cs")
      => Excused(c, d) \/ Excused(d, c)

\* A grant follows the order of the timestamps: the rival of a call that holds
\* the permission of the rival's node comes after it, or overtook it.
GrantsRespectPriority ==
  \A c, d \in Call :
    (/\ c # d /\ Rivals(c, d)
     /\ Active(c) /\ Active(d) /\ d \notin crowded
     /\ At[d] \notin reborn
     /\ Granted(c, At[d]))
      => Before(c, d) \/ <<c, d>> \in overtaken

\* A call that shares its entries with nobody enters only after a goroutine of
\* its own has counted for each configured peer: no reply is counted twice,
\* none belongs to another request, and a peer without a stub bars the way.
EveryPeerAnsweredInCS ==
  \A c \in Call \ crowded :
    pc[c] = "cs" => \A p \in Peers[At[c]] : goroutine[c][p] = "counted"

\* What the node answers others about the seat is what its only active call
\* stands for: the request that is waiting, or the seat that is held.
StateMatchesCall ==
  \A c \in Call \ crowded :
    LET n == At[c]
        s == On[c]
    IN  /\ pc[c] = "ticked" => state[n][s] = "released"
        /\ pc[c] = "waiting" => /\ state[n][s] = "wanting"
                                /\ requestTime[n][s] = lamportTime[c]
        /\ pc[c] = "cs" => state[n][s] = "held"

\* The 30 seconds run out only for a call that had no stub for some peer when
\* it announced itself: errors, refusals and polls never lead to a failure.
TimeOutOnlyWhenUnlinked ==
  \A c \in Call \ crowded :
    pc[c] = "failed" => \E p \in Peers[At[c]] : goroutine[c][p] = "none"

\* Entries of deferred replies outlive a request only through the timeout,
\* which does not clear them, or through two calls that share them.
LeftoverDeferrals ==
  \A n \in Node, s \in Seat :
    (state[n][s] = "released" /\ deferredReplies[n][s] # <<>>)
      => \E c \in Call : /\ At[c] = n /\ On[c] = s
                         /\ pc[c] = "failed" \/ c \in crowded

\* Requests for different seats do not block each other: whatever other seats a
\* node holds or waits for, it defers a request only if it has asked for that
\* seat itself.
DeferredOnlyByRival ==
  \A c \in Call, p \in Node :
    goroutine[c][p] = "deferred"
      => \E d \in Call : At[d] = p /\ On[d] = On[c] /\ pc[d] # "start"

\* Of two rivals that wait, each node would let exactly one through and both
\* nodes mean the same one: they neither wait for each other for ever nor pass
\* each other.
RivalsAgreeOnOrder ==
  \A c, d \in Call :
    (/\ c # d /\ Rivals(c, d) /\ {c, d} \cap crowded = {}
     /\ pc[c] = "waiting" /\ pc[d] = "waiting")
      => ShouldReply(c, At[d]) # ShouldReply(d, At[c])

\* A call that has begun ends, whatever the peers and the network do.
EveryCallReturns ==
  \A c \in Call : pc[c] = "ticked" ~> pc[c] \in {"done", "failed", "crashed"}
-----------------------------------------------------------------------------
(***************************************************************************)
(* What the documentation says and the code does not keep.                 *)
(***************************************************************************)

\* mutex.go:8-9: a node enters the critical section of a seat without conflict
\* with other nodes.
MutualExclusion ==
  \A c, d \in Call :
    (pc[c] = "cs" /\ pc[d] = "cs" /\ On[c] = On[d]) => At[c] = At[d]

\* mutex.go:201-202: no booking without the permission of a peer that is
\* offline for the moment.
EnterOnlyWithPermission ==
  \A c \in Call : pc[c] = "cs" => \A p \in Peers[At[c]] : Granted(c, p)

\* mutex.go:24: a node in the critical section of a seat defers.
DefersWhileInCS ==
  \A c \in Call : pc[c] = "cs" => state[At[c]][On[c]] = "held"

\* mutex.go:77, app.js:327: the list of a seat names the nodes that wait.
DeferredNodesAreDistinct ==
  \A n \in Node, s \in Seat :
    Len(deferredReplies[n][s]) <= Cardinality(Node \ {n})
-----------------------------------------------------------------------------
(***************************************************************************)
(* The inductive invariant of the proofs.                                  *)
(***************************************************************************)

\* Calls that are active together at one place are crowded.
Crowding ==
  \A c, d \in Call :
    (c # d /\ SamePlace(c, d) /\ Active(c) /\ Active(d)) => c \in crowded

\* Nothing of a request exists before it is announced.
NotYetSent ==
  \A c \in Call :
    pc[c] \in {"start", "ticked"} =>
      /\ ~ waitCh[c]
      /\ \A p \in Node : goroutine[c][p] = "none" /\ handler[c][p] = "none"

\* A seat no call of the node is busy with is released.
IdleMeansReleased ==
  \A n \in Node, s \in Seat :
    (\A c \in Call : At[c] = n /\ On[c] = s => ~ Active(c))
      => state[n][s] = "released"

OnlyPeersAsked ==
  \A c \in Call, p \in Node : goroutine[c][p] # "none" => p \in Peers[At[c]]

Counted(c) == {p \in Node : goroutine[c][p] = "counted"}

\* The counters of a call that shares them with nobody, and its signal.
CountersMatch ==
  \A c \in Call \ crowded :
    pc[c] = "waiting" =>
      /\ repliesNeeded[At[c]][On[c]] = Cardinality(Peers[At[c]])
      /\ repliesReceived[At[c]][On[c]] = Cardinality(Counted(c))
      /\ waitCh[c] <=> (Peers[At[c]] # {} /\ Peers[At[c]] \subseteq Counted(c))

\* A node that has seen a request stamps its own later ones after it.
ClockCoversGrants ==
  \A c \in Call, p \in Node :
    (p \notin reborn /\ (handler[c][p] = "handling" \/ Granted(c, p)))
      => lamportTime[c] <= clock[p]

Inductive ==
  /\ TypeOK
  /\ Crowding
  /\ NotYetSent
  /\ IdleMeansReleased
  /\ OnlyPeersAsked
  /\ CountersMatch
  /\ ClockCoversGrants
  /\ StateMatchesCall
  /\ GrantsRespectPriority
  /\ EveryPeerAnsweredInCS
  /\ TimeOutOnlyWhenUnlinked
-----------------------------------------------------------------------------
(***************************************************************************)
(* The service implements the lock its callers use.                        *)
(***************************************************************************)
phase ==
  [c \in Call |-> CASE pc[c] = "start" -> "idle"
                    [] pc[c] \in {"ticked", "waiting"} -> "asking"
                    [] pc[c] = "cs" -> "inside"
                    [] OTHER -> "out"]

lost ==
  {pair \in Call \X Call :
     Excused(pair[1], pair[2]) \/ Excused(pair[2], pair[1])}

Lock == INSTANCE SeatLock WITH
          Conflict <- {pair \in Call \X Call :
                         pair[1] # pair[2] /\ Rivals(pair[1], pair[2])}

\* Every behaviour of the algorithm, seen from its callers, is one of the lock:
\* each call asks once, is let in alone unless the pair is excused, and leaves.
ImplementsLock == Lock!LockSpec
=============================================================================
