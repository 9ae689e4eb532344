------------------------ MODULE RicartAgrawala_proofs ------------------------
(***************************************************************************)
(* Theorems of RicartAgrawala, for every set of nodes, every configuration *)
(* of peers, every set of calls and every number of polls.                 *)
(***************************************************************************)
EXTENDS RicartAgrawala, FiniteSetTheorems, TLAPS

\* Each action keeps the type of every variable; the last lemma puts the
\* actions together.
LEMMA PlaceType == \A c \in Call : At[c] \in Node /\ On[c] \in Seat
  BY CallAssumption

LEMMA PeersFinite ==
  \A n \in Node : IsFiniteSet(Peers[n]) /\ Cardinality(Peers[n]) \in Nat
<1> TAKE n \in Node
<1>1. Peers[n] \subseteq Node
  BY PeersAssumption
<1> QED
  BY <1>1, NodeAssumption, FS_Subset, FS_CardinalityType

LEMMA CountReplyType ==
  ASSUME TypeOK, NEW c \in Call, NEW p \in Node, CountReply(c, p)
  PROVE  MutexTypeOK'
<1>1. repliesReceived' \in [Node -> [Seat -> Nat]]
  <2>1. repliesReceived \in [Node -> [Seat -> Nat]]
    BY DEF TypeOK, MutexTypeOK
  <2>2. repliesReceived' =
          [repliesReceived EXCEPT ![At[c]][On[c]] = @ + 1]
    BY DEF CountReply
  <2> QED
    BY PlaceType, <2>1, <2>2
<1>2. UNCHANGED <<state, requestTime, repliesNeeded, deferredReplies>>
  BY DEF CountReply
<1> QED
  BY <1>1, <1>2 DEF TypeOK, MutexTypeOK

LEMMA TypeOtherEvent ==
  ASSUME TypeOK, NEW n \in Node, OtherEvent(n)
  PROVE  TypeOK'
<1>1. NodeTypeOK'
  BY DEF OtherEvent, TypeOK, NodeTypeOK, Tick, HubState
<1>2. MutexTypeOK' /\ CallTypeOK' /\ RpcTypeOK' /\ HistoryTypeOK'
  BY DEF OtherEvent, TypeOK, MutexTypeOK, CallTypeOK, RpcTypeOK,
     HistoryTypeOK, mutexVars, callVars, rpcVars, history
<1> QED
  BY <1>1, <1>2 DEF TypeOK

LEMMA TypeRestart ==
  ASSUME TypeOK, NEW n \in Node, Restart(n)
  PROVE  TypeOK'
<1>1. NodeTypeOK'
  BY BoundAssumption DEF Restart, TypeOK, NodeTypeOK, Tick, ClockStart,
     HubState
<1>2. MutexTypeOK'
  BY BoundAssumption DEF Restart, TypeOK, MutexTypeOK, MutexState
<1>3. CallTypeOK'
  BY BoundAssumption DEF Restart, TypeOK, CallTypeOK, PC
<1>4. RpcTypeOK'
  BY BoundAssumption DEF Restart, TypeOK, RpcTypeOK, Goroutine, Handler
<1>5. HistoryTypeOK'
  BY BoundAssumption DEF Restart, TypeOK, HistoryTypeOK
<1> QED
  BY <1>1, <1>2, <1>3, <1>4, <1>5 DEF TypeOK

LEMMA TypeConnect ==
  ASSUME TypeOK, NEW n \in Node, NEW q \in Node, Connect(n, q)
  PROVE  TypeOK'
<1>1. NodeTypeOK'
  BY DEF Connect, TypeOK, NodeTypeOK, HubState
<1>2. MutexTypeOK' /\ CallTypeOK' /\ RpcTypeOK' /\ HistoryTypeOK'
  BY DEF Connect, TypeOK, MutexTypeOK, CallTypeOK, RpcTypeOK, HistoryTypeOK,
     mutexVars, callVars, rpcVars, history
<1> QED
  BY <1>1, <1>2 DEF TypeOK

LEMMA TypeBeginRequest ==
  ASSUME TypeOK, NEW c \in Call, BeginRequest(c)
  PROVE  TypeOK'
<1>1. NodeTypeOK'
  BY PlaceType DEF BeginRequest, TypeOK, NodeTypeOK, Tick, HubState
<1>2. CallTypeOK'
  BY PlaceType, <1>1 DEF BeginRequest, TypeOK, CallTypeOK, NodeTypeOK, PC
<1>3. HistoryTypeOK'
  BY PlaceType DEF BeginRequest, TypeOK, HistoryTypeOK
<1>4. MutexTypeOK' /\ RpcTypeOK'
  BY DEF BeginRequest, TypeOK, MutexTypeOK, RpcTypeOK, mutexVars, rpcVars
<1> QED
  BY <1>1, <1>2, <1>3, <1>4 DEF TypeOK

LEMMA TypeAnnounce ==
  ASSUME TypeOK, NEW c \in Call, Announce(c)
  PROVE  TypeOK'
<1>1. MutexTypeOK'
  BY PlaceType, PeersFinite DEF Announce, RepliesNeeded, TypeOK,
       MutexTypeOK, CallTypeOK,
     MutexState
<1>2. CallTypeOK'
  BY PlaceType DEF Announce, TypeOK, CallTypeOK, PC
<1>3. RpcTypeOK'
  BY PlaceType DEF Announce, TypeOK, RpcTypeOK, Goroutine, Handler
<1>4. NodeTypeOK' /\ HistoryTypeOK'
  BY DEF Announce, TypeOK, NodeTypeOK, HistoryTypeOK, nodeVars, history
<1> QED
  BY <1>1, <1>2, <1>3, <1>4 DEF TypeOK

LEMMA TypeEnterCS ==
  ASSUME TypeOK, NEW c \in Call, EnterCS(c)
  PROVE  TypeOK'
<1>1. NodeTypeOK'
  BY PlaceType DEF EnterCS, TypeOK, NodeTypeOK, HubState
<1>2. MutexTypeOK'
  BY PlaceType DEF EnterCS, TypeOK, MutexTypeOK, MutexState
<1>3. CallTypeOK'
  BY PlaceType DEF EnterCS, TypeOK, CallTypeOK, PC
<1>4. RpcTypeOK' /\ HistoryTypeOK'
  BY DEF EnterCS, TypeOK, RpcTypeOK, HistoryTypeOK, rpcVars, history
<1> QED
  BY <1>1, <1>2, <1>3, <1>4 DEF TypeOK

LEMMA TypeTimeOut ==
  ASSUME TypeOK, NEW c \in Call, TimeOut(c)
  PROVE  TypeOK'
<1>1. NodeTypeOK'
  BY PlaceType DEF TimeOut, TypeOK, NodeTypeOK, HubState
<1>2. MutexTypeOK'
  BY PlaceType DEF TimeOut, TypeOK, MutexTypeOK, MutexState
<1>3. CallTypeOK'
  BY PlaceType DEF TimeOut, TypeOK, CallTypeOK, PC
<1>4. RpcTypeOK' /\ HistoryTypeOK'
  BY DEF TimeOut, TypeOK, RpcTypeOK, HistoryTypeOK, rpcVars, history
<1> QED
  BY <1>1, <1>2, <1>3, <1>4 DEF TypeOK

LEMMA TypeReleaseCriticalSection ==
  ASSUME TypeOK, NEW c \in Call, ReleaseCriticalSection(c)
  PROVE  TypeOK'
<1>1. NodeTypeOK'
  BY PlaceType DEF ReleaseCriticalSection, TypeOK, NodeTypeOK, HubState
<1>2. MutexTypeOK'
  BY PlaceType DEF ReleaseCriticalSection, EntriesLeft, TypeOK,
       MutexTypeOK, MutexState
<1>3. CallTypeOK'
  BY PlaceType DEF ReleaseCriticalSection, TypeOK, CallTypeOK, PC
<1>4. RpcTypeOK' /\ HistoryTypeOK'
  BY DEF ReleaseCriticalSection, TypeOK, RpcTypeOK, HistoryTypeOK, rpcVars,
     history
<1> QED
  BY <1>1, <1>2, <1>3, <1>4 DEF TypeOK

LEMMA TypeReceiveRequest ==
  ASSUME TypeOK, NEW c \in Call, NEW p \in Node, ReceiveRequest(c, p)
  PROVE  TypeOK'
<1>1. NodeTypeOK'
  BY PlaceType DEF ReceiveRequest, TypeOK, NodeTypeOK, CallTypeOK, Update,
     HubState
<1>2. RpcTypeOK'
  BY PlaceType DEF ReceiveRequest, TypeOK, RpcTypeOK, Goroutine, Handler
<1>3. MutexTypeOK' /\ CallTypeOK' /\ HistoryTypeOK'
  BY DEF ReceiveRequest, TypeOK, MutexTypeOK, CallTypeOK, HistoryTypeOK,
     mutexVars, callVars, history
<1> QED
  BY <1>1, <1>2, <1>3 DEF TypeOK

LEMMA TypeGrantRequest ==
  ASSUME TypeOK, NEW c \in Call, NEW p \in Node, GrantRequest(c, p)
  PROVE  TypeOK'
<1>1. RpcTypeOK'
  BY PlaceType DEF GrantRequest, TypeOK, RpcTypeOK, Answer, Goroutine, Handler
<1>2. HistoryTypeOK'
  BY PlaceType DEF GrantRequest, TypeOK, HistoryTypeOK, Unannounced
<1>3. NodeTypeOK' /\ MutexTypeOK' /\ CallTypeOK'
  BY DEF GrantRequest, TypeOK, NodeTypeOK, MutexTypeOK, CallTypeOK, nodeVars,
     mutexVars, callVars
<1> QED
  BY <1>1, <1>2, <1>3 DEF TypeOK

LEMMA TypeDeferRequest ==
  ASSUME TypeOK, NEW c \in Call, NEW p \in Node, DeferRequest(c, p)
  PROVE  TypeOK'
<1>1. MutexTypeOK'
  BY PlaceType DEF DeferRequest, TypeOK, MutexTypeOK, MutexState
<1>2. RpcTypeOK'
  BY PlaceType DEF DeferRequest, TypeOK, RpcTypeOK, Answer, Goroutine, Handler
<1>3. NodeTypeOK' /\ CallTypeOK' /\ HistoryTypeOK'
  BY DEF DeferRequest, TypeOK, NodeTypeOK, CallTypeOK, HistoryTypeOK,
     nodeVars, callVars, history
<1> QED
  BY <1>1, <1>2, <1>3 DEF TypeOK

LEMMA TypeSendRequest ==
  ASSUME TypeOK, NEW c \in Call, NEW p \in Node, SendRequest(c, p)
  PROVE  TypeOK'
<1>1. NodeTypeOK'
  BY PlaceType DEF SendRequest, TypeOK, NodeTypeOK, Tick, HubState
<1>2. RpcTypeOK'
  BY PlaceType DEF SendRequest, TypeOK, RpcTypeOK, Goroutine, Handler
<1>3. MutexTypeOK' /\ CallTypeOK' /\ HistoryTypeOK'
  BY DEF SendRequest, TypeOK, MutexTypeOK, CallTypeOK, HistoryTypeOK,
     mutexVars, callVars, history
<1> QED
  BY <1>1, <1>2, <1>3 DEF TypeOK

LEMMA TypeCountGrant ==
  ASSUME TypeOK, NEW c \in Call, NEW p \in Node, CountGrant(c, p)
  PROVE  TypeOK'
<1>1. MutexTypeOK'
  BY CountReplyType DEF CountGrant
<1>2. CallTypeOK'
  BY PlaceType DEF CountGrant, TypeOK, CallTypeOK, CountReply, PC
<1>3. RpcTypeOK'
  BY PlaceType DEF CountGrant, TypeOK, RpcTypeOK, CountReply, Goroutine,
     Handler
<1>4. NodeTypeOK' /\ HistoryTypeOK'
  BY DEF CountGrant, CountReply, TypeOK, NodeTypeOK, HistoryTypeOK, nodeVars,
     history
<1> QED
  BY <1>1, <1>2, <1>3, <1>4 DEF TypeOK

LEMMA TypeCountFailure ==
  ASSUME TypeOK, NEW c \in Call, NEW p \in Node, CountFailure(c, p)
  PROVE  TypeOK'
<1>1. MutexTypeOK'
  BY CountReplyType DEF CountFailure
<1>2. CallTypeOK'
  BY PlaceType DEF CountFailure, TypeOK, CallTypeOK, CountReply, PC
<1>3. RpcTypeOK'
  BY PlaceType DEF CountFailure, TypeOK, RpcTypeOK, CountReply, Goroutine,
     Handler
<1>4. HistoryTypeOK'
  BY PlaceType DEF CountFailure, TypeOK, HistoryTypeOK
<1>5. NodeTypeOK'
  BY DEF CountFailure, CountReply, TypeOK, NodeTypeOK, nodeVars
<1> QED
  BY <1>1, <1>2, <1>3, <1>4, <1>5 DEF TypeOK

LEMMA TypePoll ==
  ASSUME TypeOK, NEW c \in Call, NEW p \in Node, Poll(c, p)
  PROVE  TypeOK'
<1>1. RpcTypeOK'
  BY PlaceType, BoundAssumption DEF Poll, PollsLeft, TypeOK,
       RpcTypeOK, Goroutine,
     Handler
<1>2. NodeTypeOK' /\ MutexTypeOK' /\ CallTypeOK' /\ HistoryTypeOK'
  BY DEF Poll, TypeOK, NodeTypeOK, MutexTypeOK, CallTypeOK, HistoryTypeOK,
     nodeVars, mutexVars, callVars, history
<1> QED
  BY <1>1, <1>2 DEF TypeOK

LEMMA TypeGiveUpPolling ==
  ASSUME TypeOK, NEW c \in Call, NEW p \in Node, GiveUpPolling(c, p)
  PROVE  TypeOK'
<1>1. MutexTypeOK'
  BY CountReplyType DEF GiveUpPolling
<1>2. CallTypeOK'
  BY PlaceType DEF GiveUpPolling, TypeOK, CallTypeOK, CountReply, PC
<1>3. RpcTypeOK'
  BY PlaceType DEF GiveUpPolling, TypeOK, RpcTypeOK, CountReply, Goroutine,
     Handler
<1>4. HistoryTypeOK'
  BY PlaceType DEF GiveUpPolling, TypeOK, HistoryTypeOK
<1>5. NodeTypeOK'
  BY DEF GiveUpPolling, CountReply, TypeOK, NodeTypeOK, nodeVars
<1> QED
  BY <1>1, <1>2, <1>3, <1>4, <1>5 DEF TypeOK

LEMMA TypeStep == TypeOK /\ [Next]_vars => TypeOK'
<1> SUFFICES ASSUME TypeOK, [Next]_vars PROVE TypeOK'
  OBVIOUS
<1>1. CASE UNCHANGED vars
  BY <1>1 DEF vars, nodeVars, mutexVars, callVars, rpcVars, history,
     TypeOK, NodeTypeOK, MutexTypeOK, CallTypeOK, RpcTypeOK, HistoryTypeOK
<1>2. CASE Next
  BY <1>2, TypeOtherEvent, TypeRestart, TypeConnect, TypeBeginRequest,
     TypeAnnounce, TypeEnterCS, TypeTimeOut, TypeReleaseCriticalSection,
     TypeReceiveRequest, TypeGrantRequest, TypeDeferRequest, TypeSendRequest,
     TypeCountGrant, TypeCountFailure, TypePoll, TypeGiveUpPolling DEF Next,
     NodeStep, CallStep, HandlerStep, GoroutineStep
<1> QED
  BY <1>1, <1>2

LEMMA TypeInit == Init => TypeOK
  BY NodeAssumption, PeersAssumption, LinkedAssumption, BoundAssumption
     DEF Init, TypeOK, NodeTypeOK, MutexTypeOK, CallTypeOK, RpcTypeOK,
         HistoryTypeOK, HubState, MutexState, PC, Goroutine, Handler, Tick,
         ClockStart

\* The maps, counters and positions of the program keep their types, and a node
\* never has a stub for a node that is not in its configuration.
THEOREM TypeCorrect == Spec => []TypeOK
  BY TypeInit, TypeStep, PTL DEF Spec

(***************************************************************************)
(* The inductive invariant, one lemma per conjunct.  The steps of handlers *)
(* and of goroutines leave the variables below alone, so that three of the *)
(* conjuncts are a matter of the calls' own steps and of restarts.         *)
(***************************************************************************)
quiet == <<pc, lamportTime, state, requestTime, repliesNeeded, crowded, reborn>>

LEMMA QuietStep ==
  [Next]_vars =>
    \/ UNCHANGED quiet
    \/ \E n \in Node : Restart(n)
    \/ \E c \in Call : CallStep(c)
<1> SUFFICES ASSUME [Next]_vars,
                    ~ \E n \in Node : Restart(n),
                    ~ \E c \in Call : CallStep(c)
             PROVE  UNCHANGED quiet
  OBVIOUS
<1> USE DEF quiet, mutexVars, callVars, history
<1>1. CASE UNCHANGED vars
  BY <1>1 DEF vars
<1>2. ASSUME NEW n \in Node, OtherEvent(n) PROVE UNCHANGED quiet
  BY <1>2 DEF OtherEvent
<1>3. ASSUME NEW n \in Node, NEW p \in Node, Connect(n, p)
      PROVE  UNCHANGED quiet
  BY <1>3 DEF Connect
<1>4. ASSUME NEW c \in Call, NEW p \in Node, HandlerStep(c, p)
      PROVE  UNCHANGED quiet
  BY <1>4 DEF HandlerStep, ReceiveRequest, GrantRequest, DeferRequest
<1>5. ASSUME NEW c \in Call, NEW p \in Node, GoroutineStep(c, p)
      PROVE  UNCHANGED quiet
  BY <1>5 DEF GoroutineStep, SendRequest, CountGrant, CountFailure, Poll,
     GiveUpPolling, CountReply
<1> QED
  BY <1>1, <1>2, <1>3, <1>4, <1>5 DEF Next, NodeStep

\* A call becomes active in BeginRequest only, and a crowded call stays so.
LEMMA ActiveStep ==
  ASSUME TypeOK, [Next]_vars, NEW c \in Call, Active(c)', ~ Active(c)
  PROVE  BeginRequest(c)
<1>0. pc \in [Call -> PC]
  BY DEF TypeOK, CallTypeOK
<1> USE DEF Active
<1>1. ASSUME UNCHANGED quiet PROVE FALSE
  BY <1>1 DEF quiet
<1>2. ASSUME NEW n \in Node, Restart(n) PROVE FALSE
  BY <1>0, <1>2 DEF Restart
<1>3. ASSUME NEW d \in Call, CallStep(d) PROVE BeginRequest(c)
  <2>1. CASE BeginRequest(d)
    BY <1>0, <2>1 DEF BeginRequest
  <2>2. CASE Announce(d) \/ EnterCS(d) \/ TimeOut(d)
             \/ ReleaseCriticalSection(d)
    BY <1>0, <2>2 DEF Announce, EnterCS, TimeOut, ReleaseCriticalSection
  <2> QED
    BY <1>3, <2>1, <2>2 DEF CallStep
<1> QED
  BY <1>1, <1>2, <1>3, QuietStep

LEMMA CrowdedGrows == TypeOK /\ [Next]_vars => crowded \subseteq crowded'
<1> SUFFICES ASSUME TypeOK, [Next]_vars PROVE crowded \subseteq crowded'
  OBVIOUS
<1>1. ASSUME NEW n \in Node, Restart(n) PROVE crowded \subseteq crowded'
  BY <1>1 DEF Restart
<1>2. ASSUME NEW c \in Call, CallStep(c) PROVE crowded \subseteq crowded'
  BY <1>2 DEF CallStep, BeginRequest, Announce, EnterCS, TimeOut,
     ReleaseCriticalSection, history
<1> QED
  BY <1>1, <1>2, QuietStep DEF quiet

LEMMA CrowdingStep == TypeOK /\ Crowding /\ [Next]_vars => Crowding'
<1> SUFFICES ASSUME TypeOK, Crowding, [Next]_vars,
                    NEW c \in Call, NEW d \in Call, c # d, SamePlace(c, d),
                    Active(c)', Active(d)'
             PROVE  c \in crowded'
  BY DEF Crowding, SamePlace
<1>0. pc \in [Call -> PC]
  BY DEF TypeOK, CallTypeOK
<1>1. CASE Active(c) /\ Active(d)
  BY <1>1, CrowdedGrows DEF Crowding
<1>2. CASE ~ Active(c)
  <2>1. BeginRequest(c)
    BY <1>2, ActiveStep
  <2>2. Active(d)
    BY <1>0, <2>1 DEF BeginRequest, Active
  <2> QED
    BY <2>1, <2>2 DEF BeginRequest, SamePlace
<1>3. CASE ~ Active(d)
  <2>1. BeginRequest(d)
    BY <1>3, ActiveStep
  <2>2. Active(c)
    BY <1>0, <2>1 DEF BeginRequest, Active
  <2> QED
    BY <2>1, <2>2 DEF BeginRequest, SamePlace
<1> QED
  BY <1>1, <1>2, <1>3

LEMMA IdleStep ==
  TypeOK /\ IdleMeansReleased /\ [Next]_vars => IdleMeansReleased'
<1> SUFFICES ASSUME TypeOK, IdleMeansReleased, [Next]_vars,
                    NEW n \in Node, NEW s \in Seat,
                    \A c \in Call : At[c] = n /\ On[c] = s => ~ Active(c)'
             PROVE  state'[n][s] = "released"
  BY DEF IdleMeansReleased
<1>0. pc \in [Call -> PC] /\ state \in [Node -> [Seat -> MutexState]]
  BY DEF TypeOK, CallTypeOK, MutexTypeOK
<1>1. CASE UNCHANGED quiet
  BY <1>1 DEF quiet, IdleMeansReleased, Active
<1>2. ASSUME NEW m \in Node, Restart(m) PROVE state'[n][s] = "released"
  <2>1. CASE m = n
    BY <1>0, <1>2, <2>1 DEF Restart
  <2>2. CASE m # n
    BY <1>0, <1>2, <2>2 DEF Restart, IdleMeansReleased, Active
  <2> QED
    BY <2>1, <2>2
<1>3. ASSUME NEW c \in Call, CallStep(c) PROVE state'[n][s] = "released"
  <2>0. At[c] \in Node /\ On[c] \in Seat
    BY PlaceType
  <2>1. CASE BeginRequest(c)
    BY <1>0, <2>0, <2>1 DEF BeginRequest, IdleMeansReleased, Active, mutexVars
  <2>2. CASE Announce(c)
    BY <1>0, <2>0, <2>2 DEF Announce, IdleMeansReleased, Active
  <2>3. CASE EnterCS(c)
    BY <1>0, <2>0, <2>3 DEF EnterCS, IdleMeansReleased, Active
  <2>4. CASE TimeOut(c)
    BY <1>0, <2>0, <2>4 DEF TimeOut, IdleMeansReleased, Active
  <2>5. CASE ReleaseCriticalSection(c)
    BY <1>0, <2>0, <2>5 DEF ReleaseCriticalSection, IdleMeansReleased, Active
  <2> QED
    BY <1>3, <2>1, <2>2, <2>3, <2>4, <2>5 DEF CallStep
<1> QED
  BY <1>1, <1>2, <1>3, QuietStep

\* A step of another call at c's place means that c is crowded.
LEMMA AloneAtPlace ==
  ASSUME Crowding, NEW c \in Call, c \notin crowded, Active(c),
         NEW d \in Call, d # c, Active(d)
  PROVE  ~ SamePlace(c, d)
  BY DEF Crowding

LEMMA StateMatchesStep ==
  TypeOK /\ Crowding /\ IdleMeansReleased /\ StateMatchesCall /\ [Next]_vars
    => StateMatchesCall'
<1> SUFFICES ASSUME TypeOK, Crowding, IdleMeansReleased, StateMatchesCall,
                    [Next]_vars,
                    NEW c \in Call, c \notin crowded'
             PROVE
               /\ pc'[c] = "ticked" => state'[At[c]][On[c]] = "released"
               /\ pc'[c] = "waiting" =>
                    /\ state'[At[c]][On[c]] = "wanting"
                    /\ requestTime'[At[c]][On[c]] = lamportTime'[c]
               /\ pc'[c] = "cs" => state'[At[c]][On[c]] = "held"
  BY DEF StateMatchesCall
<1>0. /\ pc \in [Call -> PC] /\ lamportTime \in [Call -> Nat]
      /\ state \in [Node -> [Seat -> MutexState]]
      /\ requestTime \in [Node -> [Seat -> Nat]]
  BY DEF TypeOK, CallTypeOK, MutexTypeOK
<1>a. c \notin crowded
  BY CrowdedGrows
<1>b. /\ pc[c] = "ticked" => state[At[c]][On[c]] = "released"
      /\ pc[c] = "waiting" =>
           /\ state[At[c]][On[c]] = "wanting"
           /\ requestTime[At[c]][On[c]] = lamportTime[c]
      /\ pc[c] = "cs" => state[At[c]][On[c]] = "held"
  BY <1>a DEF StateMatchesCall
<1>1. CASE UNCHANGED quiet
  BY <1>1, <1>b DEF quiet
<1>2. ASSUME NEW n \in Node, Restart(n)
      PROVE  \/ pc'[c] \notin {"ticked", "waiting", "cs"}
             \/ /\ pc'[c] = pc[c] /\ lamportTime'[c] = lamportTime[c]
                /\ state'[At[c]] = state[At[c]]
                /\ requestTime'[At[c]] = requestTime[At[c]]
  BY <1>0, <1>2, PlaceType DEF Restart, Active
<1>3. ASSUME NEW d \in Call, CallStep(d), d # c, Active(c), ~ SamePlace(c, d)
      PROVE  /\ pc'[c] = pc[c] /\ lamportTime'[c] = lamportTime[c]
             /\ state'[At[c]][On[c]] = state[At[c]][On[c]]
             /\ requestTime'[At[c]][On[c]] = requestTime[At[c]][On[c]]
  <2>0. At[c] \in Node /\ On[c] \in Seat /\ At[d] \in Node /\ On[d] \in Seat
    BY PlaceType
  <2>1. CASE BeginRequest(d)
    BY <1>0, <1>3, <2>0, <2>1 DEF BeginRequest, mutexVars
  <2>2. CASE Announce(d)
    BY <1>0, <1>3, <2>0, <2>2 DEF Announce, SamePlace
  <2>3. CASE EnterCS(d)
    BY <1>0, <1>3, <2>0, <2>3 DEF EnterCS, SamePlace
  <2>4. CASE TimeOut(d)
    BY <1>0, <1>3, <2>0, <2>4 DEF TimeOut, SamePlace
  <2>5. CASE ReleaseCriticalSection(d)
    BY <1>0, <1>3, <2>0, <2>5 DEF ReleaseCriticalSection, SamePlace
  <2> QED
    BY <1>3, <2>1, <2>2, <2>3, <2>4, <2>5 DEF CallStep
<1>4. ASSUME NEW d \in Call, CallStep(d), d # c, SamePlace(c, d), Active(c)
      PROVE  FALSE
  <2>1. CASE BeginRequest(d)
    BY <1>0, <1>4, <2>1 DEF BeginRequest, SamePlace
  <2>2. CASE ~ BeginRequest(d)
    <3>1. Active(d)
      BY <1>4, <2>2 DEF CallStep, Announce, EnterCS, TimeOut,
         ReleaseCriticalSection, Active
    <3> QED
      BY <1>4, <1>a, <3>1, AloneAtPlace
  <2> QED
    BY <2>1, <2>2
<1>5. CASE CallStep(c)
  <2>0. At[c] \in Node /\ On[c] \in Seat
    BY PlaceType
  <2>1. CASE BeginRequest(c)
    <3>1. \A d \in Call : SamePlace(c, d) => ~ Active(d)
      BY <2>1 DEF BeginRequest
    <3>2. state[At[c]][On[c]] = "released"
      BY <2>0, <3>1 DEF IdleMeansReleased, SamePlace
    <3> QED
      BY <1>0, <2>1, <3>2 DEF BeginRequest, mutexVars
  <2>2. CASE Announce(c)
    BY <1>0, <2>0, <2>2 DEF Announce
  <2>3. CASE EnterCS(c)
    BY <1>0, <2>0, <2>3 DEF EnterCS
  <2>4. CASE TimeOut(c)
    BY <1>0, <2>4 DEF TimeOut
  <2>5. CASE ReleaseCriticalSection(c)
    BY <1>0, <2>5 DEF ReleaseCriticalSection
  <2> QED
    BY <1>5, <2>1, <2>2, <2>3, <2>4, <2>5 DEF CallStep
<1>6. CASE ~ Active(c)
  <2>1. CASE BeginRequest(c)
    BY <1>5, <2>1 DEF CallStep
  <2>2. CASE ~ BeginRequest(c)
    BY <2>2, <1>6, ActiveStep DEF Active
  <2> QED
    BY <2>1, <2>2
<1> QED
  BY <1>1, <1>2, <1>3, <1>4, <1>5, <1>6, <1>b, QuietStep

LEMMA NotYetSentStep == TypeOK /\ NotYetSent /\ [Next]_vars => NotYetSent'
<1> SUFFICES ASSUME TypeOK, NotYetSent, [Next]_vars,
                    NEW c \in Call, pc'[c] \in {"start", "ticked"}
             PROVE  /\ ~ waitCh'[c]
                    /\ \A p \in Node : /\ goroutine'[c][p] = "none"
                                       /\ handler'[c][p] = "none"
  BY DEF NotYetSent
<1>0. /\ pc \in [Call -> PC] /\ waitCh \in [Call -> BOOLEAN]
      /\ goroutine \in [Call -> [Node -> Goroutine]]
      /\ handler \in [Call -> [Node -> Handler]]
  BY DEF TypeOK, CallTypeOK, RpcTypeOK
<1>1. pc[c] \in {"start", "ticked"}
  <2>1. ASSUME NEW n \in Node, Restart(n) PROVE pc[c] \in {"start", "ticked"}
    BY <1>0, <2>1 DEF Restart
  <2>2. ASSUME NEW d \in Call, CallStep(d) PROVE pc[c] \in {"start", "ticked"}
    BY <1>0, <2>2 DEF CallStep, BeginRequest, Announce, EnterCS, TimeOut,
       ReleaseCriticalSection
  <2> QED
    BY <2>1, <2>2, QuietStep DEF quiet
<1>2. /\ ~ waitCh[c]
      /\ \A p \in Node : goroutine[c][p] = "none" /\ handler[c][p] = "none"
  BY <1>1 DEF NotYetSent
<1>3. ASSUME NEW n \in Node, NodeStep(n)
      PROVE  /\ UNCHANGED <<waitCh, goroutine>>
             /\ \A p \in Node : handler'[c][p] = "none"
  BY <1>0, <1>2, <1>3 DEF NodeStep, OtherEvent, Restart, Connect, callVars,
     rpcVars
<1>4. ASSUME NEW d \in Call, CallStep(d)
      PROVE  UNCHANGED <<waitCh[c], goroutine[c], handler[c]>>
  <2>1. CASE BeginRequest(d)
    BY <2>1 DEF BeginRequest, rpcVars
  <2>2. CASE Announce(d)
    BY <1>0, <2>2 DEF Announce
  <2>3. CASE EnterCS(d)
    BY <1>0, <1>1, <2>3 DEF EnterCS, rpcVars
  <2>4. CASE TimeOut(d)
    BY <2>4 DEF TimeOut, rpcVars
  <2>5. CASE ReleaseCriticalSection(d)
    BY <2>5 DEF ReleaseCriticalSection, rpcVars
  <2> QED
    BY <1>4, <2>1, <2>2, <2>3, <2>4, <2>5 DEF CallStep
<1>5. ASSUME NEW d \in Call, NEW p \in Node, HandlerStep(d, p)
      PROVE  UNCHANGED <<waitCh[c], goroutine[c], handler[c]>>
  BY <1>0, <1>2, <1>5 DEF HandlerStep, ReceiveRequest, GrantRequest,
     DeferRequest, Answer, callVars
<1>6. ASSUME NEW d \in Call, NEW p \in Node, GoroutineStep(d, p)
      PROVE  UNCHANGED <<waitCh[c], goroutine[c], handler[c]>>
  BY <1>0, <1>1, <1>6 DEF GoroutineStep, SendRequest, CountGrant,
     CountFailure, Poll, GiveUpPolling, CountReply, callVars
<1>7. CASE UNCHANGED vars
  BY <1>2, <1>7 DEF vars, callVars, rpcVars
<1> QED
  BY <1>2, <1>3, <1>4, <1>5, <1>6, <1>7 DEF Next

LEMMA OnlyPeersStep ==
  TypeOK /\ OnlyPeersAsked /\ [Next]_vars => OnlyPeersAsked'
<1> SUFFICES ASSUME TypeOK, OnlyPeersAsked, [Next]_vars,
                    NEW c \in Call, NEW p \in Node,
                    goroutine[c][p] = "none", goroutine'[c][p] # "none"
             PROVE  p \in Peers[At[c]]
  BY DEF OnlyPeersAsked
<1>0. goroutine \in [Call -> [Node -> Goroutine]]
  BY DEF TypeOK, RpcTypeOK
<1>1. ASSUME NEW n \in Node, NodeStep(n) PROVE UNCHANGED goroutine
  BY <1>1 DEF NodeStep, OtherEvent, Restart, Connect, rpcVars
<1>2. ASSUME NEW d \in Call, CallStep(d) PROVE p \in Peers[At[c]]
  <2>1. CASE Announce(d)
    BY <1>0, <2>1, PlaceType DEF Announce, TypeOK, NodeTypeOK
  <2>2. CASE ~ Announce(d)
    BY <1>2, <2>2 DEF CallStep, BeginRequest, EnterCS, TimeOut,
       ReleaseCriticalSection, rpcVars
  <2> QED
    BY <2>1, <2>2
<1>3. ASSUME NEW d \in Call, NEW q \in Node, HandlerStep(d, q)
      PROVE  UNCHANGED goroutine[c][p]
  BY <1>0, <1>3 DEF HandlerStep, ReceiveRequest, GrantRequest, DeferRequest,
     Answer
<1>4. ASSUME NEW d \in Call, NEW q \in Node, GoroutineStep(d, q)
      PROVE  UNCHANGED goroutine[c][p]
  BY <1>0, <1>4 DEF GoroutineStep, SendRequest, CountGrant, CountFailure,
     Poll, GiveUpPolling, CountReply
<1>5. CASE UNCHANGED vars
  BY <1>5 DEF vars, rpcVars
<1> QED
  BY <1>1, <1>2, <1>3, <1>4, <1>5 DEF Next

\* A goroutine that has counted is over.
LEMMA CountedStays ==
  ASSUME TypeOK, NotYetSent, [Next]_vars,
         NEW c \in Call, NEW p \in Node, goroutine[c][p] = "counted"
  PROVE  goroutine'[c][p] = "counted"
<1>0. goroutine \in [Call -> [Node -> Goroutine]]
  BY DEF TypeOK, RpcTypeOK
<1>1. ASSUME NEW n \in Node, NodeStep(n) PROVE UNCHANGED goroutine
  BY <1>1 DEF NodeStep, OtherEvent, Restart, Connect, rpcVars
<1>2. ASSUME NEW d \in Call, CallStep(d) PROVE UNCHANGED goroutine[c][p]
  <2>1. CASE Announce(d)
    BY <1>0, <2>1 DEF Announce, NotYetSent
  <2>2. CASE ~ Announce(d)
    BY <1>2, <2>2 DEF CallStep, BeginRequest, EnterCS, TimeOut,
       ReleaseCriticalSection, rpcVars
  <2> QED
    BY <2>1, <2>2
<1>3. ASSUME NEW d \in Call, NEW q \in Node, HandlerStep(d, q)
      PROVE  UNCHANGED goroutine[c][p]
  BY <1>0, <1>3 DEF HandlerStep, ReceiveRequest, GrantRequest, DeferRequest,
     Answer
<1>4. ASSUME NEW d \in Call, NEW q \in Node, GoroutineStep(d, q)
      PROVE  UNCHANGED goroutine[c][p]
  BY <1>0, <1>4 DEF GoroutineStep, SendRequest, CountGrant, CountFailure,
     Poll, GiveUpPolling, CountReply
<1>5. CASE UNCHANGED vars
  BY <1>5 DEF vars, rpcVars
<1> QED
  BY <1>1, <1>2, <1>3, <1>4, <1>5 DEF Next

\* A call gets inside by EnterCS and fails by TimeOut, and by nothing else.
LEMMA EndsBy ==
  ASSUME TypeOK, [Next]_vars, NEW c \in Call
  PROVE  /\ pc'[c] = "cs" /\ pc[c] # "cs" => EnterCS(c)
         /\ pc'[c] = "failed" /\ pc[c] # "failed" => TimeOut(c)
<1>0. pc \in [Call -> PC]
  BY DEF TypeOK, CallTypeOK
<1>1. ASSUME NEW n \in Node, Restart(n)
      PROVE  pc'[c] \in {pc[c], "crashed"}
  BY <1>0, <1>1 DEF Restart
<1>2. ASSUME NEW d \in Call, CallStep(d)
      PROVE  \/ pc'[c] \in {pc[c], "ticked", "waiting", "done"}
             \/ EnterCS(c) /\ pc'[c] = "cs"
             \/ TimeOut(c) /\ pc'[c] = "failed"
  <2>1. CASE BeginRequest(d) \/ Announce(d) \/ ReleaseCriticalSection(d)
    BY <1>0, <2>1 DEF BeginRequest, Announce, ReleaseCriticalSection
  <2>2. CASE EnterCS(d)
    BY <1>0, <2>2 DEF EnterCS
  <2>3. CASE TimeOut(d)
    BY <1>0, <2>3 DEF TimeOut
  <2> QED
    BY <1>2, <2>1, <2>2, <2>3 DEF CallStep
<1> QED
  BY <1>1, <1>2, QuietStep DEF quiet

LEMMA EveryPeerAnsweredStep ==
  TypeOK /\ NotYetSent /\ CountersMatch /\ EveryPeerAnsweredInCS
    /\ [Next]_vars => EveryPeerAnsweredInCS'
<1> SUFFICES ASSUME TypeOK, NotYetSent, CountersMatch, EveryPeerAnsweredInCS,
                    [Next]_vars,
                    NEW c \in Call, c \notin crowded', pc'[c] = "cs",
                    NEW p \in Peers[At[c]]
             PROVE  goroutine'[c][p] = "counted"
  BY DEF EveryPeerAnsweredInCS
<1>0. c \notin crowded /\ p \in Node
  BY CrowdedGrows, PlaceType, PeersAssumption
<1>1. CASE pc[c] = "cs"
  BY <1>0, <1>1, CountedStays DEF EveryPeerAnsweredInCS
<1>2. CASE pc[c] # "cs"
  <2>1. EnterCS(c)
    BY <1>2, EndsBy
  <2>2. Peers[At[c]] \subseteq Counted(c)
    BY <1>0, <2>1 DEF EnterCS, NoPeers, CountersMatch
  <2> QED
    BY <1>0, <2>2, CountedStays DEF Counted
<1> QED
  BY <1>1, <1>2

LEMMA TimeOutStep ==
  TypeOK /\ CountersMatch /\ TimeOutOnlyWhenUnlinked /\ [Next]_vars
    => TimeOutOnlyWhenUnlinked'
<1> SUFFICES ASSUME TypeOK, CountersMatch, TimeOutOnlyWhenUnlinked,
                    [Next]_vars,
                    NEW c \in Call, c \notin crowded', pc'[c] = "failed"
             PROVE  \E p \in Peers[At[c]] : goroutine'[c][p] = "none"
  BY DEF TimeOutOnlyWhenUnlinked
<1>0. /\ goroutine \in [Call -> [Node -> Goroutine]]
      /\ c \notin crowded
      /\ Peers[At[c]] \subseteq Node
  BY CrowdedGrows, PlaceType, PeersAssumption DEF TypeOK, RpcTypeOK
<1>1. CASE pc[c] = "failed"
  <2>1. PICK p \in Peers[At[c]] : goroutine[c][p] = "none"
    BY <1>0, <1>1 DEF TimeOutOnlyWhenUnlinked
  <2>2. ASSUME NEW n \in Node, NodeStep(n) PROVE UNCHANGED goroutine
    BY <2>2 DEF NodeStep, OtherEvent, Restart, Connect, rpcVars
  <2>3. ASSUME NEW d \in Call, CallStep(d) PROVE UNCHANGED goroutine[c][p]
    BY <1>0, <1>1, <2>3 DEF CallStep, BeginRequest, Announce, EnterCS,
       TimeOut, ReleaseCriticalSection, rpcVars
  <2>4. ASSUME NEW d \in Call, NEW q \in Node, HandlerStep(d, q)
        PROVE  UNCHANGED goroutine[c][p]
    BY <1>0, <2>1, <2>4 DEF HandlerStep, ReceiveRequest, GrantRequest,
       DeferRequest, Answer
  <2>5. ASSUME NEW d \in Call, NEW q \in Node, GoroutineStep(d, q)
        PROVE  UNCHANGED goroutine[c][p]
    BY <1>0, <2>1, <2>5 DEF GoroutineStep, SendRequest, CountGrant,
       CountFailure, Poll, GiveUpPolling, CountReply
  <2>6. CASE UNCHANGED vars
    BY <2>1, <2>6 DEF vars, rpcVars
  <2> QED
    BY <2>1, <2>2, <2>3, <2>4, <2>5, <2>6 DEF Next
<1>2. CASE pc[c] # "failed"
  <2>1. TimeOut(c)
    BY <1>2, EndsBy
  <2>2. ~ (Peers[At[c]] \subseteq Counted(c))
    BY <1>0, <2>1 DEF TimeOut, NoPeers, CountersMatch
  <2>3. UNCHANGED goroutine
    BY <2>1 DEF TimeOut, rpcVars
  <2> QED
    BY <1>0, <2>1, <2>2, <2>3 DEF TimeOut, AllReturned, Counted
<1> QED
  BY <1>1, <1>2

\* Counting the reply of one more peer, in the counters of a call that shares
\* them with nobody.
LEMMA CountReplyMatches ==
  ASSUME TypeOK, OnlyPeersAsked, CountersMatch,
         NEW c \in Call, NEW p \in Node, c \notin crowded, pc[c] = "waiting",
         goroutine[c][p] \notin {"none", "counted"}, CountReply(c, p)
  PROVE  /\ repliesNeeded'[At[c]][On[c]] = Cardinality(Peers[At[c]])
         /\ repliesReceived'[At[c]][On[c]] = Cardinality(Counted(c)')
         /\ waitCh'[c] <=> (/\ Peers[At[c]] # {}
                            /\ Peers[At[c]] \subseteq Counted(c)')
<1> DEFINE peers == Peers[At[c]]
           received == repliesReceived[At[c]][On[c]]
<1>0. /\ goroutine \in [Call -> [Node -> Goroutine]]
      /\ waitCh \in [Call -> BOOLEAN]
      /\ repliesReceived \in [Node -> [Seat -> Nat]]
      /\ At[c] \in Node /\ On[c] \in Seat
  BY PlaceType DEF TypeOK, RpcTypeOK, CallTypeOK, MutexTypeOK
<1>1. /\ repliesNeeded[At[c]][On[c]] = Cardinality(peers)
      /\ received = Cardinality(Counted(c))
      /\ waitCh[c] <=> (peers # {} /\ peers \subseteq Counted(c))
  BY DEF CountersMatch
<1>2. IsFiniteSet(peers) /\ Cardinality(peers) \in Nat
  BY <1>0, PeersFinite
<1>3. p \in peers /\ p \notin Counted(c) /\ Counted(c) \subseteq peers
  BY <1>0 DEF Counted, OnlyPeersAsked
<1>4. Counted(c)' = Counted(c) \cup {p}
  BY <1>0 DEF CountReply, Counted
<1>5. IsFiniteSet(Counted(c)) /\ Cardinality(Counted(c)) \in Nat
  BY <1>2, <1>3, FS_Subset, FS_CardinalityType
<1>6. Cardinality(Counted(c)') = received + 1
  <2>1. Cardinality(Counted(c) \cup {p}) = Cardinality(Counted(c)) + 1
    BY <1>3, <1>5, FS_AddElement
  <2> QED
    BY <1>1, <1>4, <2>1
<1>7. /\ repliesReceived'[At[c]][On[c]] = received + 1
      /\ repliesNeeded' = repliesNeeded
      /\ waitCh'[c] = (waitCh[c] \/ received + 1 >= Cardinality(peers))
  BY <1>0, <1>1 DEF CountReply, Enough
<1>8. ~ waitCh[c] /\ peers # {}
  BY <1>1, <1>3
<1>9. Counted(c)' \subseteq peers
  BY <1>3, <1>4
<1>10. (peers \subseteq Counted(c)') <=> received + 1 >= Cardinality(peers)
  <2>1. ASSUME peers \subseteq Counted(c)'
        PROVE  received + 1 >= Cardinality(peers)
    <3>1. Counted(c)' = peers
      BY <1>9, <2>1
    <3> QED
      BY <1>2, <1>6, <3>1
  <2>2. ASSUME received + 1 >= Cardinality(peers)
        PROVE  peers \subseteq Counted(c)'
    <3>1. /\ Cardinality(Counted(c)') <= Cardinality(peers)
          /\ Cardinality(Counted(c)') = Cardinality(peers)
               => Counted(c)' = peers
      BY <1>2, <1>9, FS_Subset
    <3> QED
      BY <1>1, <1>2, <1>5, <1>6, <2>2, <3>1
  <2> QED
    BY <2>1, <2>2
<1> QED
  BY <1>1, <1>6, <1>7, <1>8, <1>10

LEMMA CountersStep ==
  TypeOK /\ Crowding /\ NotYetSent /\ OnlyPeersAsked /\ CountersMatch
    /\ [Next]_vars => CountersMatch'
<1> SUFFICES ASSUME TypeOK, Crowding, NotYetSent, OnlyPeersAsked,
                    CountersMatch, [Next]_vars,
                    NEW c \in Call, c \notin crowded', pc'[c] = "waiting"
             PROVE
               /\ repliesNeeded'[At[c]][On[c]] = Cardinality(Peers[At[c]])
               /\ repliesReceived'[At[c]][On[c]] = Cardinality(Counted(c)')
               /\ waitCh'[c] <=> (/\ Peers[At[c]] # {}
                                  /\ Peers[At[c]] \subseteq Counted(c)')
  BY DEF CountersMatch
<1> DEFINE
      Same == /\ repliesNeeded'[At[c]][On[c]] = repliesNeeded[At[c]][On[c]]
              /\ repliesReceived'[At[c]][On[c]] = repliesReceived[At[c]][On[c]]
              /\ waitCh'[c] = waitCh[c]
              /\ Counted(c)' = Counted(c)
<1>0. /\ pc \in [Call -> PC] /\ waitCh \in [Call -> BOOLEAN]
      /\ goroutine \in [Call -> [Node -> Goroutine]]
      /\ repliesReceived \in [Node -> [Seat -> Nat]]
      /\ repliesNeeded \in [Node -> [Seat -> Nat]]
      /\ c \notin crowded
      /\ At[c] \in Node /\ On[c] \in Seat
  BY PlaceType, CrowdedGrows DEF TypeOK, RpcTypeOK, CallTypeOK, MutexTypeOK
<1>a. Same /\ pc[c] = "waiting"
        => /\ repliesNeeded'[At[c]][On[c]] = Cardinality(Peers[At[c]])
           /\ repliesReceived'[At[c]][On[c]] = Cardinality(Counted(c)')
           /\ waitCh'[c] <=> (/\ Peers[At[c]] # {}
                              /\ Peers[At[c]] \subseteq Counted(c)')
  BY <1>0 DEF CountersMatch
<1>1. ASSUME NEW n \in Node, NodeStep(n) PROVE Same /\ pc[c] = "waiting"
  <2>1. CASE Restart(n)
    BY <1>0, <2>1 DEF Restart, Active, Counted
  <2>2. CASE ~ Restart(n)
    BY <1>1, <2>2 DEF NodeStep, OtherEvent, Connect, mutexVars, callVars,
       rpcVars, Counted
  <2> QED
    BY <2>1, <2>2
<1>2. CASE Announce(c)
  <2>1. /\ repliesNeeded'[At[c]][On[c]] = Cardinality(Peers[At[c]])
        /\ repliesReceived'[At[c]][On[c]] = 0
        /\ waitCh' = waitCh
    BY <1>0, <1>2 DEF Announce, RepliesNeeded
  <2>2. ~ waitCh[c]
    BY <1>2 DEF Announce, NotYetSent
  <2>3. Counted(c)' = {}
    BY <1>0, <1>2 DEF Announce, Counted
  <2> QED
    BY <2>1, <2>2, <2>3, FS_EmptySet
<1>3. ASSUME NEW d \in Call, CallStep(d), ~ Announce(c)
      PROVE  Same /\ pc[c] = "waiting"
  <2>1. pc[c] = "waiting" /\ d # c
    BY <1>0, <1>3 DEF CallStep, BeginRequest, Announce, EnterCS, TimeOut,
       ReleaseCriticalSection
  <2>2. CASE BeginRequest(d)
    BY <2>1, <2>2 DEF BeginRequest, mutexVars, rpcVars, Counted
  <2>3. CASE ~ BeginRequest(d)
    <3>1. ~ SamePlace(c, d)
      BY <1>0, <1>3, <2>1, <2>3, AloneAtPlace DEF CallStep, Announce, EnterCS,
         TimeOut, ReleaseCriticalSection, Active
    <3>2. At[d] \in Node /\ On[d] \in Seat
      BY PlaceType
    <3>3. CASE Announce(d)
      BY <1>0, <2>1, <3>1, <3>2, <3>3 DEF Announce, SamePlace, Counted
    <3>4. CASE EnterCS(d) \/ TimeOut(d)
      BY <1>0, <2>1, <3>4 DEF EnterCS, TimeOut, rpcVars, Counted
    <3>5. CASE ReleaseCriticalSection(d)
      BY <1>0, <2>1, <3>1, <3>2, <3>5 DEF ReleaseCriticalSection, SamePlace,
         rpcVars, Counted
    <3> QED
      BY <1>3, <2>3, <3>3, <3>4, <3>5 DEF CallStep
  <2> QED
    BY <2>1, <2>2, <2>3
<1>4. ASSUME NEW d \in Call, NEW p \in Node, HandlerStep(d, p)
      PROVE  Same /\ pc[c] = "waiting"
  BY <1>0, <1>4 DEF HandlerStep, ReceiveRequest, GrantRequest, DeferRequest,
     Answer, mutexVars, callVars, Counted
<1>5. ASSUME NEW d \in Call, NEW p \in Node, GoroutineStep(d, p), d # c
      PROVE  Same /\ pc[c] = "waiting"
  <2>1. pc' = pc /\ pc[d] = "waiting" /\ pc[c] = "waiting"
    BY <1>5 DEF GoroutineStep, SendRequest, CountGrant, CountFailure, Poll,
       GiveUpPolling, CountReply, callVars
  <2>2. ~ SamePlace(c, d)
    BY <1>0, <1>5, <2>1, AloneAtPlace DEF Active
  <2>3. At[d] \in Node /\ On[d] \in Seat
    BY PlaceType
  <2>4. CASE SendRequest(d, p) \/ Poll(d, p)
    BY <1>0, <1>5, <2>1, <2>4 DEF SendRequest, Poll, mutexVars, callVars,
       Counted
  <2>5. CASE CountReply(d, p)
    BY <1>0, <1>5, <2>1, <2>2, <2>3, <2>5 DEF CountReply, SamePlace, Counted
  <2> QED
    BY <1>5, <2>1, <2>4, <2>5 DEF GoroutineStep, CountGrant, CountFailure,
       GiveUpPolling
<1>6. ASSUME NEW p \in Node, GoroutineStep(c, p)
      PROVE  /\ pc[c] = "waiting"
             /\ \/ Same
                \/ /\ goroutine[c][p] \notin {"none", "counted"}
                   /\ CountReply(c, p)
  BY <1>0, <1>6 DEF GoroutineStep, SendRequest, CountGrant, CountFailure,
     Poll, GiveUpPolling, mutexVars, callVars, Counted
<1>7. CASE UNCHANGED vars
  BY <1>7, <1>a DEF vars, mutexVars, callVars, rpcVars, Counted
<1> QED
  <2>1. ASSUME NEW p \in Node, GoroutineStep(c, p)
        PROVE
          /\ repliesNeeded'[At[c]][On[c]] = Cardinality(Peers[At[c]])
          /\ repliesReceived'[At[c]][On[c]] = Cardinality(Counted(c)')
          /\ waitCh'[c] <=> (/\ Peers[At[c]] # {}
                             /\ Peers[At[c]] \subseteq Counted(c)')
    BY <1>0, <1>6, <1>a, <2>1, CountReplyMatches
  <2> HIDE DEF Same
  <2> QED
    BY <1>1, <1>2, <1>3, <1>4, <1>5, <1>7, <1>a, <2>1 DEF Next

(***************************************************************************)
(* The order of grants.                                                    *)
(***************************************************************************)
\* A reply is given by GrantRequest only.
LEMMA GrantedBy ==
  ASSUME TypeOK, [Next]_vars, NEW c \in Call, NEW p \in Node,
         Granted(c, p)', ~ Granted(c, p)
  PROVE  GrantRequest(c, p)
<1>0. goroutine \in [Call -> [Node -> Goroutine]]
  BY DEF TypeOK, RpcTypeOK
<1>1. ASSUME NEW n \in Node, NodeStep(n) PROVE FALSE
  BY <1>1 DEF NodeStep, OtherEvent, Restart, Connect, rpcVars, history, Granted
<1>2. ASSUME NEW d \in Call, CallStep(d) PROVE FALSE
  <2>1. CASE Announce(d)
    BY <1>0, <2>1 DEF Announce, history, Granted
  <2>2. CASE ~ Announce(d)
    BY <1>2, <2>2 DEF CallStep, BeginRequest, EnterCS, TimeOut,
       ReleaseCriticalSection, rpcVars, history, Granted
  <2> QED
    BY <2>1, <2>2
<1>3. ASSUME NEW d \in Call, NEW q \in Node, HandlerStep(d, q)
      PROVE  GrantRequest(c, p)
  <2>1. CASE GrantRequest(d, q)
    BY <1>0, <2>1 DEF GrantRequest, Answer, Granted
  <2>2. CASE ReceiveRequest(d, q)
    BY <2>2 DEF ReceiveRequest, history, Granted
  <2>3. CASE DeferRequest(d, q)
    BY <1>0, <2>3 DEF DeferRequest, Answer, history, Granted
  <2> QED
    BY <1>3, <2>1, <2>2, <2>3 DEF HandlerStep
<1>4. ASSUME NEW d \in Call, NEW q \in Node, GoroutineStep(d, q) PROVE FALSE
  <2>1. CASE SendRequest(d, q)
    BY <1>0, <2>1 DEF SendRequest, history, Granted
  <2>2. CASE Poll(d, q)
    BY <1>0, <2>2 DEF Poll, history, Granted
  <2>3. CASE CountGrant(d, q)
    BY <1>0, <2>3 DEF CountGrant, CountReply, history, Granted
  <2>4. CASE CountFailure(d, q) \/ GiveUpPolling(d, q)
    BY <1>0, <2>4 DEF CountFailure, GiveUpPolling, CountReply, Granted
  <2> QED
    BY <1>4, <2>1, <2>2, <2>3, <2>4 DEF GoroutineStep
<1>5. CASE UNCHANGED vars
  BY <1>5 DEF vars, rpcVars, history, Granted
<1> QED
  BY <1>1, <1>2, <1>3, <1>4, <1>5 DEF Next

\* A handler gets hold of a request in ReceiveRequest only.
LEMMA HandlingBy ==
  ASSUME TypeOK, [Next]_vars, NEW c \in Call, NEW p \in Node,
         handler'[c][p] = "handling", handler[c][p] # "handling"
  PROVE  ReceiveRequest(c, p)
<1>0. handler \in [Call -> [Node -> Handler]]
  BY DEF TypeOK, RpcTypeOK
<1>1. ASSUME NEW n \in Node, NodeStep(n) PROVE FALSE
  BY <1>0, <1>1 DEF NodeStep, OtherEvent, Restart, Connect, rpcVars
<1>2. ASSUME NEW d \in Call, CallStep(d) PROVE FALSE
  BY <1>2 DEF CallStep, BeginRequest, Announce, EnterCS, TimeOut,
     ReleaseCriticalSection, rpcVars
<1>3. ASSUME NEW d \in Call, NEW q \in Node, HandlerStep(d, q)
      PROVE  ReceiveRequest(c, p)
  <2>1. CASE ReceiveRequest(d, q)
    BY <1>0, <2>1 DEF ReceiveRequest
  <2>2. CASE GrantRequest(d, q) \/ DeferRequest(d, q)
    BY <1>0, <2>2 DEF GrantRequest, DeferRequest, Answer
  <2> QED
    BY <1>3, <2>1, <2>2 DEF HandlerStep
<1>4. ASSUME NEW d \in Call, NEW q \in Node, GoroutineStep(d, q) PROVE FALSE
  BY <1>0, <1>4 DEF GoroutineStep, SendRequest, CountGrant, CountFailure,
     Poll, GiveUpPolling, CountReply
<1>5. CASE UNCHANGED vars
  BY <1>5 DEF vars, rpcVars
<1> QED
  BY <1>1, <1>2, <1>3, <1>4, <1>5 DEF Next

\* A clock goes back only with a restart, and a stamp is set once.
LEMMA ClockGrows ==
  ASSUME TypeOK, [Next]_vars, NEW p \in Node, p \notin reborn'
  PROVE  p \notin reborn /\ clock[p] <= clock'[p]
<1>0. /\ clock \in [Node -> Nat] /\ lamportTime \in [Call -> Nat]
      /\ \A c \in Call : At[c] \in Node
  BY PlaceType DEF TypeOK, NodeTypeOK, CallTypeOK
<1>1. ASSUME NEW n \in Node, NodeStep(n)
      PROVE  p \notin reborn /\ clock[p] <= clock'[p]
  BY <1>0, <1>1 DEF NodeStep, OtherEvent, Restart, Connect, Tick, history
<1>2. ASSUME NEW d \in Call, CallStep(d)
      PROVE  p \notin reborn /\ clock[p] <= clock'[p]
  BY <1>0, <1>2 DEF CallStep, BeginRequest, Announce, EnterCS, TimeOut,
     ReleaseCriticalSection, Tick, nodeVars, history
<1>3. ASSUME NEW d \in Call, NEW q \in Node, HandlerStep(d, q)
      PROVE  p \notin reborn /\ clock[p] <= clock'[p]
  <2>1. lamportTime[d] \in Nat /\ clock[q] \in Nat /\ clock[p] \in Nat
    BY <1>0
  <2>2. CASE ReceiveRequest(d, q)
    BY <1>0, <2>1, <2>2 DEF ReceiveRequest, Update, history
  <2>3. CASE GrantRequest(d, q) \/ DeferRequest(d, q)
    BY <2>1, <2>3 DEF GrantRequest, DeferRequest, nodeVars, history
  <2> QED
    BY <1>3, <2>2, <2>3 DEF HandlerStep
<1>4. ASSUME NEW d \in Call, NEW q \in Node, GoroutineStep(d, q)
      PROVE  p \notin reborn /\ clock[p] <= clock'[p]
  BY <1>0, <1>4 DEF GoroutineStep, SendRequest, CountGrant, CountFailure,
     Poll, GiveUpPolling, CountReply, Tick, nodeVars, history
<1>5. CASE UNCHANGED vars
  BY <1>0, <1>5 DEF vars, nodeVars, history
<1> QED
  BY <1>1, <1>2, <1>3, <1>4, <1>5 DEF Next

LEMMA StampedBy ==
  ASSUME TypeOK, [Next]_vars, NEW c \in Call, lamportTime'[c] # lamportTime[c]
  PROVE  BeginRequest(c)
<1>0. lamportTime \in [Call -> Nat]
  BY DEF TypeOK, CallTypeOK
<1>1. ASSUME NEW n \in Node, Restart(n) PROVE FALSE
  BY <1>1 DEF Restart
<1>2. ASSUME NEW d \in Call, CallStep(d) PROVE BeginRequest(c)
  BY <1>0, <1>2 DEF CallStep, BeginRequest, Announce, EnterCS, TimeOut,
     ReleaseCriticalSection
<1> QED
  BY <1>1, <1>2, QuietStep DEF quiet

LEMMA ClockCoversStep ==
  TypeOK /\ NotYetSent /\ ClockCoversGrants /\ [Next]_vars
    => ClockCoversGrants'
<1> SUFFICES ASSUME TypeOK, NotYetSent, ClockCoversGrants, [Next]_vars,
                    NEW c \in Call, NEW p \in Node, p \notin reborn',
                    handler'[c][p] = "handling" \/ Granted(c, p)'
             PROVE  lamportTime'[c] <= clock'[p]
  BY DEF ClockCoversGrants
<1>0. /\ lamportTime[c] \in Nat /\ clock[p] \in Nat /\ clock'[p] \in Nat
      /\ p \notin reborn /\ clock[p] <= clock'[p]
  BY TypeStep, ClockGrows DEF TypeOK, NodeTypeOK, CallTypeOK
<1>1. lamportTime'[c] = lamportTime[c]
  <2>1. ASSUME BeginRequest(c) PROVE FALSE
    BY <2>1 DEF BeginRequest, NotYetSent, rpcVars, Granted
  <2> QED
    BY <2>1, StampedBy
<1>2. CASE ReceiveRequest(c, p)
  <2>1. clock'[p] = Update(clock[p], lamportTime[c])
    BY <1>2 DEF ReceiveRequest, TypeOK, NodeTypeOK
  <2> QED
    BY <1>0, <1>1, <2>1 DEF Update
<1>3. CASE handler[c][p] = "handling" \/ Granted(c, p)
  BY <1>0, <1>1, <1>3 DEF ClockCoversGrants
<1>4. CASE GrantRequest(c, p)
  BY <1>3, <1>4 DEF GrantRequest
<1> QED
  BY <1>2, <1>3, <1>4, HandlingBy, GrantedBy

LEMMA OvertakenGrows == [Next]_vars => overtaken \subseteq overtaken'
<1> SUFFICES ASSUME [Next]_vars PROVE overtaken \subseteq overtaken'
  OBVIOUS
<1> USE DEF history
<1>1. ASSUME NEW n \in Node, NodeStep(n) PROVE UNCHANGED overtaken
  BY <1>1 DEF NodeStep, OtherEvent, Restart, Connect
<1>2. ASSUME NEW c \in Call, CallStep(c) PROVE UNCHANGED overtaken
  BY <1>2 DEF CallStep, BeginRequest, Announce, EnterCS, TimeOut,
     ReleaseCriticalSection
<1>3. ASSUME NEW c \in Call, NEW p \in Node, HandlerStep(c, p)
      PROVE  overtaken \subseteq overtaken'
  BY <1>3 DEF HandlerStep, ReceiveRequest, GrantRequest, DeferRequest
<1>4. ASSUME NEW c \in Call, NEW p \in Node, GoroutineStep(c, p)
      PROVE  UNCHANGED overtaken
  BY <1>4 DEF GoroutineStep, SendRequest, CountGrant, CountFailure, Poll,
     GiveUpPolling
<1>5. CASE UNCHANGED vars
  BY <1>5 DEF vars
<1> QED
  BY <1>1, <1>2, <1>3, <1>4, <1>5 DEF Next

\* Whom a node grants while it has a request of its own is before that request,
\* unless the request is not announced yet.
LEMMA GrantOrder ==
  ASSUME TypeOK, StateMatchesCall,
         NEW c \in Call, NEW d \in Call, Rivals(c, d),
         Active(d), d \notin crowded, GrantRequest(c, At[d])
  PROVE  Before(c, d) \/ <<c, d>> \in overtaken'
<1>0. /\ lamportTime[c] \in Nat /\ lamportTime[d] \in Nat
      /\ At[c] \in Nat /\ At[d] \in Nat /\ At[c] # At[d]
      /\ On[c] = On[d]
  BY PlaceType, NodeAssumption, PeersAssumption
     DEF TypeOK, CallTypeOK, Rivals
<1>1. CASE pc[d] = "ticked"
  <2>1. CASE Before(c, d)
    BY <2>1
  <2>2. CASE ~ Before(c, d)
    <3>1. Before(d, c)
      BY <1>0, <2>2 DEF Before
    <3>2. d \in Unannounced(c, At[d])
      BY <1>0, <1>1, <3>1 DEF Unannounced
    <3> QED
      BY <3>2 DEF GrantRequest
  <2> QED
    BY <2>1, <2>2
<1>2. CASE pc[d] = "waiting"
  BY <1>0, <1>2 DEF StateMatchesCall, GrantRequest, ShouldReply, Older, Before
<1>3. CASE pc[d] = "cs"
  BY <1>0, <1>3 DEF StateMatchesCall, GrantRequest, ShouldReply, Older
<1> QED
  BY <1>1, <1>2, <1>3 DEF Active

LEMMA PriorityStep ==
  TypeOK /\ NotYetSent /\ StateMatchesCall /\ ClockCoversGrants
    /\ GrantsRespectPriority /\ [Next]_vars => GrantsRespectPriority'
<1> SUFFICES ASSUME TypeOK, NotYetSent, StateMatchesCall, ClockCoversGrants,
                    GrantsRespectPriority, [Next]_vars,
                    NEW c \in Call, NEW d \in Call, c # d, Rivals(c, d),
                    Active(c)', Active(d)', d \notin crowded',
                    At[d] \notin reborn', Granted(c, At[d])'
             PROVE  Before(c, d)' \/ <<c, d>> \in overtaken'
  BY DEF GrantsRespectPriority, Rivals
<1>0. /\ lamportTime \in [Call -> Nat] /\ clock \in [Node -> Nat]
      /\ At[d] \in Node /\ d \notin crowded /\ At[d] \notin reborn
  BY PlaceType, CrowdedGrows, ClockGrows DEF TypeOK, NodeTypeOK, CallTypeOK
<1>1. CASE BeginRequest(c)
  BY <1>0, <1>1 DEF BeginRequest, NotYetSent, rpcVars, Granted
<1>2. CASE BeginRequest(d)
  <2>1. Granted(c, At[d])
    BY <1>2 DEF BeginRequest, rpcVars, Granted
  <2>2. lamportTime[c] <= clock[At[d]]
    BY <1>0, <2>1 DEF ClockCoversGrants
  <2>3. /\ lamportTime'[c] = lamportTime[c]
        /\ lamportTime'[d] = clock[At[d]] + 1
    BY <1>0, <1>2 DEF BeginRequest, Tick
  <2> QED
    BY <1>0, <2>2, <2>3 DEF Before
<1>3. CASE ~ BeginRequest(c) /\ ~ BeginRequest(d)
  <2>1. Active(c) /\ Active(d)
    BY <1>3, ActiveStep
  <2>2. lamportTime'[c] = lamportTime[c] /\ lamportTime'[d] = lamportTime[d]
    BY <1>3, StampedBy
  <2>3. CASE Granted(c, At[d])
    BY <1>0, <2>1, <2>2, <2>3, OvertakenGrows
       DEF GrantsRespectPriority, Before
  <2>4. CASE GrantRequest(c, At[d])
    BY <1>0, <2>1, <2>2, <2>4, GrantOrder DEF Before
  <2> QED
    BY <1>0, <2>3, <2>4, GrantedBy
<1> QED
  BY <1>1, <1>2, <1>3

(***************************************************************************)
(* The theorems.                                                           *)
(***************************************************************************)
LEMMA InductiveInit == Init => Inductive
<1> SUFFICES ASSUME Init PROVE Inductive
  OBVIOUS
<1>1. TypeOK
  BY TypeInit
<1>2. /\ Crowding /\ NotYetSent /\ OnlyPeersAsked /\ CountersMatch
      /\ IdleMeansReleased
  BY PlaceType DEF Init, Crowding, NotYetSent, OnlyPeersAsked, CountersMatch,
     IdleMeansReleased, Active
<1>3. /\ ClockCoversGrants /\ StateMatchesCall /\ GrantsRespectPriority
      /\ EveryPeerAnsweredInCS /\ TimeOutOnlyWhenUnlinked
  BY PlaceType DEF Init, ClockCoversGrants, StateMatchesCall,
     GrantsRespectPriority, EveryPeerAnsweredInCS, TimeOutOnlyWhenUnlinked,
     Granted, Active
<1> QED
  BY <1>1, <1>2, <1>3 DEF Inductive

LEMMA InductiveStep == Inductive /\ [Next]_vars => Inductive'
  BY TypeStep, CrowdingStep, NotYetSentStep, IdleStep, OnlyPeersStep,
     CountersStep, ClockCoversStep, StateMatchesStep, PriorityStep,
     EveryPeerAnsweredStep, TimeOutStep DEF Inductive

THEOREM InductiveInvariant == Spec => []Inductive
  BY InductiveInit, InductiveStep, PTL DEF Spec

LEMMA InductiveExclusion == Inductive => ExclusionUnlessExcused
<1> SUFFICES ASSUME Inductive,
                    NEW c \in Call, NEW d \in Call, c # d, Rivals(c, d),
                    pc[c] = "cs", pc[d] = "cs",
                    ~ Excused(c, d), ~ Excused(d, c)
             PROVE  FALSE
  BY DEF ExclusionUnlessExcused
<1>1. /\ lamportTime[c] \in Nat /\ lamportTime[d] \in Nat
      /\ At[c] \in Nat /\ At[d] \in Nat
  BY PlaceType, NodeAssumption DEF Inductive, TypeOK, CallTypeOK
<1>2. Granted(c, At[d]) /\ Granted(d, At[c])
  BY DEF Inductive, EveryPeerAnsweredInCS, Rivals, Excused, Granted
<1>3. Before(c, d) /\ Before(d, c)
  BY <1>2 DEF Inductive, GrantsRespectPriority, Rivals, Excused, Active
<1> QED
  BY <1>1, <1>3 DEF Before

\* Two rivals are inside together only when one of them took a reply for
\* granted, was granted before an older request was announced, shared its
\* entries with another local call, or runs on a node that was restarted.
THEOREM Exclusion == Spec => []ExclusionUnlessExcused
  BY InductiveInvariant, InductiveExclusion, PTL

\* A grant follows the order of the timestamps.
THEOREM Priority == Spec => []GrantsRespectPriority
<1>1. Inductive => GrantsRespectPriority
  BY DEF Inductive
<1> QED
  BY <1>1, InductiveInvariant, PTL

\* A call alone at its seat enters when each configured peer has been counted.
THEOREM Answers == Spec => []EveryPeerAnsweredInCS
<1>1. Inductive => EveryPeerAnsweredInCS
  BY DEF Inductive
<1> QED
  BY <1>1, InductiveInvariant, PTL

\* A call alone at its seat fails only for the want of a stub.
THEOREM TimeOuts == Spec => []TimeOutOnlyWhenUnlinked
<1>1. Inductive => TimeOutOnlyWhenUnlinked
  BY DEF Inductive
<1> QED
  BY <1>1, InductiveInvariant, PTL

\* Of two rivals that wait, both nodes let the same one through.
THEOREM RivalsAgree == Spec => []RivalsAgreeOnOrder
<1>1. Inductive => RivalsAgreeOnOrder
  <2> SUFFICES ASSUME Inductive,
                      NEW c \in Call, NEW d \in Call, c # d, Rivals(c, d),
                      {c, d} \cap crowded = {},
                      pc[c] = "waiting", pc[d] = "waiting"
               PROVE  ShouldReply(c, At[d]) # ShouldReply(d, At[c])
    BY DEF RivalsAgreeOnOrder
  <2>1. /\ lamportTime[c] \in Nat /\ lamportTime[d] \in Nat
        /\ At[c] \in Nat /\ At[d] \in Nat /\ At[c] # At[d] /\ On[c] = On[d]
    BY PlaceType, NodeAssumption, PeersAssumption
       DEF Inductive, TypeOK, CallTypeOK, Rivals
  <2>2. /\ state[At[c]][On[c]] = "wanting"
        /\ state[At[d]][On[d]] = "wanting"
        /\ requestTime[At[c]][On[c]] = lamportTime[c]
        /\ requestTime[At[d]][On[d]] = lamportTime[d]
    BY DEF Inductive, StateMatchesCall
  <2> DEFINE before(x, y) == \/ lamportTime[x] < lamportTime[y]
                             \/ lamportTime[x] = lamportTime[y] /\ At[x] < At[y]
  <2>3. ShouldReply(c, At[d]) <=> before(c, d)
    BY <2>1, <2>2 DEF ShouldReply, Older
  <2>4. ShouldReply(d, At[c]) <=> before(d, c)
    BY <2>1, <2>2 DEF ShouldReply, Older
  <2>5. before(c, d) <=> ~ before(d, c)
    BY <2>1
  <2>6. ShouldReply(c, At[d]) \in BOOLEAN /\ ShouldReply(d, At[c]) \in BOOLEAN
    BY DEF ShouldReply, Older
  <2> HIDE DEF before
  <2> QED
    BY <2>3, <2>4, <2>5, <2>6
<1> QED
  BY <1>1, InductiveInvariant, PTL

\* A call that has begun is never again one that has not.
LEMMA BegunStays ==
  ASSUME TypeOK, [Next]_vars, NEW c \in Call, pc[c] # "start"
  PROVE  pc'[c] # "start"
<1>0. pc \in [Call -> PC]
  BY DEF TypeOK, CallTypeOK
<1>1. ASSUME NEW n \in Node, Restart(n) PROVE pc'[c] # "start"
  BY <1>0, <1>1 DEF Restart
<1>2. ASSUME NEW d \in Call, CallStep(d) PROVE pc'[c] # "start"
  BY <1>0, <1>2 DEF CallStep, BeginRequest, Announce, EnterCS, TimeOut,
     ReleaseCriticalSection
<1> QED
  BY <1>1, <1>2, QuietStep DEF quiet

LEMMA DeferredBy ==
  ASSUME TypeOK, [Next]_vars, NEW c \in Call, NEW p \in Node,
         goroutine'[c][p] = "deferred", goroutine[c][p] # "deferred"
  PROVE  DeferRequest(c, p)
<1>0. goroutine \in [Call -> [Node -> Goroutine]]
  BY DEF TypeOK, RpcTypeOK
<1>1. ASSUME NEW n \in Node, NodeStep(n) PROVE FALSE
  BY <1>1 DEF NodeStep, OtherEvent, Restart, Connect, rpcVars
<1>2. ASSUME NEW d \in Call, CallStep(d) PROVE FALSE
  BY <1>0, <1>2 DEF CallStep, BeginRequest, Announce, EnterCS, TimeOut,
     ReleaseCriticalSection, rpcVars
<1>3. ASSUME NEW d \in Call, NEW q \in Node, HandlerStep(d, q)
      PROVE  DeferRequest(c, p)
  <2>1. CASE DeferRequest(d, q)
    BY <1>0, <2>1 DEF DeferRequest, Answer
  <2>2. CASE ReceiveRequest(d, q) \/ GrantRequest(d, q)
    BY <1>0, <2>2 DEF ReceiveRequest, GrantRequest, Answer
  <2> QED
    BY <1>3, <2>1, <2>2 DEF HandlerStep
<1>4. ASSUME NEW d \in Call, NEW q \in Node, GoroutineStep(d, q) PROVE FALSE
  BY <1>0, <1>4 DEF GoroutineStep, SendRequest, CountGrant, CountFailure,
     Poll, GiveUpPolling, CountReply
<1>5. CASE UNCHANGED vars
  BY <1>5 DEF vars, rpcVars
<1> QED
  BY <1>1, <1>2, <1>3, <1>4, <1>5 DEF Next

\* Only a node that has asked for the seat itself defers a request for it.
THEOREM DeferredByRival == Spec => []DeferredOnlyByRival
<1>1. Init => DeferredOnlyByRival
  BY DEF Init, DeferredOnlyByRival
<1>2. Inductive /\ DeferredOnlyByRival /\ [Next]_vars => DeferredOnlyByRival'
  <2> SUFFICES ASSUME Inductive, DeferredOnlyByRival, [Next]_vars,
                      NEW c \in Call, NEW p \in Node,
                      goroutine'[c][p] = "deferred"
               PROVE  \E d \in Call : /\ At[d] = p /\ On[d] = On[c]
                                      /\ pc'[d] # "start"
    BY DEF DeferredOnlyByRival
  <2>0. TypeOK
    BY DEF Inductive
  <2>1. \E d \in Call : At[d] = p /\ On[d] = On[c] /\ pc[d] # "start"
    <3>1. CASE goroutine[c][p] = "deferred"
      BY <3>1 DEF DeferredOnlyByRival
    <3>2. CASE goroutine[c][p] # "deferred"
      <4>1. state[p][On[c]] # "released"
        BY <2>0, <3>2, DeferredBy DEF DeferRequest, ShouldReply
      <4>2. \E d \in Call : At[d] = p /\ On[d] = On[c] /\ Active(d)
        BY <4>1, PlaceType DEF Inductive, IdleMeansReleased
      <4> QED
        BY <4>2 DEF Active
    <3> QED
      BY <3>1, <3>2
  <2> QED
    BY <2>0, <2>1, BegunStays
<1> QED
  BY <1>1, <1>2, InductiveInvariant, PTL DEF Spec

\* Deferred entries outlive their request only after a timeout, or where two
\* calls shared them.
THEOREM Leftovers == Spec => []LeftoverDeferrals
<1>1. Init => LeftoverDeferrals
  BY DEF Init, LeftoverDeferrals
<1>2. TypeOK /\ LeftoverDeferrals /\ [Next]_vars => LeftoverDeferrals'
  <2> SUFFICES ASSUME TypeOK, LeftoverDeferrals, [Next]_vars,
                      NEW n \in Node, NEW s \in Seat,
                      state'[n][s] = "released", deferredReplies'[n][s] # <<>>
               PROVE  \E c \in Call : /\ At[c] = n /\ On[c] = s
                                      /\ \/ pc'[c] = "failed"
                                         \/ c \in crowded'
    BY DEF LeftoverDeferrals
  <2>0. /\ pc \in [Call -> PC]
        /\ state \in [Node -> [Seat -> MutexState]]
        /\ deferredReplies \in [Node -> [Seat -> Seq(Node)]]
    BY DEF TypeOK, CallTypeOK, MutexTypeOK
  <2>1. ASSUME NEW c \in Call, pc[c] = "failed" PROVE pc'[c] = "failed"
    <3>1. ASSUME NEW m \in Node, Restart(m) PROVE pc'[c] = "failed"
      BY <2>0, <2>1, <3>1 DEF Restart, Active
    <3>2. ASSUME NEW d \in Call, CallStep(d) PROVE pc'[c] = "failed"
      BY <2>0, <2>1, <3>2 DEF CallStep, BeginRequest, Announce, EnterCS,
         TimeOut, ReleaseCriticalSection
    <3> QED
      BY <2>1, <3>1, <3>2, QuietStep DEF quiet
  <2>2. CASE state[n][s] = "released" /\ deferredReplies[n][s] # <<>>
    BY <2>1, <2>2, CrowdedGrows DEF LeftoverDeferrals
  <2>3. ASSUME NEW m \in Node, NodeStep(m)
        PROVE  state[n][s] = "released" /\ deferredReplies[n][s] # <<>>
    <3>1. CASE Restart(m)
      BY <2>0, <3>1 DEF Restart
    <3>2. CASE ~ Restart(m)
      BY <2>3, <3>2 DEF NodeStep, OtherEvent, Connect, mutexVars
    <3> QED
      BY <3>1, <3>2
  <2>4. ASSUME NEW c \in Call, CallStep(c)
        PROVE  \/ state[n][s] = "released" /\ deferredReplies[n][s] # <<>>
               \/ At[c] = n /\ On[c] = s /\ pc'[c] = "failed"
    <3>0. At[c] \in Node /\ On[c] \in Seat
      BY PlaceType
    <3>1. CASE BeginRequest(c)
      BY <3>1 DEF BeginRequest, mutexVars
    <3>2. CASE Announce(c)
      BY <2>0, <3>0, <3>2 DEF Announce
    <3>3. CASE EnterCS(c)
      BY <2>0, <3>0, <3>3 DEF EnterCS
    <3>4. CASE TimeOut(c)
      BY <2>0, <3>0, <3>4 DEF TimeOut
    <3>5. CASE ReleaseCriticalSection(c)
      BY <2>0, <3>0, <3>5 DEF ReleaseCriticalSection, EntriesLeft
    <3> QED
      BY <2>4, <3>1, <3>2, <3>3, <3>4, <3>5 DEF CallStep
  <2>5. ASSUME NEW c \in Call, NEW p \in Node, HandlerStep(c, p)
        PROVE  state[n][s] = "released" /\ deferredReplies[n][s] # <<>>
    <3>1. CASE DeferRequest(c, p)
      BY <2>0, <3>1, PlaceType DEF DeferRequest, ShouldReply
    <3>2. CASE ReceiveRequest(c, p) \/ GrantRequest(c, p)
      BY <3>2 DEF ReceiveRequest, GrantRequest, mutexVars
    <3> QED
      BY <2>5, <3>1, <3>2 DEF HandlerStep
  <2>6. ASSUME NEW c \in Call, NEW p \in Node, GoroutineStep(c, p)
        PROVE  state[n][s] = "released" /\ deferredReplies[n][s] # <<>>
    BY <2>6 DEF GoroutineStep, SendRequest, CountGrant, CountFailure, Poll,
       GiveUpPolling, CountReply, mutexVars
  <2>7. ASSUME UNCHANGED vars
        PROVE  state[n][s] = "released" /\ deferredReplies[n][s] # <<>>
    BY <2>7 DEF vars, mutexVars
  <2>8. \/ state[n][s] = "released" /\ deferredReplies[n][s] # <<>>
        \/ \E c \in Call : At[c] = n /\ On[c] = s /\ pc'[c] = "failed"
    BY <2>3, <2>4, <2>5, <2>6, <2>7 DEF Next
  <2> QED
    BY <2>2, <2>8
<1> QED
  BY <1>1, <1>2, TypeCorrect, PTL DEF Spec

(***************************************************************************)
(* No stub is ever removed while a call of the node lives, which is why a  *)
(* call that is let in can send its seat to every configured peer.         *)
(***************************************************************************)
AskedAreLinked ==
  \A c \in Call, p \in Node :
    (Active(c) /\ goroutine[c][p] # "none") => p \in peerClients[At[c]]

\* The peers of a call that is inside all have a stub.
LinkedInside ==
  \A c \in Call \ crowded :
    pc[c] = "cs" => Peers[At[c]] \subseteq peerClients[At[c]]

\* Announce starts the goroutines, one per stub.
LEMMA AskedBy ==
  ASSUME TypeOK, [Next]_vars, NEW c \in Call, NEW p \in Node,
         goroutine[c][p] = "none", goroutine'[c][p] # "none"
  PROVE  Announce(c) /\ p \in peerClients[At[c]]
<1>0. goroutine \in [Call -> [Node -> Goroutine]]
  BY DEF TypeOK, RpcTypeOK
<1>1. ASSUME NEW n \in Node, NodeStep(n) PROVE UNCHANGED goroutine
  BY <1>1 DEF NodeStep, OtherEvent, Restart, Connect, rpcVars
<1>2. ASSUME NEW d \in Call, CallStep(d)
      PROVE  Announce(c) /\ p \in peerClients[At[c]]
  <2>1. CASE Announce(d)
    BY <1>0, <2>1 DEF Announce
  <2>2. CASE ~ Announce(d)
    BY <1>2, <2>2 DEF CallStep, BeginRequest, EnterCS, TimeOut,
       ReleaseCriticalSection, rpcVars
  <2> QED
    BY <2>1, <2>2
<1>3. ASSUME NEW d \in Call, NEW q \in Node, HandlerStep(d, q)
      PROVE  UNCHANGED goroutine[c][p]
  BY <1>0, <1>3 DEF HandlerStep, ReceiveRequest, GrantRequest, DeferRequest,
     Answer
<1>4. ASSUME NEW d \in Call, NEW q \in Node, GoroutineStep(d, q)
      PROVE  UNCHANGED goroutine[c][p]
  BY <1>0, <1>4 DEF GoroutineStep, SendRequest, CountGrant, CountFailure,
     Poll, GiveUpPolling, CountReply
<1>5. CASE UNCHANGED vars
  BY <1>5 DEF vars, rpcVars
<1> QED
  BY <1>1, <1>2, <1>3, <1>4, <1>5 DEF Next

\* Only a restart, which ends the calls of its node, empties the table of stubs.
LEMMA StubStays ==
  ASSUME TypeOK, [Next]_vars, NEW c \in Call, Active(c)',
         NEW p \in peerClients[At[c]]
  PROVE  p \in peerClients'[At[c]]
<1>0. /\ peerClients \in [Node -> SUBSET Node] /\ pc \in [Call -> PC]
      /\ At[c] \in Node
  BY PlaceType DEF TypeOK, NodeTypeOK, CallTypeOK
<1>1. ASSUME NEW n \in Node, OtherEvent(n) PROVE UNCHANGED peerClients
  BY <1>1 DEF OtherEvent
<1>2. ASSUME NEW n \in Node, NEW q \in Node, Connect(n, q)
      PROVE  p \in peerClients'[At[c]]
  BY <1>0, <1>2 DEF Connect
<1>3. ASSUME NEW n \in Node, Restart(n) PROVE p \in peerClients'[At[c]]
  BY <1>0, <1>3 DEF Restart, Active
<1>4. ASSUME NEW d \in Call, CallStep(d) PROVE UNCHANGED peerClients
  BY <1>4 DEF CallStep, BeginRequest, Announce, EnterCS, TimeOut,
     ReleaseCriticalSection, nodeVars
<1>5. ASSUME NEW d \in Call, NEW q \in Node,
             HandlerStep(d, q) \/ GoroutineStep(d, q)
      PROVE  UNCHANGED peerClients
  BY <1>5 DEF HandlerStep, ReceiveRequest, GrantRequest, DeferRequest,
     GoroutineStep, SendRequest, CountGrant, CountFailure, Poll,
     GiveUpPolling, CountReply, nodeVars
<1>6. CASE UNCHANGED vars
  BY <1>6 DEF vars, nodeVars
<1> QED
  BY <1>1, <1>2, <1>3, <1>4, <1>5, <1>6 DEF Next, NodeStep

LEMMA AskedAreLinkedStep ==
  TypeOK /\ NotYetSent /\ AskedAreLinked /\ [Next]_vars => AskedAreLinked'
<1> SUFFICES ASSUME TypeOK, NotYetSent, AskedAreLinked, [Next]_vars,
                    NEW c \in Call, NEW p \in Node,
                    Active(c)', goroutine'[c][p] # "none"
             PROVE  p \in peerClients'[At[c]]
  BY DEF AskedAreLinked
<1>1. CASE goroutine[c][p] = "none"
  BY <1>1, AskedBy, StubStays
<1>2. CASE goroutine[c][p] # "none"
  <2>1. pc[c] # "start"
    BY <1>2 DEF NotYetSent
  <2>2. Active(c)
    BY <2>1, ActiveStep DEF BeginRequest
  <2> QED
    BY <1>2, <2>2, StubStays DEF AskedAreLinked
<1> QED
  BY <1>1, <1>2

LEMMA LinkedWhenInside ==
  Inductive /\ AskedAreLinked => LinkedInside
  BY PlaceType, PeersAssumption
     DEF Inductive, AskedAreLinked, LinkedInside, EveryPeerAnsweredInCS, Active

\* When the lock is given to a call alone at its seat, the node has a stub for
\* every configured peer, and keeps it until the call is over: the update of
\* the seat leaves nobody out.
THEOREM StubsInside == Spec => []LinkedInside
<1>1. Init => AskedAreLinked
  BY DEF Init, AskedAreLinked
<1>2. Inductive => TypeOK /\ NotYetSent
  BY DEF Inductive
<1> QED
  BY <1>1, <1>2, AskedAreLinkedStep, LinkedWhenInside, InductiveInvariant, PTL
     DEF Spec

(***************************************************************************)
(* The algorithm implements the lock.                                      *)
(***************************************************************************)
LEMMA ImplicitGrows ==
  [Next]_vars => implicit \subseteq implicit' /\ reborn \subseteq reborn'
<1> SUFFICES ASSUME [Next]_vars
             PROVE  implicit \subseteq implicit' /\ reborn \subseteq reborn'
  OBVIOUS
<1> USE DEF history
<1>1. ASSUME NEW n \in Node, NodeStep(n)
      PROVE  UNCHANGED implicit /\ reborn \subseteq reborn'
  BY <1>1 DEF NodeStep, OtherEvent, Restart, Connect
<1>2. ASSUME NEW c \in Call, CallStep(c) PROVE UNCHANGED <<implicit, reborn>>
  BY <1>2 DEF CallStep, BeginRequest, Announce, EnterCS, TimeOut,
     ReleaseCriticalSection
<1>3. ASSUME NEW c \in Call, NEW p \in Node, HandlerStep(c, p)
      PROVE  UNCHANGED <<implicit, reborn>>
  BY <1>3 DEF HandlerStep, ReceiveRequest, GrantRequest, DeferRequest
<1>4. ASSUME NEW c \in Call, NEW p \in Node, GoroutineStep(c, p)
      PROVE  implicit \subseteq implicit' /\ UNCHANGED reborn
  BY <1>4 DEF GoroutineStep, SendRequest, CountGrant, CountFailure, Poll,
     GiveUpPolling
<1>5. CASE UNCHANGED vars
  BY <1>5 DEF vars
<1> QED
  BY <1>1, <1>2, <1>3, <1>4, <1>5 DEF Next

LEMMA LostGrows == TypeOK /\ [Next]_vars => lost \subseteq lost'
  BY CrowdedGrows, ImplicitGrows, OvertakenGrows DEF lost, Excused

\* Where every call is, and where one call's step takes it.
LEMMA PhaseStep ==
  ASSUME TypeOK, NEW c \in Call, CallStep(c)
  PROVE  \/ /\ BeginRequest(c)
            /\ phase[c] = "idle" /\ phase' = [phase EXCEPT ![c] = "asking"]
         \/ Announce(c) /\ phase' = phase
         \/ /\ EnterCS(c)
            /\ phase[c] = "asking" /\ phase' = [phase EXCEPT ![c] = "inside"]
         \/ /\ phase[c] \in {"asking", "inside"}
            /\ phase' = [phase EXCEPT ![c] = "out"]
<1>0. pc \in [Call -> PC]
  BY DEF TypeOK, CallTypeOK
<1>1. CASE BeginRequest(c)
  BY <1>0, <1>1 DEF BeginRequest, phase
<1>2. CASE Announce(c)
  BY <1>0, <1>2 DEF Announce, phase
<1>3. CASE EnterCS(c)
  BY <1>0, <1>3 DEF EnterCS, phase
<1>4. CASE TimeOut(c)
  BY <1>0, <1>4 DEF TimeOut, phase
<1>5. CASE ReleaseCriticalSection(c)
  BY <1>0, <1>5 DEF ReleaseCriticalSection, phase
<1> QED
  BY <1>1, <1>2, <1>3, <1>4, <1>5 DEF CallStep

LEMMA LockStep ==
  Inductive /\ [Next]_vars => [Lock!LockNext]_<<phase, lost>>
<1> SUFFICES ASSUME Inductive, [Next]_vars
             PROVE  Lock!LockNext \/ UNCHANGED <<phase, lost>>
  OBVIOUS
<1>0. TypeOK /\ pc \in [Call -> PC]
  BY DEF Inductive, TypeOK, CallTypeOK
<1>1. Lock!Lose
  BY <1>0, LostGrows DEF Lock!Lose, lost
<1>2. ASSUME NEW C \in SUBSET Call,
             \A c \in C : phase[c] \in {"asking", "inside"},
             phase' = [c \in Call |-> IF c \in C THEN "out" ELSE phase[c]]
      PROVE  Lock!LockNext
  BY <1>1, <1>2 DEF Lock!LockNext, Lock!Leave
<1>3. phase = [c \in Call |-> phase[c]]
  BY DEF phase
<1>4. ASSUME phase' = phase PROVE Lock!LockNext
  <2>1. phase' = [c \in Call |-> IF c \in {} THEN "out" ELSE phase[c]]
    BY <1>3, <1>4
  <2>2. Lock!Leave({})
    BY <1>1, <2>1 DEF Lock!Leave
  <2> QED
    BY <2>2 DEF Lock!LockNext
<1>5. ASSUME UNCHANGED quiet PROVE Lock!LockNext
  <2>1. phase' = phase
    BY <1>5 DEF quiet, phase
  <2> QED
    BY <1>4, <2>1
<1>6. ASSUME NEW n \in Node, Restart(n) PROVE Lock!LockNext
  <2> DEFINE C == {c \in Call : At[c] = n /\ Active(c)}
  <2>1. \A c \in C : phase[c] \in {"asking", "inside"}
    BY <1>0 DEF phase, Active
  <2>2. phase' = [c \in Call |-> IF c \in C THEN "out" ELSE phase[c]]
    BY <1>0, <1>6 DEF Restart, phase
  <2> QED
    BY <1>2, <2>1, <2>2
<1>7. ASSUME NEW c \in Call, CallStep(c) PROVE Lock!LockNext
  <2>1. CASE /\ BeginRequest(c)
             /\ phase[c] = "idle" /\ phase' = [phase EXCEPT ![c] = "asking"]
    BY <1>1, <2>1 DEF Lock!LockNext, Lock!Ask
  <2>2. CASE phase' = phase
    BY <1>4, <2>2
  <2>3. CASE /\ EnterCS(c)
             /\ phase[c] = "asking" /\ phase' = [phase EXCEPT ![c] = "inside"]
    <3>1. ASSUME NEW d \in Call \ {c}, phase[d] = "inside", Rivals(c, d)
          PROVE  <<c, d>> \in lost
      <4>1. pc'[c] = "cs" /\ pc'[d] = "cs"
        BY <1>0, <2>3, <3>1 DEF EnterCS, phase
      <4>2. ExclusionUnlessExcused'
        BY InductiveStep, InductiveExclusion, PTL
      <4>3. Excused(c, d)' \/ Excused(d, c)'
        BY <3>1, <4>1, <4>2 DEF ExclusionUnlessExcused, Rivals
      <4> QED
        BY <2>3, <3>1, <4>3 DEF EnterCS, history, Excused, lost
    <3>2. Lock!Enter(c)
      BY <1>1, <2>3, <3>1 DEF Lock!Enter, Lock!Inside
    <3> QED
      BY <3>2 DEF Lock!LockNext
  <2>4. CASE /\ phase[c] \in {"asking", "inside"}
             /\ phase' = [phase EXCEPT ![c] = "out"]
    <3>1. phase' = [d \in Call |-> IF d \in {c} THEN "out" ELSE phase[d]]
      BY <1>3, <2>4
    <3> QED
      BY <1>2, <2>4, <3>1
  <2> QED
    BY <1>0, <1>7, <2>1, <2>2, <2>3, <2>4, PhaseStep
<1> QED
  BY <1>5, <1>6, <1>7, QuietStep

\* Seen from its callers the algorithm is the lock of SeatLock.
THEOREM ImplementsSeatLock == Spec => ImplementsLock
<1>1. Init => Lock!LockInit
  BY DEF Init, Lock!LockInit, phase, lost, Excused
<1> QED
  BY <1>1, InductiveInvariant, LockStep, PTL
     DEF Spec, ImplementsLock, Lock!LockSpec, Lock!lockVars
==============================================================================
