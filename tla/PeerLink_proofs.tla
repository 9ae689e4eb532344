--------------------------- MODULE PeerLink_proofs ---------------------------
(***************************************************************************)
(* Theorems of PeerLink, for any number of users of every kind, any number *)
(* of deaths of the peer and any supply of names that is large enough.     *)
(***************************************************************************)
EXTENDS PeerLink, FiniteSetTheorems, TLAPS

\* The local conn of the loop is a connection of its own from the dial to the
\* locked block, and nothing otherwise.
DialledIsNew ==
  IF dial = "dialled" THEN conn \in open \ {peerConn} ELSE conn = NoConn

\* A peer that is not marked alive has never been connected, or a user found it
\* dead while the connection that is in use was in use already.
DeadIsSuspected ==
  (~ peerAlive \/ dial \in {"dialling", "dialled"})
    => peerConn = NoConn \/ peerConn \in suspected

LinkInv ==
  /\ TypeOK
  /\ StubIsOpen
  /\ NoConnectionLeaks
  /\ CutOffOnlyIfSuspected
  /\ DialledIsNew
  /\ DeadIsSuspected

-----------------------------------------------------------------------------
InUse == {peerConn} \cup {via[u] : u \in User}

\* The users hold at most one name each, and the hub one more.
LEMMA UserNames ==
  /\ IsFiniteSet({via[u] : u \in User})
  /\ Cardinality({via[u] : u \in User}) <= Cardinality(User)
<1> DEFINE T == {via[u] : u \in User}
           f == [u \in User |-> via[u]]
<1>1. f \in Surjection(User, T)
  BY DEF Surjection
<1> HIDE DEF T, f
<1>2. IsFiniteSet(T) /\ Cardinality(T) <= Cardinality(User)
  BY <1>1, FS_Surjection, ConnAssumption
<1> QED
  BY <1>2 DEF T

\* There is always a name left for the next dial.
LEMMA NewConnExists ==
  ASSUME open \subseteq {peerConn}
  PROVE  NewConn \in Conn \ (open \cup InUse)
<1> DEFINE T == {via[u] : u \in User}
<1>1. IsFiniteSet(InUse) /\ Cardinality(InUse) <= Cardinality(User) + 1
  <2>1. InUse = T \cup {peerConn}
    BY DEF InUse
  <2>2. IsFiniteSet(T) /\ Cardinality(T) <= Cardinality(User)
    BY UserNames
  <2>3. Cardinality(T) \in Nat /\ Cardinality(User) \in Nat
    BY <2>2, FS_CardinalityType, ConnAssumption
  <2> HIDE DEF T
  <2>4. /\ IsFiniteSet(T \cup {peerConn})
        /\ Cardinality(T \cup {peerConn}) =
             IF peerConn \in T THEN Cardinality(T) ELSE Cardinality(T) + 1
    BY <2>2, FS_AddElement
  <2> QED
    BY <2>1, <2>2, <2>3, <2>4
<1>2. Cardinality(User) \in Nat /\ Cardinality(Conn) \in Nat
      /\ Cardinality(InUse) \in Nat
  BY <1>1, FS_CardinalityType, ConnAssumption
<1>3. ~ Conn \subseteq InUse
  <2>1. Conn \subseteq InUse => Cardinality(Conn) <= Cardinality(InUse)
    BY <1>1, FS_Subset
  <2> QED
    BY <1>1, <1>2, <2>1, ConnAssumption
<1>4. open \cup {peerConn} \cup T = InUse
  BY DEF InUse
<1>5. \E c \in Conn : c \notin open \cup {peerConn} \cup T
  BY <1>3, <1>4
<1> QED
  BY <1>4, <1>5 DEF NewConn

LEMMA LinkInvInit == Init => LinkInv
<1> SUFFICES ASSUME Init PROVE LinkInv
  OBVIOUS
<1>1. TypeOK
  <2>1. deaths \in 0..DeathBound
    BY PeerAssumption DEF Init
  <2> QED
    BY <2>1 DEF Init, TypeOK
<1> QED
  BY <1>1 DEF Init, LinkInv, StubIsOpen, NoConnectionLeaks,
     CutOffOnlyIfSuspected, DialledIsNew, DeadIsSuspected

LEMMA LinkInvPeer ==
  ASSUME LinkInv, Peer PROVE LinkInv'
<1> USE PeerAssumption DEF LinkInv, TypeOK, StubIsOpen, NoConnectionLeaks,
      CutOffOnlyIfSuspected, DialledIsNew, DeadIsSuspected, hubVars, dialVars,
      userVars
<1>1. CASE PeerDies
  <2>1. deaths' \in 0..DeathBound
    BY <1>1 DEF PeerDies
  <2> QED
    BY <1>1, <2>1 DEF PeerDies
<1>2. CASE PeerReturns
  BY <1>2 DEF PeerReturns
<1>3. CASE HeartbeatArrives
  BY <1>3 DEF HeartbeatArrives
<1> QED
  BY <1>1, <1>2, <1>3 DEF Peer

LEMMA LinkInvDial ==
  ASSUME LinkInv, ConnectWithRetry PROVE LinkInv'
<1>0. NoConn \notin Conn
  BY ConnAssumption DEF NoConn
<1> USE <1>0 DEF LinkInv, TypeOK, StubIsOpen, NoConnectionLeaks,
      CutOffOnlyIfSuspected, DialledIsNew, DeadIsSuspected, hubVars, dialVars,
      userVars
<1>1. CASE StartDialling
  BY <1>1 DEF StartDialling
<1>2. CASE Dial
  BY <1>2 DEF Dial, MustDial
<1>3. CASE DialSucceeds
  <2>1. open \subseteq {peerConn}
    BY <1>3 DEF DialSucceeds
  <2>2. NewConn \in Conn \ (open \cup InUse)
    BY <2>1, NewConnExists
  <2>3. \A u \in User : via[u] # NewConn
    BY <2>2 DEF InUse
  <2>4. peerConn # NewConn
    BY <2>2 DEF InUse
  <2> QED
    BY <1>3, <2>1, <2>2, <2>3, <2>4 DEF DialSucceeds
<1>4. CASE DialFails
  BY <1>4 DEF DialFails
<1>5. CASE StoreConnection
  BY <1>5 DEF StoreConnection, CloseOld, MarkStored
<1> QED
  BY <1>1, <1>2, <1>3, <1>4, <1>5 DEF ConnectWithRetry

LEMMA LinkInvUse ==
  ASSUME LinkInv, NEW u \in User, UseStub(u) PROVE LinkInv'
<1>0. NoConn \notin Conn
  BY ConnAssumption DEF NoConn
<1> USE <1>0 DEF LinkInv, TypeOK, StubIsOpen, NoConnectionLeaks,
      CutOffOnlyIfSuspected, DialledIsNew, DeadIsSuspected, hubVars, dialVars,
      userVars
<1>1. CASE FetchStub(u)
  BY <1>1 DEF FetchStub, HasStub
<1>2. CASE RpcAnswered(u)
  BY <1>2 DEF RpcAnswered
<1>3. CASE RpcFails(u)
  BY <1>3 DEF RpcFails
<1>4. CASE EndRpc(u)
  <2>1. peerAlive' \in BOOLEAN
    BY <1>4 DEF EndRpc
  <2> QED
    BY <1>4, <2>1 DEF EndRpc
<1> QED
  BY <1>1, <1>2, <1>3, <1>4 DEF UseStub

LEMMA LinkInvStep == LinkInv /\ [Next]_vars => LinkInv'
<1> SUFFICES ASSUME LinkInv, UNCHANGED vars PROVE LinkInv'
  BY LinkInvPeer, LinkInvDial, LinkInvUse DEF Next
<1> QED
  BY DEF LinkInv, TypeOK, StubIsOpen, NoConnectionLeaks,
     CutOffOnlyIfSuspected, DialledIsNew, DeadIsSuspected, vars, hubVars,
     dialVars, userVars

LEMMA LinkInvAlways == Spec => []LinkInv
  BY LinkInvInit, LinkInvStep, PTL DEF Spec
-----------------------------------------------------------------------------
\* No user ever makes an RPC with a stub that is nil, and a dial always finds a
\* name that nobody uses.
THEOREM PeerLinkType == Spec => []TypeOK
<1>1. LinkInv => TypeOK
  BY DEF LinkInv
<1> QED
  BY <1>1, LinkInvAlways, PTL

\* The stub of the hub is never one of a closed connection.
THEOREM StubsAreOpen == Spec => []StubIsOpen
<1>1. LinkInv => StubIsOpen
  BY DEF LinkInv
<1> QED
  BY <1>1, LinkInvAlways, PTL

\* Only the connection in use and the one just dialled are open.
THEOREM NothingLeaks == Spec => []NoConnectionLeaks
<1>1. LinkInv => NoConnectionLeaks
  BY DEF LinkInv
<1> QED
  BY <1>1, LinkInvAlways, PTL

\* No RPC is cut off by a replacement unless a user had found the peer dead while
\* the connection that is replaced was in use; what failed may have been an RPC
\* over an older one.
THEOREM CutOffsAreSuspected == Spec => []CutOffOnlyIfSuspected
<1>1. LinkInv => CutOffOnlyIfSuspected
  BY DEF LinkInv
<1> QED
  BY <1>1, LinkInvAlways, PTL
==============================================================================
