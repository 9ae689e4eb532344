------------------------- MODULE TicketSystem_proofs -------------------------
(***************************************************************************)
(* Theorems of TicketSystem: the service over the algorithm is the service *)
(* over the lock, and what two sales of one seat take.  The algorithm      *)
(* keeps its own inductive invariant, since every step of the whole is a   *)
(* step of the algorithm or leaves it alone.                               *)
(***************************************************************************)
EXTENDS TicketSystem, RicartAgrawala_proofs

\* The types of what the service adds.
ServiceTypeOK ==
  /\ seats \in [Node -> [Seat -> Call \cup {Free}]]
  /\ step \in [Call -> Service!PC]
  /\ unsent \in [Call -> Seq(Seat)]
  /\ wire \subseteq Call \X Node \X Seat

\* BookSeat and the mutex agree on where a booking is.
StepsAgree ==
  \A c \in Call :
    /\ step[c] \in {"start", "refused"} <=> pc[c] = "start"
    /\ step[c] = "asking" <=> pc[c] \in {"ticked", "waiting"}
    /\ step[c] \in {"inside", "syncing", "denied"} <=> pc[c] = "cs"

\* A node that has sold a seat and not been restarted shows it as booked.
KnownAtHome ==
  \A c \in Call :
    (Service!Booked(c) /\ At[c] \notin reborn) => seats[At[c]][On[c]] # Free

\* c has sold its seat and p must hear of it: nothing has gone wrong.
MustHear(c, p) ==
  /\ Service!Booked(c)
  /\ p \in Peers[At[c]]
  /\ {p, At[c]} \cap reborn = {}
  /\ c \notin crowded
  /\ <<c, p, On[c]>> \notin missed

\* A peer that must hear of a sale has heard of it, or the booking still has
\* the lock: its update has yet to go out, or its answer is awaited.
KnownElsewhere ==
  \A c \in Call, p \in Node :
    MustHear(c, p) =>
      \/ seats[p][On[c]] # Free
      \/ /\ step[c] = "syncing"
         /\ unsent[c] = <<On[c]>> \/ <<c, p, On[c]>> \in open

SystemInv ==
  /\ Inductive
  /\ AskedAreLinked
  /\ ServiceTypeOK
  /\ StepsAgree
  /\ KnownAtHome
  /\ KnownElsewhere
  /\ SoldTwiceOnlyThroughHole
-----------------------------------------------------------------------------
(***************************************************************************)
(* The steps of the whole, one by one.                                     *)
(***************************************************************************)

\* Nothing but the position of c changes in the service.
Goes(c, from, to) ==
  /\ step[c] \in from
  /\ step' = [step EXCEPT ![c] = to]
  /\ UNCHANGED <<seats, unsent, wire, open, missed, leftOut, crossed>>

\* The service leaves everything alone.
Rests == UNCHANGED serviceVars

\* Store.Book succeeds, in the terms of this module.
Sells(c) ==
  /\ step[c] = "inside"
  /\ seats[At[c]][On[c]] = Free
  /\ seats' = [seats EXCEPT ![At[c]][On[c]] = c]
  /\ step' = [step EXCEPT ![c] = "syncing"]
  /\ unsent' = [unsent EXCEPT ![c] = <<On[c]>>]
  /\ UNCHANGED <<vars, wire, open, missed, leftOut>>

Sends(c) ==
  /\ step[c] = "syncing"
  /\ unsent[c] # <<>>
  /\ unsent' = [unsent EXCEPT ![c] = Tail(@)]
  /\ \E msgs : /\ msgs = {<<c, p, Head(unsent[c])>> : p \in peerClients[At[c]]}
               /\ wire' = wire \cup msgs
               /\ open' = open \cup msgs
  /\ UNCHANGED <<vars, seats, step, missed, crossed>>

Handles(m) ==
  /\ m \in wire
  /\ seats' = [seats EXCEPT ![m[2]][m[3]] = m[1]]
  /\ open' = open \ {m}
  /\ wire' = wire \ {m}
  /\ UNCHANGED <<vars, step, unsent, missed, leftOut, crossed>>

Misses(m) ==
  /\ open' = open \ {m}
  /\ missed' = missed \cup {m}
  /\ UNCHANGED <<vars, seats, step, unsent, wire, leftOut, crossed>>

Dies(n) ==
  /\ Restart(n)
  /\ seats' = [seats EXCEPT ![n] = [s \in Seat |-> Free]]
  /\ step' = [c \in Call |->
               IF At[c] = n /\ step[c] \in {"asking", "inside", "syncing", "denied"}
                 THEN "crashed" ELSE step[c]]
  /\ open' = {m \in open : At[m[1]] # n}
  /\ UNCHANGED <<unsent, wire, missed, leftOut, crossed>>

\* The steps of a booking in which the service only moves on.
MovesOn(c) ==
  \/ BeginRequest(c) /\ Goes(c, {"start"}, "asking")
  \/ EnterCS(c) /\ Goes(c, {"asking"}, "inside")
  \/ TimeOut(c) /\ Goes(c, {"asking"}, "failed")
  \/ /\ ReleaseCriticalSection(c)
     /\ unsent[c] = <<>> /\ \A m \in open : m[1] # c
     /\ \/ Goes(c, {"syncing"}, "sold")
        \/ Goes(c, {"denied"}, "taken")
  \/ UNCHANGED vars /\ Goes(c, {"start"}, "refused")
  \/ UNCHANGED vars /\ Goes(c, {"inside"}, "denied")

LEMMA ServiceMoves ==
  ASSUME ServiceTypeOK, ServiceAlone
  PROVE  \/ \E c \in Call : MovesOn(c) \/ Sells(c) \/ Sends(c)
         \/ \E m \in wire : Handles(m)
         \/ \E m \in open : Misses(m)
<1> USE DEF serviceVars
<1>1. ASSUME NEW c \in Call, UNCHANGED vars, Service!RefuseSeat(c)
      PROVE  MovesOn(c)
  BY <1>1 DEF Service!RefuseSeat, Service!GoOn, Service!storeVars,
     Service!rpcVars, Service!history, MovesOn, Goes
<1>2. ASSUME NEW c \in Call, UNCHANGED vars, Service!Book(c)
      PROVE  Sells(c)
  BY <1>2 DEF Service!Book, Service!Available, Service!Write,
     Service!StartSync, Service!ToSend, Service!rpcVars, Sells
<1>3. ASSUME NEW c \in Call, UNCHANGED vars, Service!BookTaken(c)
      PROVE  MovesOn(c)
  BY <1>3 DEF Service!BookTaken, Service!GoOn, Service!storeVars,
     Service!rpcVars, Service!history, MovesOn, Goes
<1>4. ASSUME NEW c \in Call, UNCHANGED vars, Service!SendUpdates(c)
      PROVE  Sends(c)
  BY <1>4 DEF Service!SendUpdates, Service!SendTo, Service!storeVars, Sends
<1>5. ASSUME NEW m \in wire, UNCHANGED vars, Service!HandleUpdate(m)
      PROVE  Handles(m)
  BY <1>5 DEF Service!HandleUpdate, Service!Write, Service!Entry,
     Service!opVars, Service!history, ServiceTypeOK, Handles
<1>6. ASSUME NEW m \in open, UNCHANGED vars, Service!UpdateFails(m)
      PROVE  Misses(m)
  BY <1>6 DEF Service!UpdateFails, Service!storeVars, Service!opVars, Misses
<1> QED
  BY <1>1, <1>2, <1>3, <1>4, <1>5, <1>6 DEF ServiceAlone

LEMMA SystemMoves ==
  ASSUME ServiceTypeOK, StepsAgree, [SystemNext]_systemVars
  PROVE  \/ Rests /\ (MutexAlone \/ UNCHANGED vars)
         \/ \E c \in Call : MovesOn(c) \/ Sells(c) \/ Sends(c)
         \/ \E n \in Node : Dies(n)
         \/ \E m \in wire : Handles(m)
         \/ \E m \in open : Misses(m)
<1>1. CASE UNCHANGED systemVars
  BY <1>1 DEF systemVars, Rests
<1>2. CASE MutexAlone
  BY <1>2 DEF MutexAlone, Rests
<1>3. CASE ServiceAlone
  BY <1>3, ServiceMoves
<1>4. ASSUME NEW c \in Call,
             \/ AskForSeat(c) \/ EnterSeat(c) \/ MutexFails(c) \/ LeaveSeat(c)
      PROVE  MovesOn(c)
  <2> USE DEF Service!GoOn, Service!storeVars, Service!rpcVars,
         Service!history, MovesOn, Goes
  <2>1. CASE AskForSeat(c)
    BY <1>4, <2>1 DEF AskForSeat, Service!BeginAsking
  <2>2. CASE EnterSeat(c)
    BY <1>4, <2>2 DEF EnterSeat, Service!BeginInside
  <2>3. CASE MutexFails(c)
    BY <1>4, <2>3 DEF MutexFails, Service!GiveUpAsking
  <2>4. CASE LeaveSeat(c)
    BY <1>4, <2>4 DEF LeaveSeat, Service!FinishInside, Service!Finishing,
       Service!Answered
  <2> QED
    BY <1>4, <2>1, <2>2, <2>3, <2>4
<1>5. ASSUME NEW n \in Node, RestartBoth(n) PROVE Dies(n)
  <2>1. step' = [c \in Call |->
                 IF At[c] = n /\ step[c] \in {"asking", "inside", "syncing",
                                              "denied"}
                   THEN "crashed" ELSE step[c]]
    BY <1>5 DEF RestartBoth, Service!Die, Service!Alive, Service!Op,
       Service!Result, Service!PC, ServiceTypeOK
  <2> QED
    BY <1>5, <2>1 DEF RestartBoth, Service!Die, Service!AllFree, Dies
<1> QED
  BY <1>1, <1>2, <1>3, <1>4, <1>5 DEF SystemNext, Together

\* Every step of the whole is one of the algorithm, or leaves it alone.
LEMMA MutexMoves == [SystemNext]_systemVars => [Next]_vars
<1> SUFFICES ASSUME [SystemNext]_systemVars PROVE Next \/ UNCHANGED vars
  OBVIOUS
<1>1. CASE UNCHANGED systemVars
  BY <1>1 DEF systemVars
<1>2. CASE MutexAlone
  BY <1>2 DEF MutexAlone, Next, NodeStep, CallStep
<1>3. CASE ServiceAlone
  BY <1>3 DEF ServiceAlone
<1>4. CASE Together
  BY <1>4 DEF Together, AskForSeat, EnterSeat, MutexFails, LeaveSeat,
     RestartBoth, Next, NodeStep, CallStep
<1> QED
  BY <1>1, <1>2, <1>3, <1>4 DEF SystemNext
-----------------------------------------------------------------------------
(***************************************************************************)
(* The invariant, conjunct by conjunct.                                    *)
(***************************************************************************)
LEMMA ServiceTypeStep ==
  TypeOK /\ ServiceTypeOK /\ StepsAgree /\ [SystemNext]_systemVars
    => ServiceTypeOK'
<1> SUFFICES ASSUME TypeOK, ServiceTypeOK, StepsAgree, [SystemNext]_systemVars
             PROVE  ServiceTypeOK'
  OBVIOUS
<1> USE PlaceType, PeersAssumption DEF ServiceTypeOK
<1> USE DEF Service!PC, Service!Result
<1>1. CASE Rests
  BY <1>1 DEF Rests, serviceVars
<1>2. ASSUME NEW c \in Call, MovesOn(c) PROVE ServiceTypeOK'
  BY <1>2 DEF MovesOn, Goes
<1>3. ASSUME NEW c \in Call, Sells(c) PROVE ServiceTypeOK'
  BY <1>3 DEF Sells
<1>4. ASSUME NEW c \in Call, Sends(c) PROVE ServiceTypeOK'
  <2>1. Head(unsent[c]) \in Seat /\ Tail(unsent[c]) \in Seq(Seat)
    BY <1>4 DEF Sends
  <2>2. peerClients[At[c]] \subseteq Node
    BY DEF TypeOK, NodeTypeOK
  <2> QED
    BY <1>4, <2>1, <2>2 DEF Sends
<1>5. ASSUME NEW n \in Node, Dies(n) PROVE ServiceTypeOK'
  BY <1>5 DEF Dies
<1>6. ASSUME NEW m \in wire, Handles(m) PROVE ServiceTypeOK'
  BY <1>6 DEF Handles
<1>7. ASSUME NEW m \in open, Misses(m) PROVE ServiceTypeOK'
  BY <1>7 DEF Misses
<1> QED
  BY <1>1, <1>2, <1>3, <1>4, <1>5, <1>6, <1>7, SystemMoves

\* By itself the mutex moves a call only when it announces it.
LEMMA MutexAlonePc == MutexAlone => pc' = pc \/ \E c \in Call : Announce(c)
<1> SUFFICES ASSUME MutexAlone, ~ \E c \in Call : Announce(c)
             PROVE  pc' = pc
  OBVIOUS
<1>1. ASSUME NEW n \in Node, NEW p \in Node, OtherEvent(n) \/ Connect(n, p)
      PROVE  pc' = pc
  BY <1>1 DEF OtherEvent, Connect, callVars
<1>2. ASSUME NEW c \in Call, NEW p \in Node, HandlerStep(c, p)
      PROVE  pc' = pc
  BY <1>2 DEF HandlerStep, ReceiveRequest, GrantRequest, DeferRequest, callVars
<1>3. ASSUME NEW c \in Call, NEW p \in Node, GoroutineStep(c, p)
      PROVE  pc' = pc
  BY <1>3 DEF GoroutineStep, SendRequest, CountGrant, CountFailure, Poll,
     GiveUpPolling, CountReply, callVars
<1> QED
  BY <1>1, <1>2, <1>3 DEF MutexAlone

LEMMA StepsAgreeStep ==
  TypeOK /\ ServiceTypeOK /\ StepsAgree /\ [SystemNext]_systemVars
    => StepsAgree'
<1> SUFFICES ASSUME TypeOK, ServiceTypeOK, StepsAgree,
                    [SystemNext]_systemVars
             PROVE  StepsAgree'
  OBVIOUS
<1>0. pc \in [Call -> PC] /\ step \in [Call -> Service!PC]
  BY DEF TypeOK, CallTypeOK, ServiceTypeOK
<1> USE DEF StepsAgree
<1>1. ASSUME Rests, MutexAlone PROVE StepsAgree'
  <2>1. pc' = pc \/ \E c \in Call : Announce(c)
    BY <1>1, MutexAlonePc
  <2>2. ASSUME NEW c \in Call, Announce(c) PROVE StepsAgree'
    BY <1>0, <1>1, <2>2 DEF Rests, serviceVars, Announce
  <2> QED
    BY <1>1, <2>1, <2>2 DEF Rests, serviceVars
<1>2. ASSUME NEW c \in Call, MovesOn(c) PROVE StepsAgree'
  BY <1>0, <1>2 DEF MovesOn, Goes, BeginRequest, EnterCS, TimeOut,
     ReleaseCriticalSection, vars, callVars
<1>3. ASSUME NEW c \in Call, Sells(c) PROVE StepsAgree'
  BY <1>0, <1>3 DEF Sells, vars, callVars
<1>4. ASSUME NEW n \in Node, Dies(n) PROVE StepsAgree'
  <2>1. pc' = [c \in Call |->
               IF At[c] = n /\ Active(c) THEN "crashed" ELSE pc[c]]
    BY <1>4 DEF Dies, Restart
  <2> QED
    BY <1>0, <1>4, <2>1 DEF Dies, Active
<1>5. ASSUME UNCHANGED <<vars, step>> PROVE StepsAgree'
  BY <1>5 DEF vars, callVars
<1> QED
  BY <1>1, <1>2, <1>3, <1>4, <1>5, SystemMoves
     DEF Rests, serviceVars, Sends, Handles, Misses

\* What has gone wrong stays on the record.
LEMMA HistoryGrows ==
  ASSUME TypeOK, ServiceTypeOK, StepsAgree, [SystemNext]_systemVars
  PROVE  /\ crowded \subseteq crowded' /\ reborn \subseteq reborn'
         /\ missed \subseteq missed'
         /\ \A c, d \in Call : Excused(c, d) => Excused(c, d)'
<1>1. crowded \subseteq crowded' /\ reborn \subseteq reborn'
  BY MutexMoves, CrowdedGrows, ImplicitGrows
<1>2. missed \subseteq missed'
  BY SystemMoves DEF Rests, serviceVars, MovesOn, Goes, Sells, Sends, Dies, Handles, Misses
<1>3. \A c, d \in Call : Excused(c, d) => Excused(c, d)'
  BY <1>1, MutexMoves, ImplicitGrows, OvertakenGrows DEF Excused
<1> QED
  BY <1>1, <1>2, <1>3

\* Only Store.Book makes a booking a sale.
LEMMA SoldBy ==
  ASSUME ServiceTypeOK, StepsAgree, [SystemNext]_systemVars,
         NEW c \in Call, Service!Booked(c)', ~ Service!Booked(c)
  PROVE  Sells(c)
<1>0. step \in [Call -> Service!PC]
  BY DEF ServiceTypeOK
<1> USE DEF Service!Booked
<1>1. ASSUME NEW d \in Call, MovesOn(d) PROVE FALSE
  BY <1>0, <1>1 DEF MovesOn, Goes
<1>2. ASSUME NEW d \in Call, Sells(d) PROVE Sells(c)
  BY <1>0, <1>2 DEF Sells
<1>3. ASSUME NEW n \in Node, Dies(n) PROVE FALSE
  BY <1>0, <1>3 DEF Dies
<1> QED
  BY <1>1, <1>2, <1>3, SystemMoves DEF Rests, serviceVars, Sends, Handles, Misses

\* Nobody takes a seat back: an entry is lost with the memory of its node only.
LEMMA SeatStays ==
  ASSUME ServiceTypeOK, StepsAgree, [SystemNext]_systemVars,
         NEW n \in Node, NEW s \in Seat,
         n \notin reborn', seats[n][s] # Free
  PROVE  seats'[n][s] # Free
<1>0. seats \in [Node -> [Seat -> Call \cup {Free}]]
  BY DEF ServiceTypeOK
<1>1. ASSUME NEW c \in Call, Sells(c) PROVE seats'[n][s] # Free
  BY <1>0, <1>1, FreeAssumption DEF Sells
<1>2. ASSUME NEW m \in wire, Handles(m) PROVE seats'[n][s] # Free
  BY <1>0, <1>2, FreeAssumption DEF Handles, ServiceTypeOK
<1>3. ASSUME NEW p \in Node, Dies(p) PROVE seats'[n][s] # Free
  BY <1>0, <1>3 DEF Dies, Restart
<1> QED
  BY <1>1, <1>2, <1>3, SystemMoves DEF Rests, serviceVars, MovesOn, Goes, Sends, Misses

LEMMA KnownAtHomeStep ==
  ServiceTypeOK /\ StepsAgree /\ TypeOK /\ KnownAtHome
    /\ [SystemNext]_systemVars => KnownAtHome'
<1> SUFFICES ASSUME ServiceTypeOK, StepsAgree, TypeOK, KnownAtHome,
                    [SystemNext]_systemVars,
                    NEW c \in Call, Service!Booked(c)', At[c] \notin reborn'
             PROVE  seats'[At[c]][On[c]] # Free
  BY DEF KnownAtHome
<1>1. CASE Service!Booked(c)
  BY <1>1, HistoryGrows, SeatStays, PlaceType DEF KnownAtHome
<1>2. CASE Sells(c)
  BY <1>2, PlaceType, FreeAssumption DEF Sells, ServiceTypeOK
<1> QED
  BY <1>1, <1>2, SoldBy

LEMMA KnownElsewhereStep ==
  SystemInv /\ [SystemNext]_systemVars => KnownElsewhere'
<1> SUFFICES ASSUME SystemInv, [SystemNext]_systemVars,
                    NEW c \in Call, NEW p \in Node, MustHear(c, p)',
                    seats'[p][On[c]] = Free
             PROVE  /\ step'[c] = "syncing"
                    /\ unsent'[c] = <<On[c]>> \/ <<c, p, On[c]>> \in open'
  BY DEF KnownElsewhere
<1>0. /\ TypeOK /\ ServiceTypeOK /\ StepsAgree /\ KnownElsewhere
      /\ LinkedInside /\ On[c] \in Seat
      /\ step \in [Call -> Service!PC] /\ unsent \in [Call -> Seq(Seat)]
  BY LinkedWhenInside, PlaceType DEF SystemInv, Inductive, ServiceTypeOK
<1> DEFINE m0 == <<c, p, On[c]>>
<1>1. CASE Sells(c)
  BY <1>0, <1>1 DEF Sells
<1>2. CASE ~ Sells(c)
  <2>1. Service!Booked(c)
    BY <1>0, <1>2, SoldBy DEF MustHear
  <2>2. MustHear(c, p)
    BY <1>0, <2>1, HistoryGrows DEF MustHear
  <2>3. seats[p][On[c]] = Free
    BY <1>0, SeatStays DEF MustHear
  <2>4. step[c] = "syncing" /\ (unsent[c] = <<On[c]>> \/ m0 \in open)
    BY <1>0, <2>2, <2>3 DEF KnownElsewhere
  <2>5. ASSUME NEW d \in Call, MovesOn(d)
        PROVE  UNCHANGED <<step[c], unsent, open>>
    <3>1. ~ (unsent[c] = <<>> /\ \A m \in open : m[1] # c)
      BY <2>4
    <3>2. CASE d = c
      BY <1>0, <2>4, <2>5, <3>1, <3>2 DEF MovesOn, Goes
    <3>3. CASE d # c
      BY <1>0, <2>5, <3>3 DEF MovesOn, Goes
    <3> QED
      BY <3>2, <3>3
  <2>6. ASSUME NEW d \in Call, Sells(d)
        PROVE  UNCHANGED <<step[c], unsent[c], open>>
    BY <1>0, <2>4, <2>6 DEF Sells
  <2>7. ASSUME NEW d \in Call, Sends(d)
        PROVE  step'[c] = "syncing" /\ (unsent'[c] = <<On[c]>> \/ m0 \in open')
    <3>1. CASE d # c \/ m0 \in open
      BY <1>0, <2>4, <2>7, <3>1 DEF Sends
    <3>2. CASE d = c /\ unsent[c] = <<On[c]>>
      <4>1. p \in peerClients[At[c]]
        BY <1>0, <2>2, <2>4 DEF StepsAgree, LinkedInside, MustHear
      <4>2. Head(unsent[c]) = On[c]
        BY <1>0, <3>2
      <4> QED
        BY <2>4, <2>7, <3>2, <4>1, <4>2 DEF Sends
    <3> QED
      BY <2>4, <3>1, <3>2
  <2>8. ASSUME NEW n \in Node, Dies(n)
        PROVE  step'[c] = "syncing" /\ unsent' = unsent /\ (m0 \in open => m0 \in open')
    <3>1. n # At[c]
      BY <2>8 DEF MustHear, Dies, Restart
    <3> QED
      BY <1>0, <2>4, <2>8, <3>1 DEF Dies
  <2>9. ASSUME NEW m \in wire, Handles(m)
        PROVE  UNCHANGED <<step, unsent>> /\ (m0 \in open => m0 \in open')
    <3>1. m # m0
      BY <1>0, <2>9, FreeAssumption DEF Handles, ServiceTypeOK
    <3> QED
      BY <2>9, <3>1 DEF Handles
  <2>10. ASSUME NEW m \in open, Misses(m)
         PROVE  UNCHANGED <<step, unsent>> /\ (m0 \in open => m0 \in open')
    <3>1. m # m0
      BY <2>10 DEF Misses, MustHear
    <3> QED
      BY <2>10, <3>1 DEF Misses
  <2> QED
    BY <1>0, <2>4, <2>5, <2>6, <2>7, <2>8, <2>9, <2>10, SystemMoves DEF Rests, serviceVars
<1> QED
  BY <1>1, <1>2

LEMMA SoldTwiceStep ==
  SystemInv /\ [SystemNext]_systemVars => SoldTwiceOnlyThroughHole'
<1>1. ASSUME SystemInv, [SystemNext]_systemVars,
             NEW c \in Call, NEW d \in Call, c # d, On[c] = On[d],
             Sells(c), Service!Booked(d)
      PROVE  \/ Excused(c, d) \/ Excused(d, c) \/ Missed(d, c)
             \/ {At[c], At[d]} \cap reborn # {}
  <2>0. /\ StepsAgree /\ KnownAtHome /\ KnownElsewhere
        /\ ExclusionUnlessExcused
        /\ At[c] \in Node /\ At[d] \in Node
    BY <1>1, InductiveExclusion, PlaceType DEF SystemInv
  <2>1. seats[At[c]][On[d]] = Free /\ pc[c] = "cs"
    BY <1>1, <2>0 DEF Sells, StepsAgree
  <2>2. CASE At[c] = At[d]
    BY <1>1, <2>0, <2>1, <2>2 DEF KnownAtHome
  <2>3. CASE At[c] # At[d]
    <3>1. Rivals(c, d)
      BY <1>1, <2>0, <2>3, MeshAssumption DEF Rivals
    <3>2. CASE MustHear(d, At[c])
      <4>1. pc[d] = "cs"
        BY <2>0, <2>1, <3>2 DEF KnownElsewhere, StepsAgree
      <4> QED
        BY <1>1, <2>0, <2>1, <3>1, <4>1 DEF ExclusionUnlessExcused
    <3>3. CASE ~ MustHear(d, At[c])
      BY <1>1, <3>1, <3>3 DEF MustHear, Rivals, Excused, Missed
    <3> QED
      BY <3>2, <3>3
  <2> QED
    BY <2>2, <2>3
<1> SUFFICES ASSUME SystemInv, [SystemNext]_systemVars,
                    NEW c \in Call, NEW d \in Call, c # d, On[c] = On[d],
                    Service!Booked(c)', Service!Booked(d)'
             PROVE  (\/ Excused(c, d) \/ Excused(d, c)
                     \/ Missed(c, d) \/ Missed(d, c)
                     \/ {At[c], At[d]} \cap reborn # {})'
  BY DEF SoldTwiceOnlyThroughHole
<1>2. \/ Excused(c, d) \/ Excused(d, c)
      \/ Missed(c, d) \/ Missed(d, c)
      \/ {At[c], At[d]} \cap reborn # {}
  <2>0. ServiceTypeOK /\ StepsAgree
    BY DEF SystemInv
  <2>1. CASE Service!Booked(c) /\ Service!Booked(d)
    BY <2>1 DEF SystemInv, SoldTwiceOnlyThroughHole
  <2>2. CASE ~ Service!Booked(c)
    <3>1. Sells(c)
      BY <2>0, <2>2, SoldBy
    <3>2. Service!Booked(d)
      BY <2>0, <3>1 DEF Sells, Service!Booked, ServiceTypeOK
    <3> QED
      BY <1>1, <3>1, <3>2
  <2>3. CASE ~ Service!Booked(d)
    <3>1. Sells(d)
      BY <2>0, <2>3, SoldBy
    <3>2. Service!Booked(c)
      BY <2>0, <3>1 DEF Sells, Service!Booked, ServiceTypeOK
    <3> QED
      BY <1>1, <3>1, <3>2
  <2> QED
    BY <2>1, <2>2, <2>3
<1>3. TypeOK /\ ServiceTypeOK /\ StepsAgree
  BY DEF SystemInv, Inductive
<1> QED
  BY <1>2, <1>3, HistoryGrows DEF Missed
-----------------------------------------------------------------------------
(***************************************************************************)
(* The theorems.                                                           *)
(***************************************************************************)
LEMMA SystemInvInit == SystemInit => SystemInv
<1> SUFFICES ASSUME SystemInit PROVE SystemInv
  OBVIOUS
<1>1. Inductive /\ AskedAreLinked
  BY InductiveInit DEF SystemInit, Init, AskedAreLinked
<1>2. ServiceTypeOK /\ StepsAgree
  BY DEF SystemInit, Init, ServiceTypeOK, StepsAgree, Service!PC
<1>3. \A c \in Call : ~ Service!Booked(c)
  BY DEF SystemInit, Service!Booked
<1> QED
  BY <1>1, <1>2, <1>3 DEF SystemInv, KnownAtHome, KnownElsewhere, MustHear,
     SoldTwiceOnlyThroughHole

LEMMA SystemInvStep == SystemInv /\ [SystemNext]_systemVars => SystemInv'
<1> SUFFICES ASSUME SystemInv, [SystemNext]_systemVars PROVE SystemInv'
  OBVIOUS
<1>1. /\ Inductive /\ TypeOK /\ NotYetSent /\ AskedAreLinked
      /\ ServiceTypeOK /\ StepsAgree /\ KnownAtHome
  BY DEF SystemInv, Inductive
<1>2. Inductive' /\ AskedAreLinked'
  BY <1>1, MutexMoves, InductiveStep, AskedAreLinkedStep
<1> QED
  BY <1>1, <1>2, ServiceTypeStep, StepsAgreeStep, KnownAtHomeStep,
     KnownElsewhereStep, SoldTwiceStep DEF SystemInv

LEMMA SystemInvAlways == SystemSpec => []SystemInv
  BY SystemInvInit, SystemInvStep, PTL DEF SystemSpec

\* Two bookings sell one seat only through a hole of the algorithm, an update
\* that failed, or a table that was lost.
THEOREM TwoSalesTakeAHole == SystemSpec => []SoldTwiceOnlyThroughHole
<1>1. SystemInv => SoldTwiceOnlyThroughHole
  BY DEF SystemInv
<1> QED
  BY <1>1, SystemInvAlways, PTL

\* What Booking asks of its lock in every step.
LEMMA LockPart ==
  ASSUME TypeOK, [Next]_vars
  PROVE  Service!LockKeeps /\ Service!Lose
<1>1. lost \subseteq lost' /\ lost \subseteq Call \X Call
  BY LostGrows DEF lost
<1>2. lost' \in SUBSET (Call \X Call) /\ lost' = lost \cup lost'
  BY <1>1 DEF lost
<1> QED
  BY <1>1, <1>2 DEF Service!LockKeeps, Service!Lose

LEMMA SameLock == UNCHANGED vars => UNCHANGED <<phase, lost>>
<1>1. ASSUME UNCHANGED vars PROVE UNCHANGED phase
  BY <1>1 DEF vars, callVars, phase
<1>2. ASSUME UNCHANGED vars PROVE UNCHANGED lost
  BY <1>2 DEF vars, history, lost, Excused
<1> QED
  BY <1>1, <1>2

\* A step of the mutex alone is a stub made, or a step of the lock that may
\* lose exclusion.
LEMMA RefinesMutexAlone ==
  ASSUME TypeOK, MutexAlone PROVE Service!Next
<1>1. phase' = phase
  <2>1. ASSUME NEW c \in Call, Announce(c) PROVE phase' = phase
    BY <2>1 DEF TypeOK, CallTypeOK, Announce, phase
  <2>2. ASSUME pc' = pc PROVE phase' = phase
    BY <2>2 DEF phase
  <2> QED
    BY <2>1, <2>2, MutexAlonePc
<1>2. ASSUME NEW n \in Node, NEW p \in Node, Connect(n, p) PROVE Service!Next
  <2>1. UNCHANGED lost
    BY <1>2 DEF Connect, history, lost, Excused
  <2> QED
    BY <1>1, <1>2, <2>1 DEF MutexAlone, serviceVars, Connect, history, Service!Connect,
       Service!Next, Service!opVars, Service!rpcVars, Service!history,
       Service!lockVars
<1>3. ASSUME UNCHANGED peerClients, UNCHANGED reborn PROVE Service!Next
  <2>1. [Next]_vars
    BY DEF MutexAlone, Next, NodeStep, CallStep
  <2>2. phase = [c \in Call |-> phase[c]]
    BY DEF phase
  <2>3. Service!Leave({})
    BY <1>1, <2>1, <2>2, LockPart DEF Service!Leave
  <2> QED
    BY <1>3, <2>1, <2>3, LockPart DEF MutexAlone, serviceVars,
       Service!LoseExclusion, Service!Next, Service!storeVars, Service!opVars,
       Service!rpcVars, Service!history
<1>4. \/ UNCHANGED <<peerClients, reborn>>
      \/ \E n, p \in Node : Connect(n, p)
  <2>1. ASSUME NEW n \in Node, OtherEvent(n)
        PROVE  UNCHANGED <<peerClients, reborn>>
    BY <2>1 DEF OtherEvent, history
  <2>2. ASSUME NEW c \in Call, Announce(c)
        PROVE  UNCHANGED <<peerClients, reborn>>
    BY <2>2 DEF Announce, nodeVars, history
  <2>3. ASSUME NEW c \in Call, NEW p \in Node, HandlerStep(c, p)
        PROVE  UNCHANGED <<peerClients, reborn>>
    BY <2>3 DEF HandlerStep, ReceiveRequest, GrantRequest, DeferRequest,
       nodeVars, history
  <2>4. ASSUME NEW c \in Call, NEW p \in Node, GoroutineStep(c, p)
        PROVE  UNCHANGED <<peerClients, reborn>>
    BY <2>4 DEF GoroutineStep, SendRequest, CountGrant, CountFailure, Poll,
       GiveUpPolling, CountReply, nodeVars, history
  <2> QED
    BY <2>1, <2>2, <2>3, <2>4 DEF MutexAlone
<1> QED
  BY <1>2, <1>3, <1>4

LEMMA RefinesServiceAlone ==
  ASSUME ServiceAlone PROVE Service!Next
  BY DEF ServiceAlone, Service!Next, Service!BookSeat, Service!Op

\* Of two bookings for one seat on two nodes the second enters with the lock of
\* the first only when the algorithm has lost their exclusion.
LEMMA RefinesEnter ==
  ASSUME Inductive, NEW c \in Call, EnterSeat(c) PROVE Service!Next
<1>0. TypeOK /\ pc \in [Call -> PC] /\ At \in [Call -> Node]
  BY CallAssumption DEF Inductive, TypeOK, CallTypeOK
<1>1. [Next]_vars
  BY DEF EnterSeat, Next, CallStep
<1>2. phase[c] = "asking" /\ phase' = [phase EXCEPT ![c] = "inside"]
  BY <1>0 DEF EnterSeat, EnterCS, phase
<1>3. ASSUME NEW d \in Call \ {c}, phase[d] = "inside",
             At[c] # At[d], On[c] = On[d]
      PROVE  <<c, d>> \in lost
  <2>1. pc'[c] = "cs" /\ pc'[d] = "cs" /\ Rivals(c, d)
    BY <1>0, <1>3, MeshAssumption DEF EnterSeat, EnterCS, phase, Rivals
  <2>2. ExclusionUnlessExcused'
    BY <1>1, InductiveStep, InductiveExclusion, PTL
  <2>3. Excused(c, d)' \/ Excused(d, c)'
    BY <1>3, <2>1, <2>2 DEF ExclusionUnlessExcused, Rivals
  <2>4. <<c, d>> \in lost
    BY <1>3, <2>3 DEF EnterSeat, EnterCS, history, Excused, lost
  <2> QED
    BY <2>4
<1>4. Service!Enter(c)
  BY <1>0, <1>1, <1>2, <1>3, LockPart DEF Service!Enter, Service!Inside
<1> QED
  BY <1>0, <1>1, <1>4, LockPart DEF EnterSeat, Service!EnterSeat,
     Service!BookSeat, Service!Next

\* The other steps the service and the mutex take together.
LEMMA RefinesTogether ==
  ASSUME Inductive, ServiceTypeOK, StepsAgree, Together PROVE Service!Next
<1>0. /\ TypeOK /\ pc \in [Call -> PC] /\ step \in [Call -> Service!PC]
      /\ phase = [c \in Call |-> phase[c]]
  BY DEF Inductive, TypeOK, CallTypeOK, ServiceTypeOK, phase
<1>1. Service!LockKeeps /\ Service!Lose
  <2>1. [Next]_vars
    BY DEF Together, AskForSeat, EnterSeat, MutexFails, LeaveSeat, RestartBoth,
       Next, NodeStep, CallStep
  <2> QED
    BY <1>0, <2>1, LockPart
<1>2. ASSUME NEW c \in Call, AskForSeat(c) PROVE Service!Next
  <2>1. phase[c] = "idle" /\ phase' = [phase EXCEPT ![c] = "asking"]
    BY <1>0, <1>2 DEF AskForSeat, BeginRequest, phase
  <2> QED
    BY <1>1, <1>2, <2>1 DEF AskForSeat, Service!AskForSeat, Service!Ask,
       Service!BookSeat, Service!Next
<1>3. ASSUME NEW c \in Call, MutexFails(c) PROVE Service!Next
  <2>1. phase[c] = "asking" /\ phase' = [phase EXCEPT ![c] = "out"]
    BY <1>0, <1>3 DEF MutexFails, TimeOut, phase
  <2>2. Service!Leave({c})
    BY <1>0, <1>1, <2>1 DEF Service!Leave
  <2> QED
    BY <1>1, <1>3, <2>2 DEF MutexFails, Service!MutexFails, Service!BookSeat,
       Service!Next
<1>4. ASSUME NEW c \in Call, LeaveSeat(c) PROVE Service!Next
  <2>1. phase[c] = "inside" /\ phase' = [phase EXCEPT ![c] = "out"]
    BY <1>0, <1>4 DEF LeaveSeat, ReleaseCriticalSection, phase
  <2>2. Service!Leave({c})
    BY <1>0, <1>1, <2>1 DEF Service!Leave
  <2> QED
    BY <1>1, <1>4, <2>2 DEF LeaveSeat, Service!LeaveSeat, Service!BookSeat,
       Service!Next
<1>5. ASSUME NEW n \in Node, RestartBoth(n) PROVE Service!Next
  <2> DEFINE C == {c \in Call : At[c] = n /\ Active(c)}
  <2>1. C = Service!Alive(n) \cap Call
    BY <1>0 DEF StepsAgree, Active, Service!Alive, Service!Op, Service!PC,
       Service!Result
  <2>2. \A c \in C : phase[c] \in {"asking", "inside"}
    BY <1>0 DEF phase, Active
  <2>3. phase' = [c \in Call |-> IF c \in C THEN "out" ELSE phase[c]]
    BY <1>0, <1>5 DEF RestartBoth, Restart, phase
  <2>4. Service!Leave(C)
    BY <1>1, <2>2, <2>3 DEF Service!Leave
  <2> QED
    BY <1>1, <1>5, <2>1, <2>4 DEF RestartBoth, Service!Restart, Service!Next
<1> QED
  BY <1>2, <1>3, <1>4, <1>5, RefinesEnter DEF Together

LEMMA ServiceStep ==
  SystemInv /\ [SystemNext]_systemVars => [Service!Next]_(Service!vars)
<1> SUFFICES ASSUME SystemInv, [SystemNext]_systemVars
             PROVE  Service!Next \/ UNCHANGED Service!vars
  OBVIOUS
<1>1. Inductive /\ TypeOK /\ ServiceTypeOK /\ StepsAgree
  BY DEF SystemInv, Inductive
<1>2. CASE UNCHANGED systemVars
  <2>1. UNCHANGED <<vars, serviceVars>> /\ UNCHANGED <<phase, lost>>
    BY <1>2, SameLock DEF systemVars
  <2> QED
    BY <2>1 DEF vars, nodeVars, history, serviceVars, Service!vars,
       Service!storeVars, Service!opVars, Service!rpcVars, Service!history,
       Service!lockVars
<1> QED
  BY <1>1, <1>2, RefinesMutexAlone, RefinesServiceAlone, RefinesTogether
     DEF SystemNext

\* The service over the algorithm behaves as Booking does over a lock that may
\* fail: whatever is shown of Booking with such a lock holds of the whole.
THEOREM ServiceImplementsBooking == SystemSpec => ImplementsBooking
<1>1. SystemInit => Service!Init
  BY DEF SystemInit, Init, Service!Init, Service!AllFree, Service!Op,
     Service!LockInit, phase, lost, Excused
<1> QED
  BY <1>1, SystemInvAlways, ServiceStep, PTL
     DEF SystemSpec, ImplementsBooking, Service!Spec
==============================================================================
