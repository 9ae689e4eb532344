------------------------------ MODULE Booking ------------------------------
(***************************************************************************)
(* Selling seats: internal/booking/service.go and internal/seats/store.go. *)
(*                                                                         *)
(* Every node has its own copy of the seat table.  A booking checks its    *)
(* copy, takes the lock of the seat, checks again and writes under the     *)
(* store's mutex, sends the new entry to every peer and waits for the      *)
(* answers, and only then gives the lock up.  Releasing one seat and       *)
(* resetting all of them write and send the same way, without the lock.    *)
(*                                                                         *)
(* The lock is the abstract one of SeatLock, which RicartAgrawala is       *)
(* proved to implement; Losses says which pairs of bookings may lose their *)
(* exclusion.                                                              *)
(***************************************************************************)
EXTENDS Naturals, Sequences, FiniteSets, SeatLock

CONSTANTS
  Node,
  Peers,        \* Peers[n]: the nodes in n's configuration file
  Linked,       \* Linked[n]: peers whose stubs exist when the behaviour begins
  Seat,         \* the seats of the store
  SeatOrder,    \* Store.order, the seats in the order GetAllSeats lists them
  Admin,        \* executions of ReleaseSeat and ResetSeats
  Kind,         \* Kind[a]: "release" or "reset"
  At,           \* the node that executes a booking or an Admin operation
  On,           \* the seat of a booking or of a release
  Free,         \* the entry of an available seat; a booked one names its booking
  Losses,       \* the sets of pairs whose exclusion the lock may lose in a step
  RpcMayFail,   \* whether SyncSeat may end in an error or its deadline
  MayRestart    \* nodes whose process may be killed and started again, once

\* The operations of the service; Call, of SeatLock, are the bookings.
Op == Call \cup Admin

ASSUME OpAssumption ==
  /\ Call \cap Admin = {}
  /\ Free \notin Call
  /\ At \in [Op -> Node]
  /\ DOMAIN On = Op
  /\ Kind \in [Admin -> {"release", "reset"}]
ASSUME ConflictIsOfNodes ==
  Conflict = {pair \in Call \X Call : /\ At[pair[1]] # At[pair[2]]
                                      /\ On[pair[1]] = On[pair[2]]}
ASSUME SeatAssumption ==
  /\ IsFiniteSet(Seat)
  /\ SeatOrder \in [1..Cardinality(Seat) -> Seat]
  /\ \A s \in Seat : \E i \in DOMAIN SeatOrder : SeatOrder[i] = s
ASSUME LinkAssumption ==
  /\ Peers \in [Node -> SUBSET Node]
  /\ Linked \in [Node -> SUBSET Node]
  /\ \A n \in Node : n \notin Peers[n] /\ Linked[n] \subseteq Peers[n]
ASSUME FaultAssumption ==
  /\ Losses \subseteq SUBSET (Call \X Call)
  /\ RpcMayFail \in BOOLEAN
  /\ MayRestart \subseteq Node
  /\ MayRestart # {} => RpcMayFail   \* a restart breaks the RPCs under way

VARIABLES
  seats,        \* seats[n][s]: Free, or the booking the seat is booked by
  peerClients,  \* hub.peerClients: the peers a stub exists for
  pc,           \* where each operation is, and at last its result
  unsent,       \* the seats the operation has yet to send
  wire,         \* <<o, p, s>>: o's update of s for p, sent and not handled
  open,         \* <<o, p, s>>: RPCs whose answer o waits for
  (* History: what has gone wrong, for the properties to name.           *)
  missed,       \* <<o, p, s>>: updates whose RPC ended without an answer
  leftOut,      \* <<o, p, s>>: updates that p had no stub to be sent over
  crossed,      \* seats that two operations have been sending at once
  reborn        \* the nodes that have restarted

storeVars == <<seats, peerClients>>
opVars == <<pc, unsent>>
rpcVars == <<wire, open>>
history == <<missed, leftOut, crossed, reborn>>
vars == <<storeVars, opVars, rpcVars, history, lockVars>>

Result == {"sold", "taken", "refused", "failed", "done", "crashed"}
PC == {"start", "asking", "inside", "syncing", "denied"} \cup Result

\* The updates there can be: no node sends one to itself or to a stranger.
Update == {m \in Op \X Node \X Seat : m[2] \in Peers[At[m[1]]]}

\* Broken: an update always says that the seat is free.
EntryOfRelease(o) == Free

\* The entry the updates of an operation carry.
Entry(o) == IF o \in Call THEN o ELSE Free

\* Broken: only a release and a reset are sent to the peers.
ToSendByAdmin(o) ==
  IF o \in Call THEN <<>> ELSE IF Kind[o] = "reset" THEN SeatOrder ELSE <<On[o]>>

\* The seats an operation sends: its own, or all of them one after the other.
ToSend(o) ==
  IF o \in Admin /\ Kind[o] = "reset" THEN SeatOrder ELSE <<On[o]>>

\* Broken: the node itself is among those it sends to.
SendToAll(o) == Node

\* Whom an operation sends to: every peer with a stub, offline or not.
SendTo(o) == peerClients[At[o]]

\* Broken: nobody waits for the answers.
NeedNoAnswer(o) == TRUE

\* The seats whose entries an operation changes: its own, or all of them.
Concerns(o, s) == IF o \in Admin /\ Kind[o] = "reset" THEN s \in Seat ELSE s = On[o]

Syncing(o, s) == pc[o] = "syncing" /\ Concerns(o, s)

\* wg.Wait() has returned.
Answered(o) == \A m \in open : m[1] # o

\* Broken: Book does not look at the status of the seat.
AvailableIfKnown(n, s) == s \in Seat

\* Broken: a seat another booking of the node is waiting for is not available.
AvailableUnlessAsked(n, s) ==
  /\ s \in Seat /\ seats[n][s] = Free
  /\ \A c \in Call : At[c] = n /\ On[c] = s => pc[c] # "asking"

\* IsAvailable, and the test of Book: an unknown seat is not available.
Available(n, s) == s \in Seat /\ seats[n][s] = Free

\* Store.Book, Store.Release and ForceUpdate write one entry, Store.Reset all.
Write(n, s, entry) == seats' = [seats EXCEPT ![n][s] = entry]
AllFree == [s \in Seat |-> Free]

\* Broken: a booking that failed keeps the lock.
FinishingSold == {"syncing"}

\* Where BookSeat gives the lock up.
Finishing == {"syncing", "denied"}

\* Operations of n whose goroutine is alive.
Alive(n) == {o \in Op : At[o] = n /\ pc[o] \notin Result \cup {"start"}}

\* The lock keeps the exclusion of every pair but those it may lose.
LockKeeps == \E L \in Losses \cup {{}} : lost' = lost \cup L

Init ==
  /\ seats = [n \in Node |-> AllFree]
  /\ peerClients = Linked
  /\ pc = [o \in Op |-> "start"]
  /\ unsent = [o \in Op |-> <<>>]
  /\ wire = {}
  /\ open = {}
  /\ missed = {}
  /\ leftOut = {}
  /\ crossed = {}
  /\ reborn = {}
  /\ LockInit
-----------------------------------------------------------------------------
(***************************************************************************)
(* BookSeat.  Where it uses the lock an action has two parts: what the     *)
(* service does, and the step of the lock it depends on.                   *)
(***************************************************************************)

\* The operation goes on; nothing else of the service changes.
GoOn(o, to) ==
  /\ pc' = [pc EXCEPT ![o] = to]
  /\ UNCHANGED <<storeVars, unsent, rpcVars, history>>

\* SeatExists or the quick check fails: the seat is refused without the lock.
RefuseSeat(c) ==
  /\ pc[c] = "start"
  /\ ~ Available(At[c], On[c])
  /\ GoOn(c, "refused")
  /\ UNCHANGED lockVars

\* The quick check succeeds and RequestCriticalSection begins.
BeginAsking(c) ==
  /\ pc[c] = "start"
  /\ Available(At[c], On[c])
  /\ GoOn(c, "asking")

AskForSeat(c) == BeginAsking(c) /\ LockKeeps /\ Ask(c)

\* RequestCriticalSection returns nil.  The service asks nothing about the stubs
\* of its node; two bookings that share their count may enter without one.
BeginInside(c) == pc[c] = "asking" /\ GoOn(c, "inside")

EnterSeat(c) == BeginInside(c) /\ LockKeeps /\ Enter(c)

\* RequestCriticalSection returns an error.
GiveUpAsking(c) == pc[c] = "asking" /\ GoOn(c, "failed")

MutexFails(c) == GiveUpAsking(c) /\ LockKeeps /\ Leave({c})

\* syncSeatToAllPeers begins, after the table of the node has been written.
StartSync(o) ==
  /\ pc' = [pc EXCEPT ![o] = "syncing"]
  /\ unsent' = [unsent EXCEPT ![o] = ToSend(o)]
  /\ crossed' = crossed \cup {s \in Seat : /\ Concerns(o, s)
                                           /\ \E q \in Op : Syncing(q, s)}
  /\ UNCHANGED <<peerClients, rpcVars, missed, leftOut, reborn, lockVars>>

\* Store.Book succeeds.
Book(c) ==
  /\ pc[c] = "inside"
  /\ Available(At[c], On[c])
  /\ Write(At[c], On[c], c)
  /\ StartSync(c)

\* Store.Book fails: the seat went while the booking waited for the lock.
BookTaken(c) ==
  /\ pc[c] = "inside"
  /\ ~ Available(At[c], On[c])
  /\ GoOn(c, "denied")
  /\ UNCHANGED lockVars

\* ReleaseCriticalSection, and the result of the booking.
FinishInside(c) ==
  /\ pc[c] \in Finishing
  /\ unsent[c] = <<>>
  /\ Answered(c)
  /\ GoOn(c, IF pc[c] = "syncing" THEN "sold" ELSE "taken")

LeaveSeat(c) == FinishInside(c) /\ LockKeeps /\ Leave({c})

\* The lock loses pairs in a step of its own.
LoseExclusion ==
  /\ LockKeeps
  /\ Leave({})
  /\ UNCHANGED <<storeVars, opVars, rpcVars, history>>
-----------------------------------------------------------------------------
(***************************************************************************)
(* ReleaseSeat and ResetSeats, which ask no lock.                          *)
(***************************************************************************)

\* Store.Release frees the seat whether it is booked or not.
ReleaseSeat(a) ==
  /\ pc[a] = "start"
  /\ Kind[a] = "release"
  /\ On[a] \in Seat
  /\ Write(At[a], On[a], Free)
  /\ StartSync(a)

\* Store.Reset frees every seat at once; the updates go out seat after seat.
ResetSeats(a) ==
  /\ pc[a] = "start"
  /\ Kind[a] = "reset"
  /\ seats' = [seats EXCEPT ![At[a]] = AllFree]
  /\ StartSync(a)

FinishAdmin(a) ==
  /\ pc[a] = "syncing"
  /\ unsent[a] = <<>>
  /\ Answered(a)
  /\ GoOn(a, "done")
  /\ UNCHANGED lockVars
-----------------------------------------------------------------------------
(***************************************************************************)
(* syncSeatToAllPeers and the SyncSeat handler.                            *)
(***************************************************************************)

\* The next seat goes out once the answers for the previous one are in.
SendUpdates(o) ==
  /\ pc[o] = "syncing"
  /\ unsent[o] # <<>>
  /\ Answered(o)
  /\ LET msgs == {<<o, p, Head(unsent[o])>> : p \in SendTo(o)}
     IN  wire' = wire \cup msgs /\ open' = open \cup msgs
  /\ leftOut' = leftOut \cup {<<o, p, Head(unsent[o])>> :
                               p \in Node \ (SendTo(o) \cup {At[o]})}
  /\ unsent' = [unsent EXCEPT ![o] = Tail(@)]
  /\ UNCHANGED <<storeVars, pc, missed, crossed, reborn, lockVars>>

\* SyncSeat: ForceUpdate overwrites the entry, whatever it was and however old
\* the update is.  The caller may have stopped waiting.
HandleUpdate(m) ==
  /\ m \in wire
  /\ Write(m[2], m[3], Entry(m[1]))
  /\ wire' = wire \ {m}
  /\ open' = open \ {m}
  /\ UNCHANGED <<peerClients, opVars, history, lockVars>>

\* The error or the deadline of 2 seconds: logged and taken for an answer.  The
\* update may be handled later, or never.
UpdateFails(m) ==
  /\ RpcMayFail
  /\ m \in open
  /\ open' = open \ {m}
  /\ missed' = missed \cup {m}
  /\ UNCHANGED <<storeVars, opVars, wire, leftOut, crossed, reborn, lockVars>>
-----------------------------------------------------------------------------
(***************************************************************************)
(* The node around the service.                                            *)
(***************************************************************************)
Connect(n, p) ==
  /\ p \in Peers[n] \ peerClients[n]
  /\ peerClients' = [peerClients EXCEPT ![n] = @ \cup {p}]
  /\ UNCHANGED <<seats, opVars, rpcVars, history, lockVars>>

\* The process dies and starts anew: NewStore has every seat available, and no
\* peer is asked for its table.
Die(n) ==
  /\ n \in MayRestart \ reborn
  /\ seats' = [seats EXCEPT ![n] = AllFree]
  /\ peerClients' = [peerClients EXCEPT ![n] = {}]
  /\ pc' = [o \in Op |-> IF o \in Alive(n) THEN "crashed" ELSE pc[o]]
  /\ open' = {m \in open : At[m[1]] # n}
  /\ reborn' = reborn \cup {n}
  /\ UNCHANGED <<unsent, wire, missed, leftOut, crossed>>

Restart(n) == Die(n) /\ LockKeeps /\ Leave(Alive(n) \cap Call)
-----------------------------------------------------------------------------
BookSeat(c) ==
  \/ RefuseSeat(c)
  \/ AskForSeat(c)
  \/ EnterSeat(c)
  \/ MutexFails(c)
  \/ Book(c)
  \/ BookTaken(c)
  \/ LeaveSeat(c)

AdminStep(a) ==
  \/ ReleaseSeat(a)
  \/ ResetSeats(a)
  \/ FinishAdmin(a)

Next ==
  \/ \E c \in Call : BookSeat(c)
  \/ \E a \in Admin : AdminStep(a)
  \/ \E o \in Op : SendUpdates(o)
  \/ \E m \in wire : HandleUpdate(m)
  \/ \E m \in open : UpdateFails(m)
  \/ \E n, p \in Node : Connect(n, p)
  \/ \E n \in Node : Restart(n)
  \/ LoseExclusion

Spec == Init /\ [][Next]_vars

(***************************************************************************)
(* The goroutine of a booking or of an admin operation runs, its lock      *)
(* request returns (EveryCallReturns of RicartAgrawala), and an RPC with a *)
(* deadline ends; where RPCs do not fail, it is handled.                   *)
(***************************************************************************)
Fairness ==
  /\ \A c \in Call :
       /\ WF_vars(EnterSeat(c) \/ MutexFails(c))
       /\ WF_vars(Book(c) \/ BookTaken(c))
       /\ WF_vars(LeaveSeat(c))
  /\ \A a \in Admin : WF_vars(FinishAdmin(a))
  /\ \A o \in Op : WF_vars(SendUpdates(o))
  /\ \A m \in Update :
       IF RpcMayFail THEN WF_vars(UpdateFails(m)) ELSE WF_vars(HandleUpdate(m))

FairSpec == Spec /\ Fairness
-----------------------------------------------------------------------------
(***************************************************************************)
(* Properties.                                                             *)
(***************************************************************************)

\* Every variable has its type.
TypeOK ==
  /\ seats \in [Node -> [Seat -> Call \cup {Free}]]
  /\ peerClients \in [Node -> SUBSET Node]
  /\ \A n \in Node : peerClients[n] \subseteq Peers[n]
  /\ pc \in [Op -> PC]
  /\ unsent \in [Op -> Seq(Seat)]
  /\ wire \subseteq Update
  /\ open \subseteq Update
  /\ missed \subseteq Update
  /\ leftOut \subseteq Op \X Node \X Seat
  /\ crossed \subseteq Seat
  /\ reborn \subseteq Node
  /\ phase \in [Call -> {"idle", "asking", "inside", "out"}]
  /\ lost \subseteq Call \X Call

\* Store.Book has said yes.
Booked(c) == pc[c] \in {"syncing", "sold"}

\* A release or a reset of the seat has begun.
Freed(s) ==
  \E a \in Admin : pc[a] # "start" /\ (Kind[a] = "reset" \/ On[a] = s)

\* The update of s by o did not reach p while o was sending it.
Unheard(o, p, s) == <<o, p, s>> \in missed \cup leftOut

\* What lets two bookings of one seat both succeed: the lock has lost the pair,
\* the node of one has not heard of the other's sale, or has forgotten it.
Hole(c, d) ==
  \/ {<<c, d>>, <<d, c>>} \cap lost # {}
  \/ Unheard(c, At[d], On[c])
  \/ Unheard(d, At[c], On[c])
  \/ {At[c], At[d]} \cap reborn # {}

\* No two customers buy a seat that nobody has freed, except through a hole: the
\* second check, the lock and the synchronous updates together, on different
\* nodes and on one, with peers that connect while bookings are under way.
SoldOnce ==
  \A c, d \in Call :
    (c # d /\ On[c] = On[d] /\ Booked(c) /\ Booked(d))
      => Freed(On[c]) \/ Hole(c, d)

\* When a customer is told that the seat is theirs, every node says so too,
\* unless it did not hear of it or names another who bought it through a hole.
SoldIsKnownEverywhere ==
  \A c \in Call : (pc[c] = "sold" /\ ~ Freed(On[c])) =>
    \A n \in Node :
      \/ seats[n][On[c]] = c
      \/ n \in reborn \/ Unheard(c, n, On[c])
      \/ \E d \in Call \ {c} : seats[n][On[c]] = d /\ Hole(c, d)

\* Once nobody is sending a seat, every node has the same entry for it, through
\* bookings, releases and resets one after the other: only operations that sent
\* it at once, a lost update or a process that died can leave them different.
DifferOnlyIfCrossed ==
  \A s \in Seat :
    \/ \E o \in Op : Syncing(o, s) \/ (pc[o] = "crashed" /\ Concerns(o, s))
    \/ s \in crossed
    \/ \E o \in Op, p \in Node : Unheard(o, p, s)
    \/ \A m, n \in Node \ reborn : seats[m][s] = seats[n][s]

\* Even with a lock that fails, lost updates and late ones, a node sells a seat
\* once: its store is checked and written under one mutex.
NodeSellsOnce ==
  \A c, d \in Call :
    (c # d /\ At[c] = At[d] /\ On[c] = On[d] /\ Booked(c) /\ Booked(d))
      => Freed(On[c]) \/ At[c] \in reborn

\* A customer is turned away only from a seat that somebody else has bought, or
\* that does not exist.
TurnedAwayOnlyIfSold ==
  \A c \in Call :
    (pc[c] \in {"refused", "denied", "taken"} /\ On[c] \in Seat)
      => \E d \in Call \ {c} : /\ On[d] = On[c]
                               /\ pc[d] \in {"syncing", "sold", "crashed"}

\* Every booking that asks for its lock is answered and gives the lock up, sold
\* or not.
EveryBookingAnswered ==
  \A c \in Call : pc[c] = "asking" ~> pc[c] \in Result
-----------------------------------------------------------------------------
(***************************************************************************)
(* What the documentation says and the code does not keep.                 *)
(***************************************************************************)

\* service.go:112: the update is known across the cluster before anyone else
\* can book the seat.
KnownBeforeNextEntry ==
  \A c, d \in Call :
    (c # d /\ On[c] = On[d] /\ pc[c] = "sold" /\ pc[d] = "inside")
      => ~ Available(At[d], On[d])

\* service.go:234: updates keep the tables consistent, so that they agree once
\* no operation is under way and no update is left.
QuietTablesAgree ==
  (wire = {} /\ \A o \in Op : pc[o] \in Result \cup {"start"})
    => \A m, n \in Node : seats[m] = seats[n]
=============================================================================
