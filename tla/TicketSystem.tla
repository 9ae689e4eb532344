---------------------------- MODULE TicketSystem ----------------------------
(***************************************************************************)
(* The booking service running over the mutual exclusion algorithm itself: *)
(* Booking and RicartAgrawala put together, in place of the abstract lock  *)
(* that Booking alone relies on.                                           *)
(*                                                                         *)
(* A booking is a call of RicartAgrawala.  BookSeat and the mutex of a     *)
(* node take a step together where the one calls the other or returns to   *)
(* it; they share the stubs of the hub and die together.  Everything else  *)
(* interleaves.  Releases and resets, which ask no lock, are in Booking.   *)
(***************************************************************************)
EXTENDS RicartAgrawala

CONSTANTS SeatOrder, Free   \* as in Booking

\* The composition is about nodes that list each other, all of them.
ASSUME MeshAssumption == \A m, n \in Node : m # n => m \in Peers[n]
ASSUME FreeAssumption == Free \notin Call

VARIABLES
  (* The booking service and the store, as in Booking; step is its pc, and *)
  (* peerClients and reborn are those of RicartAgrawala.                   *)
  seats, step, unsent, wire, open, missed, leftOut, crossed

Service == INSTANCE Booking WITH
             pc <- step,
             phase <- phase,
             lost <- lost,
             Losses <- SUBSET (Call \X Call),
             Admin <- {},
             Kind <- <<>>,
             Conflict <- {pair \in Call \X Call : /\ At[pair[1]] # At[pair[2]]
                                                  /\ On[pair[1]] = On[pair[2]]}

serviceVars == <<seats, step, unsent, wire, open, missed, leftOut, crossed>>
systemVars == <<vars, serviceVars>>

SystemInit ==
  /\ Init
  /\ seats = [n \in Node |-> [s \in Seat |-> Free]]
  /\ step = [c \in Call |-> "start"]
  /\ unsent = [c \in Call |-> <<>>]
  /\ wire = {}
  /\ open = {}
  /\ missed = {}
  /\ leftOut = {}
  /\ crossed = {}
-----------------------------------------------------------------------------
(***************************************************************************)
(* The service calls the mutex and the mutex returns; both die at once.    *)
(***************************************************************************)
AskForSeat(c) == BeginRequest(c) /\ Service!BeginAsking(c)

EnterSeat(c) == EnterCS(c) /\ Service!BeginInside(c)

MutexFails(c) == TimeOut(c) /\ Service!GiveUpAsking(c)

LeaveSeat(c) == ReleaseCriticalSection(c) /\ Service!FinishInside(c)

RestartBoth(n) == Restart(n) /\ Service!Die(n)

Together ==
  \/ \E c \in Call : \/ AskForSeat(c)
                     \/ EnterSeat(c)
                     \/ MutexFails(c)
                     \/ LeaveSeat(c)
  \/ \E n \in Node : RestartBoth(n)
-----------------------------------------------------------------------------
\* What the mutex does by itself.
MutexAlone ==
  /\ \/ \E n \in Node : OtherEvent(n)
     \/ \E n, p \in Node : Connect(n, p)
     \/ \E c \in Call : Announce(c)
     \/ \E c \in Call, p \in Node : HandlerStep(c, p) \/ GoroutineStep(c, p)
  /\ UNCHANGED serviceVars

\* What the service does without the mutex.
ServiceAlone ==
  /\ UNCHANGED vars
  /\ \/ \E c \in Call : \/ Service!RefuseSeat(c)
                        \/ Service!Book(c)
                        \/ Service!BookTaken(c)
                        \/ Service!SendUpdates(c)
     \/ \E m \in wire : Service!HandleUpdate(m)
     \/ \E m \in open : Service!UpdateFails(m)

SystemNext ==
  \/ Together
  \/ MutexAlone
  \/ ServiceAlone

SystemSpec == SystemInit /\ [][SystemNext]_systemVars
-----------------------------------------------------------------------------
(***************************************************************************)
(* Properties.                                                             *)
(***************************************************************************)

\* The service over the algorithm is the service over the abstract lock: what
\* is shown of Booking, whatever the lock does, is true of the whole.
ImplementsBooking == Service!Spec

\* c's update may not have reached d's node while c had the lock.
Missed(c, d) == <<c, At[d], On[c]>> \in missed

\* Two bookings sell one seat only if the algorithm lost their exclusion through
\* one of its holes, if an update of one of them failed, or if one of their
\* nodes has forgotten its table: late updates, refusals, polls and timeouts
\* of the two services in any order do not add a way.
SoldTwiceOnlyThroughHole ==
  \A c, d \in Call :
    (/\ c # d /\ On[c] = On[d]
     /\ Service!Booked(c) /\ Service!Booked(d))
      => \/ Excused(c, d) \/ Excused(d, c)
         \/ Missed(c, d) \/ Missed(d, c)
         \/ {At[c], At[d]} \cap reborn # {}
=============================================================================
