--------------------------- MODULE Booking_proofs ---------------------------
(***************************************************************************)
(* Theorems of Booking, for every set of nodes, seats, bookings and admin  *)
(* operations, and every choice of the faults.                             *)
(***************************************************************************)
EXTENDS Booking, SeatLock_proofs, FiniteSetTheorems, SequenceTheorems

\* A booking that may have written its entry.
Bought(c) == pc[c] \in {"syncing", "sold", "crashed"}

\* The service and the lock agree on where a booking is.
PhaseOf(p) == CASE p \in {"start", "refused"} -> "idle"
                [] p = "asking" -> "asking"
                [] p \in {"inside", "syncing", "denied"} -> "inside"
                [] OTHER -> "out"

PhaseMatches == \A c \in Call : phase[c] = PhaseOf(pc[c])

\* What is on its way is about a seat of its operation, which has begun; a
\* booking sends its one seat once.
UnsentMatches ==
  \A o \in Op :
    /\ unsent[o] # <<>> => pc[o] \in {"syncing", "crashed"}
    /\ \A i \in DOMAIN unsent[o] : Concerns(o, unsent[o][i])
    /\ o \in Call => Len(unsent[o]) <= 1

WireMatches ==
  \A m \in wire : Concerns(m[1], m[3]) /\ (m[1] \in Call => Bought(m[1]))
                                       /\ pc[m[1]] # "start"

\* An entry names a booking of that seat which has been let in.
EntryIsBought ==
  \A n \in Node, s \in Seat :
    seats[n][s] # Free => On[seats[n][s]] = s /\ Bought(seats[n][s])

\* A node that has sold a seat keeps an entry for it.
SellerKnows ==
  \A c \in Call :
    Booked(c) => /\ On[c] \in Seat
                 /\ \/ seats[At[c]][On[c]] # Free
                    \/ Freed(On[c])
                    \/ At[c] \in reborn

Consistent ==
  /\ TypeOK
  /\ PhaseMatches
  /\ UnsentMatches
  /\ WireMatches
  /\ EntryIsBought
  /\ SellerKnows
  /\ NodeSellsOnce
  /\ TurnedAwayOnlyIfSold

-----------------------------------------------------------------------------
(***************************************************************************)
(* Types.                                                                  *)
(***************************************************************************)
LEMMA OpPlace == \A o \in Op : At[o] \in Node
  BY OpAssumption

LEMMA ToSendType ==
  ASSUME NEW o \in Op, o \in Call => On[o] \in Seat,
         o \in Admin /\ Kind[o] = "release" => On[o] \in Seat
  PROVE  ToSend(o) \in Seq(Seat)
<1>1. SeatOrder \in Seq(Seat)
  <2>1. Cardinality(Seat) \in Nat
    BY SeatAssumption, FS_CardinalityType
  <2> QED
    BY <2>1, SeatAssumption
<1>2. o \in Admin => Kind[o] \in {"release", "reset"}
  BY OpAssumption
<1> QED
  BY <1>1, <1>2 DEF ToSend, Op

LEMMA UpdateParts ==
  \A m \in Update : /\ m[1] \in Op /\ m[2] \in Node /\ m[3] \in Seat
                    /\ m[2] \in Peers[At[m[1]]]
                    /\ m = <<m[1], m[2], m[3]>>
  BY DEF Update

\* What a step of the lock leaves of its type.
LEMMA LockPartType ==
  ASSUME TypeOK, NEW c \in Call, NEW C \in SUBSET Call,
         Ask(c) \/ Enter(c) \/ Leave(C)
  PROVE  /\ phase' \in [Call -> {"idle", "asking", "inside", "out"}]
         /\ lost' \subseteq Call \X Call
  BY DEF TypeOK, Ask, Enter, Leave, Lose

LEMMA GoOnType ==
  ASSUME TypeOK, NEW o \in Op, NEW to \in PC, GoOn(o, to),
         phase' \in [Call -> {"idle", "asking", "inside", "out"}],
         lost' \subseteq Call \X Call
  PROVE  TypeOK'
  BY DEF TypeOK, GoOn, storeVars, rpcVars, history

LEMMA WriteType ==
  ASSUME TypeOK, NEW n \in Node, NEW s \in Seat, NEW e \in Call \cup {Free},
         Write(n, s, e)
  PROVE  seats' \in [Node -> [Seat -> Call \cup {Free}]]
  BY DEF TypeOK, Write

LEMMA StartSyncType ==
  ASSUME TypeOK, NEW o \in Op, StartSync(o), ToSend(o) \in Seq(Seat),
         seats' \in [Node -> [Seat -> Call \cup {Free}]]
  PROVE  TypeOK'
  BY DEF TypeOK, StartSync, PC, Result, rpcVars, lockVars

LEMMA TypeBookSeat ==
  ASSUME TypeOK, NEW c \in Call, BookSeat(c)
  PROVE  TypeOK'
<1>0. c \in Op /\ At[c] \in Node /\ {c} \in SUBSET Call
  BY OpPlace DEF Op
<1> USE DEF PC, Result
<1>1. CASE RefuseSeat(c)
  BY <1>0, <1>1, GoOnType DEF RefuseSeat, lockVars, TypeOK
<1>2. CASE AskForSeat(c)
  BY <1>0, <1>2, GoOnType, LockPartType DEF AskForSeat, BeginAsking
<1>3. CASE EnterSeat(c)
  BY <1>0, <1>3, GoOnType, LockPartType DEF EnterSeat, BeginInside
<1>4. CASE MutexFails(c)
  BY <1>0, <1>4, GoOnType, LockPartType DEF MutexFails, GiveUpAsking
<1>5. CASE Book(c)
  <2>1. On[c] \in Seat /\ ToSend(c) \in Seq(Seat)
    BY <1>0, <1>5, ToSendType, OpAssumption DEF Book, Available
  <2> QED
    BY <1>0, <1>5, <2>1, WriteType, StartSyncType DEF Book
<1>6. CASE BookTaken(c)
  BY <1>0, <1>6, GoOnType DEF BookTaken, lockVars, TypeOK
<1>7. CASE LeaveSeat(c)
  BY <1>0, <1>7, GoOnType, LockPartType DEF LeaveSeat, FinishInside
<1> QED
  BY <1>1, <1>2, <1>3, <1>4, <1>5, <1>6, <1>7 DEF BookSeat

LEMMA TypeAdminStep ==
  ASSUME TypeOK, NEW a \in Admin, AdminStep(a)
  PROVE  TypeOK'
<1>0. a \in Op /\ At[a] \in Node /\ a \notin Call
  BY OpPlace, OpAssumption DEF Op
<1>1. CASE ReleaseSeat(a)
  <2>1. ToSend(a) \in Seq(Seat)
    BY <1>0, <1>1, ToSendType DEF ReleaseSeat
  <2> QED
    BY <1>0, <1>1, <2>1, WriteType, StartSyncType DEF ReleaseSeat
<1>2. CASE ResetSeats(a)
  <2>1. ToSend(a) \in Seq(Seat)
    BY <1>0, <1>2, ToSendType DEF ResetSeats
  <2>2. seats' \in [Node -> [Seat -> Call \cup {Free}]]
    BY <1>0, <1>2 DEF ResetSeats, AllFree, TypeOK
  <2> QED
    BY <1>0, <1>2, <2>1, <2>2, StartSyncType DEF ResetSeats
<1>3. CASE FinishAdmin(a)
  BY <1>0, <1>3, GoOnType DEF FinishAdmin, lockVars, TypeOK, PC, Result
<1> QED
  BY <1>1, <1>2, <1>3 DEF AdminStep

LEMMA TypeSendUpdates ==
  ASSUME TypeOK, NEW o \in Op, SendUpdates(o)
  PROVE  TypeOK'
<1> DEFINE msgs == {<<o, p, Head(unsent[o])>> : p \in SendTo(o)}
<1>1. unsent[o] \in Seq(Seat) /\ unsent[o] # <<>>
  BY DEF TypeOK, SendUpdates
<1>2. Head(unsent[o]) \in Seat /\ Tail(unsent[o]) \in Seq(Seat)
  BY <1>1
<1>3. msgs \subseteq Update
  BY <1>2, OpPlace DEF SendTo, Update, TypeOK
<1>4. wire' \subseteq Update /\ open' \subseteq Update
  BY <1>3 DEF TypeOK, SendUpdates
<1>5. unsent' \in [Op -> Seq(Seat)]
  BY <1>2 DEF TypeOK, SendUpdates
<1>6. leftOut' \subseteq Op \X Node \X Seat
  BY <1>2 DEF TypeOK, SendUpdates
<1> QED
  BY <1>4, <1>5, <1>6 DEF TypeOK, SendUpdates, storeVars, lockVars

LEMMA TypeHandleUpdate ==
  ASSUME TypeOK, NEW m \in wire, HandleUpdate(m)
  PROVE  TypeOK'
<1>1. m[1] \in Op /\ m[2] \in Node /\ m[3] \in Seat
  BY UpdateParts DEF TypeOK
<1>2. Entry(m[1]) \in Call \cup {Free}
  BY DEF Entry
<1>3. seats' \in [Node -> [Seat -> Call \cup {Free}]]
  BY <1>1, <1>2, WriteType DEF HandleUpdate
<1> QED
  BY <1>3 DEF TypeOK, HandleUpdate, opVars, history, lockVars

LEMMA TypeNode ==
  ASSUME TypeOK, NEW n \in Node, NEW p \in Node, Connect(n, p) \/ Restart(n)
  PROVE  TypeOK'
<1>1. CASE Connect(n, p)
  BY <1>1 DEF Connect, TypeOK, opVars, rpcVars, history, lockVars
<1>2. CASE Restart(n)
  <2>1. Alive(n) \cap Call \in SUBSET Call
    OBVIOUS
  <2>2. /\ phase' \in [Call -> {"idle", "asking", "inside", "out"}]
        /\ lost' \subseteq Call \X Call
    BY <1>2, <2>1 DEF Restart, Leave, Lose, TypeOK
  <2>3. pc' \in [Op -> PC]
    BY <1>2 DEF Restart, Die, TypeOK, PC, Result
  <2> QED
    BY <1>2, <2>2, <2>3 DEF Restart, Die, TypeOK, AllFree
<1> QED
  BY <1>1, <1>2

LEMMA TypeRest ==
  ASSUME TypeOK, LoseExclusion \/ (\E m \in open : UpdateFails(m)) \/ UNCHANGED vars
  PROVE  TypeOK'
<1>1. CASE LoseExclusion
  BY <1>1 DEF LoseExclusion, TypeOK, Leave, Lose, storeVars, opVars, rpcVars,
     history
<1>2. CASE \E m \in open : UpdateFails(m)
  BY <1>2 DEF UpdateFails, TypeOK, storeVars, opVars, lockVars
<1>3. CASE UNCHANGED vars
  BY <1>3 DEF vars, TypeOK, storeVars, opVars, rpcVars, history, lockVars
<1> QED
  BY <1>1, <1>2, <1>3

LEMMA TypeStep == TypeOK /\ [Next]_vars => TypeOK'
  BY TypeBookSeat, TypeAdminStep, TypeSendUpdates, TypeHandleUpdate, TypeNode,
     TypeRest DEF Next

\* Every variable keeps its type: updates go to configured peers only, and what
\* a restarted process leaves behind is still about seats and operations.
THEOREM BookingType == Spec => []TypeOK
<1>1. Init => TypeOK
  BY LinkAssumption DEF Init, LockInit, TypeOK, AllFree, PC
<1> QED
  BY <1>1, TypeStep, PTL DEF Spec
-----------------------------------------------------------------------------
(***************************************************************************)
(* What a step may do to each variable.  The invariants below follow from  *)
(* these lemmas, not from the actions.                                     *)
(***************************************************************************)

\* Where an operation may go from where it is.
Moves(o) ==
  \/ pc'[o] = pc[o]
  \/ /\ pc[o] = "start" /\ o \in Call
     /\ pc'[o] = "asking" \/ (pc'[o] = "refused" /\ ~ Available(At[o], On[o]))
  \/ pc[o] = "asking" /\ pc'[o] = "failed"
  \/ pc[o] = "asking" /\ pc'[o] = "inside"
  \/ pc[o] = "inside" /\ pc'[o] = "syncing" /\ o \in Call /\ Book(o)
  \/ pc[o] = "inside" /\ pc'[o] = "denied" /\ ~ Available(At[o], On[o])
  \/ pc[o] = "denied" /\ pc'[o] = "taken"
  \/ /\ pc[o] = "syncing" /\ unsent[o] = <<>> /\ Answered(o)
     /\ pc'[o] = "sold" \/ (pc'[o] = "done" /\ o \in Admin)
  \/ pc[o] = "start" /\ pc'[o] = "syncing" /\ o \in Admin
  \/ /\ pc[o] \notin Result \cup {"start"} /\ pc'[o] = "crashed"
     /\ At[o] \in reborn'

LEMMA PcMoves ==
  ASSUME TypeOK, [Next]_vars
  PROVE  \A o \in Op : Moves(o)
<1>0. pc \in [Op -> PC] /\ Call \cap Admin = {} /\ Op = Call \cup Admin
  BY OpAssumption DEF TypeOK, Op
<1> USE DEF Moves
<1>1. ASSUME NEW c \in Call, BookSeat(c) PROVE \A o \in Op : Moves(o)
  <2>1. CASE RefuseSeat(c)
    BY <1>0, <2>1 DEF RefuseSeat, GoOn
  <2>2. CASE AskForSeat(c)
    BY <1>0, <2>2 DEF AskForSeat, BeginAsking, GoOn
  <2>3. CASE EnterSeat(c)
    BY <1>0, <2>3 DEF EnterSeat, BeginInside, GoOn
  <2>4. CASE MutexFails(c)
    BY <1>0, <2>4 DEF MutexFails, GiveUpAsking, GoOn
  <2>5. CASE Book(c)
    <3>1. pc[c] = "inside" /\ pc' = [pc EXCEPT ![c] = "syncing"]
      BY <2>5 DEF Book, StartSync
    <3> QED
      BY <1>0, <2>5, <3>1
  <2>6. CASE BookTaken(c)
    BY <1>0, <2>6 DEF BookTaken, GoOn
  <2>7. CASE LeaveSeat(c)
    BY <1>0, <2>7 DEF LeaveSeat, FinishInside, Finishing, GoOn
  <2> QED
    BY <1>1, <2>1, <2>2, <2>3, <2>4, <2>5, <2>6, <2>7 DEF BookSeat
<1>2. ASSUME NEW a \in Admin, AdminStep(a) PROVE \A o \in Op : Moves(o)
  BY <1>0, <1>2 DEF AdminStep, ReleaseSeat, ResetSeats, FinishAdmin, StartSync,
     GoOn
<1>3. ASSUME NEW n \in Node, Restart(n) PROVE \A o \in Op : Moves(o)
  <2>1. reborn' = reborn \cup {n}
    BY <1>3 DEF Restart, Die
  <2>2. pc' = [o \in Op |-> IF o \in Alive(n) THEN "crashed" ELSE pc[o]]
    BY <1>3 DEF Restart, Die
  <2> QED
    BY <1>0, <2>1, <2>2 DEF Alive
<1>4. ASSUME pc' = pc PROVE \A o \in Op : Moves(o)
  BY <1>4
<1> QED
  BY <1>1, <1>2, <1>3, <1>4 DEF Next, SendUpdates, HandleUpdate, UpdateFails,
     Connect, LoseExclusion, opVars, vars

\* Every step of the service keeps what has gone wrong on the record.
LEMMA HistoryGrows ==
  ASSUME [Next]_vars
  PROVE  /\ missed \subseteq missed' /\ leftOut \subseteq leftOut'
         /\ crossed \subseteq crossed' /\ reborn \subseteq reborn'
         /\ lost \subseteq lost'
<1> USE DEF GoOn, StartSync, LockKeeps, history, lockVars
<1>1. ASSUME NEW c \in Call, BookSeat(c)
      PROVE  /\ missed \subseteq missed' /\ leftOut \subseteq leftOut'
             /\ crossed \subseteq crossed' /\ reborn \subseteq reborn'
             /\ lost \subseteq lost'
  BY <1>1 DEF BookSeat, RefuseSeat, AskForSeat, BeginAsking, EnterSeat,
     BeginInside, MutexFails, GiveUpAsking, Book, BookTaken, LeaveSeat,
     FinishInside
<1>2. ASSUME NEW a \in Admin, AdminStep(a)
      PROVE  /\ missed \subseteq missed' /\ leftOut \subseteq leftOut'
             /\ crossed \subseteq crossed' /\ reborn \subseteq reborn'
             /\ lost \subseteq lost'
  BY <1>2 DEF AdminStep, ReleaseSeat, ResetSeats, FinishAdmin
<1>3. ASSUME NEW n \in Node, Restart(n)
      PROVE  /\ missed \subseteq missed' /\ leftOut \subseteq leftOut'
             /\ crossed \subseteq crossed' /\ reborn \subseteq reborn'
             /\ lost \subseteq lost'
  BY <1>3 DEF Restart, Die
<1> QED
  BY <1>1, <1>2, <1>3 DEF Next, vars, SendUpdates, HandleUpdate, UpdateFails,
     Connect, LoseExclusion

\* What has happened stays so.
LEMMA StepGrows ==
  ASSUME TypeOK, [Next]_vars
  PROVE  /\ \A o \in Op : pc[o] # "start" => pc'[o] # "start"
         /\ \A c \in Call : Bought(c) => Bought(c)'
         /\ \A s : Freed(s) => Freed(s)'
         /\ \A o, p, s : Unheard(o, p, s) => Unheard(o, p, s)'
         /\ \A c, d \in Call : Hole(c, d) => Hole(c, d)'
         /\ reborn \subseteq reborn'
<1>1. \A o \in Op : pc[o] # "start" => pc'[o] # "start"
  BY PcMoves DEF Moves
<1>2. \A c \in Call : Bought(c) => Bought(c)'
  BY PcMoves, OpAssumption DEF Moves, Bought, Result, Op
<1>3. \A s : Freed(s) => Freed(s)'
  BY <1>1 DEF Freed, Op
<1>4. \A o, p, s : Unheard(o, p, s) => Unheard(o, p, s)'
  BY HistoryGrows DEF Unheard
<1>5. \A c, d \in Call : Hole(c, d) => Hole(c, d)'
  BY <1>4, HistoryGrows DEF Hole
<1> QED
  BY <1>1, <1>2, <1>3, <1>4, <1>5, HistoryGrows

\* Who may write an entry.
Writes(n, s) ==
  \/ seats'[n][s] = seats[n][s]
  \/ \E c \in Call : /\ Book(c) /\ n = At[c] /\ s = On[c]
                     /\ seats[n][s] = Free /\ seats'[n][s] = c
  \/ \E m \in wire : n = m[2] /\ s = m[3] /\ seats'[n][s] = Entry(m[1])
  \/ seats'[n][s] = Free /\ Freed(s)'
  \/ seats'[n][s] = Free /\ n \in reborn'

LEMMA SeatsMove ==
  ASSUME TypeOK, [Next]_vars
  PROVE  \A n \in Node, s \in Seat : Writes(n, s)
<1>0. /\ seats \in [Node -> [Seat -> Call \cup {Free}]]
      /\ pc \in [Op -> PC] /\ Op = Call \cup Admin
  BY DEF TypeOK, Op
<1>1. ASSUME NEW c \in Call, Book(c)
      PROVE  \A n \in Node, s \in Seat : Writes(n, s)
  BY <1>0, <1>1, OpAssumption DEF Writes, Book, Write, Available
<1>2. ASSUME NEW a \in Admin, ReleaseSeat(a) \/ ResetSeats(a)
      PROVE  \A n \in Node, s \in Seat : Writes(n, s)
  <2>1. pc'[a] = "syncing"
    BY <1>0, <1>2 DEF ReleaseSeat, ResetSeats, StartSync
  <2>2. CASE ReleaseSeat(a)
    BY <1>0, <2>1, <2>2, OpAssumption DEF Writes, ReleaseSeat, Write, Freed
  <2>3. CASE ResetSeats(a)
    BY <1>0, <2>1, <2>3, OpAssumption DEF Writes, ResetSeats, AllFree, Freed
  <2> QED
    BY <1>2, <2>2, <2>3
<1>3. ASSUME NEW m \in wire, HandleUpdate(m)
      PROVE  \A n \in Node, s \in Seat : Writes(n, s)
  <2>1. m[2] \in Node /\ m[3] \in Seat
    BY UpdateParts DEF TypeOK
  <2> QED
    BY <1>0, <1>3, <2>1 DEF Writes, HandleUpdate, Write
<1>4. ASSUME NEW r \in Node, Restart(r)
      PROVE  \A n \in Node, s \in Seat : Writes(n, s)
  BY <1>0, <1>4 DEF Writes, Restart, Die, AllFree
<1>5. ASSUME seats' = seats PROVE \A n \in Node, s \in Seat : Writes(n, s)
  BY <1>5 DEF Writes
<1> QED
  BY <1>1, <1>2, <1>3, <1>4, <1>5 DEF Next, vars, storeVars, BookSeat,
     RefuseSeat, AskForSeat, BeginAsking, EnterSeat, BeginInside, MutexFails,
     GiveUpAsking, BookTaken, LeaveSeat, FinishInside, GoOn, AdminStep,
     FinishAdmin, SendUpdates, UpdateFails, Connect, LoseExclusion

\* What an operation may still have to send.
Sends(o) ==
  \/ unsent'[o] = unsent[o]
  \/ pc'[o] = "syncing" /\ unsent'[o] = ToSend(o)
  \/ /\ pc[o] = "syncing" /\ unsent[o] # <<>> /\ unsent'[o] = Tail(unsent[o])
     /\ \A p \in Node \ {At[o]} :
          {<<o, p, Head(unsent[o])>>} \subseteq open' \cup leftOut'

LEMMA UnsentMoves ==
  ASSUME TypeOK, [Next]_vars
  PROVE  \A o \in Op : Sends(o)
<1>0. unsent \in [Op -> Seq(Seat)] /\ pc \in [Op -> PC]
  BY DEF TypeOK
<1>1. ASSUME NEW q \in Op, StartSync(q) PROVE \A o \in Op : Sends(o)
  BY <1>0, <1>1 DEF Sends, StartSync
<1>2. ASSUME NEW q \in Op, SendUpdates(q) PROVE \A o \in Op : Sends(o)
  BY <1>0, <1>2 DEF Sends, SendUpdates
<1>3. ASSUME unsent' = unsent PROVE \A o \in Op : Sends(o)
  BY <1>3 DEF Sends
<1> QED
  BY <1>1, <1>2, <1>3 DEF Op, Next, vars, opVars, BookSeat, RefuseSeat,
     AskForSeat, BeginAsking, EnterSeat, BeginInside, MutexFails, GiveUpAsking,
     Book, BookTaken, LeaveSeat, FinishInside, GoOn, AdminStep, ReleaseSeat,
     ResetSeats, FinishAdmin, HandleUpdate, UpdateFails, Connect, Restart, Die,
     LoseExclusion

\* Updates come from an operation that has something to send.
LEMMA WireMoves ==
  ASSUME TypeOK, [Next]_vars
  PROVE  \A m \in wire' :
           \/ m \in wire
           \/ /\ m[1] \in Op /\ pc[m[1]] = "syncing" /\ unsent[m[1]] # <<>>
              /\ m[3] = Head(unsent[m[1]])
<1>1. ASSUME wire' \subseteq wire
      PROVE  \A m \in wire' : m \in wire
  BY <1>1
<1>2. ASSUME NEW o \in Op, SendUpdates(o), NEW m \in wire', m \notin wire
      PROVE  /\ m[1] \in Op /\ pc[m[1]] = "syncing" /\ unsent[m[1]] # <<>>
             /\ m[3] = Head(unsent[m[1]])
  <2>1. PICK p \in SendTo(o) : m = <<o, p, Head(unsent[o])>>
    BY <1>2 DEF SendUpdates
  <2> QED
    BY <1>2, <2>1 DEF SendUpdates
<1>3. wire' \subseteq wire \/ \E o \in Op : SendUpdates(o)
  BY DEF Next, vars, rpcVars, BookSeat, RefuseSeat, AskForSeat,
     BeginAsking, EnterSeat, BeginInside, MutexFails, GiveUpAsking, Book,
     StartSync, BookTaken, LeaveSeat, FinishInside, GoOn, AdminStep,
     ReleaseSeat, ResetSeats, FinishAdmin, HandleUpdate, UpdateFails, Connect,
     Restart, Die, LoseExclusion
<1> QED
  BY <1>1, <1>2, <1>3
-----------------------------------------------------------------------------
(***************************************************************************)
(* The invariants that hold under every fault.                             *)
(***************************************************************************)
LEMMA ConcernsToSend ==
  ASSUME TypeOK, NEW o \in Op, NEW i \in DOMAIN ToSend(o)
  PROVE  Concerns(o, ToSend(o)[i])
<1>1. Cardinality(Seat) \in Nat
  BY SeatAssumption, FS_CardinalityType
<1>2. \A j \in DOMAIN SeatOrder : SeatOrder[j] \in Seat
  BY SeatAssumption
<1> QED
  BY <1>2 DEF ToSend, Concerns

LEMMA UnsentStep ==
  ASSUME TypeOK, UnsentMatches, [Next]_vars
  PROVE  UnsentMatches'
<1> SUFFICES ASSUME NEW o \in Op
             PROVE  /\ unsent'[o] # <<>> => pc'[o] \in {"syncing", "crashed"}
                    /\ \A i \in DOMAIN unsent'[o] : Concerns(o, unsent'[o][i])
                    /\ o \in Call => Len(unsent'[o]) <= 1
  BY DEF UnsentMatches, Concerns
<1>0. unsent[o] \in Seq(Seat)
  BY DEF TypeOK
<1>1. CASE unsent'[o] = unsent[o]
  BY <1>1, PcMoves DEF Moves, UnsentMatches, Result
<1>2. CASE pc'[o] = "syncing" /\ unsent'[o] = ToSend(o)
  <2>1. o \in Call => Len(ToSend(o)) <= 1
    BY OpAssumption DEF ToSend
  <2> QED
    BY <1>2, <2>1, ConcernsToSend
<1>3. CASE /\ pc[o] = "syncing" /\ unsent[o] # <<>>
           /\ unsent'[o] = Tail(unsent[o])
  <2>1. pc'[o] \in {"syncing", "crashed"}
    BY <1>3, PcMoves DEF Moves
  <2>2. /\ Len(Tail(unsent[o])) = Len(unsent[o]) - 1
        /\ \A i \in 1 .. Len(unsent[o]) - 1 : Tail(unsent[o])[i] = unsent[o][i + 1]
    BY <1>0, <1>3
  <2> QED
    BY <1>0, <1>3, <2>1, <2>2 DEF UnsentMatches
<1> QED
  BY <1>1, <1>2, <1>3, UnsentMoves DEF Sends

LEMMA WireStep ==
  ASSUME TypeOK, UnsentMatches, WireMatches, [Next]_vars
  PROVE  WireMatches'
<1> SUFFICES ASSUME NEW m \in wire'
             PROVE  /\ Concerns(m[1], m[3]) /\ pc'[m[1]] # "start"
                    /\ m[1] \in Call => Bought(m[1])'
  BY DEF WireMatches, Concerns
<1>1. m[1] \in Op
  BY TypeStep, UpdateParts DEF TypeOK
<1>2. CASE m \in wire
  BY <1>1, <1>2, StepGrows DEF WireMatches
<1>3. CASE /\ pc[m[1]] = "syncing" /\ unsent[m[1]] # <<>>
           /\ m[3] = Head(unsent[m[1]])
  <2>1. unsent[m[1]] \in Seq(Seat)
    BY <1>1 DEF TypeOK
  <2>2. 1 \in DOMAIN unsent[m[1]] /\ m[3] = unsent[m[1]][1]
    BY <1>3, <2>1
  <2>3. Concerns(m[1], m[3])
    BY <1>1, <2>2 DEF UnsentMatches
  <2> QED
    BY <1>1, <1>3, <2>3, StepGrows DEF Bought
<1> QED
  BY <1>2, <1>3, WireMoves

\* An update of an admin operation frees its seat, one of a booking does not.
LEMMA UpdateEntry ==
  ASSUME TypeOK, WireMatches, NEW m \in wire
  PROVE  \/ m[1] \in Call /\ Entry(m[1]) = m[1] /\ On[m[1]] = m[3] /\ Bought(m[1])
         \/ m[1] \in Admin /\ Entry(m[1]) = Free /\ Freed(m[3])
<1>1. m[1] \in Op /\ Concerns(m[1], m[3]) /\ pc[m[1]] # "start"
  BY UpdateParts DEF TypeOK, WireMatches
<1>2. m[1] \in Call => Bought(m[1])
  BY DEF WireMatches
<1> QED
  BY <1>1, <1>2, OpAssumption DEF Op, Entry, Concerns, Freed

LEMMA EntryStep ==
  ASSUME TypeOK, WireMatches, EntryIsBought, [Next]_vars
  PROVE  EntryIsBought'
<1> SUFFICES ASSUME NEW n \in Node, NEW s \in Seat, NEW c \in Call,
                    seats'[n][s] = c
             PROVE  On[c] = s /\ Bought(c)'
  <2>1. seats' \in [Node -> [Seat -> Call \cup {Free}]]
    BY TypeStep DEF TypeOK
  <2> QED
    BY <2>1 DEF EntryIsBought, Bought
<1>1. CASE seats'[n][s] = seats[n][s]
  BY <1>1, StepGrows, OpAssumption DEF EntryIsBought
<1>2. CASE Book(c) /\ s = On[c]
  BY <1>2 DEF Book, StartSync, Bought, TypeOK, Op
<1>3. ASSUME NEW m \in wire, s = m[3], c = Entry(m[1])
      PROVE  On[c] = s /\ Bought(c)'
  BY <1>3, UpdateEntry, StepGrows, OpAssumption
<1> QED
  BY <1>1, <1>2, <1>3, SeatsMove, OpAssumption DEF Writes

\* How a booking comes to be sold.
LEMMA BookedSince ==
  ASSUME TypeOK, [Next]_vars, NEW c \in Call, Booked(c)'
  PROVE  Booked(c) \/ (Book(c) /\ pc[c] = "inside")
  BY PcMoves, OpAssumption DEF Moves, Booked, Op

LEMMA SellerStep ==
  ASSUME TypeOK, WireMatches, EntryIsBought, SellerKnows, [Next]_vars
  PROVE  SellerKnows'
<1> SUFFICES ASSUME NEW c \in Call, Booked(c)'
             PROVE  /\ On[c] \in Seat
                    /\ \/ seats'[At[c]][On[c]] # Free
                       \/ Freed(On[c])'
                       \/ At[c] \in reborn'
  BY DEF SellerKnows
<1>0. At[c] \in Node
  BY OpPlace DEF Op
<1>1. CASE Book(c)
  BY <1>0, <1>1, OpAssumption DEF Book, Write, Available, TypeOK
<1>2. CASE Booked(c)
  <2>1. On[c] \in Seat
    BY <1>2 DEF SellerKnows
  <2>2. CASE seats[At[c]][On[c]] # Free
    <3>1. Writes(At[c], On[c])
      BY <1>0, <2>1, SeatsMove
    <3>2. ASSUME NEW m \in wire, On[c] = m[3], seats'[At[c]][On[c]] = Entry(m[1])
          PROVE  seats'[At[c]][On[c]] # Free \/ Freed(On[c])'
      BY <3>2, UpdateEntry, StepGrows, OpAssumption
    <3> QED
      BY <2>1, <2>2, <3>1, <3>2 DEF Writes
  <2>3. CASE Freed(On[c]) \/ At[c] \in reborn
    BY <2>1, <2>3, StepGrows
  <2> QED
    BY <1>2, <2>1, <2>2, <2>3 DEF SellerKnows
<1> QED
  BY <1>1, <1>2, BookedSince

LEMMA NodeSellsStep ==
  ASSUME TypeOK, SellerKnows, NodeSellsOnce, [Next]_vars
  PROVE  NodeSellsOnce'
<1> SUFFICES ASSUME NEW c \in Call, NEW d \in Call, c # d, At[c] = At[d],
                    On[c] = On[d], Booked(c)', Booked(d)'
             PROVE  Freed(On[c])' \/ At[c] \in reborn'
  BY DEF NodeSellsOnce
<1>1. CASE Booked(c) /\ Booked(d)
  BY <1>1, StepGrows DEF NodeSellsOnce
<1>2. ASSUME NEW x \in Call, NEW y \in Call, At[x] = At[c], At[y] = At[c],
             On[x] = On[c], On[y] = On[c], Book(x), Booked(y)
      PROVE  Freed(On[c])' \/ At[c] \in reborn'
  BY <1>2, StepGrows DEF Book, Available, SellerKnows
<1>3. ~ (Book(c) /\ Book(d))
  <2> SUFFICES ASSUME Book(c), Book(d) PROVE FALSE
    OBVIOUS
  <2>1. pc'[d] = pc[d] /\ pc[d] = "inside"
    BY DEF Book, StartSync, TypeOK, Op
  <2>2. pc'[d] = "syncing"
    BY DEF Book, StartSync, TypeOK, Op
  <2> QED
    BY <2>1, <2>2
<1> QED
  BY <1>1, <1>2, <1>3, BookedSince

LEMMA TurnedAwayStep ==
  ASSUME TypeOK, EntryIsBought, TurnedAwayOnlyIfSold, [Next]_vars
  PROVE  TurnedAwayOnlyIfSold'
<1> SUFFICES ASSUME NEW c \in Call, On[c] \in Seat,
                    pc'[c] \in {"refused", "denied", "taken"}
             PROVE  \E d \in Call \ {c} : On[d] = On[c] /\ Bought(d)'
  BY DEF TurnedAwayOnlyIfSold, Bought
<1>0. c \in Op /\ At[c] \in Node /\ seats[At[c]][On[c]] \in Call \cup {Free}
  BY OpPlace DEF Op, TypeOK
<1>1. CASE pc[c] \in {"refused", "denied", "taken"}
  <2>1. PICK d \in Call \ {c} : On[d] = On[c] /\ Bought(d)
    BY <1>1 DEF TurnedAwayOnlyIfSold, Bought
  <2> QED
    BY <2>1, StepGrows
<1>2. CASE pc[c] \in {"start", "inside"} /\ ~ Available(At[c], On[c])
  <2> DEFINE d == seats[At[c]][On[c]]
  <2>1. d \in Call /\ On[d] = On[c] /\ Bought(d)
    BY <1>0, <1>2 DEF Available, EntryIsBought
  <2>2. d # c
    BY <1>2, <2>1 DEF Bought
  <2> QED
    BY <2>1, <2>2, StepGrows
<1> QED
  BY <1>0, <1>1, <1>2, PcMoves DEF Moves

\* The lock is used as its clients may use it: the phases follow the service.
LEMMA PhaseStep ==
  ASSUME TypeOK, PhaseMatches, [Next]_vars
  PROVE  PhaseMatches' /\ [LockNext]_lockVars
<1>0. /\ pc \in [Op -> PC] /\ phase \in [Call -> Phase] /\ Op = Call \cup Admin
      /\ Call \cap Admin = {}
  BY OpAssumption DEF TypeOK, Phase, Op
<1> USE DEF PhaseMatches, PhaseOf
<1>1. ASSUME NEW c \in Call, BookSeat(c)
      PROVE  PhaseMatches' /\ [LockNext]_lockVars
  <2>0. Leave({c}) => LockNext
    BY {c} \in SUBSET Call DEF LockNext
  <2>1. CASE RefuseSeat(c)
    BY <1>0, <2>1 DEF RefuseSeat, GoOn, lockVars
  <2>2. CASE AskForSeat(c)
    BY <1>0, <2>2 DEF AskForSeat, BeginAsking, GoOn, Ask, LockNext
  <2>3. CASE EnterSeat(c)
    BY <1>0, <2>3 DEF EnterSeat, BeginInside, GoOn, Enter, LockNext
  <2>4. CASE MutexFails(c)
    BY <1>0, <2>0, <2>4 DEF MutexFails, GiveUpAsking, GoOn, Leave
  <2>5. CASE Book(c)
    BY <1>0, <2>5 DEF Book, StartSync, lockVars
  <2>6. CASE BookTaken(c)
    BY <1>0, <2>6 DEF BookTaken, GoOn, lockVars
  <2>7. CASE LeaveSeat(c)
    BY <1>0, <2>0, <2>7 DEF LeaveSeat, FinishInside, Finishing, GoOn, Leave
  <2> QED
    BY <1>1, <2>1, <2>2, <2>3, <2>4, <2>5, <2>6, <2>7 DEF BookSeat
<1>2. ASSUME NEW a \in Admin, AdminStep(a)
      PROVE  PhaseMatches' /\ [LockNext]_lockVars
  BY <1>0, <1>2 DEF AdminStep, ReleaseSeat, ResetSeats, FinishAdmin, StartSync,
     GoOn, lockVars
<1>3. ASSUME NEW n \in Node, Restart(n)
      PROVE  PhaseMatches' /\ [LockNext]_lockVars
  <2>1. LockNext
    BY <1>3 DEF Restart, LockNext
  <2>2. phase' = [c \in Call |-> IF c \in Alive(n) \cap Call THEN "out"
                                                             ELSE phase[c]]
    BY <1>3 DEF Restart, Leave
  <2>3. pc' = [o \in Op |-> IF o \in Alive(n) THEN "crashed" ELSE pc[o]]
    BY <1>3 DEF Restart, Die
  <2> QED
    BY <1>0, <2>1, <2>2, <2>3
<1>4. CASE LoseExclusion
  BY <1>0, <1>4 DEF LoseExclusion, Leave, LockNext, opVars
<1>5. CASE UNCHANGED <<pc, lockVars>>
  BY <1>5 DEF lockVars
<1> QED
  BY <1>1, <1>2, <1>3, <1>4, <1>5 DEF Next, SendUpdates, HandleUpdate,
     UpdateFails, Connect, opVars, vars

LEMMA ConsistentStep == Consistent /\ [Next]_vars => Consistent'
  BY TypeStep, PhaseStep, UnsentStep, WireStep, EntryStep, SellerStep,
     NodeSellsStep, TurnedAwayStep DEF Consistent

LEMMA ConsistentInit == Init => Consistent
<1> SUFFICES ASSUME Init PROVE Consistent
  OBVIOUS
<1>1. TypeOK
  BY LinkAssumption DEF Init, LockInit, TypeOK, AllFree, PC
<1>2. PhaseMatches
  BY DEF Init, LockInit, PhaseMatches, PhaseOf, Op
<1>3. UnsentMatches /\ WireMatches /\ EntryIsBought
  BY DEF Init, AllFree, UnsentMatches, WireMatches, EntryIsBought, Op
<1>4. SellerKnows /\ NodeSellsOnce /\ TurnedAwayOnlyIfSold
  BY DEF Init, SellerKnows, NodeSellsOnce, TurnedAwayOnlyIfSold, Booked, Op
<1> QED
  BY <1>1, <1>2, <1>3, <1>4 DEF Consistent

LEMMA ConsistentAlways == Spec => []Consistent
  BY ConsistentInit, ConsistentStep, PTL DEF Spec

\* One node sells a seat once, unless it is released or the node restarted, though
\* the lock fails, updates are lost or come late, and other nodes restart.
THEOREM OneNodeSellsOnce == Spec => []NodeSellsOnce
  BY ConsistentAlways, PTL DEF Consistent

\* Nobody is turned away from a seat that no other booking has got, whatever
\* fails.
THEOREM NobodyTurnedAwayInVain == Spec => []TurnedAwayOnlyIfSold
  BY ConsistentAlways, PTL DEF Consistent
-----------------------------------------------------------------------------
(***************************************************************************)
(* A seat sold once and known: the lock, the second check and the updates  *)
(* together.  Nothing is assumed of the faults: what goes wrong is on the  *)
(* record, and the invariants say what holds of the pairs, the nodes and   *)
(* the updates it has not reached.                                         *)
(***************************************************************************)

\* The process of a crashed operation is gone.
CrashedIsReborn == \A o \in Op : pc[o] = "crashed" => At[o] \in reborn

\* Another node has an entry for a sold seat, unless its update is still to be
\* sent or handled.
KnownElsewhere ==
  \A c \in Call, p \in Node :
    (/\ Booked(c) /\ p # At[c]
     /\ ~ Freed(On[c]) /\ ~ Unheard(c, p, On[c]) /\ p \notin reborn)
      => \/ seats[p][On[c]] # Free
         \/ pc[c] = "syncing" /\ unsent[c] = <<On[c]>>
         \/ pc[c] = "syncing" /\ <<c, p, On[c]>> \in open

SaleInv ==
  /\ Consistent
  /\ Exclusive
  /\ CrashedIsReborn
  /\ KnownElsewhere
  /\ SoldOnce

\* How an update ceases to be awaited.
OpenMoves(m) ==
  \/ m \in open'
  \/ m \in wire /\ HandleUpdate(m)
  \/ m \in missed'
  \/ pc[m[1]] \notin Result \cup {"start"} /\ pc'[m[1]] = "crashed"
  \/ pc[m[1]] \in Result \cup {"start"} /\ At[m[1]] \in reborn'

LEMMA OpenStep ==
  ASSUME TypeOK, [Next]_vars
  PROVE  \A m \in open : OpenMoves(m)
<1> SUFFICES ASSUME NEW m \in open PROVE OpenMoves(m)
  OBVIOUS
<1>1. ASSUME NEW w \in wire, HandleUpdate(w) PROVE OpenMoves(m)
  BY <1>1 DEF HandleUpdate, OpenMoves
<1>2. ASSUME NEW u \in open, UpdateFails(u) PROVE OpenMoves(m)
  BY <1>2 DEF UpdateFails, OpenMoves
<1>3. ASSUME NEW n \in Node, Restart(n) PROVE OpenMoves(m)
  <2>1. m[1] \in Op
    BY UpdateParts DEF TypeOK
  <2>2. reborn' = reborn \cup {n} /\ open' = {u \in open : At[u[1]] # n}
    BY <1>3 DEF Restart, Die
  <2>3. pc' = [o \in Op |-> IF o \in Alive(n) THEN "crashed" ELSE pc[o]]
    BY <1>3 DEF Restart, Die
  <2> QED
    BY <2>1, <2>2, <2>3 DEF Alive, OpenMoves
<1>4. ASSUME open \subseteq open' PROVE OpenMoves(m)
  BY <1>4 DEF OpenMoves
<1> QED
  BY <1>1, <1>2, <1>3, <1>4 DEF Next, vars, rpcVars, BookSeat, RefuseSeat,
     AskForSeat, BeginAsking, EnterSeat, BeginInside, MutexFails, GiveUpAsking,
     Book, BookTaken, LeaveSeat, FinishInside, GoOn, StartSync, AdminStep,
     ReleaseSeat, ResetSeats, FinishAdmin, SendUpdates, Connect, LoseExclusion

\* An entry stays an entry until the seat is freed or the node restarts.
LEMMA SeatStays ==
  ASSUME TypeOK, WireMatches, [Next]_vars, NEW n \in Node, NEW s \in Seat,
         seats[n][s] # Free, ~ Freed(s)', n \notin reborn'
  PROVE  seats'[n][s] # Free
<1>1. ASSUME NEW m \in wire, s = m[3], seats'[n][s] = Entry(m[1])
      PROVE  seats'[n][s] # Free
  BY <1>1, UpdateEntry, StepGrows, OpAssumption
<1> QED
  BY <1>1, SeatsMove DEF Writes

LEMMA KnownStep ==
  ASSUME TypeOK, UnsentMatches, WireMatches, SellerKnows, KnownElsewhere,
         [Next]_vars
  PROVE  KnownElsewhere'
<1> SUFFICES ASSUME NEW c \in Call, NEW p \in Node, Booked(c)', p # At[c],
                    ~ Freed(On[c])', ~ Unheard(c, p, On[c])', p \notin reborn'
             PROVE  \/ seats'[p][On[c]] # Free
                    \/ pc'[c] = "syncing" /\ unsent'[c] = <<On[c]>>
                    \/ pc'[c] = "syncing" /\ <<c, p, On[c]>> \in open'
  BY DEF KnownElsewhere
<1>0. /\ c \in Op /\ c \notin Admin /\ c # Free
      /\ ~ Freed(On[c]) /\ ~ Unheard(c, p, On[c]) /\ p \notin reborn
  BY OpAssumption, StepGrows DEF Op
<1>1. CASE Book(c)
  BY <1>0, <1>1 DEF Book, StartSync, ToSend, TypeOK
<1>2. CASE Booked(c)
  <2>1. On[c] \in Seat
    BY <1>2 DEF SellerKnows
  <2>2. CASE seats[p][On[c]] # Free
    BY <2>1, <2>2, SeatStays
  <2>3. CASE pc[c] = "syncing" /\ unsent[c] = <<On[c]>>
    <3>1. pc'[c] = "syncing"
      BY <1>0, <2>3, PcMoves DEF Moves, Booked
    <3>2. <<c, p, On[c]>> \notin leftOut'
      BY DEF Unheard
    <3>3. ToSend(c) = <<On[c]>> /\ Head(unsent[c]) = On[c]
      BY <1>0, <2>3 DEF ToSend
    <3> QED
      BY <1>0, <2>3, <3>1, <3>2, <3>3, UnsentMoves DEF Sends
  <2>4. CASE pc[c] = "syncing" /\ <<c, p, On[c]>> \in open
    <3> DEFINE m == <<c, p, On[c]>>
    <3>1. pc'[c] = "syncing"
      BY <1>0, <2>4, PcMoves DEF Moves, Booked, Answered
    <3>2. m \notin missed'
      BY DEF Unheard
    <3>3. HandleUpdate(m) => seats'[p][On[c]] = c
      BY <1>0, <2>1 DEF HandleUpdate, Write, Entry, TypeOK
    <3>4. OpenMoves(m)
      BY <2>4, OpenStep
    <3> QED
      BY <1>0, <2>4, <3>1, <3>2, <3>3, <3>4 DEF OpenMoves, Result
  <2> QED
    BY <1>0, <1>2, <2>2, <2>3, <2>4 DEF KnownElsewhere
<1> QED
  BY <1>1, <1>2, BookedSince

LEMMA SoldOnceStep ==
  ASSUME SaleInv, [Next]_vars
  PROVE  SoldOnce'
<1>0. TypeOK /\ PhaseMatches /\ SellerKnows /\ Exclusive /\ KnownElsewhere
  BY DEF SaleInv, Consistent
<1>1. ASSUME NEW x \in Call, NEW y \in Call, x # y, On[x] = On[y],
             Book(x), Booked(y), ~ Freed(On[x]), ~ Hole(x, y)
      PROVE  FALSE
  <2>1. pc[x] = "inside" /\ At[x] \in Node /\ seats[At[x]][On[x]] = Free
    BY <1>1, OpPlace DEF Book, Available, Op
  <2>2. /\ <<x, y>> \notin lost /\ <<y, x>> \notin lost
        /\ ~ Unheard(y, At[x], On[y]) /\ At[x] \notin reborn
        /\ At[y] \notin reborn /\ ~ Freed(On[y])
    BY <1>1 DEF Hole
  <2>3. At[x] # At[y]
    BY <1>0, <1>1, <2>1, <2>2 DEF SellerKnows
  <2>4. pc[y] = "syncing"
    BY <1>0, <1>1, <2>1, <2>2, <2>3 DEF KnownElsewhere
  <2>5. <<x, y>> \in Conflict
    BY <1>1, <2>3, ConflictIsOfNodes
  <2>6. Inside(x) /\ Inside(y)
    BY <1>0, <2>1, <2>4 DEF PhaseMatches, PhaseOf, Inside
  <2> QED
    BY <1>0, <1>1, <2>2, <2>5, <2>6 DEF Exclusive
<1> SUFFICES ASSUME NEW c \in Call, NEW d \in Call, c # d, On[c] = On[d],
                    Booked(c)', Booked(d)', ~ Freed(On[c])', ~ Hole(c, d)'
             PROVE  FALSE
  BY DEF SoldOnce
<1>2. ~ Freed(On[c]) /\ ~ Freed(On[d]) /\ ~ Hole(c, d)
  BY <1>0, StepGrows
<1>3. ~ Hole(d, c)
  BY <1>2 DEF Hole
<1>4. ~ (Book(c) /\ Book(d))
  BY <1>0 DEF Book, StartSync, TypeOK, Op
<1> QED
  BY <1>0, <1>1, <1>2, <1>3, <1>4, BookedSince DEF SaleInv, SoldOnce

LEMMA SaleStep == SaleInv /\ [Next]_vars => SaleInv'
<1> SUFFICES ASSUME SaleInv, [Next]_vars PROVE SaleInv'
  OBVIOUS
<1>1. Consistent'
  BY ConsistentStep DEF SaleInv
<1>2. Exclusive'
  <2>1. LockTypeOK /\ Exclusive /\ [LockNext]_lockVars
    BY PhaseStep DEF SaleInv, Consistent, TypeOK, LockTypeOK, Phase
  <2>2. CASE UNCHANGED lockVars
    BY <2>1, <2>2 DEF lockVars, Exclusive, Inside
  <2> QED
    BY <2>1, <2>2, LockStepExclusive
<1>3. CrashedIsReborn'
  BY PcMoves, StepGrows DEF Moves, CrashedIsReborn, SaleInv, Consistent
<1>4. KnownElsewhere'
  BY KnownStep DEF SaleInv, Consistent
<1> QED
  BY <1>1, <1>2, <1>3, <1>4, SoldOnceStep DEF SaleInv

LEMMA SaleInit == Init => SaleInv
<1> SUFFICES ASSUME Init PROVE SaleInv
  OBVIOUS
<1>1. \A o \in Op : pc[o] = "start"
  BY DEF Init
<1>2. Exclusive
  BY DEF Init, LockInit, Exclusive, Inside
<1> QED
  BY <1>1, <1>2, ConsistentInit DEF SaleInv, CrashedIsReborn, KnownElsewhere,
     SoldOnce, Booked, Op

LEMMA SaleAlways == Spec => []SaleInv
  BY SaleInit, SaleStep, PTL DEF Spec

LEMMA SoldIsKnown == SaleInv => SoldIsKnownEverywhere
<1> SUFFICES ASSUME SaleInv, NEW c \in Call, pc[c] = "sold", ~ Freed(On[c]),
                    NEW n \in Node, n \notin reborn, ~ Unheard(c, n, On[c]),
                    seats[n][On[c]] # c
             PROVE  \E d \in Call \ {c} : seats[n][On[c]] = d /\ Hole(c, d)
  BY DEF SoldIsKnownEverywhere
<1> DEFINE d == seats[n][On[c]]
<1>0. TypeOK /\ EntryIsBought /\ SellerKnows /\ CrashedIsReborn /\ SoldOnce
  BY DEF SaleInv, Consistent
<1>1. Booked(c) /\ On[c] \in Seat
  BY <1>0 DEF Booked, SellerKnows
<1>2. d # Free
  <2>1. CASE n = At[c]
    BY <1>0, <1>1, <2>1 DEF SellerKnows
  <2>2. CASE n # At[c]
    BY <1>1, <2>2 DEF SaleInv, KnownElsewhere
  <2> QED
    BY <2>1, <2>2
<1>3. d \in Call \ {c} /\ On[d] = On[c] /\ Bought(d)
  BY <1>0, <1>1, <1>2 DEF TypeOK, EntryIsBought
<1>4. CASE Booked(d)
  BY <1>0, <1>1, <1>3, <1>4 DEF SoldOnce
<1>5. CASE pc[d] = "crashed"
  BY <1>0, <1>3, <1>5 DEF CrashedIsReborn, Hole, Op
<1> QED
  BY <1>3, <1>4, <1>5 DEF Bought, Booked

\* No two customers buy a seat that nobody frees, on one node or on two, unless
\* the lock lost that pair, one node did not hear of the other's sale, or one of
\* them restarted: the second check, the lock and the update that is answered
\* before the lock is given up, whatever fails around them.
THEOREM SeatSoldOnce == Spec => []SoldOnce
  BY SaleAlways, PTL DEF SaleInv

\* When a customer is told that a seat is theirs every node that heard of it and
\* kept its table has an entry for it, their own or that of one who bought the
\* seat through a hole.
THEOREM SoldSeatIsKnown == Spec => []SoldIsKnownEverywhere
  BY SaleAlways, SoldIsKnown, PTL
-----------------------------------------------------------------------------
(***************************************************************************)
(* The tables agree once nobody is sending, seat by seat.                  *)
(***************************************************************************)

\* Nothing has gone wrong with the seat so far.
Clean(s) ==
  /\ s \notin crossed
  /\ \A o \in Op, p \in Node : ~ Unheard(o, p, s)
  /\ \A o \in Op : ~ (pc[o] = "crashed" /\ Concerns(o, s))

ToBeSent(o, s) == \E i \in DOMAIN unsent[o] : unsent[o][i] = s

\* One operation sends the seat at a time, every update of it is awaited, and a
\* node that kept its table has the entry being sent or is about to get it; when
\* nobody is sending, all have the same.
OneSends(s) == \A o, q \in Op : Syncing(o, s) /\ Syncing(q, s) => o = q
Awaited(s) == /\ \A m \in wire : m[3] = s => m \in open
              /\ \A m \in open : m[3] = s => Syncing(m[1], s)
Reaches(s) ==
  \A o \in Op, p \in Node \ reborn :
    Syncing(o, s) => \/ seats[p][s] = Entry(o)
                     \/ p # At[o] /\ (ToBeSent(o, s) \/ <<o, p, s>> \in open)
Agree(s) ==
  (\A o \in Op : ~ Syncing(o, s)) =>
    \A m, n \in Node \ reborn : seats[m][s] = seats[n][s]

InStep(s) == OneSends(s) /\ Awaited(s) /\ Reaches(s) /\ Agree(s)

InStepInv == Consistent /\ \A s \in Seat : Clean(s) => InStep(s)

\* The steps, as far as the tables are concerned.
Starts(o) == Book(o) \/ ReleaseSeat(o) \/ ResetSeats(o)

Rests(o) ==
  \E to \in PC \ {"syncing"} :
    /\ GoOn(o, to)
    /\ pc[o] = "syncing" => unsent[o] = <<>> /\ Answered(o)

LEMMA StepKinds ==
  ASSUME [Next]_vars
  PROVE  \/ \E c \in Call : Book(c)
         \/ \E a \in Admin : ReleaseSeat(a) \/ ResetSeats(a)
         \/ \E o \in Op : Rests(o) \/ SendUpdates(o)
         \/ \E m \in wire : HandleUpdate(m)
         \/ \E m \in open : UpdateFails(m)
         \/ \E n \in Node : Restart(n)
         \/ UNCHANGED <<seats, opVars, rpcVars, history>>
<1> USE DEF Rests, PC, Result, Op
<1>1. ASSUME NEW c \in Call, BookSeat(c) PROVE Book(c) \/ Rests(c)
  <2>1. CASE RefuseSeat(c)
    BY <2>1 DEF RefuseSeat
  <2>2. CASE AskForSeat(c)
    BY <2>2 DEF AskForSeat, BeginAsking
  <2>3. CASE EnterSeat(c)
    BY <2>3 DEF EnterSeat, BeginInside
  <2>4. CASE MutexFails(c)
    BY <2>4 DEF MutexFails, GiveUpAsking
  <2>5. CASE BookTaken(c)
    BY <2>5 DEF BookTaken
  <2>6. CASE LeaveSeat(c)
    BY <2>6 DEF LeaveSeat, FinishInside
  <2> QED
    BY <1>1, <2>1, <2>2, <2>3, <2>4, <2>5, <2>6 DEF BookSeat
<1>2. ASSUME NEW a \in Admin, AdminStep(a)
      PROVE  ReleaseSeat(a) \/ ResetSeats(a) \/ Rests(a)
  BY <1>2 DEF AdminStep, FinishAdmin
<1> QED
  BY <1>1, <1>2 DEF Next, vars, storeVars, Connect, LoseExclusion

LEMMA CleanBefore ==
  ASSUME TypeOK, [Next]_vars, NEW s \in Seat, Clean(s)'
  PROVE  Clean(s)
<1>1. \A o \in Op : pc[o] = "crashed" => pc'[o] = "crashed"
  BY PcMoves DEF Moves, Result
<1>2. \A o \in Op : Concerns(o, s) <=> Concerns(o, s)'
  BY DEF Concerns
<1> QED
  BY <1>1, <1>2, HistoryGrows, StepGrows DEF Clean

\* What an operation sends when it starts includes every seat it changes.
LEMMA SendsWhatItChanges ==
  ASSUME NEW o \in Op, NEW s \in Seat, Concerns(o, s)
  PROVE  \E i \in DOMAIN ToSend(o) : ToSend(o)[i] = s
<1>1. CASE o \in Admin /\ Kind[o] = "reset"
  BY <1>1, SeatAssumption DEF ToSend
<1>2. CASE ~ (o \in Admin /\ Kind[o] = "reset")
  BY <1>2 DEF ToSend, Concerns
<1> QED
  BY <1>1, <1>2

LEMMA InStepStarts ==
  ASSUME TypeOK, NEW s \in Seat, InStep(s), Clean(s)', NEW o \in Op, Starts(o),
         o \in Admin <=> ~ Book(o)
  PROVE  InStep(s)'
<1>0. /\ pc \in [Op -> PC] /\ unsent \in [Op -> Seq(Seat)] /\ At[o] \in Node
      /\ seats \in [Node -> [Seat -> Call \cup {Free}]]
  BY OpPlace DEF TypeOK
<1>1. /\ pc' = [pc EXCEPT ![o] = "syncing"] /\ pc[o] # "syncing"
      /\ unsent' = [unsent EXCEPT ![o] = ToSend(o)]
      /\ wire' = wire /\ open' = open /\ reborn' = reborn
  BY DEF Starts, Book, ReleaseSeat, ResetSeats, StartSync, rpcVars
<1>2. Concerns(o, s) => \A q \in Op : ~ Syncing(q, s)
  <2>1. crossed' = crossed \cup {x \in Seat : /\ Concerns(o, x)
                                              /\ \E q \in Op : Syncing(q, x)}
    BY DEF Starts, Book, ReleaseSeat, ResetSeats, StartSync
  <2> QED
    BY <2>1 DEF Clean
<1>3. \A n \in Node : seats'[n][s] = IF n = At[o] /\ Concerns(o, s)
                                       THEN Entry(o) ELSE seats[n][s]
  <2>1. CASE Book(o)
    <3>1. o \in Call /\ o \notin Admin
      BY <2>1, OpAssumption DEF Op
    <3>2. seats' = [seats EXCEPT ![At[o]][On[o]] = o]
      BY <2>1 DEF Book, Write
    <3> QED
      BY <1>0, <3>1, <3>2 DEF Concerns, Entry
  <2>2. CASE ~ Book(o) /\ ReleaseSeat(o)
    <3>1. o \in Admin /\ o \notin Call /\ Kind[o] = "release"
      BY <2>2, OpAssumption DEF ReleaseSeat
    <3>2. seats' = [seats EXCEPT ![At[o]][On[o]] = Free]
      BY <2>2 DEF ReleaseSeat, Write
    <3> QED
      BY <1>0, <3>1, <3>2 DEF Concerns, Entry
  <2>3. CASE ~ Book(o) /\ ResetSeats(o)
    <3>1. o \in Admin /\ o \notin Call /\ Kind[o] = "reset"
      BY <2>3, OpAssumption DEF ResetSeats
    <3>2. seats' = [seats EXCEPT ![At[o]] = AllFree]
      BY <2>3 DEF ResetSeats
    <3> QED
      BY <1>0, <3>1, <3>2 DEF Concerns, Entry, AllFree
  <2> QED
    BY <2>1, <2>2, <2>3 DEF Starts
<1>4. \A q \in Op : Concerns(q, s)' <=> Concerns(q, s)
  BY DEF Concerns
<1>5. \A q \in Op : Syncing(q, s)' <=>
                      Syncing(q, s) \/ (q = o /\ Concerns(o, s))
  BY <1>0, <1>1, <1>4 DEF Syncing
<1>6. CASE Concerns(o, s)
  <2>1. OneSends(s)' /\ Agree(s)'
    BY <1>2, <1>5, <1>6 DEF OneSends, Agree
  <2>2. Awaited(s)'
    <3>1. \A m \in open : m[1] \in Op
      BY UpdateParts DEF TypeOK
    <3>2. \A m \in open : m[3] # s
      BY <1>2, <1>6, <3>1 DEF Awaited, InStep
    <3>3. \A m \in wire : m[3] # s
      BY <3>2 DEF Awaited, InStep
    <3> QED
      BY <1>1, <3>2, <3>3 DEF Awaited
  <2>3. ToBeSent(o, s)'
    BY <1>0, <1>1, <1>6, SendsWhatItChanges DEF ToBeSent
  <2>4. Reaches(s)'
    <3>1. ASSUME NEW q \in Op, NEW p \in Node \ reborn', Syncing(q, s)'
          PROVE  \/ seats'[p][s] = Entry(q)
                 \/ p # At[q] /\ (ToBeSent(q, s)' \/ <<q, p, s>> \in open')
      BY <1>2, <1>3, <1>5, <1>6, <2>3, <3>1
    <3> QED
      BY <3>1 DEF Reaches, Entry
  <2> QED
    BY <2>1, <2>2, <2>4 DEF InStep
<1>7. CASE ~ Concerns(o, s)
  <2>1. \A q \in Op : Syncing(q, s)' <=> Syncing(q, s)
    BY <1>5, <1>7
  <2>2. \A n \in Node : seats'[n][s] = seats[n][s]
    BY <1>3, <1>7
  <2>3. OneSends(s)' /\ Agree(s)' /\ Awaited(s)'
    BY <1>1, <2>1, <2>2 DEF OneSends, Agree, Awaited, InStep, Op, Update, TypeOK
  <2>4. \A q \in Op : Syncing(q, s) => ToBeSent(q, s)' = ToBeSent(q, s)
    BY <1>0, <1>1, <1>7 DEF Syncing, ToBeSent
  <2>5. Reaches(s)'
    BY <1>1, <2>1, <2>2, <2>4 DEF Reaches, InStep, Entry
  <2> QED
    BY <2>3, <2>5 DEF InStep
<1> QED
  BY <1>6, <1>7

LEMMA InStepRests ==
  ASSUME TypeOK, NEW s \in Seat, InStep(s), NEW o \in Op, Rests(o)
  PROVE  InStep(s)'
<1>0. pc \in [Op -> PC] /\ open \subseteq Update
  BY DEF TypeOK
<1>1. PICK to \in PC \ {"syncing"} :
        /\ GoOn(o, to)
        /\ pc[o] = "syncing" => unsent[o] = <<>> /\ Answered(o)
  BY DEF Rests
<1>2. /\ pc' = [pc EXCEPT ![o] = to]
      /\ seats' = seats /\ unsent' = unsent /\ wire' = wire /\ open' = open
      /\ reborn' = reborn
  BY <1>1 DEF GoOn, storeVars, rpcVars, history
<1>3. \A q \in Op : Syncing(q, s)' <=> Syncing(q, s) /\ q # o
  BY <1>0, <1>2 DEF Syncing, Concerns
<1>4. OneSends(s)'
  BY <1>3 DEF OneSends, InStep
<1>5. Awaited(s)'
  <2>1. ASSUME NEW m \in open, m[3] = s PROVE Syncing(m[1], s)'
    <3>1. m[1] \in Op /\ Syncing(m[1], s)
      BY <1>0, <2>1, UpdateParts DEF InStep, Awaited
    <3>2. m[1] # o
      BY <1>1, <3>1 DEF Syncing, Answered
    <3> QED
      BY <1>3, <3>1, <3>2
  <2> QED
    BY <1>2, <2>1 DEF InStep, Awaited
<1>6. Reaches(s)'
  BY <1>2, <1>3 DEF Reaches, InStep, Entry, ToBeSent
<1>7. Agree(s)'
  <2>1. CASE Syncing(o, s)
    <3>1. unsent[o] = <<>> /\ Answered(o)
      BY <1>1, <2>1 DEF Syncing
    <3>2. ~ ToBeSent(o, s) /\ \A p \in Node : <<o, p, s>> \notin open
      BY <3>1 DEF ToBeSent, Answered
    <3>3. \A p \in Node \ reborn : seats[p][s] = Entry(o)
      BY <2>1, <3>2 DEF Reaches, InStep
    <3> QED
      BY <1>2, <3>3 DEF Agree
  <2>2. CASE ~ Syncing(o, s)
    BY <1>2, <1>3, <2>2 DEF Agree, InStep
  <2> QED
    BY <2>1, <2>2
<1> QED
  BY <1>4, <1>5, <1>6, <1>7 DEF InStep

LEMMA InStepSends ==
  ASSUME TypeOK, UnsentMatches, NEW s \in Seat, InStep(s), Clean(s)',
         NEW o \in Op, SendUpdates(o)
  PROVE  InStep(s)'
<1> DEFINE h == Head(unsent[o])
<1>0. unsent \in [Op -> Seq(Seat)] /\ unsent[o] # <<>> /\ pc[o] = "syncing"
  BY DEF TypeOK, SendUpdates
<1>1. /\ h = unsent[o][1] /\ Concerns(o, h)
      /\ \A i \in DOMAIN unsent[o] : i = 1 \/ Tail(unsent[o])[i - 1] = unsent[o][i]
      /\ \A i \in DOMAIN unsent[o] : i = 1 \/ i - 1 \in DOMAIN Tail(unsent[o])
  BY <1>0 DEF UnsentMatches
<1>2. /\ seats' = seats /\ pc' = pc /\ reborn' = reborn
      /\ unsent' = [unsent EXCEPT ![o] = Tail(@)]
      /\ wire' = wire \cup {<<o, p, h>> : p \in SendTo(o)}
      /\ open' = open \cup {<<o, p, h>> : p \in SendTo(o)}
      /\ leftOut' = leftOut \cup {<<o, p, h>> : p \in Node \ (SendTo(o) \cup {At[o]})}
  BY DEF SendUpdates, storeVars
<1>3. \A q \in Op : Syncing(q, s)' <=> Syncing(q, s)
  BY <1>2 DEF Syncing, Concerns
<1>4. OneSends(s)' /\ Agree(s)'
  BY <1>2, <1>3 DEF OneSends, Agree, InStep
<1>5. Awaited(s)'
  <2>1. h = s => Syncing(o, s)
    BY <1>0, <1>1 DEF Syncing
  <2>2. \A m \in open : m[1] \in Op
    BY UpdateParts DEF TypeOK
  <2> QED
    BY <1>2, <1>3, <2>1, <2>2 DEF Awaited, InStep
<1>6. Reaches(s)'
  <2>1. ASSUME NEW q \in Op, NEW p \in Node \ reborn, Syncing(q, s),
               seats[p][s] # Entry(q)
        PROVE  p # At[q] /\ (ToBeSent(q, s)' \/ <<q, p, s>> \in open')
    <3>1. p # At[q] /\ (ToBeSent(q, s) \/ <<q, p, s>> \in open)
      BY <2>1 DEF Reaches, InStep
    <3>2. CASE q = o /\ ToBeSent(q, s)
      <4>1. PICK i \in DOMAIN unsent[o] : unsent[o][i] = s
        BY <3>2 DEF ToBeSent
      <4>2. CASE i = 1
        <5>1. h = s
          BY <1>1, <4>1, <4>2
        <5>2. <<o, p, s>> \notin leftOut'
          BY DEF Clean, Unheard
        <5> QED
          BY <1>2, <3>1, <3>2, <5>1, <5>2
      <4>3. CASE i # 1
        BY <1>0, <1>1, <1>2, <3>1, <3>2, <4>1, <4>3 DEF ToBeSent
      <4> QED
        BY <4>2, <4>3
    <3>3. CASE q # o /\ ToBeSent(q, s)
      BY <1>0, <1>2, <3>1, <3>3 DEF ToBeSent
    <3>4. CASE <<q, p, s>> \in open
      BY <1>2, <3>1, <3>4
    <3> QED
      BY <3>1, <3>2, <3>3, <3>4
  <2> QED
    BY <1>2, <1>3, <2>1 DEF Reaches, Entry
<1> QED
  BY <1>4, <1>5, <1>6 DEF InStep

LEMMA InStepHandles ==
  ASSUME TypeOK, NEW s \in Seat, InStep(s), NEW m \in wire, HandleUpdate(m)
  PROVE  InStep(s)'
<1>0. /\ seats \in [Node -> [Seat -> Call \cup {Free}]]
      /\ m[1] \in Op /\ m[2] \in Node /\ m[3] \in Seat
      /\ m = <<m[1], m[2], m[3]>>
  BY UpdateParts DEF TypeOK
<1>1. /\ pc' = pc /\ unsent' = unsent /\ reborn' = reborn
      /\ seats' = [seats EXCEPT ![m[2]][m[3]] = Entry(m[1])]
      /\ wire' = wire \ {m} /\ open' = open \ {m}
  BY DEF HandleUpdate, Write, opVars, history
<1>2. \A q \in Op : Syncing(q, s)' <=> Syncing(q, s)
  BY <1>1 DEF Syncing, Concerns
<1>3. m[3] = s => Syncing(m[1], s)
  BY DEF InStep, Awaited
<1>4. OneSends(s)'
  BY <1>2 DEF OneSends, InStep
<1>5. Awaited(s)'
  <2>1. \A u \in open : u[1] \in Op
    BY UpdateParts DEF TypeOK
  <2>2. \A u \in wire' : u[3] = s => u \in open'
    BY <1>1 DEF Awaited, InStep
  <2>3. \A u \in open' : u[3] = s => Syncing(u[1], s)'
    BY <1>1, <1>2, <2>1 DEF Awaited, InStep
  <2> QED
    BY <2>2, <2>3 DEF Awaited
<1>6. Reaches(s)'
  <2>1. ASSUME NEW q \in Op, NEW p \in Node \ reborn, Syncing(q, s)
        PROVE  \/ seats'[p][s] = Entry(q)
               \/ p # At[q] /\ (ToBeSent(q, s) \/ <<q, p, s>> \in open')
    <3>1. CASE m[3] = s /\ p = m[2]
      BY <1>0, <1>1, <1>3, <2>1, <3>1 DEF InStep, OneSends
    <3>2. CASE m[3] # s \/ p # m[2]
      <4>1. seats'[p][s] = seats[p][s]
        BY <1>0, <1>1, <3>2
      <4>2. <<q, p, s>> # m
        BY <1>0, <3>2
      <4> QED
        BY <1>1, <2>1, <4>1, <4>2 DEF InStep, Reaches
    <3> QED
      BY <3>1, <3>2
  <2> QED
    BY <1>1, <1>2, <2>1 DEF Reaches, Entry, ToBeSent
<1>7. Agree(s)'
  BY <1>0, <1>1, <1>2, <1>3 DEF Agree, InStep
<1> QED
  BY <1>4, <1>5, <1>6, <1>7 DEF InStep

LEMMA InStepFails ==
  ASSUME TypeOK, NEW s \in Seat, InStep(s), Clean(s)', NEW m \in open,
         UpdateFails(m)
  PROVE  InStep(s)'
<1>0. m[1] \in Op /\ m[2] \in Node /\ m = <<m[1], m[2], m[3]>>
  BY UpdateParts DEF TypeOK
<1>1. /\ pc' = pc /\ unsent' = unsent /\ reborn' = reborn /\ seats' = seats
      /\ wire' = wire /\ open' = open \ {m} /\ missed' = missed \cup {m}
  BY DEF UpdateFails, storeVars, opVars
<1>2. m[3] # s
  <2>1. m[3] = s => Unheard(m[1], m[2], s)'
    BY <1>0, <1>1 DEF Unheard
  <2> QED
    BY <1>0, <2>1 DEF Clean
<1>3. \A q \in Op : Syncing(q, s)' <=> Syncing(q, s)
  BY <1>1 DEF Syncing, Concerns
<1>4. OneSends(s)' /\ Agree(s)'
  BY <1>1, <1>3 DEF OneSends, Agree, InStep
<1>5. Awaited(s)'
  BY <1>1, <1>2, <1>3, UpdateParts DEF Awaited, InStep, TypeOK
<1>6. Reaches(s)'
  <2>1. \A q \in Op, p \in Node : <<q, p, s>> # m
    BY <1>0, <1>2
  <2> QED
    BY <1>1, <1>3, <2>1 DEF Reaches, Entry, InStep, ToBeSent
<1> QED
  BY <1>4, <1>5, <1>6 DEF InStep

LEMMA InStepRestart ==
  ASSUME TypeOK, NEW s \in Seat, InStep(s), Clean(s)', NEW n \in Node, Restart(n)
  PROVE  InStep(s)'
<1>0. pc \in [Op -> PC] /\ seats \in [Node -> [Seat -> Call \cup {Free}]]
  BY DEF TypeOK
<1>1. /\ pc' = [o \in Op |-> IF o \in Alive(n) THEN "crashed" ELSE pc[o]]
      /\ seats' = [seats EXCEPT ![n] = AllFree] /\ reborn' = reborn \cup {n}
      /\ unsent' = unsent /\ wire' = wire /\ open' = {m \in open : At[m[1]] # n}
  BY DEF Restart, Die
<1>2. \A o \in Op : Syncing(o, s) => At[o] # n
  <2>1. ASSUME NEW o \in Op, Syncing(o, s), At[o] = n PROVE FALSE
    <3>1. o \in Alive(n)
      BY <2>1 DEF Syncing, Alive, Result
    <3>2. pc'[o] = "crashed" /\ Concerns(o, s)
      BY <1>1, <2>1, <3>1 DEF Syncing
    <3> QED
      BY <3>2 DEF Clean, Concerns
  <2> QED
    BY <2>1
<1>3. \A o \in Op : Syncing(o, s)' <=> Syncing(o, s)
  BY <1>0, <1>1, <1>2 DEF Syncing, Concerns, Alive
<1>4. \A p \in Node \ reborn' : seats'[p] = seats[p]
  BY <1>0, <1>1
<1>5. \A m \in open : m[3] = s => m \in open'
  <2>1. \A m \in open : m[1] \in Op
    BY UpdateParts DEF TypeOK
  <2> QED
    BY <1>1, <1>2, <2>1 DEF InStep, Awaited
<1>6. OneSends(s)' /\ Agree(s)'
  BY <1>1, <1>3, <1>4 DEF OneSends, Agree, InStep
<1>7. Awaited(s)'
  BY <1>1, <1>3, <1>5, UpdateParts DEF Awaited, InStep, TypeOK
<1>8. Reaches(s)'
  BY <1>1, <1>3, <1>4, <1>5 DEF Reaches, Entry, InStep, ToBeSent
<1> QED
  BY <1>6, <1>7, <1>8 DEF InStep

LEMMA InStepStep == InStepInv /\ [Next]_vars => InStepInv'
<1> SUFFICES ASSUME InStepInv, [Next]_vars PROVE InStepInv'
  OBVIOUS
<1>0. Consistent /\ TypeOK /\ UnsentMatches /\ Consistent'
  BY ConsistentStep DEF InStepInv, Consistent
<1>1. ASSUME NEW s \in Seat, Clean(s)' PROVE InStep(s)'
  <2>0. InStep(s)
    BY <1>0, <1>1, CleanBefore DEF InStepInv
  <2>1. CASE UNCHANGED <<seats, opVars, rpcVars, history>>
    <3>1. /\ seats' = seats /\ pc' = pc /\ unsent' = unsent /\ wire' = wire
          /\ open' = open /\ reborn' = reborn
      BY <2>1 DEF opVars, rpcVars, history
    <3> QED
      BY <2>0, <3>1 DEF InStep, OneSends, Awaited, Reaches, Agree, Syncing,
         Concerns, ToBeSent, Entry
  <2>2. ASSUME NEW c \in Call, Book(c) PROVE InStep(s)'
    BY <1>0, <1>1, <2>0, <2>2, InStepStarts, OpAssumption DEF Starts, Op
  <2>3. ASSUME NEW a \in Admin, ReleaseSeat(a) \/ ResetSeats(a)
        PROVE  InStep(s)'
    <3>1. a \in Op /\ ~ Book(a)
      BY <2>3 DEF Op, Book, ReleaseSeat, ResetSeats
    <3> QED
      BY <1>0, <1>1, <2>0, <2>3, <3>1, InStepStarts DEF Starts
  <2> QED
    BY <1>0, <1>1, <2>0, <2>1, <2>2, <2>3, StepKinds, InStepRests, InStepSends,
       InStepHandles, InStepFails, InStepRestart
<1> QED
  BY <1>0, <1>1 DEF InStepInv

LEMMA InStepInit == Init => InStepInv
<1> SUFFICES ASSUME Init PROVE InStepInv
  OBVIOUS
<1>1. \A o \in Op, s \in Seat : ~ Syncing(o, s)
  BY DEF Init, Syncing
<1>2. \A s \in Seat : Agree(s)
  BY DEF Init, AllFree, Agree
<1> QED
  BY <1>1, <1>2, ConsistentInit DEF Init, InStepInv, InStep, OneSends, Awaited,
     Reaches

LEMMA AgreeUnlessCrossed == InStepInv => DifferOnlyIfCrossed
  BY DEF InStepInv, DifferOnlyIfCrossed, Clean, InStep, Agree

\* The tables of the nodes agree on every seat that nobody is sending, after any
\* number of bookings, releases and resets: updates that cross, that are lost or
\* are not sent for want of a stub, and a death are all that can make them
\* differ for good.
THEOREM TablesAgree == Spec => []DifferOnlyIfCrossed
  BY InStepInit, InStepStep, AgreeUnlessCrossed, PTL DEF Spec
=============================================================================
