------------------------------ MODULE EventLog ------------------------------
(***************************************************************************)
(* The event logger of a node, internal/events/logger.go, and the clients  *)
(* that stream its events, handleSSE of internal/dashboard/api.go.         *)
(*                                                                         *)
(* A writer is one execution of Log.  It stores its event in the ring      *)
(* under mu, writes the file under no lock, and offers the event to every  *)
(* subscriber under the read lock of subMu, waiting for none of them.  A   *)
(* client subscribes, receives until its request ends, and unsubscribes.   *)
(* The process may die and start anew: the file outlives it, and nothing   *)
(* else does.                                                              *)
(***************************************************************************)
EXTENDS Analytics

CONSTANTS
  Writer,       \* executions of Log; each stands for its event too
  After,        \* After[w]: the executions the same goroutine makes before w
  Client,       \* executions of handleSSE
  MaxInMem,     \* capacity of the ring (500 in the code)
  BufferSize,   \* capacity of a subscriber's channel (100 in the code)
  FileMayFail,  \* writers whose write of the file may fail
  MaxLives      \* processes that run on the node, one after the other

ASSUME SizeAssumption == MaxInMem \in Nat \ {0} /\ BufferSize \in Nat \ {0}
ASSUME WriterAssumption ==
  /\ Writer = Event
  /\ After \in [Writer -> SUBSET Writer]
  /\ FileMayFail \subseteq Writer
ASSUME LivesAssumption == MaxLives \in Nat \ {0}

\* BookSeat logs its request, and then one answer: each answer has a request
\* for the same seat before it, which no other answer has.
Answers == {w \in Writer : Type[w] \in {"success", "failed"}}
RequestsOf(a) == {r \in After[a] : Type[r] = "request" /\ SeatOf[r] = SeatOf[a]}
ASSUME AnswerAssumption ==
  \E asked \in [Answers -> Writer] :
    /\ \A a \in Answers : asked[a] \in RequestsOf(a)
    /\ \A a, b \in Answers : asked[a] = asked[b] => a = b

VARIABLES
  pc,           \* where each writer is
  toNotify,     \* the subscribers its loop has yet to visit
  events,       \* the ring
  logFile,      \* the lines of the file
  subscribers,
  client,       \* where each client is
  channel,      \* the buffered events of its channel
  closed,       \* whether its channel is closed
  stored,       \* history: every event, in the order of the ring
  since,        \* history: the events logged after the client subscribed
  offered,      \* history: the events a writer has offered to the client
  again,        \* history: clients that were offered an event twice
  unwritten,    \* history: the events whose write of the file failed
  life,         \* history: how many processes there have been
  earlier       \* history: the file as the process found it

lifeVars == <<life, earlier>>
logVars == <<events, logFile, stored, unwritten, lifeVars>>
writerVars == <<pc, toNotify>>
streamVars == <<channel, offered, again>>
clientVars == <<subscribers, client, closed, since>>
vars == <<logVars, writerVars, streamVars, clientVars>>

\* A writer is past when its process is, whether it had begun or never will.
WriterPC == {"start", "stored", "written", "notifying", "done", "past"}
ClientPC == {"off", "on", "leaving", "gone"}

Init ==
  /\ pc = [w \in Writer |-> "start"]
  /\ toNotify = [w \in Writer |-> <<>>]
  /\ events = <<>>
  /\ logFile = <<>>
  /\ subscribers = <<>>
  /\ client = [c \in Client |-> "off"]
  /\ channel = [c \in Client |-> <<>>]
  /\ closed = [c \in Client |-> FALSE]
  /\ stored = <<>>
  /\ since = [c \in Client |-> {}]
  /\ offered = [c \in Client |-> {}]
  /\ again = {}
  /\ unwritten = {}
  /\ life = 1
  /\ earlier = <<>>
-----------------------------------------------------------------------------
(***************************************************************************)
(* Log.                                                                    *)
(***************************************************************************)

\* Broken: > in place of >=.
PushBeyond(ring, w) ==
  Append(IF Len(ring) > MaxInMem THEN Tail(ring) ELSE ring, w)

\* Broken: a full ring keeps what it has and loses the new event.
PushIfRoom(ring, w) ==
  IF Len(ring) >= MaxInMem THEN ring ELSE Append(ring, w)

\* A full ring gives up its oldest event.
Push(ring, w) ==
  Append(IF Len(ring) >= MaxInMem THEN Tail(ring) ELSE ring, w)

Store(w) ==
  /\ pc[w] = "start"
  /\ \A v \in After[w] : pc[v] = "done"
  /\ pc' = [pc EXCEPT ![w] = "stored"]
  /\ events' = Push(events, w)
  /\ stored' = Append(stored, w)
  /\ UNCHANGED <<logFile, unwritten, lifeVars, toNotify, streamVars, clientVars>>

\* Under no lock: the order of the file is not that of the ring.  An error is
\* not looked at.
WriteFile(w) ==
  /\ pc[w] = "stored"
  /\ pc' = [pc EXCEPT ![w] = "written"]
  /\ \/ logFile' = Append(logFile, w) /\ UNCHANGED unwritten
     \/ /\ w \in FileMayFail
        /\ unwritten' = unwritten \cup {w}
        /\ UNCHANGED logFile
  /\ UNCHANGED <<events, stored, lifeVars, toNotify, streamVars, clientVars>>

\* Broken: Log goes on, and the write is left out.
WrittenOrNot(w) == pc[w] \in {"stored", "written"}

\* The write has returned.
Written(w) == pc[w] = "written"

\* subMu.RLock().
StartNotifying(w) ==
  /\ Written(w)
  /\ pc' = [pc EXCEPT ![w] = "notifying"]
  /\ toNotify' = [toNotify EXCEPT ![w] = subscribers]
  /\ UNCHANGED <<logVars, streamVars, clientVars>>

HasRoom(c) == Len(channel[c]) < BufferSize

\* Broken: a plain send, which waits for room.
WaitForRoom(c) == HasRoom(c)

\* select with a default: the writer waits for nobody.
NeedNotWait(c) == TRUE

\* One round of the loop: a channel that is full misses the event.
Notify(w) ==
  /\ toNotify[w] # <<>>
  /\ LET c == Head(toNotify[w])
     IN  /\ NeedNotWait(c)
         /\ channel' = IF HasRoom(c) THEN [channel EXCEPT ![c] = Append(@, w)]
                                     ELSE channel
         /\ offered' = [offered EXCEPT ![c] = @ \cup {w}]
         /\ again' = IF w \in offered[c] THEN again \cup {c} ELSE again
  /\ toNotify' = [toNotify EXCEPT ![w] = Tail(@)]
  /\ UNCHANGED <<logVars, pc, clientVars>>

\* subMu.RUnlock().
Finish(w) ==
  /\ pc[w] = "notifying"
  /\ toNotify[w] = <<>>
  /\ pc' = [pc EXCEPT ![w] = "done"]
  /\ UNCHANGED <<logVars, toNotify, streamVars, clientVars>>
-----------------------------------------------------------------------------
(***************************************************************************)
(* handleSSE, Subscribe and Unsubscribe.                                   *)
(***************************************************************************)

\* Broken: the lists of subscribers are changed without subMu.
CanLockNothing == TRUE

\* subMu can be locked: nobody holds it for reading.
CanLockSubMu == \A w \in Writer : pc[w] # "notifying"

Subscribe(c) ==
  /\ client[c] = "off"
  /\ CanLockSubMu
  /\ client' = [client EXCEPT ![c] = "on"]
  /\ subscribers' = Append(subscribers, c)
  /\ since' = [since EXCEPT ![c] = {w \in Writer : pc[w] = "start"}]
  /\ UNCHANGED <<logVars, writerVars, streamVars, closed>>

Receive(c) ==
  /\ client[c] = "on"
  /\ channel[c] # <<>>
  /\ channel' = [channel EXCEPT ![c] = Tail(@)]
  /\ UNCHANGED <<logVars, writerVars, offered, again, clientVars>>

\* The request is over; nothing receives from the channel any more.
Disconnect(c) ==
  /\ client[c] = "on"
  /\ client' = [client EXCEPT ![c] = "leaving"]
  /\ UNCHANGED <<logVars, writerVars, streamVars, subscribers, closed, since>>

\* Broken: subscribers[i+2:] in place of subscribers[i+1:].
WithoutTwo(c) ==
  LET i == CHOOSE j \in 1..Len(subscribers) + 1 :
             j <= Len(subscribers) => subscribers[j] = c
  IN  SubSeq(subscribers, 1, i - 1)
        \o SubSeq(subscribers, i + 2, Len(subscribers))

\* The first place in the list that holds the channel: a client that leaves
\* has one.
Without(c) ==
  LET i == CHOOSE j \in 1..Len(subscribers) : subscribers[j] = c
  IN  SubSeq(subscribers, 1, i - 1)
        \o SubSeq(subscribers, i + 1, Len(subscribers))

\* What the channel still holds is garbage, and what it was is forgotten.
Unsubscribe(c) ==
  /\ client[c] = "leaving"
  /\ CanLockSubMu
  /\ client' = [client EXCEPT ![c] = "gone"]
  /\ subscribers' = Without(c)
  /\ closed' = [closed EXCEPT ![c] = TRUE]
  /\ channel' = [channel EXCEPT ![c] = <<>>]
  /\ offered' = [offered EXCEPT ![c] = {}]
  /\ since' = [since EXCEPT ![c] = {}]
  /\ UNCHANGED <<logVars, writerVars, again>>
-----------------------------------------------------------------------------
(***************************************************************************)
(* The process around the logger.                                          *)
(***************************************************************************)

\* A goroutine that has logged something, or is about to, in this process.
HasBegun(w) == \E v \in After[w] \cup {w} : pc[v] # "start"

\* The process dies and NewLogger starts another one: it opens the file to append
\* to it and knows no event and no client.  What was not yet written never is.
Restart ==
  /\ life < MaxLives
  /\ life' = life + 1
  /\ earlier' = logFile
  /\ events' = <<>>
  /\ stored' = <<>>
  /\ pc' = [w \in Writer |-> IF HasBegun(w) THEN "past" ELSE pc[w]]
  /\ toNotify' = [w \in Writer |-> <<>>]
  /\ subscribers' = <<>>
  /\ client' = [c \in Client |-> IF client[c] = "off" THEN "off" ELSE "gone"]
  /\ closed' = [c \in Client |-> client[c] # "off"]
  /\ channel' = [c \in Client |-> <<>>]
  /\ since' = [c \in Client |-> {}]
  /\ offered' = [c \in Client |-> {}]
  /\ UNCHANGED <<logFile, unwritten, again>>
-----------------------------------------------------------------------------
Log(w) ==
  \/ Store(w)
  \/ WriteFile(w)
  \/ StartNotifying(w)
  \/ Notify(w)
  \/ Finish(w)

HandleSSE(c) ==
  \/ Subscribe(c)
  \/ Receive(c)
  \/ Disconnect(c)
  \/ Unsubscribe(c)

Next ==
  \/ \E w \in Writer : Log(w)
  \/ \E c \in Client : HandleSSE(c)
  \/ Restart

Spec == Init /\ [][Next]_vars

\* The logger's own goroutines run.  A client may stop reading for ever.
Fairness == \A w \in Writer : WF_vars(Log(w))

FairSpec == Spec /\ Fairness
-----------------------------------------------------------------------------
(***************************************************************************)
(* Properties.                                                             *)
(***************************************************************************)

\* Every variable has its type; the ring and the channels keep their bounds.
TypeOK ==
  /\ pc \in [Writer -> WriterPC]
  /\ toNotify \in [Writer -> Seq(Client)]
  /\ events \in Seq(Writer) /\ Len(events) <= MaxInMem
  /\ logFile \in Seq(Writer)
  /\ subscribers \in Seq(Client)
  /\ client \in [Client -> ClientPC]
  /\ channel \in [Client -> Seq(Writer)]
  /\ \A c \in Client : Len(channel[c]) <= BufferSize
  /\ closed \in [Client -> BOOLEAN]
  /\ stored \in Seq(Writer)
  /\ since \in [Client -> SUBSET Writer]
  /\ offered \in [Client -> SUBSET Writer]
  /\ again \subseteq Client
  /\ unwritten \subseteq FileMayFail
  /\ life \in 1..MaxLives
  /\ earlier \in Seq(Writer)

\* What a sequence of events holds.
In(log) == {log[i] : i \in DOMAIN log}

\* Events that have left the ring, as it was filled.
Departed == SubSeq(stored, 1, Len(stored) - Len(events))

\* GetRecent, with any limit that is not negative, returns the newest events of
\* the process, with none left out, and as many of them as the ring can hold.
RecentIsNewest ==
  \A n \in 0..Len(stored) :
    GetRecent(events, n) = GetRecent(stored, IF n > MaxInMem THEN MaxInMem ELSE n)

\* A send on a closed channel would end the process: a writer that is about to
\* offer its event never meets a channel that Unsubscribe has closed.
NeverSendsOnClosed ==
  \A w \in Writer, c \in Client : c \in In(toNotify[w]) => ~ closed[c]

\* Each event that is logged after a client subscribed is offered to it, and
\* exactly once, though other clients come and go meanwhile.
OfferedOnce ==
  /\ again = {}
  /\ \A c \in Client : \A w \in since[c] : pc[w] = "done" => w \in offered[c]

\* Though events of different goroutines are written in any order, and the
\* process may die between any two steps, the file that the pipeline reads never
\* has the answer to a booking and not the request before it, unless the write
\* of the request failed.
AnswerFollowsRequest ==
  \A i \in DOMAIN logFile : \A v \in After[logFile[i]] :
    v \in unwritten \/ \E j \in 1..(i - 1) : logFile[j] = v

\* Nothing is being logged, and no write of this process has failed.
AllWritten ==
  \A w \in Writer : /\ pc[w] \in {"start", "done", "past"}
                    /\ w \in unwritten => pc[w] = "past"

\* Then the pipeline and the dashboard differ by the events that have left the
\* ring and those the file had when the process began, whatever they are, and by
\* nothing else.  If no write ever failed, the pipeline reports no more answers
\* for a seat than requests.
ReportsDifferByDeparted ==
  LET file   == PipelineReport(logFile)
      before == PipelineReport(earlier)
      ring   == DashboardReport(events)
  IN  /\ AllWritten =>
           /\ file.events = before.events + ring.total + Len(Departed)
           /\ \A t \in DOMAIN ring.byType :
                file.byType[t] = before.byType[t] + ring.byType[t]
                                   + CountByType(Departed)[t]
           /\ \A s \in DOMAIN ring.perSeat :
                file.perSeat[s] = before.perSeat[s] + ring.perSeat[s]
                                    + PerSeat(Departed, "request")[s]
      /\ unwritten = {} =>
           \A s \in Seats : file.sold[s] + file.failed[s] <= file.perSeat[s]

\* Every call of Log returns, or dies with its process, however slow the clients
\* are and whenever they come and go: in the end none is under way.
LogReturns == <>[](\A w \in Writer : pc[w] \in {"start", "done", "past"})
=============================================================================
