# Distributed ticket system: TLA+ models, checks and proofs

This directory holds a formal model of the ticket booking system: what its
nodes do to stay consistent (mutual exclusion per seat, synchronised seat
tables, leader election, connections to peers, event streaming and what is
counted of the events), the model-checking runs of those
models, and machine-checked proofs of every safety property the runs check.
Paths such as `mutex.go:192` are those of the repository, below
`internal/<package>/`.

    cd tla
    tlc -workers 2 -config RA_faults.cfg MCRicartAgrawala.tla   # one run
    tlapm RicartAgrawala_proofs.tla                             # the proofs

## 1. The system

A node is one process (`cmd/node/main.go`). It serves gRPC to the other nodes
and HTTP to its dashboard, and consists of the parts below. All nodes run the
same code; there are three or four of them.

| Part | State | Operations | Talks to |
|---|---|---|---|
| Lamport clock, `clock/lamport.go` | one counter | `Tick`, `SendTime`, `Update`, `ReceiveTime` | everybody in the node |
| Mutual exclusion, `ra/mutex.go` | per seat: `state`, `requestTime`, `repliesReceived`, `repliesNeeded`, `deferredReplies`, `waitCh` | `RequestCriticalSection`, `ReleaseCriticalSection`, handler `RequestAccess` | the same service of the peers, the hub's stubs, clock and status label |
| Seat store, `seats/store.go` | a table of seats | `Book`, `Release`, `ForceUpdate`, `Reset`, reads | the booking service |
| Booking, `booking/service.go` | none of its own | `BookSeat`, `ReleaseSeat`, `ResetSeats`, handlers `SyncSeat`, `RequestBooking` | mutual exclusion, store, booking services of the peers |
| Election, `bully/election.go` | `electionRunning`; hub's leader and label | `StartElection` and its timer, `declareLeader`, heartbeat senders and monitor, handlers `Election`, `Coordinator`, `Heartbeat` | election services of the peers, hub |
| Hub, `node/hub.go` | `leaderID`, `state` (a status label); per peer: `peerConns`, the stubs made of it, the mark `peerAlive` | getters, setters, `connectWithRetry` | shared by every part |
| Event log, `events/logger.go` | ring of 500 events, file, subscribers | `Log`, `Subscribe`, `Unsubscribe` | everybody; `handleSSE` |
| Dashboard, `dashboard/api.go` | none | HTTP handlers, `handleSSE` | booking, election, log |
| Configuration, `config/config.go`, `configs/` | peers, seats, timeouts | `Load` | read by all |
| Analytics, `beam/analytics/pipeline.go` | none | batch job over the log files | the files the event log writes |
| Web pages, scripts, Docker files | | | |

How they interact. A booking (an HTTP request) checks the local table, asks the
mutual exclusion service for the seat, checks and writes the table under the
store's own mutex, sends the new entry to all peers, waits for every answer or
its 2 seconds, and gives the seat up. Releasing a seat and resetting the table
write and send without asking. Elections run beside all this and share with it
the Lamport clock, the stubs and the hub's status label.

What is hard. Any number of goroutines of one node work on the same per-seat
entries; a node asks and answers at the same time, and its clock, its label and
its entries are guarded by three different mutexes; RPCs fail, answer late and
are repeated by polls; peers are connected one after the other and only one
way; what a node knows of a peer (connection, stubs, mark) is used by five kinds
of goroutine and corrected by three of them after their RPC has ended; a process
that dies forgets everything. No test in the repository covers
any of this.

What makes each part correct:

* mutual exclusion: two nodes are never in the critical section of one seat;
  requests are served by timestamp; nobody waits for ever; seats do not block
  each other;
* booking: a seat is sold once; every table agrees on who has it; nobody is
  turned away from a free seat; every booking is answered;
* election: the highest live node is the leader of all in the end (it need not
  be: section 6); a dead leader is noticed; an election ends; nobody follows an
  invented leader;
* connections: a stub that is handed out is usable; an RPC under way is cut off
  only with reason; a peer that is back is connected to, one that is gone is
  marked dead while heartbeats are sent to it;
* event log: the ring is the newest events; a client is offered each event once;
  a slow client slows nobody; no send on a closed channel;
* reports: the pipeline, which reads the file, and the dashboard, which reads the
  ring, count the same but for what has left the ring and what earlier processes
  of the node left in the file.

## 2. The modules

| Module | Models | Extends |
|---|---|---|
| `LamportClock` | the clock, as functions of its counter | |
| `RicartAgrawala` | mutual exclusion, with stubs, clock and label of the hub | `LamportClock` |
| `SeatLock` | abstract: what mutual exclusion promises | |
| `Booking` | booking service and seat store, over `SeatLock` | `SeatLock` |
| `TicketSystem` | bookings over the algorithm itself | `RicartAgrawala`, and an instance of `Booking` |
| `Bully` | election, heartbeats, start of a node | |
| `PeerLink` | connection, stubs and mark of one peer | |
| `Analytics` | queries and reports over logged events, as operators | |
| `EventLog` | logger, its file, event stream | `Analytics` |
| `MC...` | the constants of the instances TLC checks | the module in question |
| `..._proofs` | the theorems of a module; `Reports_proofs` has those of `Analytics` applied to `EventLog` | the module in question, `TLAPS`, library theorems |

`RicartAgrawala` implements `SeatLock` (`ImplementsLock`), and `Booking` uses
`SeatLock` in place of the algorithm: the two compose through the abstract
lock. `TicketSystem` puts them together without it and implements `Booking`
(`ImplementsBooking`). Definitions whose comment starts with "Broken:" are not part of any
specification. They are plausible mistakes, one for each property, that show
that the property notices them.

### RicartAgrawala

A *call* is one execution of `RequestCriticalSection` and of the
`ReleaseCriticalSection` after it. The variables of a node are the maps of
`MutexService` (an absent entry is 0 or the empty list, what a Go map yields),
the clock, the label and the set of peers with a stub. A call has its program
counter, its timestamp and its one-place channel; a call and a peer have the
state of the goroutine that asks the peer, the number of polls, and where the
request is (`handler`).

| Action | Code |
|---|---|
| `BeginRequest` | `mutex.go:190-199`, up to the lock: tick and label |
| `Announce` | the locked block `:207-214`, and the start of the goroutines |
| `SendRequest`, `Poll` | the sending of an RPC, first or repeated |
| `ReceiveRequest` | `RequestAccess` before its lock: the clock |
| `GrantRequest`, `DeferRequest` | `RequestAccess` under its lock, with the answer |
| `CountGrant`, `CountFailure`, `GiveUpPolling` | the three ways of counting a reply |
| `EnterCS`, `TimeOut` | the `select` at `:295-317`, after `wg.Wait` |
| `ReleaseCriticalSection` | `:386-425` |
| `Connect`, `OtherEvent`, `Restart` | a dial succeeds; the clock is used by others; the process is replaced |

Where the code uses two mutexes one after the other the model has two actions;
what it does under one mutex is one action. `BeginRequest` sets the label in
the step that takes the tick, and `EnterCS` and `TimeOut` in the step that sets
the state: the label is read by the dashboard and, through `MutexLabel`, in
`Bully`, never in this module. The goroutines that the release starts for
deferred entries only log. In `CountFailure` an RPC fails while its request is
on the wire, in the handler, or answered: a late handler may then still run.

`implicit`, `overtaken`, `crowded` and `reborn` are history variables that no
guard reads. They name what can cost two rivals their exclusion (`Excused`): a
reply that was counted without being given; a grant given in the window between
the tick and the announcement of an older request; two calls of one node for
one seat, which share entries; a restart, which forgets promises.
`ExclusionUnlessExcused` says that there is no fifth way.

### Booking

An operation (a booking, a release, a reset) has a program counter; a booking
goes through the phases of `SeatLock` as well. The table entry of a seat is
`Free` or the booking that has it, which stands for the customer. `SendUpdates`
sends one seat to every peer with a stub; `HandleUpdate` is `SyncSeat`, at any
later time and in any order; `UpdateFails` is the error or the 2 seconds, after
which the update may still arrive. `Losses` gives the sets of pairs the lock may
lose in a step, as `RicartAgrawala` shows it can; the service asks nothing
else of the lock, and nothing of the stubs.

A pair can be lost without any fault when there are two bookings of one node for
one seat: they share `repliesReceived` (`mutex.go:208-213`, `:272-273`), so that
one of them may enter although a peer without a stub was never asked, beside a
booking of that peer; and its update leaves that peer out (`service.go:174`).

`missed`, `leftOut`, `crossed` and `reborn` are history variables: updates whose
RPC ended without an answer, updates not sent for want of a stub, seats that two
operations have been sending at once, nodes that have restarted. The properties
name with them what has to go wrong (`Hole`, `Unheard`): a second sale takes a
lost pair, an unheard sale or a restart (`SoldOnce`), and so does a node that
does not know of one (`SoldIsKnownEverywhere`). `DifferOnlyIfCrossed` is about
releases and resets too, which ask no lock: tables that differ while nobody is
sending are the work of operations that sent at the same time, or of a fault.

### TicketSystem

The module extends `RicartAgrawala` and instantiates `Booking` beside it, with the
stubs in common; the `phase` and `lost` of the lock are those `RicartAgrawala`
derives from its own state. Where the service calls the mutex, or the mutex
returns to it, the two take one step together: `AskForSeat` (`service.go:90`),
`EnterSeat` and `MutexFails` (the return of `RequestCriticalSection`),
`LeaveSeat` (`ReleaseCriticalSection`), `Restart`. In every other step one of
them stands still. So the tables, the updates, the timestamps, the polls and
the failures of both are there at once, which neither module has alone:
`SoldTwiceOnlyThroughHole` relates what is sold to the holes of the algorithm
and to single lost updates.

### Bully

A node runs up to `SlotBound` executions of `StartElection`; a slot goes from
`spawned` over the guard (`BeginElection`), the sending (`AskHigherPeers`), the
answers and failures, the decision after `wg.Wait`, to the two halves of
`declareLeader`, or to the wait for a Coordinator with its timer. The handler
of Coordinator has two steps, as it sets the leader before it clears
`electionRunning`. Heartbeat goroutines are counted (`starting`, `senders`) and
there is one monitor, or none: a second one does what the first does. `wire`
holds requests that have not been handled; a request to a node that is down
fails. `BootElection` and `BootHeartbeat` are the goroutines `main` starts, at
any time from each other. Time has no duration: every timer may go off at any
moment, which covers any choice of the three timeouts.

### PeerLink

One node's view of one of its peers; the entries of different peers in the
hub's maps do not depend on each other. A connection is a name, taken again
when nobody holds it; the stubs stand for the connection they were made of.

| Action | Code |
|---|---|
| `StartDialling`, `Dial`, `DialSucceeds`, `DialFails` | `hub.go:125-146`, the loop and its dial |
| `StoreConnection` | the locked block `:151-160`, which closes the old connection |
| `FetchStub` | `GetAllPeerClients`, `GetPeerClients`, `GetHigherPeerClients` |
| `RpcAnswered`, `RpcFails`, `EndRpc` | an RPC of a heartbeat, ping, election or lock request, and the call of `SetPeerAlive` after it |
| `HeartbeatArrives` | the handler's `SetPeerAlive`, `election.go:129` |
| `PeerDies`, `PeerReturns` | the peer's process; gRPC connects again under the connection the hub has |

`suspected` is a history variable: connections in use when a user marked the
peer dead. The RPC that failed may have been made over an older one: the mark is
set after the RPC has ended, and the loop may have replaced the connection
meanwhile.

### EventLog and Analytics

A writer is one execution of `Log`: under `mu` into the ring, to the file under
no lock, then to each subscriber in turn under the read lock of `subMu`
(`StartNotifying` to `Finish`), which `Subscribe` and `Unsubscribe` need for
writing (`CanLockSubMu`). `After` orders the executions one goroutine makes:
`BookSeat` logs the request (`service.go:71`) before it logs its one answer
(`AnswerAssumption`). The write of the file
may fail, which the code does not look at (`FileMayFail`). A client is an
execution of `handleSSE`. `again`, `offered`, `since`, `stored`, `unwritten`, `life`
and `earlier` are history variables.

`Restart` ends the process and begins the next. `NewLogger` opens the file with
`O_APPEND` and never truncates it (`logger.go:90`), and its ring is empty: the file
holds the events of all the processes the node has had, the ring those of one.
`earlier` is the file as the process found it. Goroutines that had logged
something, or were to log more, are `past`; the others log in the new process.

`Analytics` has no state. A log is a sequence of events; `GetRecent` and
`GetByType` are the logger's queries (the second as the set of the places it
returns, which is what is counted), `DashboardReport` what `handleAnalytics`
computes from the ring, `PipelineReport` what the Beam job computes from a file.
`EventLog` applies them to its ring and its file.

## 3. The runs

Every passing run finishes with no error; every property of a passing run is
refuted as soon as the definition named for it in `PROJECT.json` is replaced by
its broken variant.

| Run | Shows |
|---|---|
| `RA_faults` | two rivals that connect late, lose RPCs, restart: exclusion fails only through a hole; grants respect priority; rivals agree on their order; an answer of every peer before entry; timeouts only for want of a stub; left-over deferrals explained; the invariant of the proofs; refinement of `SeatLock`; every call returns |
| `RA_seats` | two seats: who has asked for one, or is inside, defers no request for the other |
| `Booking_sale` | three nodes, of which one has no stubs at first and two bookings for the seat, which the lock may lose against a rival; a reset meanwhile: sold twice, or sold and unknown, only through a hole that is named; tables differ only after updates that crossed; every booking answered |
| `Booking_faults` | a lock that fails, lost and late updates, a restart and a release: a node sells once, nobody is turned away without reason |
| `TicketSystem_sale` | two bookings over the algorithm itself, with failing RPCs, lost updates and a restart: the whole implements `Booking`, and a seat is sold twice only through a hole, a lost update or a lost table |
| `Bully_faults` | elections alone, two each, failing RPCs, crash, restart and a triggered election, beside bookings that write the status label: only such a booking leaves `electionRunning` with nobody to clear it |
| `Bully_crash` | the lower of two nodes connects late and the higher one dies at any moment: a higher node that was connected bars the way until it dies, a monitor notices, only a declared leader is followed, elections end |
| `PeerLink_marks` | a peer that dies twice, under heartbeats, an election and a lock request: no closed stub, no leaked connection, no RPC cut off unless a user found the peer dead while its connection was in use; the link comes back, and a dead peer is marked while heartbeats are sent to it |
| `EventLog_stream` | a booking with its two events, a rival request, two clients, ring and buffers at their limit, a file that may fail, a process that may die once: ring, delivery, closed channels, order in the file, agreement of the two reports, and `Log` returns whatever the clients do |
| `RA_doc_exclusion`, `PeerLink_doc_connected`, `Bully_doc_highest` | violations, see section 6 |

Deadlock is checked in the `PeerLink` runs. It is not in the others: calls,
operations and events are finite in number and a behaviour ends when they are
over, and an idle node of `Bully` only sleeps. Waiting for each other is covered
by `EveryCallReturns`, `RivalsAgreeOnOrder`, `EveryBookingAnswered`,
`ElectionEnds` and `LogReturns` instead.

### Bounds

* `RicartAgrawala`: two nodes and calls, since a conflict is between two calls.
  `RA_seats` adds a call for another seat, without restarts. More nodes, and two
  calls of one node for one seat (`crowded`), which share every entry, are in no
  passing run of it: the proofs cover their safety, and `EveryCallReturns` is
  checked for two rivals only. `PollLimit` is 1, so that giving up, which takes
  30 refused polls in the code, happens soon; `RA_doc_exclusion` has 30, so that
  giving up is not what refutes it. `ClockBound` bounds the ticks by other users
  of the clock (`OtherEvent` stops there; the algorithm's own ticks do not): 2
  is enough to make the stamps of two rivals come out in each order and equal. A
  node restarts once. The proofs have no such bounds.
* `Booking`: three nodes so that an update has two targets, of which one may
  have it and the other not, or has no stub; two bookings on one of them and one
  on another, and a reset of two seats, which sends twice; the lock may lose
  (`CrowdedLoss`) a booking of the first node against that of the second. With
  faults, two nodes, three rivals for one seat and a release; there the lock may
  lose every pair. Operations run once. The proofs let `Losses` be anything.
* `Bully`: `SlotBound` executions of `StartElection` per node. An RPC or a
  trigger that needs a slot waits for one. With 1, two executions of a node
  never overlap; `Bully_faults` has 2, which is what a Coordinator in the middle
  of an election makes possible. `ThreadBound` counts heartbeat senders: beyond
  it one more is not told apart (`OneMore`), and 0 leaves heartbeats out, for the
  run about elections alone. In `Bully_crash` the higher node has its stub for the
  lower one, which dials at any time: before, in the middle of or after its
  election. `Bully_doc_highest` begins without stubs, as the program does.
* `TicketSystem`: the bounds of `RA_faults`, with stubs made late; only node 1
  restarts.
* `PeerLink`: the peer dies twice, so that a mark left from the first time can
  meet the connection of the second. Five names are one in use, one new, and one
  held by each of three users; with as many no new name has to be refused
  (`ConnAssumption`).
* `EventLog`: a ring of 2 for three events, so that it overflows; a buffer of 1
  so that it is full. The real sizes are 500 and 100 and occur only in
  comparisons with the length. `MaxLives` is 2: the file of the first process is
  what the second finds.

### Fairness

Only for what the Go runtime and the deadlines promise. Goroutines that can run
do run. `time.After`, tickers, `context.WithTimeout` and `time.Sleep` end. An
RPC ends: where `RpcMayFail` by its failure, otherwise by being handled. In
`RicartAgrawala` nothing promises that a request is handled: `EveryCallReturns`
holds since the deadline of the RPC does, and an RPC that fails is counted like
one that was answered. `EveryBookingAnswered` is checked with RPCs that arrive;
`Booking` takes from `RicartAgrawala` that a request for the lock returns. The
dial loop never gives up, so `Connect` is fair in `Bully`'s `Fairness`, with
which `Bully_doc_highest` is refuted. `Bully_crash` needs less,
`ElectionFairness`: elections, the monitor and the handler of Coordinator go on
once they have begun, and their requests are handled or fail. Dialling, booting
and heartbeats may stop there for good. In `PeerLink`, where a dial may also
time out on a peer that listens, `DialSucceeds` is strongly fair: a dial that is
tried for ever succeeds some time. It is the only strong fairness. Nobody has to
fetch a stub there: `sendHeartbeats` returns as soon as the node is no longer
the leader (`election.go:309-311`), which a heartbeat of another leader brings
about (`:130`), and the goroutine does not begin to monitor (`:289`).
`DeadPeerIsMarked` therefore has it as a condition that heartbeats are sent
again and again; without it a dead peer may stay marked alive. Nobody has to ask
for a seat, trigger an election, crash, restart, return or read from a stream.

## 4. The proofs

Every invariant of a passing run, every action property and both refinements are
theorems, for all constants that satisfy the named assumptions of the module.
The bounds that remain in them are those of the model, as parameters
(`ClockBound`, `PollLimit`, `SlotBound`, `ThreadBound`, `DeathBound`), for any value.

| Module | Theorem | Property |
|---|---|---|
| `RicartAgrawala_proofs` | `TypeCorrect` | `TypeOK` |
| | `InductiveInvariant` | `Inductive` |
| | `Exclusion` | `ExclusionUnlessExcused` |
| | `Priority` | `GrantsRespectPriority` |
| | `Answers` | `EveryPeerAnsweredInCS` |
| | `TimeOuts` | `TimeOutOnlyWhenUnlinked` |
| | `RivalsAgree` | `RivalsAgreeOnOrder` |
| | `DeferredByRival` | `DeferredOnlyByRival` |
| | `Leftovers` | `LeftoverDeferrals` |
| | `StubsInside` | a call inside has a stub for every configured peer |
| | `ImplementsSeatLock` | `ImplementsLock`: `RicartAgrawala` implements `SeatLock` |
| `Booking_proofs` | `BookingType` | `TypeOK` |
| | `OneNodeSellsOnce` | `NodeSellsOnce` |
| | `NobodyTurnedAwayInVain` | `TurnedAwayOnlyIfSold` |
| | `SeatSoldOnce` | `SoldOnce` |
| | `SoldSeatIsKnown` | `SoldIsKnownEverywhere` |
| | `TablesAgree` | `DifferOnlyIfCrossed` |
| `TicketSystem_proofs` | `TwoSalesTakeAHole` | `SoldTwiceOnlyThroughHole` |
| | `ServiceImplementsBooking` | `ImplementsBooking`: the whole implements `Booking` |
| `PeerLink_proofs` | `PeerLinkType` | `TypeOK` |
| | `StubsAreOpen` | `StubIsOpen` |
| | `NothingLeaks` | `NoConnectionLeaks` |
| | `CutOffsAreSuspected` | `CutOffOnlyIfSuspected` |
| `Bully_proofs` | `BullyType` | `TypeOK` |
| | `LeadersDeclared` | `LeaderHasDeclared` |
| | `BullyRule` | `HigherPeersBarTheWay` |
| | `FlagLeftByLabel` | `FlagLeftOnlyByLabel` |
| | `FlagNeverLeftBehind` | a set flag is served, where `MutexLabels` is `FALSE` |
| `EventLog_proofs` | `LoggerType` | `TypeOK` |
| | `NoSendOnClosed` | `NeverSendsOnClosed` |
| | `EventsOfferedOnce` | `OfferedOnce` |
| | `RequestsComeFirst` | `AnswerFollowsRequest` |
| | `RecentIsTheEnd` | `RecentIsNewest` |
| `Reports_proofs` | `ReportsAgree` | `ReportsDifferByDeparted` |

### Assumptions

* In general: nodes are finitely many numbers, no node is its own peer, stubs
  exist for peers only, a restart makes RPCs fail.
* `Booking_proofs` assumes nothing of the lock beyond `SeatLock`, of the RPCs or of the
  lists of peers: what can go wrong is in the statements. In `TicketSystem_proofs`
  nodes list each other.
* `~ MutexLabels` in `FlagNeverLeftBehind`: bookings leave the status label alone.
  They do not, so that this theorem describes elections by themselves;
  `FlagLeftByLabel` has no such assumption and names the one step in which
  bookings break it.
* `AnswerAssumption` of `EventLog`: each answer of a booking is logged after its own
  request for the same seat, by one goroutine (`service.go:71`, before `:77` to
  `:133`).
* `ConnAssumption` of `PeerLink`: there are names enough for the connections that
  are held. Names are the model's; there is no such bound in the code.

### Mutual exclusion

Suppose two rivals `c` and `d` are inside together, unexcused.
Each has counted an answer of every configured peer, so of the other's node
(`EveryPeerAnsweredInCS`), and the answer was a permission, since nothing was
counted implicitly. A permission means priority: `GrantsRespectPriority` puts
`c` before `d` and `d` before `c`, which the order of stamp and node excludes.
Neither is inductive alone:

* `EveryPeerAnsweredInCS` needs `CountersMatch`: the counters in the shared
  entry are the number of the call's own goroutines that have counted, and the
  channel is full exactly when all peers are among them. That in turn needs
  `Crowding` (no other active call uses the entry) and `OnlyPeersAsked`.
* `GrantsRespectPriority` needs `StateMatchesCall` (what a node compares a
  request with is its own waiting call), and `ClockCoversGrants` for the case
  where the granting node asks later: it has seen the granted stamp, so its own
  is larger. `IdleMeansReleased` and `NotYetSent` cover the calls that have not
  announced themselves.

`Inductive` is the conjunction. The proof has one lemma for each conjunct and
group of actions. `RA_faults` checks `Inductive` as an invariant.

### Booking and the whole

`Consistent` holds whatever fails: the service and the lock agree on where a
booking is (`PhaseMatches`), what is to be sent or on the wire belongs to an
operation that has begun (`UnsentMatches`, `WireMatches`), an entry names a booking
that was let in (`EntryIsBought`), and a node keeps an entry for what it has sold
(`SellerKnows`). The last two are what `NodeSellsOnce` and `TurnedAwayOnlyIfSold`
rest on: an entry may be overwritten by a late update, but by another sale of the
same seat.

`SaleInv` adds that two rivals are inside together only if the lock has lost the
pair (`Exclusive`, from `LockStepExclusion` of `SeatLock_proofs`), that what died is on
a node that restarted (`CrashedIsReborn`), and `KnownElsewhere`: a sold seat has an
entry on each node that must hear of it, or its update is yet to be sent or
handled and the booking still inside. A second sale would need a free entry and
the lock at once. This gives `SoldOnce`, with its holes, and `SoldIsKnownEverywhere`
with `EntryIsBought`.

`InStepInv` is for `DifferOnlyIfCrossed`. For each seat on which nothing has gone
wrong (`Clean`) at most one operation is sending (`OneSends`), what is on the wire
is awaited (`Awaited`), every peer that does not have the entry yet is still to
get it (`Reaches`), and when nobody is sending all tables agree (`Agree`). No single
one of them is inductive: agreement at the end of an operation is what lets the
next one begin with it.

`TicketSystem_proofs` repeats the argument for the sale over the algorithm itself,
where the lost pairs are those of `Excused`. Every step of the whole is a step of
`RicartAgrawala` or leaves it alone, so `Inductive` holds. `KnownElsewhere` there is
about the peers that must hear (`MustHear`): neither node was restarted, the
entries are not shared, the update was not given up. `StubsInside` gives the
update its targets. The refinement of `Booking` has one lemma for
each action; `StepsAgree` relates the two
program counters, and a step of the algorithm alone is a stutter, a new stub, or
a step of the lock that loses exclusion.

The provers treat an instance as opaque in temporal formulas. Therefore that the
theorems of `Booking` hold of the whole is an application of
`ServiceImplementsBooking` that is made here and not by a prover: `NodeSellsOnce`,
`TurnedAwayOnlyIfSold`, `SoldOnce`, `SoldIsKnownEverywhere` and `DifferOnlyIfCrossed` of
`Service` are invariants of `SystemSpec`.

### Connections

`LinkInv` adds to the properties that the loop's own `conn` is a connection of its
own from the dial to the locked block (`DialledIsNew`), and `DeadIsSuspected`: when
the mark says dead, a user has found the peer dead while the connection that is
now in use was in use already. The loop replaces a connection only then, which gives
`CutOffOnlyIfSuspected`. `TypeOK` needs that a name is left (`NewConnExists`, by
counting).

### Election

Four invariants, one for each property. Names: whoever is named in a
`leaderID`, a Coordinator, a heartbeat or a ping has declared itself
(`NamesHaveDeclared`). Bar: where no RPC fails, a live peer with a stub is marked
alive, since nothing but a failure removes a mark (`StubsAreAlive`); so it is asked,
and an execution that asks has its OK or still awaits it (`AsksOrOK`); nothing of
a dead process goes on (`DownIsQuiet`). The variable `above` notes which peers that
are, from the asking to the decision, since a peer may be connected meanwhile.
Flag: a goroutine is on its way,
a timer counts, or a Coordinator handler has not ended (`Served`), shown node by
node and step by step; the one step that does not preserve it is `MutexLabel`.

### Event log and reports

`LogInv`: the ring is the end of what was stored; the list has each streaming
client once, and its channel is open; a writer under the read lock has only
clients of the list before it, each once; an event was offered to a client of its
time or is still ahead, and never both; what a goroutine logged before is written
or its write has failed. Closing a channel needs the lock no writer then holds,
so the second and third give `NeverSendsOnClosed`, and with the fourth
`OfferedOnce`.

`Reports_proofs` counts. `FileInv` adds that every event is stored and written at
most once, and that the file begins with what the process found in it. A log
without repetition has as many places for a set of events as it has events of it
(`PlacesDistinct`), and the places of a log cut in two add up (`PlacesSplit`): so
the file, the ring, what has left it and what was there before agree on any set
of events (`FileIsRingAndDeparted`), in particular on those of a type and a seat,
and the answers in the file inject into its requests (`AnswersHaveRequests`).

### What is only model-checked

* Liveness: `EveryCallReturns`, `EveryBookingAnswered`, `ElectionEnds`,
  `MonitorNoticesDeadLeader`, `LinkComesBack`, `DeadPeerIsMarked`, `LogReturns`.
  Fairness and `ENABLED` are outside the provers.
* The three violations of section 6, and the properties of the documentation listed
  there: they are false.

TLC has checked each inductive invariant on the instances of section 3 before it
was proved; only `Inductive` is kept in a run, since the others are conjunctions
of the run's own properties and of what their proofs need.

## 5. Hazards

`PROJECT.json` lists what can go wrong in this code and a test would hardly
reach, at its line, with the properties that cover it. Four of them are open
holes in the mutual exclusion and appear in `Excused`: the properties show that
there is no fifth, and what the service makes of them, but cannot make them
good. A hazard that the code does not guard against, or that only a property of
section 6 would catch, has a note in place of properties: a permission counted
for a failed RPC, a lock or a table forgotten by a restart, a deferred list that
grows with every poll, a former leader that monitors nobody. Two show only
outside the models: the stamps of replies are never applied to the caller's clock,
which only the order of logged events shows; and the shipped lists of peers are
not symmetric, so that nothing is claimed of nodes that do not list each other.

## 6. Where code and documentation disagree

Three runs end in a violation, each of one statement of the documentation.

| Run | The documentation | The code |
|---|---|---|
| `RA_doc_exclusion` | `mutex.go:8-9`, `demo.js:350`: no conflicts, no double booking | the stamp is taken at `:192`, the request announced at `:207`; a younger request is granted in between, and so is the older one after it |
| `PeerLink_doc_connected` | `hub.go:125-126`: dials every configured peer, with retries | a heartbeat that arrives before the first dial marks its sender alive (`election.go:129`), and the loop takes the mark for a connection: there is never a stub |
| `Bully_doc_highest` | `election.go:8`: the node with the highest id is elected | nodes start without stubs (`hub.go:70-72`) and ask only higher peers they have one for; any Coordinator and heartbeat is accepted, `:107`, `:130`; after two announcements that cross, each node follows the other, and their pings make each a leader again, `:371` |

The others are stated in the modules as properties of the documentation, each
with a source line in its comment, and have no run of their own. TLC refutes
each when it is put into the configuration named here with the change given.

| Property | Configuration | The documentation | The code |
|---|---|---|---|
| `EnterOnlyWithPermission` | `RA_faults` | `mutex.go:201-202`: no booking without permission of an offline peer | a failed RPC counts as a permission, `:248-262` |
| `QuietTablesAgree` | `Booking_faults`, `At <- PairAt`, `On <- PairOn`, `Kind <- ReleaseIsTwo`, `Call = {1}`, `Admin = {2}`, `Losses = {}`, no other faults | `service.go:233-234`: tables are kept consistent | release and reset take no lock and updates carry no order that is used: a booking and a release that cross leave each node with the entry of the other |
| `DefersWhileInCS` | `RA_faults`, `At <- SameNode` | `mutex.go:24`: inside the critical section, defer | another call of the node for the same seat resets the state, `:208` |
| `DeferredNodesAreDistinct` | `RA_doc_exclusion` | `app.js:327`: "N nodes waiting" | every refused poll adds an entry, `:170` |
| `KnownBeforeNextEntry` | `Booking_faults`, `Losses = {}`, `MayRestart = {}` | `service.go:111-112`: consistent before anyone else can book | failed updates are only logged, `:199` |
| `DeadLeaderIsNoticed` | `Bully_crash`, `FairSpec` | `election.go:23-24`: no heartbeat, new election | the role is chosen once, `:289`; a former leader monitors nobody |
| `ElectionEnds` | `Bully_crash`, `FairSpec`, `MutexLabels = TRUE` | `election.go:225`: no Coordinator, restart | the label the timer reads is overwritten by bookings, `:228` |
| `LeaderSendsHeartbeats` | `Bully_doc_highest` | `election.go:22`: the leader sends heartbeats | a ping makes its receiver a leader that does not, `:371` |

Besides, `mutex.go:26-27` asks for a reply from all other nodes and `README.md:7`
starts four, but `configs/node1.yaml` to `node3.yaml` do not list node 4.

The comment at `pipeline.go:159` says malformed lines are skipped; `parseEventFn`
returns an error for one, which fails the job.

Two more observations. A page of the dashboard loads a snapshot of the events and
then opens the stream (`app.js:48-66`, `:134-140`): an event logged in between is
in neither, so `OfferedOnce` is about a client of the stream, not about a page.
And a node without a leader is not helped by its
monitor, which skips its round (`election.go:354`). It stays so until a
heartbeat, a Coordinator or an election of another node reaches it.

## 7. What is not modelled

* Durations. The order of a 5-second timeout and a 2-second deadline is left
  open; properties that would need it are not claimed.
* Shutdown: `StopHeartbeat`, `GracefulStop`, `Close`. A node ends by a crash.
* How gRPC connects again under a connection: it shows as an RPC that fails or
  succeeds. The modules other than `PeerLink` see of the hub only the set of peers
  with a stub and, in `Bully`, the marks.
* Reading of YAML, HTTP and JSON; the pages; the text the analytics job writes and
  its merging of several nodes' files; scripts and containers. `handleSeats` makes
  three separate reads (`api.go:173-177`), which a booking may come between: it
  shows a page that is wrong for a moment and decides nothing.
* `GetRecent` with a negative limit, which only a hand-written query has.
* A line of the log file that is written in part when the process dies: a line is
  there or not. The job would fail on a broken one.
* Several processes of a node at the same time, which would share a file and an
  address.
* Lamport stamps in the event log. They are labels; only the stamps of requests
  take part in decisions. Overflow of the 64-bit clock does not occur.
* `RequestBooking` and `ConnectToPeer` have no caller in the repository.

## 8. Plan

Done, in this order: `LamportClock` and `RicartAgrawala` with its proofs and the
refinement of `SeatLock`; `Booking` over the lock; `Bully`; `EventLog`;
`TicketSystem`, the composition end to end; `PeerLink`; `Analytics`, with the file
of `EventLog`.

Then the proofs, in the order `SeatLock`, `Booking`, `TicketSystem`, `PeerLink`, `Bully`,
`EventLog`, `Analytics`: every safety property that a run checks is a theorem.

Next:

1. The theorems of `SeatLock` and `Booking` as theorems of `TicketSystem`, should
   the provers come to treat instances in temporal formulas: `Exclusive` of the
   derived `phase` and `lost`, `NodeSellsOnce` and `TurnedAwayOnlyIfSold` of the whole.
   Until then, by the invariants directly, as for `SoldTwiceOnlyThroughHole`.
   `SoldOnce` and `DifferOnlyIfCrossed` of the whole among them.
2. What liveness rests on and is a safety property: that a call which has not
   returned has a goroutine, a poll or a timer left (as `FlagLeftByLabel` says of
   elections), for `RicartAgrawala` and `Booking`.
3. The documentation's properties of section 6 under the weakest assumption that
   makes them true, as theorems: for instance `EnterOnlyWithPermission` without
   failing RPCs.
