----------------------------- MODULE Analytics -----------------------------
(***************************************************************************)
(* What is read from logged events: the queries of the logger, the report  *)
(* of the dashboard, computed from the ring, and the one of the Beam       *)
(* pipeline, computed from the files.  A log is a sequence of events.      *)
(***************************************************************************)
EXTENDS Naturals, Sequences, FiniteSets

CONSTANTS
  Event,   \* the events that are logged
  Type,    \* Type[e]: its event_type
  SeatOf,  \* SeatOf[e]: its seat_id
  NoSeat   \* the empty seat_id

EventType == {"request", "success", "failed", "election", "ra_request", "other"}

ASSUME EventAssumption == Type \in [Event -> EventType] /\ DOMAIN SeatOf = Event

Seats == {SeatOf[e] : e \in Event}

\* GetByType, and the filters of the pipeline: the places in the log of the
\* events they return.
GetByType(log, type) == {i \in DOMAIN log : Type[log[i]] = type}

\* GetRecent, for a limit that is not negative.
GetRecent(log, n) ==
  SubSeq(log, Len(log) - (IF n > Len(log) THEN Len(log) ELSE n) + 1, Len(log))

\* stats.Count, by event_type, and by seat_id of the events of one type.
CountByType(log) == [t \in EventType |-> Cardinality(GetByType(log, t))]

PerSeat(log, type) ==
  [s \in Seats |-> Cardinality({i \in GetByType(log, type) : SeatOf[log[i]] = s})]

\* Broken: the demand for a seat is taken from the bookings that succeeded.
DemandOfSold(log) == PerSeat(log, "success")

\* The events that count as bookings of their seat on the dashboard.
Demand(log) == PerSeat(log, "request")

\* handleAnalytics: seats without a name are left out.
DashboardReport(log) ==
  [total     |-> Len(log),
   byType    |-> [t \in EventType \ {"other"} |-> CountByType(log)[t]],
   perSeat   |-> [s \in Seats \ {NoSeat} |-> Demand(log)[s]]]

\* The pipeline: a seat without a name is called N/A.
PipelineReport(log) ==
  [events    |-> Len(log),
   byType    |-> CountByType(log),
   perSeat   |-> PerSeat(log, "request"),
   sold      |-> PerSeat(log, "success"),
   failed    |-> PerSeat(log, "failed")]
=============================================================================
