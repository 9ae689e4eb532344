---------------------------- MODULE Reports_proofs ----------------------------
(***************************************************************************)
(* What the reports on the events of a node have in common: a theorem of   *)
(* EventLog and Analytics about counting, for any number of writers.       *)
(***************************************************************************)
EXTENDS EventLog_proofs, FiniteSetTheorems, FunctionTheorems

\* Every event is stored once, and written at most once and after that.  The
\* process has stored the events of its own life; of those in the file that are
\* not among them each was there when it began.
FileInv ==
  /\ LogInv
  /\ Distinct(stored)
  /\ In(stored) = {w \in Writer : pc[w] \notin {"start", "past"}}
  /\ Distinct(logFile)
  /\ Distinct(earlier)
  /\ In(earlier) = {w \in In(logFile) : pc[w] = "past"}
  /\ \A w \in In(logFile) : pc[w] \notin {"start", "stored"}

\* The places in a log of the events of a set.
Places(log, S) == {i \in DOMAIN log : log[i] \in S}
-----------------------------------------------------------------------------
LEMMA PlacesFinite ==
  ASSUME NEW log \in Seq(Writer), NEW S
  PROVE  /\ IsFiniteSet(Places(log, S))
         /\ Cardinality(Places(log, S)) \in Nat
<1>1. Places(log, S) \in SUBSET (1..Len(log)) /\ Len(log) \in Nat
  BY DEF Places
<1>2. IsFiniteSet(1..Len(log))
  BY <1>1, FS_Interval
<1> QED
  BY <1>1, <1>2, FS_Subset, FS_CardinalityType

LEMMA SameCardinality ==
  ASSUME NEW S, NEW T, IsFiniteSet(S), NEW f \in [S -> T],
         \A a, b \in S : f[a] = f[b] => a = b,
         \A t \in T : \E s \in S : f[s] = t
  PROVE  IsFiniteSet(T) /\ Cardinality(T) = Cardinality(S)
<1>1. f \in Bijection(S, T)
  BY Fun_IsBij
<1>2. ExistsBijection(S, T)
  BY <1>1, Fun_ExistsBij
<1> QED
  BY <1>2, FS_Bijection

\* A log without repetition has as many places for a set as it has events of it.
LEMMA PlacesDistinct ==
  ASSUME NEW log \in Seq(Writer), Distinct(log), NEW S
  PROVE  /\ IsFiniteSet(S \cap In(log))
         /\ Cardinality(Places(log, S)) = Cardinality(S \cap In(log))
<1> DEFINE P == Places(log, S)
           T == S \cap In(log)
           f == [i \in P |-> log[i]]
<1>1. f \in [P -> T]
  BY DEF Places, In
<1>2. \A a, b \in P : f[a] = f[b] => a = b
  BY DEF Places, Distinct
<1>3. \A t \in T : \E i \in P : f[i] = t
  BY DEF Places, In
<1>4. IsFiniteSet(P)
  BY PlacesFinite
<1> HIDE DEF P, T, f
<1>5. IsFiniteSet(T) /\ Cardinality(T) = Cardinality(P)
  BY <1>1, <1>2, <1>3, <1>4, SameCardinality
<1> QED
  BY <1>5 DEF P, T

\* A log that is cut in two.
LEMMA PlacesSplit ==
  ASSUME NEW log \in Seq(Writer), NEW front \in Seq(Writer),
         NEW back \in Seq(Writer), NEW S,
         Len(log) = Len(front) + Len(back),
         \A i \in 1..Len(front) : front[i] = log[i],
         \A i \in 1..Len(back) : back[i] = log[Len(front) + i]
  PROVE  Cardinality(Places(log, S)) =
           Cardinality(Places(front, S)) + Cardinality(Places(back, S))
<1> DEFINE m == Len(front)
           n == Len(back)
           A == Places(front, S)
           B == Places(back, S)
           C == {i \in (m + 1)..(m + n) : log[i] \in S}
           f == [i \in B |-> m + i]
<1>1. /\ m \in Nat /\ n \in Nat /\ DOMAIN log = 1..(m + n)
      /\ DOMAIN front = 1..m /\ DOMAIN back = 1..n
  OBVIOUS
<1>2. IsFiniteSet(A) /\ IsFiniteSet(B)
      /\ Cardinality(A) \in Nat /\ Cardinality(B) \in Nat
  BY PlacesFinite
<1>3. A = {i \in 1..m : log[i] \in S}
  BY <1>1 DEF Places
<1>4. B = {i \in 1..n : log[m + i] \in S}
  BY <1>1 DEF Places
<1>5. Places(log, S) = {i \in 1..(m + n) : log[i] \in S}
  BY <1>1 DEF Places
<1> HIDE DEF m, n, A, B
<1>6. Places(log, S) = A \cup C /\ A \cap C = {}
  BY <1>1, <1>3, <1>5
<1>7. IsFiniteSet(C) /\ Cardinality(C) = Cardinality(B)
  <2>1. f \in [B -> C]
    BY <1>1, <1>4
  <2>2. \A a, b \in B : f[a] = f[b] => a = b
    BY <1>1, <1>4
  <2>3. ASSUME NEW t \in C PROVE \E i \in B : f[i] = t
    <3>1. t - m \in B
      BY <1>1, <1>4
    <3>2. f[t - m] = t
      BY <1>1, <3>1
    <3> QED
      BY <3>1, <3>2
  <2> HIDE DEF C, f
  <2> QED
    BY <1>2, <2>1, <2>2, <2>3, SameCardinality
<1> HIDE DEF C
<1>8. Cardinality(A \cup C) = Cardinality(A) + Cardinality(C) - Cardinality({})
  BY <1>2, <1>6, <1>7, FS_Union
<1> QED
  BY <1>2, <1>6, <1>7, <1>8, FS_EmptySet DEF A, B
-----------------------------------------------------------------------------
LEMMA FileWriter ==
  ASSUME FileInv, NEW w \in Writer, Log(w) PROVE FileInv'
<1> USE DEF logVars, lifeVars
<1>0. /\ LogInv /\ TypeOK /\ LogInv'
      /\ stored \in Seq(Writer) /\ logFile \in Seq(Writer)
  BY LogWriter DEF FileInv, LogInv, TypeOK
<1>5. /\ earlier' = earlier /\ Distinct(earlier') /\ In(earlier') = In(earlier)
      /\ \A v \in In(logFile) : v \in Writer
  <2>1. earlier' = earlier
    BY DEF Log, Store, WriteFile, StartNotifying, Notify, Finish
  <2> QED
    BY <1>0, <2>1, InIndices DEF FileInv, In, Distinct
<1>1. CASE Store(w)
  <2>1. /\ pc[w] = "start" /\ stored' = Append(stored, w) /\ logFile' = logFile
        /\ \A v \in Writer : pc'[v] = IF v = w THEN "stored" ELSE pc[v]
    BY <1>0, <1>1 DEF Store, TypeOK
  <2>2. w \notin In(stored) /\ w \notin In(logFile)
    BY <2>1 DEF FileInv
  <2>3. In(stored') = In(stored) \cup {w} /\ Distinct(stored')
    BY <1>0, <2>1, <2>2, InAppend DEF FileInv
  <2>4. In(stored') = {v \in Writer : pc'[v] \notin {"start", "past"}}
    BY <2>1, <2>3 DEF FileInv
  <2>5. \A v \in In(logFile) : pc'[v] \notin {"start", "stored"}
    BY <1>0, <2>1, <2>2, InIndices DEF FileInv
  <2>6. In(earlier') = {v \in In(logFile) : pc'[v] = "past"}
    BY <1>5, <2>1, <2>2 DEF FileInv
  <2> QED
    BY <1>0, <1>5, <2>1, <2>3, <2>4, <2>5, <2>6 DEF FileInv, In, Distinct
<1>2. CASE WriteFile(w)
  <2>1. /\ pc[w] = "stored" /\ stored' = stored
        /\ logFile' = Append(logFile, w) \/ logFile' = logFile
        /\ \A v \in Writer : pc'[v] = IF v = w THEN "written" ELSE pc[v]
    BY <1>0, <1>2 DEF WriteFile, TypeOK
  <2>2. w \notin In(logFile)
    BY <2>1 DEF FileInv
  <2>3. In(logFile') \subseteq In(logFile) \cup {w} /\ Distinct(logFile')
    <3>1. CASE logFile' = Append(logFile, w)
      BY <1>0, <2>2, <3>1, InAppend DEF FileInv
    <3>2. CASE logFile' = logFile
      BY <3>2 DEF FileInv, In
    <3> QED
      BY <2>1, <3>1, <3>2
  <2>4. \A v \in In(logFile') : pc'[v] \notin {"start", "stored"}
    BY <1>0, <2>1, <2>3, InIndices DEF FileInv
  <2>5. In(stored) = {v \in Writer : pc'[v] \notin {"start", "past"}}
    BY <2>1 DEF FileInv
  <2>6. In(earlier') = {v \in In(logFile') : pc'[v] = "past"}
    <3>1. In(logFile) \subseteq In(logFile')
      <4>1. CASE logFile' = Append(logFile, w)
        BY <1>0, <4>1, InAppend
      <4>2. CASE logFile' = logFile
        BY <4>2
      <4> QED
        BY <2>1, <4>1, <4>2
    <3> QED
      BY <1>5, <2>1, <2>2, <2>3, <3>1 DEF FileInv
  <2> QED
    BY <1>0, <1>5, <2>1, <2>3, <2>4, <2>5, <2>6 DEF FileInv, In, Distinct
<1>3. CASE StartNotifying(w) \/ Finish(w)
  <2>1. /\ UNCHANGED <<stored, logFile>>
        /\ pc[w] \in {"written", "notifying"}
        /\ \A v \in Writer : v # w => pc'[v] = pc[v]
        /\ pc'[w] \in {"notifying", "done"}
    BY <1>0, <1>3 DEF StartNotifying, Finish, Written, TypeOK
  <2>2. \A v \in In(logFile) : pc'[v] \notin {"start", "stored"}
    BY <1>0, <2>1, InIndices DEF FileInv
  <2>3. In(stored) = {v \in Writer : pc'[v] \notin {"start", "past"}}
    BY <2>1 DEF FileInv
  <2>4. In(earlier') = {v \in In(logFile) : pc'[v] = "past"}
    BY <1>5, <2>1 DEF FileInv
  <2> QED
    BY <1>0, <1>5, <2>1, <2>2, <2>3, <2>4 DEF FileInv, In, Distinct
<1>4. CASE Notify(w)
  BY <1>0, <1>4 DEF Notify, FileInv, In, Distinct
<1> QED
  BY <1>1, <1>2, <1>3, <1>4 DEF Log

LEMMA FileRestart ==
  ASSUME FileInv, Restart PROVE FileInv'
<1>0. LogInv' /\ logFile \in Seq(Writer) /\ pc \in [Writer -> WriterPC]
  BY LogRestart DEF FileInv, LogInv, TypeOK
<1>1. /\ stored' = <<>> /\ earlier' = logFile /\ logFile' = logFile
      /\ \A w \in Writer : pc'[w] \in {"start", "past"}
      /\ \A w \in Writer : pc[w] # "start" => pc'[w] = "past"
  BY <1>0 DEF Restart, HasBegun
<1>2. \A w \in In(logFile) : w \in Writer /\ pc'[w] = "past"
  BY <1>0, <1>1, InIndices DEF FileInv
<1> QED
  BY <1>0, <1>1, <1>2, InEmpty DEF FileInv, In, Distinct

LEMMA FileStep == FileInv /\ [Next]_vars => FileInv'
<1> SUFFICES ASSUME FileInv, [Next]_vars PROVE FileInv'
  OBVIOUS
<1>1. LogInv'
  BY LogStep DEF FileInv
<1>2. CASE UNCHANGED <<logVars, writerVars>>
  BY <1>1, <1>2 DEF logVars, lifeVars, writerVars, FileInv, In, Distinct
<1>3. CASE UNCHANGED vars
  BY <1>2, <1>3 DEF vars
<1>4. ASSUME NEW c \in Client, HandleSSE(c) PROVE FileInv'
  BY <1>2, <1>4 DEF HandleSSE, Subscribe, Receive, Disconnect, Unsubscribe
<1> QED
  BY <1>3, <1>4, FileWriter, FileRestart DEF Next

LEMMA FileInit == Init => FileInv
  BY LogInit, InEmpty DEF Init, FileInv

LEMMA FileAlways == Spec => []FileInv
  BY FileInit, FileStep, PTL DEF Spec
-----------------------------------------------------------------------------
LEMMA DepartedIsLog ==
  ASSUME stored \in Seq(Writer), events \in Seq(Writer), RingIsEnd
  PROVE  LET m == Len(stored) - Len(events)
         IN  /\ m \in 0..Len(stored)
             /\ Departed \in Seq(Writer) /\ Len(Departed) = m
             /\ \A i \in 1..m : Departed[i] = stored[i]
<1> DEFINE m == Len(stored) - Len(events)
<1>1. m \in 0..Len(stored)
  BY SizeAssumption DEF RingIsEnd
<1> HIDE DEF m
<1>2. \A i \in 1..m : stored[i] \in Writer
  BY <1>1, ElementOfSeq
<1>3. Departed = SubSeq(stored, 1, m)
  BY DEF Departed, m
<1>4. /\ Departed \in Seq(Writer) /\ Len(Departed) = m
      /\ \A i \in 1..m : Departed[i] = stored[i]
  BY <1>1, <1>2, <1>3, SubSeqProperties
<1> QED
  BY <1>1, <1>4 DEF m

\* When all is written the file holds, of any set of events, as many as it had
\* when the process began, the ring and what has left the ring together.
LEMMA FileIsRingAndDeparted ==
  ASSUME FileInv, AllWritten, NEW S
  PROVE  Cardinality(Places(logFile, S)) =
           Cardinality(Places(earlier, S)) + Cardinality(Places(events, S))
             + Cardinality(Places(Departed, S))
<1> DEFINE m == Len(stored) - Len(events)
<1>1. /\ stored \in Seq(Writer) /\ logFile \in Seq(Writer)
      /\ earlier \in Seq(Writer) /\ events \in Seq(Writer) /\ RingIsEnd
  BY DEF FileInv, LogInv, TypeOK
<1>2. In(logFile) = In(earlier) \cup In(stored) /\ In(earlier) \cap In(stored) = {}
  <2>1. \A w \in Writer : w \in In(stored) <=> pc[w] = "done"
    BY DEF FileInv, AllWritten
  <2>2. \A w \in Writer : pc[w] = "done" => w \in In(logFile)
    BY DEF FileInv, AllWritten, LogInv, EarlierIsWritten
  <2>3. \A w \in Writer : w \in In(logFile) => pc[w] \in {"done", "past"}
    BY DEF FileInv, AllWritten
  <2>4. \A w \in Writer : w \in In(earlier) <=> w \in In(logFile) /\ pc[w] = "past"
    BY DEF FileInv
  <2>5. /\ In(logFile) \subseteq Writer /\ In(stored) \subseteq Writer
        /\ In(earlier) \subseteq Writer
    BY <1>1, InIndices
  <2> QED
    BY <2>1, <2>2, <2>3, <2>4, <2>5
<1>3. Cardinality(Places(logFile, S)) =
        Cardinality(Places(earlier, S)) + Cardinality(Places(stored, S))
  <2> DEFINE E == S \cap In(earlier)
             N == S \cap In(stored)
  <2>1. Distinct(logFile) /\ Distinct(earlier) /\ Distinct(stored)
    BY DEF FileInv
  <2>2. Cardinality(Places(logFile, S)) = Cardinality(S \cap In(logFile))
    BY <1>1, <2>1, PlacesDistinct
  <2>3. IsFiniteSet(E) /\ Cardinality(Places(earlier, S)) = Cardinality(E)
    BY <1>1, <2>1, PlacesDistinct
  <2>4. IsFiniteSet(N) /\ Cardinality(Places(stored, S)) = Cardinality(N)
    BY <1>1, <2>1, PlacesDistinct
  <2>5. S \cap In(logFile) = E \cup N /\ E \cap N = {}
    BY <1>2
  <2> HIDE DEF E, N
  <2>6. Cardinality(E \cup N) = Cardinality(E) + Cardinality(N) - Cardinality({})
    BY <2>3, <2>4, <2>5, FS_Union
  <2>7. Cardinality(E) \in Nat /\ Cardinality(N) \in Nat
    BY <2>3, <2>4, FS_CardinalityType
  <2>8. Cardinality({}) = 0
    BY FS_EmptySet
  <2> QED
    <3>1. Cardinality(Places(logFile, S)) = Cardinality(E \cup N)
      BY <2>2, <2>5, Zenon
    <3>2. Cardinality(E \cup N) = Cardinality(E) + Cardinality(N)
      BY <2>5, <2>6, <2>7, <2>8
    <3> QED
      BY <2>3, <2>4, <3>1, <3>2
<1>4. /\ m \in 0..Len(stored) /\ Len(stored) = m + Len(events)
      /\ \A i \in 1..Len(events) : events[i] = stored[m + i]
  <2>1. Len(stored) \in Nat /\ Len(events) \in Nat /\ Len(events) <= Len(stored)
    BY <1>1, SizeAssumption DEF RingIsEnd
  <2>2. m \in 0..Len(stored) /\ Len(stored) = m + Len(events)
    BY <2>1
  <2> QED
    BY <1>1, <2>2 DEF RingIsEnd
<1>5. /\ Departed \in Seq(Writer) /\ Len(Departed) = m
      /\ \A i \in 1..m : Departed[i] = stored[i]
  BY <1>1, DepartedIsLog
<1>6. Cardinality(Places(stored, S)) =
        Cardinality(Places(Departed, S)) + Cardinality(Places(events, S))
  <2> HIDE DEF m
  <2>1. /\ Len(stored) = Len(Departed) + Len(events)
        /\ \A i \in 1..Len(Departed) : Departed[i] = stored[i]
        /\ \A i \in 1..Len(events) : events[i] = stored[Len(Departed) + i]
    BY <1>4, <1>5
  <2>2. /\ stored \in Seq(Writer) /\ Departed \in Seq(Writer)
        /\ events \in Seq(Writer)
    BY <1>1, <1>5
  <2>3. ASSUME NEW log \in Seq(Writer), NEW front \in Seq(Writer),
               NEW back \in Seq(Writer), Len(log) = Len(front) + Len(back),
               \A i \in 1..Len(front) : front[i] = log[i],
               \A i \in 1..Len(back) : back[i] = log[Len(front) + i]
        PROVE  Cardinality(Places(log, S)) =
                 Cardinality(Places(front, S)) + Cardinality(Places(back, S))
    BY <2>3, PlacesSplit
  <2> QED
    BY <2>1, <2>2, <2>3, Zenon
<1> QED
  BY <1>1, <1>3, <1>5, <1>6, PlacesFinite

\* The events of a type, and those of them for one seat.
OfType(t) == {w \in Writer : Type[w] = t}
OfSeat(t, s) == {w \in OfType(t) : SeatOf[w] = s}

\* The reports count places.
LEMMA ReportsCount ==
  ASSUME NEW log \in Seq(Writer)
  PROVE  /\ Len(log) = Cardinality(Places(log, Writer))
         /\ \A t \in EventType :
              CountByType(log)[t] = Cardinality(Places(log, OfType(t)))
         /\ \A s \in Seats : \A t :
              PerSeat(log, t)[s] = Cardinality(Places(log, OfSeat(t, s)))
<1>1. /\ Len(log) \in Nat /\ DOMAIN log = 1..Len(log)
      /\ \A i \in 1..Len(log) : log[i] \in Writer
  OBVIOUS
<1>2. Len(log) = Cardinality(Places(log, Writer))
  <2>1. Places(log, Writer) = 1..Len(log)
    BY <1>1 DEF Places
  <2>2. Cardinality(1..Len(log)) = IF 1 > Len(log) THEN 0 ELSE Len(log) - 1 + 1
    BY <1>1, FS_Interval
  <2> QED
    BY <1>1, <2>1, <2>2
<1>3. ASSUME NEW t
      PROVE  GetByType(log, t) = Places(log, OfType(t))
  BY <1>1 DEF GetByType, Places, OfType
<1>4. ASSUME NEW t, NEW s \in Seats
      PROVE  {i \in GetByType(log, t) : SeatOf[log[i]] = s}
               = Places(log, OfSeat(t, s))
  BY <1>1 DEF GetByType, Places, OfType, OfSeat
<1>5. \A t \in EventType :
        CountByType(log)[t] = Cardinality(Places(log, OfType(t)))
  BY <1>3 DEF CountByType
<1>6. \A s \in Seats : \A t :
        PerSeat(log, t)[s] = Cardinality(Places(log, OfSeat(t, s)))
  BY <1>4 DEF PerSeat
<1> QED
  BY <1>2, <1>5, <1>6

\* The file has a request for each answer, and a different one.
LEMMA AnswersHaveRequests ==
  ASSUME FileInv, unwritten = {}, NEW s \in Seats
  PROVE  PerSeat(logFile, "success")[s] + PerSeat(logFile, "failed")[s]
           <= PerSeat(logFile, "request")[s]
<1> DEFINE In1 == OfSeat("success", s) \cap In(logFile)
           In2 == OfSeat("failed", s) \cap In(logFile)
           Req == OfSeat("request", s) \cap In(logFile)
<1>1. logFile \in Seq(Writer) /\ Distinct(logFile)
  BY DEF FileInv, LogInv, TypeOK
<1>2. /\ IsFiniteSet(In1) /\ PerSeat(logFile, "success")[s] = Cardinality(In1)
      /\ IsFiniteSet(In2) /\ PerSeat(logFile, "failed")[s] = Cardinality(In2)
      /\ IsFiniteSet(Req) /\ PerSeat(logFile, "request")[s] = Cardinality(Req)
  BY <1>1, PlacesDistinct, ReportsCount
<1>3. PICK asked \in [Answers -> Writer] :
        /\ \A a \in Answers : asked[a] \in RequestsOf(a)
        /\ \A a, b \in Answers : asked[a] = asked[b] => a = b
  BY AnswerAssumption
<1>4. ASSUME NEW a \in In1 \cup In2 PROVE a \in Answers /\ asked[a] \in Req
  <2>1. a \in Answers /\ SeatOf[a] = s /\ a \in In(logFile)
    BY DEF OfSeat, OfType, Answers
  <2>2. /\ asked[a] \in Writer /\ asked[a] \in After[a]
        /\ Type[asked[a]] = "request" /\ SeatOf[asked[a]] = s
    BY <1>3, <2>1 DEF RequestsOf
  <2>3. PICK i \in DOMAIN logFile : logFile[i] = a
    BY <2>1 DEF In
  <2>4. \E j \in 1..(i - 1) : logFile[j] = asked[a]
    BY <2>2, <2>3 DEF FileInv, LogInv, EarlierIsWritten, AnswerFollowsRequest
  <2>5. asked[a] \in In(logFile)
    BY <1>1, <2>4 DEF In
  <2> QED
    BY <2>1, <2>2, <2>5 DEF OfSeat, OfType
<1>5. In1 \cap In2 = {}
  BY DEF OfSeat, OfType
<1> DEFINE f == [a \in In1 \cup In2 |-> asked[a]]
<1>6. /\ f \in [In1 \cup In2 -> Req]
      /\ \A a, b \in In1 \cup In2 : f[a] = f[b] => a = b
  <2> HIDE DEF In1, In2, Req
  <2> QED
    BY <1>3, <1>4
<1> HIDE DEF In1, In2, Req, f
<1>7. f \in Injection(In1 \cup In2, Req)
  BY <1>6, Fun_IsInj
<1>8. Cardinality(In1 \cup In2) <= Cardinality(Req)
  BY <1>2, <1>7, FS_Injection
<1>9. Cardinality(In1 \cup In2) =
        Cardinality(In1) + Cardinality(In2) - Cardinality({})
  BY <1>2, <1>5, FS_Union
<1> QED
  BY <1>2, <1>8, <1>9, FS_EmptySet, FS_CardinalityType
-----------------------------------------------------------------------------
\* When nothing is being logged and no write of the process has failed, the report
\* of the pipeline is that of the dashboard, the events that have left the ring and
\* those of earlier lives, by type and by seat; and if no write ever failed it has
\* no more answers for a seat than requests.
THEOREM ReportsAgree == Spec => []ReportsDifferByDeparted
<1>1. FileInv => ReportsDifferByDeparted
  <2> SUFFICES ASSUME FileInv PROVE ReportsDifferByDeparted
    OBVIOUS
  <2>1. /\ logFile \in Seq(Writer) /\ events \in Seq(Writer)
        /\ earlier \in Seq(Writer) /\ Departed \in Seq(Writer)
    BY DepartedIsLog DEF FileInv, LogInv, TypeOK
  <2>2. ASSUME AllWritten
        PROVE  Len(logFile) = Len(earlier) + Len(events) + Len(Departed)
    BY <2>1, <2>2, FileIsRingAndDeparted, ReportsCount
  <2>3. ASSUME AllWritten, NEW t \in EventType
        PROVE  CountByType(logFile)[t] =
                 CountByType(earlier)[t] + CountByType(events)[t]
                   + CountByType(Departed)[t]
    BY <2>1, <2>3, FileIsRingAndDeparted, ReportsCount
  <2>4. ASSUME AllWritten, NEW s \in Seats
        PROVE  PerSeat(logFile, "request")[s] =
                 PerSeat(earlier, "request")[s] + PerSeat(events, "request")[s]
                   + PerSeat(Departed, "request")[s]
    BY <2>1, <2>4, FileIsRingAndDeparted, ReportsCount
  <2>5. ASSUME unwritten = {}, NEW s \in Seats
        PROVE  PerSeat(logFile, "success")[s] + PerSeat(logFile, "failed")[s]
                 <= PerSeat(logFile, "request")[s]
    BY <2>5, AnswersHaveRequests
  <2>6. \A s \in Seats \ {NoSeat} :
          DashboardReport(events).perSeat[s] = PerSeat(events, "request")[s]
    BY DEF DashboardReport, Demand
  <2> QED
    BY <2>2, <2>3, <2>4, <2>5, <2>6
      DEF ReportsDifferByDeparted, PipelineReport, DashboardReport
<1> QED
  BY <1>1, FileAlways, PTL
=============================================================================
