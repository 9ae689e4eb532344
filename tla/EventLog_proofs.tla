--------------------------- MODULE EventLog_proofs ---------------------------
(***************************************************************************)
(* Theorems of EventLog, for any number of writers and clients, any order  *)
(* of the writers of a goroutine, and any size of the ring and of the      *)
(* channels.                                                               *)
(***************************************************************************)
EXTENDS EventLog, SequenceTheorems, TLAPS

\* No entry of a list occurs twice.
Distinct(list) ==
  \A i, j \in DOMAIN list : list[i] = list[j] => i = j

\* The ring is the end of what has been stored, as long as it can be.
RingIsEnd ==
  /\ Len(events) = IF Len(stored) > MaxInMem THEN MaxInMem ELSE Len(stored)
  /\ \A i \in 1..Len(events) :
       events[i] = stored[Len(stored) - Len(events) + i]

\* The list holds the clients that stream, each once and with an open channel;
\* only they are owed an event.
ListIsRight ==
  /\ Distinct(subscribers)
  /\ \A c \in Client :
       /\ c \in In(subscribers) <=> client[c] \in {"on", "leaving"}
       /\ closed[c] <=> client[c] = "gone"
       /\ since[c] # {} => c \in In(subscribers)

\* A writer that holds the read lock has clients of the list before it, which
\* cannot change meanwhile, and each of them once.
NotifiesTheList ==
  \A w \in Writer :
    /\ toNotify[w] # <<>> => pc[w] = "notifying"
    /\ In(toNotify[w]) \subseteq In(subscribers)
    /\ Distinct(toNotify[w])

\* An event has been offered, or is still to be, and never both.
OfferedOrAhead ==
  /\ again = {}
  /\ \A c \in Client, w \in Writer :
       /\ w \in offered[c] =>
            pc[w] \in {"notifying", "done"} /\ c \notin In(toNotify[w])
       /\ (w \in since[c] /\ pc[w] \in {"notifying", "done"}) =>
            w \in offered[c] \/ c \in In(toNotify[w])

\* Whatever a goroutine of this process logged before is written, or its write
\* has failed.
EarlierIsWritten ==
  /\ \A w \in Writer :
       /\ pc[w] \notin {"start", "past"} => \A v \in After[w] : pc[v] = "done"
       /\ pc[w] \notin {"start", "stored", "past"} =>
            w \in unwritten \/ w \in In(logFile)
  /\ AnswerFollowsRequest

LogInv ==
  /\ TypeOK
  /\ RingIsEnd
  /\ ListIsRight
  /\ NotifiesTheList
  /\ OfferedOrAhead
  /\ EarlierIsWritten
-----------------------------------------------------------------------------
(***************************************************************************)
(* Lists.                                                                  *)
(***************************************************************************)
LEMMA InIndices ==
  \A S : \A s \in Seq(S) :
    /\ \A e : e \in In(s) <=> \E i \in 1..Len(s) : s[i] = e
    /\ In(s) \subseteq S
  BY DEF In

LEMMA InEmpty == In(<<>>) = {} /\ Distinct(<<>>)
  BY DEF In, Distinct

LEMMA InAppend ==
  ASSUME NEW S, NEW s \in Seq(S), NEW e \in S
  PROVE  /\ In(Append(s, e)) = In(s) \cup {e}
         /\ Distinct(s) /\ e \notin In(s) => Distinct(Append(s, e))
<1>1. /\ Append(s, e) \in Seq(S)
      /\ Len(Append(s, e)) = Len(s) + 1
      /\ \A i \in 1..Len(s) : Append(s, e)[i] = s[i]
      /\ Append(s, e)[Len(s) + 1] = e
  BY AppendProperties
<1>2. Len(s) \in Nat /\ DOMAIN s = 1..Len(s)
  OBVIOUS
<1>3. DOMAIN Append(s, e) = 1..(Len(s) + 1)
  BY <1>1
<1>4. In(Append(s, e)) = In(s) \cup {e}
  BY <1>1, <1>2, <1>3 DEF In
<1>5. ASSUME Distinct(s), e \notin In(s) PROVE Distinct(Append(s, e))
  BY <1>1, <1>2, <1>3, <1>5 DEF In, Distinct
<1> QED
  BY <1>4, <1>5

LEMMA InTail ==
  ASSUME NEW S, NEW s \in Seq(S), s # <<>>
  PROVE  /\ Head(s) \in In(s)
         /\ In(s) = In(Tail(s)) \cup {Head(s)}
         /\ Distinct(s) => Distinct(Tail(s)) /\ Head(s) \notin In(Tail(s))
<1>1. /\ Tail(s) \in Seq(S)
      /\ Len(Tail(s)) = Len(s) - 1
      /\ \A i \in 1..Len(Tail(s)) : Tail(s)[i] = s[i + 1]
      /\ Head(s) = s[1]
  BY HeadTailProperties
<1>2. Len(s) \in Nat \ {0} /\ DOMAIN s = 1..Len(s)
  BY EmptySeq
<1>3. DOMAIN Tail(s) = 1..(Len(s) - 1)
  BY <1>1
<1>4. Head(s) \in In(s) /\ In(Tail(s)) \subseteq In(s)
  BY <1>1, <1>2, <1>3 DEF In
<1>5. ASSUME NEW i \in 1..Len(s) PROVE s[i] \in In(Tail(s)) \cup {Head(s)}
  <2>1. CASE i = 1
    BY <1>1, <2>1
  <2>2. CASE i # 1
    <3>1. i - 1 \in 1..(Len(s) - 1) /\ Tail(s)[i - 1] = s[i]
      BY <1>1, <1>2, <2>2
    <3> QED
      BY <1>3, <3>1 DEF In
  <2> QED
    BY <2>1, <2>2
<1>6. In(s) \subseteq In(Tail(s)) \cup {Head(s)}
  BY <1>2, <1>5 DEF In
<1>7. ASSUME Distinct(s) PROVE Distinct(Tail(s)) /\ Head(s) \notin In(Tail(s))
  BY <1>1, <1>2, <1>3, <1>7 DEF In, Distinct
<1> QED
  BY <1>4, <1>6, <1>7

\* Unsubscribe takes out the client, all of it, and no other.
LEMMA WithoutOne ==
  ASSUME subscribers \in Seq(Client), Distinct(subscribers),
         NEW c \in In(subscribers)
  PROVE  /\ Without(c) \in Seq(Client)
         /\ In(Without(c)) = In(subscribers) \ {c}
         /\ Distinct(Without(c))
<1> DEFINE n == Len(subscribers)
           i == CHOOSE j \in 1..n : subscribers[j] = c
           left == SubSeq(subscribers, 1, i - 1)
           right == SubSeq(subscribers, i + 1, n)
<1>1. n \in Nat /\ DOMAIN subscribers = 1..n
  OBVIOUS
<1>2. i \in 1..n /\ subscribers[i] = c
  BY <1>1 DEF In
<1>3. Without(c) = left \o right
  BY DEF Without
<1> HIDE DEF i
<1>4. \A j \in 1..n : subscribers[j] \in Client
  BY <1>1
<1>5. /\ left \in Seq(Client) /\ Len(left) = i - 1
      /\ \A j \in 1..(i - 1) : left[j] = subscribers[j]
  BY <1>1, <1>2, <1>4, SubSeqProperties
<1>6. /\ right \in Seq(Client) /\ Len(right) = n - i
      /\ \A j \in 1..(n - i) : right[j] = subscribers[i + j]
  <2>1. i + 1 \in Int /\ n \in Int /\ n - (i + 1) + 1 = n - i
    BY <1>1, <1>2
  <2>2. \A j \in (i + 1)..n : subscribers[j] \in Client
    BY <1>1, <1>2, <1>4
  <2>3. /\ right \in Seq(Client)
        /\ Len(right) = IF i + 1 <= n THEN n - (i + 1) + 1 ELSE 0
        /\ \A j \in 1..(n - (i + 1) + 1) :
             right[j] = subscribers[(i + 1) + j - 1]
    BY <2>1, <2>2, SubSeqProperties
  <2>4. \A j \in 1..(n - i) : (i + 1) + j - 1 = i + j
    BY <1>1, <1>2
  <2>5. Len(right) = n - i
    <3>1. CASE i = n
      BY <1>1, <2>3, <3>1
    <3>2. CASE i # n
      <4> HIDE DEF n, right
      <4>0. n \in Nat /\ i \in 1..n
        BY <1>1, <1>2
      <4>1. i + 1 <= n
        BY <4>0, <3>2
      <4> QED
        BY <2>1, <2>3, <4>1
    <3> QED
      BY <3>1, <3>2
  <2> QED
    BY <2>1, <2>3, <2>4, <2>5
<1> HIDE DEF left, right
<1> DEFINE w == Without(c)
<1>7. /\ w \in Seq(Client) /\ Len(w) = n - 1
      /\ \A j \in 1..(n - 1) :
           w[j] = IF j < i THEN subscribers[j] ELSE subscribers[j + 1]
  <2>1. /\ w \in Seq(Client) /\ Len(w) = (i - 1) + (n - i)
        /\ \A j \in 1..((i - 1) + (n - i)) :
             w[j] = IF j <= i - 1 THEN left[j] ELSE right[j - (i - 1)]
    <3>1. /\ left \o right \in Seq(Client)
          /\ Len(left \o right) = Len(left) + Len(right)
          /\ \A j \in 1..(Len(left) + Len(right)) :
               (left \o right)[j] = IF j <= Len(left) THEN left[j]
                                    ELSE right[j - Len(left)]
      BY <1>5, <1>6, ConcatProperties
    <3> QED
      BY <1>3, <1>5, <1>6, <3>1
  <2>2. (i - 1) + (n - i) = n - 1
    BY <1>1, <1>2
  <2>3. ASSUME NEW j \in 1..(n - 1)
        PROVE  w[j] = IF j < i THEN subscribers[j] ELSE subscribers[j + 1]
    <3>1. CASE j < i
      BY <1>1, <1>2, <1>5, <2>1, <2>2, <3>1
    <3>2. CASE ~ (j < i)
      <4>1. j - (i - 1) \in 1..(n - i) /\ i + (j - (i - 1)) = j + 1
        BY <1>1, <1>2, <3>2
      <4>2. right[j - (i - 1)] = subscribers[i + (j - (i - 1))]
        BY <1>6, <4>1
      <4> QED
        BY <1>1, <1>2, <2>1, <2>2, <3>2, <4>1, <4>2
    <3> QED
      BY <3>1, <3>2
  <2> QED
    BY <2>1, <2>2, <2>3
<1> HIDE DEF w, n
<1>8. DOMAIN w = 1..(n - 1)
  BY <1>7
<1>9. ASSUME NEW j \in 1..(n - 1)
      PROVE  \E k \in 1..n : /\ k # i /\ w[j] = subscribers[k]
                              /\ k = IF j < i THEN j ELSE j + 1
  BY <1>1, <1>2, <1>7
<1>10. In(w) \subseteq In(subscribers) \ {c}
  <2>1. \A k \in 1..n : k # i => subscribers[k] # c
    BY <1>1, <1>2 DEF Distinct
  <2> QED
    BY <1>1, <1>8, <1>9, <2>1 DEF In
<1>11. Distinct(w)
  <2> SUFFICES ASSUME NEW j \in 1..(n - 1), NEW k \in 1..(n - 1), w[j] = w[k]
               PROVE  j = k
    BY <1>8 DEF Distinct
  <2>1. PICK a \in 1..n : /\ w[j] = subscribers[a]
                           /\ a = IF j < i THEN j ELSE j + 1
    BY <1>9
  <2>2. PICK b \in 1..n : /\ w[k] = subscribers[b]
                           /\ b = IF k < i THEN k ELSE k + 1
    BY <1>9
  <2>3. a = b
    BY <1>1, <2>1, <2>2 DEF Distinct
  <2> QED
    BY <1>1, <1>2, <2>1, <2>2, <2>3
<1>12. ASSUME NEW k \in 1..n, k # i PROVE subscribers[k] \in In(w)
  <2>1. CASE k < i
    <3>1. k \in 1..(n - 1) /\ w[k] = subscribers[k]
      BY <1>1, <1>2, <1>7, <2>1
    <3> QED
      BY <1>8, <3>1 DEF In
  <2>2. CASE k > i
    <3>1. k - 1 \in 1..(n - 1) /\ w[k - 1] = subscribers[k]
      BY <1>1, <1>2, <1>7, <2>2
    <3> QED
      BY <1>8, <3>1 DEF In
  <2> QED
    BY <1>1, <1>2, <1>12, <2>1, <2>2
<1>13. In(subscribers) \ {c} \subseteq In(w)
  BY <1>1, <1>2, <1>12 DEF In
<1> QED
  BY <1>7, <1>10, <1>11, <1>13 DEF w

\* A ring keeps its bound, ends with the new event, and moves by one place when
\* it is full.
LEMMA PushRing ==
  ASSUME NEW ring \in Seq(Writer), Len(ring) <= MaxInMem, NEW w \in Writer
  PROVE  LET full == Len(ring) >= MaxInMem
             n    == Len(Push(ring, w))
         IN  /\ Push(ring, w) \in Seq(Writer)
             /\ n = IF full THEN MaxInMem ELSE Len(ring) + 1
             /\ Push(ring, w)[n] = w
             /\ \A i \in 1..(n - 1) :
                  Push(ring, w)[i] = IF full THEN ring[i + 1] ELSE ring[i]
<1> USE SizeAssumption
<1>1. CASE Len(ring) >= MaxInMem
  <2>1. ring # <<>> /\ Len(ring) = MaxInMem
    BY <1>1
  <2>2. /\ Tail(ring) \in Seq(Writer)
        /\ Len(Tail(ring)) = MaxInMem - 1
        /\ \A i \in 1..(MaxInMem - 1) : Tail(ring)[i] = ring[i + 1]
    BY <2>1, HeadTailProperties
  <2>3. Push(ring, w) = Append(Tail(ring), w)
    BY <1>1 DEF Push
  <2>4. /\ Push(ring, w) \in Seq(Writer)
        /\ Len(Push(ring, w)) = (MaxInMem - 1) + 1
        /\ \A i \in 1..(MaxInMem - 1) : Push(ring, w)[i] = Tail(ring)[i]
        /\ Push(ring, w)[(MaxInMem - 1) + 1] = w
    BY <2>2, <2>3, AppendProperties
  <2> QED
    BY <1>1, <2>2, <2>4
<1>2. CASE ~ (Len(ring) >= MaxInMem)
  <2>1. Push(ring, w) = Append(ring, w)
    BY <1>2 DEF Push
  <2>2. /\ Push(ring, w) \in Seq(Writer)
        /\ Len(Push(ring, w)) = Len(ring) + 1
        /\ \A i \in 1..Len(ring) : Push(ring, w)[i] = ring[i]
        /\ Push(ring, w)[Len(ring) + 1] = w
    BY <2>1, AppendProperties
  <2> QED
    BY <1>2, <2>2
<1> QED
  BY <1>1, <1>2
-----------------------------------------------------------------------------
(***************************************************************************)
(* Steps, one part of the invariant at a time.                             *)
(***************************************************************************)
LEMMA TypeWriter ==
  ASSUME LogInv, NEW w \in Writer, Log(w) PROVE TypeOK'
<1> USE DEF TypeOK, logVars, lifeVars, writerVars, streamVars, clientVars, WriterPC
<1>0. TypeOK
  BY DEF LogInv
<1>1. CASE Store(w)
  <2>1. Push(events, w) \in Seq(Writer) /\ Len(Push(events, w)) <= MaxInMem
    BY <1>0, PushRing, SizeAssumption
  <2>2. Append(stored, w) \in Seq(Writer)
    BY <1>0
  <2> QED
    BY <1>0, <1>1, <2>1, <2>2 DEF Store
<1>2. CASE WriteFile(w)
  <2>1. Append(logFile, w) \in Seq(Writer)
    BY <1>0
  <2>2. pc' \in [Writer -> WriterPC]
    BY <1>0, <1>2 DEF WriteFile
  <2>3. logFile' \in Seq(Writer) /\ unwritten' \subseteq FileMayFail
    BY <1>0, <1>2, <2>1 DEF WriteFile
  <2> QED
    BY <1>0, <1>2, <2>2, <2>3 DEF WriteFile
<1>3. CASE StartNotifying(w)
  BY <1>0, <1>3 DEF StartNotifying, Written
<1>4. CASE Notify(w)
  <2> DEFINE c == Head(toNotify[w])
  <2>1. c \in Client /\ Tail(toNotify[w]) \in Seq(Client)
    BY <1>0, <1>4, HeadTailProperties DEF Notify
  <2>2. toNotify' \in [Writer -> Seq(Client)]
    BY <1>0, <1>4, <2>1 DEF Notify
  <2>3. \/ channel' = channel
        \/ /\ Len(channel[c]) < BufferSize
           /\ channel' = [channel EXCEPT ![c] = Append(channel[c], w)]
    BY <1>4 DEF Notify, HasRoom
  <2>4. Append(channel[c], w) \in Seq(Writer)
        /\ Len(Append(channel[c], w)) = Len(channel[c]) + 1
    BY <1>0, <2>1, AppendProperties
  <2>5. /\ channel' \in [Client -> Seq(Writer)]
        /\ \A d \in Client : Len(channel'[d]) <= BufferSize
    <3>1. CASE channel' = channel
      BY <1>0, <3>1
    <3>2. CASE /\ Len(channel[c]) < BufferSize
               /\ channel' = [channel EXCEPT ![c] = Append(channel[c], w)]
      <4>1. channel' \in [Client -> Seq(Writer)]
        BY <1>0, <2>1, <2>4, <3>2
      <4>2. ASSUME NEW d \in Client PROVE Len(channel'[d]) <= BufferSize
        <5>1. CASE d = c
          <6>1. channel'[d] = Append(channel[c], w)
            BY <1>0, <2>1, <3>2, <5>1
          <6>2. Len(channel[c]) \in Nat
            BY <1>0, <2>1
          <6> QED
            BY <2>4, <3>2, <6>1, <6>2, SizeAssumption
        <5>2. CASE d # c
          BY <1>0, <3>2, <5>2
        <5> QED
          BY <5>1, <5>2
      <4> QED
        BY <4>1, <4>2
    <3> QED
      BY <2>3, <3>1, <3>2
  <2>6. /\ offered' \in [Client -> SUBSET Writer]
        /\ again' \subseteq Client
    BY <1>0, <1>4, <2>1 DEF Notify
  <2> QED
    BY <1>0, <1>4, <2>2, <2>5, <2>6 DEF Notify
<1>5. CASE Finish(w)
  BY <1>0, <1>5 DEF Finish
<1> QED
  BY <1>1, <1>2, <1>3, <1>4, <1>5 DEF Log

LEMMA TypeClient ==
  ASSUME LogInv, NEW c \in Client, HandleSSE(c) PROVE TypeOK'
<1> USE DEF TypeOK, logVars, lifeVars, writerVars, streamVars, clientVars, ClientPC
<1>0. TypeOK
  BY DEF LogInv
<1>1. CASE Subscribe(c)
  <2>1. Append(subscribers, c) \in Seq(Client)
    BY <1>0, AppendProperties
  <2>2. /\ since' \in [Client -> SUBSET Writer]
        /\ client' \in [Client -> ClientPC]
    BY <1>0, <1>1 DEF Subscribe
  <2> QED
    BY <1>0, <1>1, <2>1, <2>2 DEF Subscribe
<1>2. CASE Receive(c)
  <2>1. Tail(channel[c]) \in Seq(Writer)
        /\ Len(Tail(channel[c])) = Len(channel[c]) - 1
    BY <1>0, <1>2, HeadTailProperties DEF Receive
  <2>2. channel' = [channel EXCEPT ![c] = Tail(channel[c])]
    BY <1>2 DEF Receive
  <2>3. /\ channel' \in [Client -> Seq(Writer)]
        /\ \A d \in Client : Len(channel'[d]) <= BufferSize
    BY <1>0, <2>1, <2>2, SizeAssumption
  <2> QED
    BY <1>0, <1>2, <2>3 DEF Receive
<1>3. CASE Disconnect(c)
  BY <1>0, <1>3 DEF Disconnect
<1>4. CASE Unsubscribe(c)
  <2>1. c \in In(subscribers) /\ Distinct(subscribers)
    BY <1>4 DEF Unsubscribe, LogInv, ListIsRight
  <2>2. Without(c) \in Seq(Client)
    BY <1>0, <2>1, WithoutOne
  <2>3. /\ channel' \in [Client -> Seq(Writer)]
        /\ \A d \in Client : Len(channel'[d]) <= BufferSize
    <3>1. <<>> \in Seq(Writer) /\ Len(<<>>) <= BufferSize
      BY SizeAssumption
    <3>2. channel' = [channel EXCEPT ![c] = <<>>]
      BY <1>4 DEF Unsubscribe
    <3>3. \A d \in Client : channel'[d] = <<>> \/ channel'[d] = channel[d]
      BY <1>0, <3>2
    <3>4. \A d \in Client : Len(channel'[d]) <= BufferSize
      BY <1>0, <3>1, <3>3
    <3> QED
      BY <1>0, <3>1, <3>2, <3>4
  <2> QED
    BY <1>0, <1>4, <2>2, <2>3 DEF Unsubscribe
<1> QED
  BY <1>1, <1>2, <1>3, <1>4 DEF HandleSSE

LEMMA RingWriter ==
  ASSUME LogInv, NEW w \in Writer, Log(w) PROVE RingIsEnd'
<1> USE SizeAssumption DEF RingIsEnd, logVars
<1>0. TypeOK /\ RingIsEnd
  BY DEF LogInv
<1>1. CASE Store(w)
  <2> DEFINE s == Len(stored)
             e == Len(events)
             full == e >= MaxInMem
  <2>1. s \in Nat /\ e \in Nat /\ e <= MaxInMem
    BY <1>0 DEF TypeOK
  <2>2. /\ Len(events') = IF full THEN MaxInMem ELSE e + 1
        /\ events'[Len(events')] = w
        /\ \A i \in 1..(Len(events') - 1) :
             events'[i] = IF full THEN events[i + 1] ELSE events[i]
    <3>1. events' = Push(events, w) /\ events \in Seq(Writer)
      BY <1>0, <1>1 DEF Store, TypeOK
    <3> QED
      BY <2>1, <3>1, PushRing
  <2>3. /\ Len(stored') = s + 1
        /\ \A i \in 1..s : stored'[i] = stored[i]
        /\ stored'[s + 1] = w
    BY <1>0, <1>1, AppendProperties DEF Store, TypeOK
  <2>4. Len(events') = IF Len(stored') > MaxInMem THEN MaxInMem ELSE Len(stored')
    BY <1>0, <2>1, <2>2, <2>3
  <2>5. ASSUME NEW i \in 1..Len(events')
        PROVE  events'[i] = stored'[Len(stored') - Len(events') + i]
    <3>0. Len(events') \in Nat
      BY <2>1, <2>2
    <3>1. CASE i = Len(events')
      BY <2>1, <2>2, <2>3, <3>0, <3>1
    <3>2. CASE i # Len(events') /\ full
      <4>1. i + 1 \in 1..e /\ s - e + (i + 1) \in 1..s /\ e = MaxInMem
        BY <1>0, <2>1, <2>2, <3>0, <3>2
      <4>2. events'[i] = stored[s - e + (i + 1)]
        <5>1. i \in 1..(Len(events') - 1)
          BY <3>0, <3>2
        <5>2. events'[i] = events[i + 1]
          BY <2>2, <3>2, <5>1
        <5> QED
          BY <1>0, <4>1, <5>2
      <4>3. Len(stored') - Len(events') + i = s - e + (i + 1)
        BY <2>1, <2>2, <2>3, <3>2, <4>1
      <4> QED
        BY <2>3, <4>1, <4>2, <4>3
    <3>3. CASE i # Len(events') /\ ~ full
      <4>1. i \in 1..e /\ s - e + i \in 1..s
        BY <1>0, <2>1, <2>2, <3>0, <3>3
      <4>2. events'[i] = stored[s - e + i]
        <5>1. i \in 1..(Len(events') - 1)
          BY <3>0, <3>3
        <5>2. events'[i] = events[i]
          BY <2>2, <3>3, <5>1
        <5> QED
          BY <1>0, <4>1, <5>2
      <4>3. Len(stored') - Len(events') + i = s - e + i
        BY <2>1, <2>2, <2>3, <3>3, <4>1
      <4> QED
        BY <2>3, <4>1, <4>2, <4>3
    <3> QED
      BY <3>1, <3>2, <3>3
  <2> QED
    BY <2>4, <2>5
<1>2. CASE ~ Store(w)
  <2>1. UNCHANGED <<events, stored>>
    BY <1>2 DEF Log, WriteFile, StartNotifying, Notify, Finish
  <2> QED
    BY <1>0, <2>1
<1> QED
  BY <1>1, <1>2

LEMMA ListClient ==
  ASSUME LogInv, NEW c \in Client, HandleSSE(c) PROVE ListIsRight'
<1> USE DEF ListIsRight, clientVars
<1>0. TypeOK /\ ListIsRight
  BY DEF LogInv
<1>1. CASE Subscribe(c)
  <2>1. c \notin In(subscribers) /\ subscribers' = Append(subscribers, c)
    BY <1>0, <1>1 DEF Subscribe
  <2>2. In(subscribers') = In(subscribers) \cup {c} /\ Distinct(subscribers')
    BY <1>0, <2>1, InAppend DEF TypeOK
  <2>3. \A d \in Client :
          /\ client'[d] = IF d = c THEN "on" ELSE client[d]
          /\ d # c => since'[d] = since[d]
          /\ closed'[d] = closed[d]
    BY <1>0, <1>1 DEF Subscribe, TypeOK
  <2>4. client[c] = "off"
    BY <1>1 DEF Subscribe
  <2>5. Distinct(subscribers)'
    BY <2>2 DEF Distinct
  <2>6. ASSUME NEW d \in Client
        PROVE  /\ d \in In(subscribers') <=> client'[d] \in {"on", "leaving"}
               /\ closed'[d] <=> client'[d] = "gone"
               /\ since'[d] # {} => d \in In(subscribers')
    BY <1>0, <2>2, <2>3, <2>4
  <2> QED
    BY <2>5, <2>6 DEF In
<1>2. CASE Receive(c)
  BY <1>0, <1>2 DEF Receive, In, Distinct
<1>3. CASE Disconnect(c)
  <2>1. /\ UNCHANGED <<subscribers, closed, since>>
        /\ client[c] = "on"
        /\ \A d \in Client : client'[d] = IF d = c THEN "leaving" ELSE client[d]
    BY <1>0, <1>3 DEF Disconnect, TypeOK
  <2>2. ASSUME NEW d \in Client
        PROVE  /\ d \in In(subscribers) <=> client'[d] \in {"on", "leaving"}
               /\ closed[d] <=> client'[d] = "gone"
    BY <1>0, <2>1
  <2> QED
    BY <1>0, <2>1, <2>2 DEF In, Distinct
<1>4. CASE Unsubscribe(c)
  <2>1. c \in In(subscribers) /\ subscribers' = Without(c)
    BY <1>0, <1>4 DEF Unsubscribe
  <2>2. In(subscribers') = In(subscribers) \ {c} /\ Distinct(subscribers')
    BY <1>0, <2>1, WithoutOne DEF TypeOK
  <2>3. \A d \in Client :
          /\ client'[d] = IF d = c THEN "gone" ELSE client[d]
          /\ since'[d] = IF d = c THEN {} ELSE since[d]
          /\ closed'[d] = IF d = c THEN TRUE ELSE closed[d]
    BY <1>0, <1>4 DEF Unsubscribe, TypeOK
  <2>4. Distinct(subscribers)'
    BY <2>2 DEF Distinct
  <2>5. ASSUME NEW d \in Client
        PROVE  /\ d \in In(subscribers') <=> client'[d] \in {"on", "leaving"}
               /\ closed'[d] <=> client'[d] = "gone"
               /\ since'[d] # {} => d \in In(subscribers')
    BY <1>0, <2>2, <2>3
  <2> QED
    BY <2>4, <2>5 DEF In
<1> QED
  BY <1>1, <1>2, <1>3, <1>4 DEF HandleSSE

LEMMA NotifyWriter ==
  ASSUME LogInv, NEW w \in Writer, Log(w) PROVE NotifiesTheList'
<1> USE DEF writerVars, streamVars, clientVars
<1>0. TypeOK /\ ListIsRight /\ NotifiesTheList
  BY DEF LogInv
<1>1. CASE StartNotifying(w)
  <2>1. /\ \A v \in Writer :
             /\ pc'[v] = IF v = w THEN "notifying" ELSE pc[v]
             /\ toNotify'[v] = IF v = w THEN subscribers ELSE toNotify[v]
        /\ subscribers' = subscribers
    BY <1>0, <1>1 DEF StartNotifying, TypeOK
  <2>2. Distinct(subscribers)
    BY <1>0 DEF ListIsRight
  <2> QED
    BY <1>0, <2>1, <2>2 DEF NotifiesTheList, In, Distinct
<1>2. CASE Notify(w)
  <2>1. /\ \A v \in Writer :
             toNotify'[v] = IF v = w THEN Tail(toNotify[v]) ELSE toNotify[v]
        /\ UNCHANGED <<pc, subscribers>>
        /\ toNotify[w] \in Seq(Client) /\ toNotify[w] # <<>>
    BY <1>0, <1>2 DEF Notify, TypeOK
  <2>2. In(toNotify'[w]) \subseteq In(toNotify[w]) /\ Distinct(toNotify'[w])
    BY <1>0, <2>1, InTail DEF NotifiesTheList
  <2>3. pc[w] = "notifying" /\ In(toNotify'[w]) \subseteq In(subscribers')
    BY <1>0, <2>1, <2>2 DEF NotifiesTheList
  <2>4. ASSUME NEW v \in Writer
        PROVE  /\ toNotify'[v] # <<>> => pc'[v] = "notifying"
               /\ In(toNotify'[v]) \subseteq In(subscribers')
               /\ Distinct(toNotify'[v])
    BY <1>0, <2>1, <2>2, <2>3 DEF NotifiesTheList
  <2> QED
    BY <2>4 DEF NotifiesTheList, In, Distinct
<1>3. CASE Store(w) \/ WriteFile(w) \/ Finish(w)
  <2>1. /\ UNCHANGED <<toNotify, subscribers>>
        /\ \A v \in Writer : v # w => pc'[v] = pc[v]
        /\ toNotify[w] = <<>>
    BY <1>0, <1>3 DEF Store, WriteFile, Finish, TypeOK, NotifiesTheList
  <2> QED
    BY <1>0, <2>1 DEF NotifiesTheList, In, Distinct
<1> QED
  BY <1>1, <1>2, <1>3 DEF Log

LEMMA NotifyClient ==
  ASSUME LogInv, NEW c \in Client, HandleSSE(c) PROVE NotifiesTheList'
<1> USE DEF writerVars, streamVars, clientVars
<1>0. TypeOK /\ NotifiesTheList
  BY DEF LogInv
<1>1. CASE Subscribe(c) \/ Unsubscribe(c)
  <2>1. CanLockSubMu /\ UNCHANGED <<pc, toNotify>>
    BY <1>1 DEF Subscribe, Unsubscribe
  <2>2. \A w \in Writer : toNotify'[w] = <<>>
    BY <1>0, <2>1 DEF CanLockSubMu, NotifiesTheList
  <2> QED
    BY <2>2, InEmpty DEF NotifiesTheList, In, Distinct
<1>2. CASE Receive(c) \/ Disconnect(c)
  BY <1>0, <1>2 DEF Receive, Disconnect, NotifiesTheList, In, Distinct
<1> QED
  BY <1>1, <1>2 DEF HandleSSE

LEMMA OfferWriter ==
  ASSUME LogInv, NEW w \in Writer, Log(w) PROVE OfferedOrAhead'
<1> USE DEF writerVars, streamVars, clientVars
<1>0. TypeOK /\ ListIsRight /\ NotifiesTheList /\ OfferedOrAhead
  BY DEF LogInv
<1>1. CASE StartNotifying(w)
  <2>1. /\ \A v \in Writer :
             /\ pc'[v] = IF v = w THEN "notifying" ELSE pc[v]
             /\ toNotify'[v] = IF v = w THEN subscribers ELSE toNotify[v]
        /\ UNCHANGED <<since, offered, again>>
        /\ pc[w] = "written"
    BY <1>0, <1>1 DEF StartNotifying, Written, TypeOK
  <2>2. \A c \in Client : /\ w \notin offered[c]
                          /\ w \in since[c] => c \in In(subscribers)
    BY <1>0, <2>1 DEF OfferedOrAhead, ListIsRight
  <2> QED
    BY <1>0, <2>1, <2>2 DEF OfferedOrAhead, In
<1>2. CASE Notify(w)
  <2> DEFINE h == Head(toNotify[w])
             rest == Tail(toNotify[w])
  <2>1. /\ toNotify[w] \in Seq(Client) /\ toNotify[w] # <<>>
        /\ pc[w] = "notifying"
    BY <1>0, <1>2 DEF Notify, NotifiesTheList, TypeOK
  <2>2. /\ h \in In(toNotify[w]) /\ h \notin In(rest)
        /\ In(toNotify[w]) = In(rest) \cup {h}
    BY <1>0, <2>1, InTail DEF NotifiesTheList
  <2>3. h \in Client /\ w \notin offered[h]
    BY <1>0, <2>1, <2>2, HeadTailProperties DEF OfferedOrAhead
  <2>4. /\ UNCHANGED <<pc, since>> /\ again' = again
        /\ offered' = [offered EXCEPT ![h] = @ \cup {w}]
        /\ toNotify' = [toNotify EXCEPT ![w] = rest]
    BY <1>2, <2>3 DEF Notify
  <2> HIDE DEF h, rest
  <2>5. \A c \in Client, v \in Writer :
          /\ v \in offered'[c] <=> v \in offered[c] \/ (c = h /\ v = w)
          /\ c \in In(toNotify'[v]) <=>
               c \in In(toNotify[v]) /\ ~ (c = h /\ v = w)
    <3>1. \A c \in Client, v \in Writer :
            v \in offered'[c] <=> v \in offered[c] \/ (c = h /\ v = w)
      BY <1>0, <2>3, <2>4 DEF TypeOK
    <3>2. \A v \in Writer : toNotify'[v] = IF v = w THEN rest ELSE toNotify[v]
      BY <1>0, <2>4 DEF TypeOK
    <3> QED
      BY <2>2, <3>1, <3>2
  <2>6. ASSUME NEW c \in Client, NEW v \in Writer
        PROVE  /\ v \in offered'[c] =>
                    pc'[v] \in {"notifying", "done"} /\ c \notin In(toNotify'[v])
               /\ (v \in since'[c] /\ pc'[v] \in {"notifying", "done"}) =>
                    v \in offered'[c] \/ c \in In(toNotify'[v])
    BY <1>0, <2>1, <2>4, <2>5 DEF OfferedOrAhead
  <2>7. again' = {}
    BY <1>0, <2>4 DEF OfferedOrAhead
  <2> QED
    BY <2>6, <2>7 DEF OfferedOrAhead, In
<1>3. CASE Store(w) \/ WriteFile(w)
  <2>1. /\ UNCHANGED <<toNotify, since, offered, again>>
        /\ \A v \in Writer : v # w => pc'[v] = pc[v]
        /\ pc[w] \in {"start", "stored"} /\ pc'[w] \in {"stored", "written"}
    BY <1>0, <1>3 DEF Store, WriteFile, TypeOK
  <2>2. ASSUME NEW c \in Client, NEW v \in Writer
        PROVE  /\ v \in offered[c] =>
                    pc'[v] \in {"notifying", "done"} /\ c \notin In(toNotify[v])
               /\ (v \in since[c] /\ pc'[v] \in {"notifying", "done"}) =>
                    v \in offered[c] \/ c \in In(toNotify[v])
    BY <1>0, <2>1 DEF OfferedOrAhead
  <2>3. again' = {}
    BY <1>0, <2>1 DEF OfferedOrAhead
  <2> QED
    BY <2>1, <2>2, <2>3 DEF OfferedOrAhead, In
<1>4. CASE Finish(w)
  <2>1. /\ UNCHANGED <<toNotify, since, offered, again>>
        /\ \A v \in Writer : pc'[v] = IF v = w THEN "done" ELSE pc[v]
        /\ pc[w] = "notifying"
    BY <1>0, <1>4 DEF Finish, TypeOK
  <2> QED
    BY <1>0, <2>1 DEF OfferedOrAhead, In
<1> QED
  BY <1>1, <1>2, <1>3, <1>4 DEF Log

LEMMA OfferClient ==
  ASSUME LogInv, NEW c \in Client, HandleSSE(c) PROVE OfferedOrAhead'
<1> USE DEF writerVars, streamVars, clientVars
<1>0. TypeOK /\ OfferedOrAhead
  BY DEF LogInv
<1>1. CASE Subscribe(c)
  <2>1. /\ UNCHANGED <<pc, toNotify, offered, again>>
        /\ \A d \in Client :
             since'[d] = IF d = c THEN {w \in Writer : pc[w] = "start"}
                         ELSE since[d]
    BY <1>0, <1>1 DEF Subscribe, TypeOK
  <2>2. ASSUME NEW d \in Client, NEW v \in Writer
        PROVE  /\ v \in offered[d] =>
                    pc[v] \in {"notifying", "done"} /\ d \notin In(toNotify[v])
               /\ (v \in since'[d] /\ pc[v] \in {"notifying", "done"}) =>
                    v \in offered[d] \/ d \in In(toNotify[v])
    BY <1>0, <2>1 DEF OfferedOrAhead
  <2>3. again' = {}
    BY <1>0, <2>1 DEF OfferedOrAhead
  <2> QED
    BY <2>1, <2>2, <2>3 DEF OfferedOrAhead, In
<1>2. CASE Receive(c) \/ Disconnect(c)
  BY <1>0, <1>2 DEF Receive, Disconnect, OfferedOrAhead, In
<1>3. CASE Unsubscribe(c)
  <2>1. /\ UNCHANGED <<pc, toNotify, again>>
        /\ \A d \in Client : /\ offered'[d] = IF d = c THEN {} ELSE offered[d]
                             /\ since'[d] = IF d = c THEN {} ELSE since[d]
    BY <1>0, <1>3 DEF Unsubscribe, TypeOK
  <2> QED
    BY <1>0, <2>1 DEF OfferedOrAhead, In
<1> QED
  BY <1>1, <1>2, <1>3 DEF HandleSSE

LEMMA WrittenWriter ==
  ASSUME LogInv, NEW w \in Writer, Log(w) PROVE EarlierIsWritten'
<1> USE DEF logVars
<1>0. TypeOK /\ EarlierIsWritten /\ logFile \in Seq(Writer)
  BY DEF LogInv, TypeOK
<1>1. CASE Store(w)
  <2>1. /\ UNCHANGED <<logFile, unwritten>>
        /\ \A v \in Writer : pc'[v] = IF v = w THEN "stored" ELSE pc[v]
        /\ pc[w] = "start" /\ \A v \in After[w] : pc[v] = "done"
        /\ \A v \in Writer : After[v] \subseteq Writer
    BY <1>0, <1>1, WriterAssumption DEF Store, TypeOK
  <2> QED
    BY <1>0, <2>1 DEF EarlierIsWritten, AnswerFollowsRequest, In
<1>2. CASE WriteFile(w)
  <2>1. /\ \A v \in Writer : pc'[v] = IF v = w THEN "written" ELSE pc[v]
        /\ pc[w] = "stored"
        /\ \A v \in Writer : After[v] \subseteq Writer
    BY <1>0, <1>2, WriterAssumption DEF WriteFile, TypeOK
  <2>2. \A v \in Writer : pc'[v] \notin {"start", "past"} =>
                            \A u \in After[v] : pc'[u] = "done"
    BY <1>0, <2>1 DEF EarlierIsWritten
  <2>3. \A v \in After[w] : v \in unwritten \/ v \in In(logFile)
    BY <1>0, <2>1 DEF EarlierIsWritten
  <2>4. CASE logFile' = Append(logFile, w) /\ UNCHANGED unwritten
    <3> DEFINE n == Len(logFile)
    <3>1. /\ n \in Nat /\ DOMAIN logFile = 1..n
          /\ DOMAIN logFile' = 1..(n + 1)
          /\ \A i \in 1..n : logFile'[i] = logFile[i]
          /\ logFile'[n + 1] = w
          /\ In(logFile') = In(logFile) \cup {w}
      BY <1>0, <2>4, AppendProperties, InAppend
    <3> HIDE DEF n
    <3>2. ASSUME NEW i \in 1..(n + 1), NEW v \in After[logFile'[i]]
          PROVE  v \in unwritten' \/ \E j \in 1..(i - 1) : logFile'[j] = v
      <4>1. CASE i = n + 1
        <5>1. v \in unwritten \/ \E j \in 1..n : logFile[j] = v
          BY <2>3, <3>1, <4>1 DEF In
        <5> QED
          BY <2>4, <3>1, <4>1, <5>1
      <4>2. CASE i # n + 1
        <5>1. i \in 1..n /\ 1..(i - 1) \subseteq 1..n
          BY <3>1, <4>2
        <5>2. v \in unwritten \/ \E j \in 1..(i - 1) : logFile[j] = v
          BY <1>0, <3>1, <5>1 DEF EarlierIsWritten, AnswerFollowsRequest
        <5> QED
          BY <2>4, <3>1, <5>1, <5>2
      <4> QED
        BY <4>1, <4>2
    <3>3. AnswerFollowsRequest'
      BY <3>1, <3>2 DEF AnswerFollowsRequest
    <3>4. \A v \in Writer : pc'[v] \notin {"start", "stored", "past"} =>
                              v \in unwritten' \/ v \in In(logFile')
      BY <1>0, <2>1, <2>4, <3>1 DEF EarlierIsWritten
    <3> QED
      BY <2>2, <3>3, <3>4 DEF EarlierIsWritten, In
  <2>5. CASE unwritten' = unwritten \cup {w} /\ UNCHANGED logFile
    <3>1. AnswerFollowsRequest'
      BY <1>0, <2>5 DEF EarlierIsWritten, AnswerFollowsRequest
    <3>2. \A v \in Writer : pc'[v] \notin {"start", "stored", "past"} =>
                              v \in unwritten' \/ v \in In(logFile')
      BY <1>0, <2>1, <2>5 DEF EarlierIsWritten
    <3> QED
      BY <2>2, <3>1, <3>2 DEF EarlierIsWritten, In
  <2> QED
    BY <1>2, <2>4, <2>5 DEF WriteFile
<1>3. CASE StartNotifying(w) \/ Finish(w)
  <2>1. /\ UNCHANGED <<logFile, unwritten>>
        /\ \A v \in Writer : v # w => pc'[v] = pc[v]
        /\ pc[w] \in {"written", "notifying"}
        /\ \A v \in Writer : After[v] \subseteq Writer
    BY <1>0, <1>3, WriterAssumption
      DEF StartNotifying, Finish, Written, TypeOK
  <2> QED
    BY <1>0, <2>1 DEF EarlierIsWritten, AnswerFollowsRequest, In
<1>4. CASE Notify(w)
  BY <1>0, <1>4 DEF Notify, EarlierIsWritten, AnswerFollowsRequest, In
<1> QED
  BY <1>1, <1>2, <1>3, <1>4 DEF Log
-----------------------------------------------------------------------------
LEMMA LogWriter ==
  ASSUME LogInv, NEW w \in Writer, Log(w) PROVE LogInv'
<1>1. ListIsRight'
  <2>1. UNCHANGED clientVars
    BY DEF Log, Store, WriteFile, StartNotifying, Notify, Finish
  <2> QED
    BY <2>1 DEF LogInv, ListIsRight, clientVars, In, Distinct
<1> QED
  BY <1>1, TypeWriter, RingWriter, NotifyWriter, OfferWriter, WrittenWriter
    DEF LogInv

LEMMA LogClient ==
  ASSUME LogInv, NEW c \in Client, HandleSSE(c) PROVE LogInv'
<1>1. UNCHANGED logVars /\ UNCHANGED writerVars
  BY DEF HandleSSE, Subscribe, Receive, Disconnect, Unsubscribe
<1>2. RingIsEnd' /\ EarlierIsWritten'
  BY <1>1 DEF LogInv, RingIsEnd, EarlierIsWritten, AnswerFollowsRequest,
    logVars, writerVars, In
<1> QED
  BY <1>2, TypeClient, ListClient, NotifyClient, OfferClient DEF LogInv

\* A new process knows nothing; the file keeps what it had.
LEMMA LogRestart ==
  ASSUME LogInv, Restart PROVE LogInv'
<1>0. TypeOK /\ EarlierIsWritten /\ again = {}
  BY DEF LogInv, OfferedOrAhead
<1>1. /\ events' = <<>> /\ stored' = <<>> /\ subscribers' = <<>>
      /\ logFile' = logFile /\ unwritten' = unwritten /\ again' = again
      /\ \A w \in Writer : toNotify'[w] = <<>> /\ pc'[w] \in {"start", "past"}
      /\ \A c \in Client : /\ channel'[c] = <<>> /\ since'[c] = {}
                           /\ offered'[c] = {}
                           /\ client'[c] \in {"off", "gone"}
                           /\ closed'[c] <=> client'[c] = "gone"
  <2>1. \A w \in Writer : ~ HasBegun(w) => pc[w] = "start"
    BY DEF HasBegun
  <2>2. \A w \in Writer : pc'[w] \in {"start", "past"}
    BY <2>1 DEF Restart
  <2>3. \A c \in Client : closed'[c] <=> client'[c] = "gone"
    BY DEF Restart
  <2>4. \A c \in Client : client'[c] \in {"off", "gone"}
    BY DEF Restart
  <2> QED
    BY <2>2, <2>3, <2>4 DEF Restart
<1>2. TypeOK'
  <2>1. Len(<<>>) = 0 /\ \A S : <<>> \in Seq(S)
    BY EmptySeq
  <2>2. /\ events' \in Seq(Writer) /\ Len(events') <= MaxInMem
        /\ stored' \in Seq(Writer) /\ subscribers' \in Seq(Client)
        /\ \A c \in Client : Len(channel'[c]) <= BufferSize
    BY <1>1, <2>1, SizeAssumption
  <2>3. /\ toNotify' \in [Writer -> Seq(Client)]
        /\ channel' \in [Client -> Seq(Writer)]
    BY <2>1 DEF Restart
  <2>4. /\ since' \in [Client -> SUBSET Writer]
        /\ offered' \in [Client -> SUBSET Writer]
        /\ closed' \in [Client -> BOOLEAN]
        /\ client' \in [Client -> ClientPC]
    BY DEF Restart, ClientPC
  <2>5. pc' \in [Writer -> WriterPC]
    BY <1>0 DEF Restart, WriterPC, TypeOK
  <2>6. life' \in 1..MaxLives /\ earlier' \in Seq(Writer)
    BY <1>0, LivesAssumption DEF Restart, TypeOK
  <2> QED
    BY <1>0, <1>1, <2>2, <2>3, <2>4, <2>5, <2>6 DEF TypeOK
<1>3. RingIsEnd'
  BY <1>1, SizeAssumption DEF RingIsEnd
<1>4. ListIsRight' /\ NotifiesTheList' /\ OfferedOrAhead'
  BY <1>0, <1>1, InEmpty
    DEF ListIsRight, NotifiesTheList, OfferedOrAhead, In, Distinct
<1>5. EarlierIsWritten'
  BY <1>0, <1>1 DEF EarlierIsWritten, AnswerFollowsRequest
<1> QED
  BY <1>2, <1>3, <1>4, <1>5 DEF LogInv

LEMMA LogStep == LogInv /\ [Next]_vars => LogInv'
<1> SUFFICES ASSUME LogInv, UNCHANGED vars PROVE LogInv'
  BY LogWriter, LogClient, LogRestart DEF Next
<1> USE DEF vars, lifeVars, logVars, writerVars, streamVars, clientVars
<1>1. TypeOK' /\ RingIsEnd'
  BY DEF LogInv, TypeOK, RingIsEnd
<1>2. ListIsRight' /\ NotifiesTheList' /\ OfferedOrAhead'
  BY DEF LogInv, ListIsRight, NotifiesTheList, OfferedOrAhead, In, Distinct
<1>3. EarlierIsWritten'
  BY DEF LogInv, EarlierIsWritten, AnswerFollowsRequest, In
<1> QED
  BY <1>1, <1>2, <1>3 DEF LogInv

LEMMA LogInit == Init => LogInv
<1> SUFFICES ASSUME Init PROVE LogInv
  OBVIOUS
<1> USE SizeAssumption DEF Init
<1>1. Len(<<>>) = 0 /\ \A S : <<>> \in Seq(S)
  BY EmptySeq
<1>2. TypeOK
  BY <1>1, LivesAssumption DEF TypeOK, WriterPC, ClientPC
<1>3. RingIsEnd
  BY <1>1 DEF RingIsEnd
<1>4. ListIsRight /\ NotifiesTheList /\ OfferedOrAhead
  BY InEmpty DEF ListIsRight, NotifiesTheList, OfferedOrAhead
<1>5. EarlierIsWritten
  BY <1>1 DEF EarlierIsWritten, AnswerFollowsRequest
<1> QED
  BY <1>2, <1>3, <1>4, <1>5 DEF LogInv

LEMMA LogAlways == Spec => []LogInv
  BY LogInit, LogStep, PTL DEF Spec
-----------------------------------------------------------------------------
\* The fields keep their types: the ring is never longer than maxInMem, and no
\* channel holds more than its buffer.
THEOREM LoggerType == Spec => []TypeOK
<1>1. LogInv => TypeOK
  BY DEF LogInv
<1> QED
  BY <1>1, LogAlways, PTL

\* No writer is about to send on a channel that Unsubscribe has closed, whoever
\* comes and goes while it walks the list.
THEOREM NoSendOnClosed == Spec => []NeverSendsOnClosed
<1>1. LogInv => NeverSendsOnClosed
  BY DEF LogInv, ListIsRight, NotifiesTheList, NeverSendsOnClosed
<1> QED
  BY <1>1, LogAlways, PTL

\* A client is offered every event that is logged while it streams, and none of
\* them twice, by as many writers at once as there are.
THEOREM EventsOfferedOnce == Spec => []OfferedOnce
<1>1. LogInv => OfferedOnce
  <2> SUFFICES ASSUME LogInv, NEW c \in Client, NEW w \in since[c],
                      pc[w] = "done"
               PROVE  w \in offered[c]
    BY DEF LogInv, OfferedOrAhead, OfferedOnce
  <2>1. w \in Writer
    BY DEF LogInv, TypeOK
  <2>2. toNotify[w] = <<>>
    BY <2>1 DEF LogInv, NotifiesTheList
  <2> QED
    BY <2>1, <2>2, InEmpty DEF LogInv, OfferedOrAhead
<1> QED
  BY <1>1, LogAlways, PTL

\* The file never has an event without those its goroutine logged before, in
\* front of it, unless their write failed; a process that dies between two steps
\* changes nothing of that.
THEOREM RequestsComeFirst == Spec => []AnswerFollowsRequest
<1>1. LogInv => AnswerFollowsRequest
  BY DEF LogInv, EarlierIsWritten
<1> QED
  BY <1>1, LogAlways, PTL

\* The last entries of a log.
LEMMA LastOf ==
  ASSUME NEW log \in Seq(Writer), NEW k \in 0..Len(log)
  PROVE  LET n == Len(log)
             last == SubSeq(log, n - k + 1, n)
         IN  /\ last \in Seq(Writer) /\ Len(last) = k
             /\ \A i \in 1..k : last[i] = log[n - k + i]
<1> DEFINE n == Len(log)
           last == SubSeq(log, n - k + 1, n)
<1>1. /\ n \in Nat /\ \A i \in 1..n : log[i] \in Writer
  BY ElementOfSeq
<1> HIDE DEF n
<1>2. n \in Nat /\ k \in Nat /\ k <= n
  BY <1>1 DEF n
<1>3. \A i \in (n - k + 1)..n : log[i] \in Writer
  BY <1>1, <1>2
<1>4. /\ last \in Seq(Writer)
      /\ Len(last) = IF n - k + 1 <= n THEN n - (n - k + 1) + 1 ELSE 0
      /\ \A i \in 1..(n - (n - k + 1) + 1) : last[i] = log[(n - k + 1) + i - 1]
  BY <1>2, <1>3, SubSeqProperties
<1> HIDE DEF last
<1>5. n - (n - k + 1) + 1 = k
  BY <1>2
<1>6. Len(last) = k
  <2>1. CASE k = 0
    BY <1>2, <1>4, <2>1
  <2>2. CASE k # 0
    <3>1. n - k + 1 <= n
      BY <1>2, <2>2
    <3> QED
      BY <1>4, <1>5, <3>1
  <2> QED
    BY <2>1, <2>2
<1>7. \A i \in 1..k : (n - k + 1) + i - 1 = n - k + i
  BY <1>2
<1> QED
  BY <1>4, <1>5, <1>6, <1>7 DEF last, n

\* GetRecent returns what the last calls of Log of this process stored, in their
\* order, as many as were asked for and the ring can hold.
THEOREM RecentIsTheEnd == Spec => []RecentIsNewest
<1>1. LogInv => RecentIsNewest
  <2> SUFFICES ASSUME LogInv, NEW n \in 0..Len(stored)
               PROVE  GetRecent(events, n) =
                        GetRecent(stored, IF n > MaxInMem THEN MaxInMem ELSE n)
    BY DEF RecentIsNewest
  <2> DEFINE s == Len(stored)
             e == Len(events)
             k == IF n > MaxInMem THEN MaxInMem ELSE n
  <2>0. TypeOK /\ RingIsEnd
    BY DEF LogInv
  <2>1. /\ s \in Nat /\ e \in Nat /\ MaxInMem \in Nat \ {0} /\ n \in 0..s
        /\ events \in Seq(Writer) /\ stored \in Seq(Writer)
        /\ e = IF s > MaxInMem THEN MaxInMem ELSE s
        /\ \A i \in 1..e : events[i] = stored[s - e + i]
    <3>1. events \in Seq(Writer) /\ stored \in Seq(Writer)
      BY <2>0 DEF TypeOK
    <3>2. s \in Nat /\ e \in Nat
      BY <3>1
    <3>3. n \in 0..s
      OBVIOUS
    <3>4. /\ e = IF s > MaxInMem THEN MaxInMem ELSE s
          /\ \A i \in 1..e : events[i] = stored[s - e + i]
      BY <2>0 DEF RingIsEnd
    <3> QED
      BY <3>1, <3>2, <3>3, <3>4, SizeAssumption
  <2>2. /\ GetRecent(events, n) = SubSeq(events, e - k + 1, e)
        /\ GetRecent(stored, k) = SubSeq(stored, s - k + 1, s)
        /\ k \in 0..e /\ e <= s
    <3>1. k \in 0..e /\ e <= s /\ k = IF n > e THEN e ELSE n
      BY <2>1
    <3>2. ~ (k > s)
      BY <2>1, <3>1
    <3> QED
      BY <3>1, <3>2 DEF GetRecent
  <2> HIDE DEF s, e, k
  <2>3. /\ SubSeq(events, e - k + 1, e) \in Seq(Writer)
        /\ Len(SubSeq(events, e - k + 1, e)) = k
        /\ \A i \in 1..k : SubSeq(events, e - k + 1, e)[i] = events[e - k + i]
    BY <2>1, <2>2, LastOf DEF e
  <2>4. /\ SubSeq(stored, s - k + 1, s) \in Seq(Writer)
        /\ Len(SubSeq(stored, s - k + 1, s)) = k
        /\ \A i \in 1..k : SubSeq(stored, s - k + 1, s)[i] = stored[s - k + i]
    <3>1. k \in 0..s
      BY <2>1, <2>2
    <3> QED
      BY <2>1, <3>1, LastOf DEF s
  <2>5. ASSUME NEW i \in 1..k PROVE events[e - k + i] = stored[s - k + i]
    <3>1. e - k + i \in 1..e /\ s - e + (e - k + i) = s - k + i
      BY <2>1, <2>2
    <3> QED
      BY <2>1, <3>1
  <2>6. SubSeq(events, e - k + 1, e) = SubSeq(stored, s - k + 1, s)
    BY <2>3, <2>4, <2>5, SeqEqual
  <2> QED
    BY <2>2, <2>6 DEF k
<1> QED
  BY <1>1, LogAlways, PTL
=============================================================================
