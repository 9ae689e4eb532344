--------------------------- MODULE SeatLock_proofs ---------------------------
(***************************************************************************)
(* Lemmas about the steps of SeatLock, for the proofs of its users: what   *)
(* they may rely on is shown of the service, in Booking_proofs.            *)
(***************************************************************************)
EXTENDS SeatLock, TLAPS

Phase == {"idle", "asking", "inside", "out"}

LockTypeOK ==
  /\ phase \in [Call -> Phase]
  /\ lost \subseteq Call \X Call

\* Two conflicting calls inside have lost their exclusion: Enter looks at the
\* pair from one side only, so that the later call is the one that is bound.
Exclusive ==
  \A c, d \in Call :
    (c # d /\ <<c, d>> \in Conflict /\ Inside(c) /\ Inside(d))
      => <<c, d>> \in lost \/ <<d, c>> \in lost

LEMMA LockStepType ==
  ASSUME LockTypeOK, LockNext
  PROVE  LockTypeOK' /\ lost \subseteq lost'
<1> USE DEF LockTypeOK, Phase, Lose
<1>1. ASSUME NEW c \in Call, Ask(c) \/ Enter(c)
      PROVE  LockTypeOK' /\ lost \subseteq lost'
  BY <1>1 DEF Ask, Enter
<1>2. ASSUME NEW C \in SUBSET Call, Leave(C)
      PROVE  LockTypeOK' /\ lost \subseteq lost'
  BY <1>2 DEF Leave
<1> QED
  BY <1>1, <1>2 DEF LockNext

LEMMA LockStepExclusive ==
  ASSUME LockTypeOK, Exclusive, LockNext
  PROVE  Exclusive'
<1>0. lost \subseteq lost'
  BY LockStepType
<1> USE DEF LockTypeOK, Exclusive, Inside
<1>1. ASSUME NEW c \in Call, Ask(c) PROVE Exclusive'
  BY <1>0, <1>1 DEF Ask
<1>2. ASSUME NEW c \in Call, Enter(c) PROVE Exclusive'
  <2> SUFFICES ASSUME NEW e \in Call, NEW d \in Call, e # d,
                      <<e, d>> \in Conflict, Inside(e)', Inside(d)'
               PROVE  <<e, d>> \in lost' \/ <<d, e>> \in lost'
    OBVIOUS
  <2>1. <<d, e>> \in Conflict
    BY ConflictAssumption
  <2>2. \A x \in Call \ {c} : phase'[x] = phase[x]
    BY <1>2 DEF Enter
  <2>3. CASE e = c
    BY <1>0, <1>2, <2>2, <2>3 DEF Enter
  <2>4. CASE d = c
    BY <1>0, <1>2, <2>1, <2>2, <2>4 DEF Enter
  <2>5. CASE e # c /\ d # c
    BY <1>0, <2>2, <2>5
  <2> QED
    BY <2>3, <2>4, <2>5
<1>3. ASSUME NEW C \in SUBSET Call, Leave(C) PROVE Exclusive'
  BY <1>0, <1>3 DEF Leave
<1> QED
  BY <1>1, <1>2, <1>3 DEF LockNext
=============================================================================
