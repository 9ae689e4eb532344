------------------------------ MODULE SeatLock ------------------------------
(***************************************************************************)
(* What the mutual exclusion service promises its users, without nodes,    *)
(* messages or timestamps: a call asks, and then either gets inside and    *)
(* leaves, or is turned away.  Two calls that conflict are never inside    *)
(* together unless the pair has lost its exclusion, which the service may  *)
(* let happen at any time and never takes back.                            *)
(***************************************************************************)
CONSTANTS
  Call,      \* the executions of RequestCriticalSection
  Conflict   \* the pairs of calls that must not be inside together

ASSUME ConflictAssumption ==
  /\ Conflict \subseteq Call \X Call
  /\ \A c, d \in Call : <<c, d>> \in Conflict => <<d, c>> \in Conflict

VARIABLES
  phase,     \* where each call is
  lost       \* the pairs whose exclusion is lost

lockVars == <<phase, lost>>

Inside(c) == phase[c] = "inside"

LockInit ==
  /\ phase = [c \in Call |-> "idle"]
  /\ lost = {}

\* More pairs may lose their exclusion with every step.
Lose == lost \subseteq lost' /\ lost' \subseteq Call \X Call

Ask(c) ==
  /\ phase[c] = "idle"
  /\ phase' = [phase EXCEPT ![c] = "asking"]
  /\ Lose

Enter(c) ==
  /\ phase[c] = "asking"
  /\ \A d \in Call \ {c} : Inside(d) /\ <<c, d>> \in Conflict => <<c, d>> \in lost
  /\ phase' = [phase EXCEPT ![c] = "inside"]
  /\ Lose

\* Calls leave one by one, are turned away, or end together with their process;
\* with no call at all the step is one that only loses exclusion.
Leave(C) ==
  /\ \A c \in C : phase[c] \in {"asking", "inside"}
  /\ phase' = [c \in Call |-> IF c \in C THEN "out" ELSE phase[c]]
  /\ Lose

LockNext ==
  \/ \E c \in Call : Ask(c) \/ Enter(c)
  \/ \E C \in SUBSET Call : Leave(C)

LockSpec == LockInit /\ [][LockNext]_lockVars
=============================================================================
