---------------------------- MODULE LamportClock ----------------------------
(***************************************************************************)
(* The logical clock every node owns (internal/clock/lamport.go).  The     *)
(* whole object is one counter behind a mutex, so each method is one       *)
(* atomic function of the counter; a module that models a node keeps the   *)
(* counter in a variable and applies these operators to it.  SendTime is   *)
(* Tick and ReceiveTime is Update under other names in the code.           *)
(***************************************************************************)
EXTENDS Naturals

\* NewLamportClock: the counter of a new process.
ClockStart == 0

\* Tick, SendTime: one local event, or one message about to be sent.
Tick(time) == time + 1

\* Broken: the stamp of the message is ignored.
UpdateBlindly(time, receivedTime) == time + 1

\* Update, ReceiveTime: a message stamped receivedTime arrives.
Update(time, receivedTime) ==
  (IF receivedTime > time THEN receivedTime ELSE time) + 1
=============================================================================
