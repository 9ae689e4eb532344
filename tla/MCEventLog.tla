----------------------------- MODULE MCEventLog -----------------------------
(***************************************************************************)
(* The instance of EventLog that TLC checks: a booking that logs its       *)
(* request and then its success, and beside it the request of another one. *)
(***************************************************************************)
EXTENDS EventLog, TLC

CONSTANTS request, sold, rival, A1, B1

TypeOf == (request :> "request") @@ (sold :> "success") @@ (rival :> "request")
SeatsOf == (request :> A1) @@ (sold :> A1) @@ (rival :> B1)
Order == (request :> {}) @@ (sold :> {request}) @@ (rival :> {})
=============================================================================
