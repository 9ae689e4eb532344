--------------------------- MODULE MCTicketSystem ---------------------------
(***************************************************************************)
(* The instance of TicketSystem that TLC checks: a booking on each of two  *)
(* nodes, for one seat.  No stub has been made yet.                        *)
(***************************************************************************)
EXTENDS TicketSystem

FullMesh == [n \in Node |-> Node \ {n}]
NoLinks == [n \in Node |-> {}]
OneEach == <<1, 2>>
AllOnA == <<"A1", "A1">>
AOnly == <<"A1">>
=============================================================================
