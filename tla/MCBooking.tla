----------------------------- MODULE MCBooking -----------------------------
(***************************************************************************)
(* The instances of Booking that TLC checks.  Bookings are numbered from   *)
(* 1; the admin operations, where there are any, have the last numbers.    *)
(***************************************************************************)
EXTENDS Booking

FullMesh == [n \in Node |-> Node \ {n}]
\* Node 1 has no stub yet.
FirstUnlinked == [n \in Node |-> IF n = 1 THEN {} ELSE Node \ {n}]

\* Pairs of bookings of two nodes for one seat.
SameSeat == {pair \in Call \X Call : /\ At[pair[1]] # At[pair[2]]
                                      /\ On[pair[1]] = On[pair[2]]}

\* Three rivals for A1, two of them on node 1, and a reset on node 3.
SaleAt == <<1, 1, 2, 3>>
SaleOn == <<"A1", "A1", "A1", "none">>
\* The two on node 1 share their count there: one of them may enter too soon.
CrowdedLoss == {{<<1, 3>>, <<3, 1>>}}
\* The same rivals and a release, on two nodes.
FaultAt == <<1, 1, 2, 2>>
AllOnA == <<"A1", "A1", "A1", "A1">>
\* A lock that keeps nothing, from some moment on.
AllAtOnce == {Call \X Call}
\* A booking and a release on two nodes, for one seat.
PairAt == <<1, 2>>
PairOn == <<"A1", "A1">>

ReleaseIsFour == [a \in {4} |-> "release"]
ResetIsFour == [a \in {4} |-> "reset"]
ReleaseIsTwo == [a \in {2} |-> "release"]

AOnly == <<"A1">>
BThenA == <<"B1", "A1">>
=============================================================================
