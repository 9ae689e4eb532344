------------------------- MODULE MCRicartAgrawala -------------------------
(***************************************************************************)
(* The instances of RicartAgrawala that TLC checks.  Calls are numbered,   *)
(* so that At and On are written as sequences.                             *)
(***************************************************************************)
EXTENDS RicartAgrawala

\* Every node has every other one in its configuration file.
FullMesh == [n \in Node |-> Node \ {n}]
\* No stub has been made yet.
NoLinks == [n \in Node |-> {}]

\* One call of each of two nodes.
OneEach == <<1, 2>>
\* Two calls of node 1, which share the entries of its maps.
SameNode == <<1, 1>>

\* A rival for one seat, and a call of the same node for another.
OneAndTwo == <<1, 2, 2>>
AllOnA == [c \in Call |-> "A1"]
LastOnB == [c \in Call |-> IF c = 3 THEN "B1" ELSE "A1"]
=============================================================================
