------------------------------ MODULE MCBully ------------------------------
(***************************************************************************)
(* The instances of Bully that TLC checks.                                 *)
(***************************************************************************)
EXTENDS Bully

FullMesh == [n \in Node |-> Node \ {n}]
NoLinks == [n \in Node |-> {}]
\* The higher node has dialled the lower one, and not the other way round yet.
LowerLinked == [n \in Node |-> {p \in Node : p < n}]
=============================================================================
