----------------------------- MODULE MCPeerLink -----------------------------
(***************************************************************************)
(* The instances of PeerLink that TLC checks.                              *)
(***************************************************************************)
EXTENDS PeerLink, TLC

\* A leader's heartbeats, an election and a request for a lock.
ThreeKinds == ("beat" :> "heartbeat") @@ ("ask" :> "election") @@ ("lock" :> "mutex")

\* The heartbeats the node itself sends when it leads.
OneKind == [u \in User |-> "heartbeat"]
=============================================================================
