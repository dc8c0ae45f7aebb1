------------------------ MODULE MCPeerOrchestrator ------------------------
(* PeerOrchestrator instantiated for TLC. *)
EXTENDS PeerOrchestrator
=============================================================================
