------------------------ MODULE MCSessionHandshake ------------------------
(* SessionHandshake instantiated for TLC. *)
EXTENDS SessionHandshake
=============================================================================
