---------------------------- MODULE MCCommandFlow ----------------------------
(* CommandFlow instantiated for TLC. *)
EXTENDS CommandFlow
=============================================================================
