------------------------- MODULE MCChunkedChannel -------------------------
(* ChunkedChannel instantiated for TLC. *)
EXTENDS ChunkedChannel
=============================================================================
