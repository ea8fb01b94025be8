--------------------------- MODULE MCAcceptQueue ---------------------------
(* An instance of AcceptQueue small enough for TLC. *)
EXTENDS AcceptQueue, TLC
=============================================================================
