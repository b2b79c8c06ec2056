--------------------------- MODULE MCResourcePtr ---------------------------
(* A small instance of ResourcePtr for TLC. *)
EXTENDS ResourcePtr
=============================================================================
