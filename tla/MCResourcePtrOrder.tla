------------------------- MODULE MCResourcePtrOrder -------------------------
(* A small instance of ResourcePtrOrder for TLC. *)
EXTENDS ResourcePtrOrder
=============================================================================
