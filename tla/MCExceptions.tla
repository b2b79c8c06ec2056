---------------------------- MODULE MCExceptions ----------------------------
(* Small instances of Exceptions for TLC. *)
EXTENDS Exceptions
=============================================================================
