------------------------------ MODULE MCFileIO ------------------------------
(* Small instances of FileIO for TLC. *)
EXTENDS FileIO, FiniteSets, TLC
=============================================================================
