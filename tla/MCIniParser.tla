---------------------------- MODULE MCIniParser ----------------------------
(* Small instances of IniParser for TLC. *)
EXTENDS IniParser, TLC

Interchangeable == Permutations(Thread) \cup Permutations(Parser) \cup Permutations(Value)
=============================================================================
