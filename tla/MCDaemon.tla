------------------------------ MODULE MCDaemon ------------------------------
(* A small instance of Daemon for TLC: two calls, one after the other. *)
EXTENDS Daemon, TLC

Interchangeable ==
  Permutations(Fd) \cup Permutations(Dir) \cup Permutations(Mask)
    \cup Permutations(Signal \ {SIGHUP})
=============================================================================
