---------------------------- MODULE MCWait4Crash ----------------------------
(* An instance of Wait4Crash for TLC. *)
EXTENDS Wait4Crash
=============================================================================
