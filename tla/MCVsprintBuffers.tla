--------------------------- MODULE MCVsprintBuffers ---------------------------
(* Instances of VsprintBuffers for TLC. *)
EXTENDS VsprintBuffers

CONSTANTS t1, t2, t3
=============================================================================
