------------------------------- MODULE MCCdev -------------------------------
(* Instances of Cdev for TLC. *)
EXTENDS Cdev

CONSTANTS t1, f1, w1, w2

Unwritten == -100
Garbled   == -200

SmallestRing == {4}
Dst(n)       == [dst |-> TRUE, size |-> n]
SmallBuffers == {Dst(0), Dst(2)}
=============================================================================
