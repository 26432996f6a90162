----------------------------- MODULE MCTracePool -----------------------------
(* Instances of TracePool for TLC. *)
EXTENDS TracePool, TLC

CONSTANTS t1, t2, d1, d2, f1, c1

Unwritten == -100
Garbled   == -200

SmallestRing  == {4}
TwoRings      == {4, 8}
RingsAndWrong == {4, 8, 6}

Dst(n)       == [dst |-> TRUE, size |-> n]
Stderr(n)    == [dst |-> FALSE, size |-> n]
ToBuffer     == {Dst(2)}
SmallBuffers == {Dst(1), Dst(2)}
AnyBuffer    == {Dst(0), Dst(1), Dst(8), Stderr(1)}

TracerSymmetry == Permutations({t1, t2})
=============================================================================
