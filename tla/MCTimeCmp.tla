------------------------------ MODULE MCTimeCmp ------------------------------
(* An instance of TimeCmp for TLC: a timer of 3 bits in a word of 5. *)
EXTENDS TimeCmp

\* One tick, both sides of the half, the last value, and beyond the mask.
SomeSteps == {1, 3, 4, 5, 7, 13, 31}
=============================================================================
