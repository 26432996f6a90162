-------------------------------- MODULE TimeCmp --------------------------------
(***************************************************************************)
(* Timestamps that roll over (timecmp): the comparisons of timecmp.h and   *)
(* the class RollingTime of timecmp.hpp.  A timer of `timebits' bits lies  *)
(* in a machine word that may be wider, so that the word's upper bits are  *)
(* either cleared by a mask or left to whatever the arithmetic puts there. *)
(*                                                                         *)
(* The mask is all ones, so `x & max' is x % (max + 1), and `x & msb' is   *)
(* msb exactly when that remainder is at least msb.                        *)
(***************************************************************************)
EXTENDS Integers

CONSTANTS
  Timers,    \* the RollingTime objects
  Values,    \* 2^timebits: how many values a timer has
  Word,      \* 2^8, 2^16, 2^32 or 2^64: how many its word has
  Steps,     \* what is assigned and added, any word
  MaxTime    \* bound on the history `at', for TLC

ASSUME TimeAssumption ==
  /\ Values \in Nat \ {0} /\ Values % 2 = 0
  /\ Word \in Nat \ {0} /\ Word % Values = 0
  /\ Steps \subseteq 0 .. Word - 1
  /\ MaxTime \in Nat

VARIABLES
  time_,   \* of each RollingTime
  at       \* history: the same times, on a clock that does not roll over

vars == <<time_, at>>

msb == Values \div 2

\* Unsigned arithmetic, and the mask.
Plus(a, b)  == (a + b) % Word
Minus(a, b) == (a - b) % Word
Masked(n)   == n % Values

\* Mutants: half a roll-over counts as after; the mask is forgotten.
timeIsAfterOrHalf(a, b) == Masked(Minus(b, a)) >= msb
timeIsAfterEqUnmasked(a, b) == ~(Minus(a, b) >= msb)

timeIsAfter(a, b)    == Masked(Minus(b, a)) > msb
timeIsBefore(a, b)   == timeIsAfter(b, a)
timeIsAfterEq(a, b)  == ~(Masked(Minus(a, b)) >= msb)
timeIsBeforeEq(a, b) == timeIsAfterEq(b, a)

\* t becomes the time m, which is n on the clock that does not roll over.
Becomes(t, m, n) ==
  /\ n \in -MaxTime .. MaxTime
  /\ time_' = [time_ EXCEPT ![t] = m]
  /\ at'    = [at    EXCEPT ![t] = n]

\* The constructor does not mask.
Construct(t) == \E n \in Steps : Becomes(t, n, n)

Copy(t) == \E u \in Timers : Becomes(t, time_[u], at[u])

Assign(t) == \E n \in Steps : Becomes(t, Masked(n), n)

Add(t) == \E n \in Steps : Becomes(t, Masked(Plus(time_[t], n)), at[t] + n)

AddTimer(t) ==
  \E u \in Timers : Becomes(t, Masked(Plus(time_[t], time_[u])), at[t] + at[u])

Subtract(t) == \E n \in Steps : Becomes(t, Masked(Minus(time_[t], n)), at[t] - n)

SubtractTimer(t) ==
  \E u \in Timers : Becomes(t, Masked(Minus(time_[t], time_[u])), at[t] - at[u])

Init == time_ = [t \in Timers |-> 0] /\ at = [t \in Timers |-> 0]

Next == \E t \in Timers : \/ Construct(t) \/ Copy(t) \/ Assign(t)
                          \/ Add(t) \/ AddTimer(t)
                          \/ Subtract(t) \/ SubtractTimer(t)

Spec == Init /\ [][Next]_vars

-----------------------------------------------------------------------------
(* Properties *)

\* As long as two times are less than half a roll-over apart, the four
\* comparisons of their timers order them as a clock that does not roll over
\* would, whatever was added and subtracted, and masked or not, on the way
\* (timecmp.hpp:87-98, "Compare operations will take overflow situations
\* into account").
OrderIsRight ==
  \A t, u \in Timers :
    -msb < at[t] - at[u] /\ at[t] - at[u] < msb =>
      /\ timeIsAfter(time_[t], time_[u])    <=> at[t] > at[u]
      /\ timeIsBefore(time_[t], time_[u])   <=> at[t] < at[u]
      /\ timeIsAfterEq(time_[t], time_[u])  <=> at[t] >= at[u]
      /\ timeIsBeforeEq(time_[t], time_[u]) <=> at[t] =< at[u]

\* Increments that take the timer a to b.
Ahead(a, b) == CHOOSE k \in 0 .. Values - 1 : Masked(a + k) = Masked(b)

\* Of any two timers, "less than" holds exactly of the one that is reached from
\* the other faster by decrementing than by incrementing; exactly half a
\* roll-over apart all four comparisons fail (README of timecmp; test-cpp.cpp:53).
NearerWayRound ==
  \A t, u \in Timers :
    LET up == Ahead(time_[t], time_[u])  down == Ahead(time_[u], time_[t]) IN
      /\ timeIsBefore(time_[t], time_[u]) <=> up < down
      /\ timeIsAfter(time_[t], time_[u])  <=> down < up
      /\ timeIsBeforeEq(time_[t], time_[u]) <=> up < down \/ up = 0
      /\ timeIsAfterEq(time_[t], time_[u])  <=> down < up \/ up = 0
=============================================================================
