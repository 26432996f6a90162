----------------------------- MODULE Stopwatch -----------------------------
(***************************************************************************)
(* stopwatch/stopwatch.h: two readings of gettimeofday and the macros that *)
(* take their difference.  The clock may be set between the readings, so   *)
(* that any reading may follow any other.                                  *)
(***************************************************************************)
EXTENDS Integers

Million == 1000000

\* struct timeval as gettimeofday fills it in.
Timeval == [tv_sec : Int, tv_usec : {n \in Nat : n < Million}]

VARIABLES start, stop

Borrow == start.tv_usec > stop.tv_usec

STOPWATCH_ELAPSED_S == IF Borrow THEN stop.tv_sec - start.tv_sec - 1
                                 ELSE stop.tv_sec - start.tv_sec

STOPWATCH_ELAPSED_US == IF Borrow THEN stop.tv_usec + Million - start.tv_usec
                                  ELSE stop.tv_usec - start.tv_usec

\* The two macros that give both parts at once.
STOPWATCH_TO_TIMEVAL == [tv_sec |-> STOPWATCH_ELAPSED_S, tv_usec |-> STOPWATCH_ELAPSED_US]
DTIMER_PRINT_PARAMS == STOPWATCH_TO_TIMEVAL

\* In microseconds, without the rounding of a double.
STOPWATCH_ELAPSED_F ==
  (stop.tv_sec - start.tv_sec) * Million + (stop.tv_usec - start.tv_usec)

\* What a reader takes "%ld.%06ld" for, in microseconds: the sign in front of
\* the seconds is that of the whole number.
Printed(t) == IF t.tv_sec < 0 THEN t.tv_sec * Million - t.tv_usec
                              ELSE t.tv_sec * Million + t.tv_usec
STOPWATCH_PRINT == Printed(DTIMER_PRINT_PARAMS)

Init == start = [tv_sec |-> 0, tv_usec |-> 0] /\ stop = start

STOPWATCH_START == start' \in Timeval /\ UNCHANGED stop
STOPWATCH_STOP  == stop' \in Timeval /\ UNCHANGED start

vars == <<start, stop>>
Next == STOPWATCH_START \/ STOPWATCH_STOP
Spec == Init /\ [][Next]_vars

-----------------------------------------------------------------------------
TypeOK == start \in Timeval /\ stop \in Timeval

\* The parts are a timeval again and add up to the difference, whichever of
\* the microseconds is greater and whichever way the clock was set.
ElapsedExact ==
  /\ STOPWATCH_TO_TIMEVAL \in Timeval
  /\ STOPWATCH_ELAPSED_S * Million + STOPWATCH_ELAPSED_US = STOPWATCH_ELAPSED_F

\* The printed figure is the difference unless the clock was set back, by
\* something other than whole seconds: 0.3 s back is printed as -1.700000.
PrintedRight ==
  STOPWATCH_PRINT = STOPWATCH_ELAPSED_F
    <=> STOPWATCH_ELAPSED_F >= 0 \/ STOPWATCH_ELAPSED_US = 0
=============================================================================
