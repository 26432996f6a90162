---------------------------- MODULE ToolsProofs ----------------------------
(***************************************************************************)
(* Proofs about the two small tools: the loop of wait4crash.sh, for any    *)
(* number of rounds, and the macros of stopwatch.h, for any two readings.  *)
(***************************************************************************)
EXTENDS Wait4Crash, TLAPS, Integers

VARIABLES start, stop

Watch == INSTANCE Stopwatch

-----------------------------------------------------------------------------
(* wait4crash.sh.  The killer's exit status is that of the killer of this   *)
(* round, and it tells what has become of it; what its signal met tells     *)
(* what has become of the application.                                      *)

\* The script is between two rounds, or about to clean up after one.
NoKiller == sh \in {"test", "crashed", "background", "killall"}

IInv ==
  /\ NoKiller => ~KillerLives
  /\ fired \in {"no", "hit", "missed"}
  /\ sh = "background" \/ killer \in {"sleeping", "killing"} => fired = "no"
  /\ killer \in {"leaving", "done"} /\ sh # "background" => fired # "no"
  /\ fired = "no" /\ sh \notin {"test", "crashed"} => app \in {"running", "ended"}
  /\ fired = "hit" => app = "killed"
  /\ fired = "missed" => app = "ended"
  /\ sh \in {"killall", "test"} /\ retries > 0 /\ killStat = TimedOut => killer = "done"
  /\ sh \in {"test", "crashed"} => app # "running" /\ ~children
  /\ retries \in Nat

\* Nothing runs at first.
LEMMA InitIInv == Init => IInv
  BY DEF Init, IInv, NoKiller, KillerLives

\* The lines of the script keep the invariant (lines 10-26).
LEMMA ScriptIInv ==
  ASSUME IInv, Script
  PROVE  IInv'
  <1> USE DEF IInv, NoKiller, KillerLives, Line
  <1>1. CASE Start        BY <1>1 DEF Start
  <1>2. CASE StartKiller  BY <1>2 DEF StartKiller
  <1>3. CASE WaitApp \/ KillKiller  BY <1>3 DEF WaitApp, KillKiller
  <1>4. CASE WaitKiller
    <2>1. TimedOut # Terminated  BY DEF TimedOut, Terminated
    <2>2. killStat' = TimedOut => killer = "done"  BY <1>4, <2>1 DEF WaitKiller
    <2>3. QED  BY <1>4, <2>2 DEF WaitKiller
  <1>5. CASE KillAll      BY <1>5 DEF KillAll
  <1>6. CASE Crashed      BY <1>6 DEF Crashed
  <1>7. QED  BY <1>1, <1>2, <1>3, <1>4, <1>5, <1>6 DEF Script

\* So do the subshell's, the application's and its children's.
LEMMA OthersIInv ==
  ASSUME IInv, Subshell \/ AppEnds \/ Forks \/ ChildrenEnd
  PROVE  IInv'
  <1> USE DEF IInv, NoKiller, KillerLives
  <1>1. CASE Timeout \/ Exit55  BY <1>1 DEF Timeout, Exit55, Killer
  <1>2. CASE Kill  BY <1>2 DEF Kill, Killer, Met
  <1>3. CASE Dies  BY <1>3 DEF Dies, Killer
  <1>4. CASE AppEnds \/ Forks \/ ChildrenEnd  BY <1>4 DEF AppEnds, Forks, ChildrenEnd
  <1>5. QED  BY <1>1, <1>2, <1>3, <1>4 DEF Subshell

\* IInv holds in every reachable state.
LEMMA RoundsIInv == Spec => []IInv
  <1>1. IInv /\ [Next]_vars => IInv'
    <2>1. IInv /\ UNCHANGED vars => IInv'  BY DEF IInv, NoKiller, KillerLives, vars
    <2>2. QED  BY <2>1, ScriptIInv, OthersIInv DEF Next
  <1>2. QED  BY InitIInv, <1>1, PTL DEF Spec

\* However the timer, the signals and the end of the application race, the loop goes on
\* only after a kill, and loses a crash only to one that came after it (lines 10, 16-24).
THEOREM LostToLateKills == Spec => []LostOnlyToALateKill
  <1>1. IInv => LostOnlyToALateKill  BY DEF IInv, LostOnlyToALateKill
  <1>2. QED  BY RoundsIInv, <1>1, PTL

\* Each round starts on a clean slate (lines 19-25).
THEOREM RoundsClean == Spec => []NothingLeft
  <1>1. IInv => NothingLeft  BY DEF IInv, NothingLeft, NoKiller
  <1>2. QED  BY RoundsIInv, <1>1, PTL

-----------------------------------------------------------------------------
(* stopwatch.h *)

\* The readings are what gettimeofday fills in.
LEMMA StopwatchTypes == Watch!Spec => []Watch!TypeOK
  <1>1. Watch!Init => Watch!TypeOK
    BY DEF Watch!Init, Watch!TypeOK, Watch!Timeval, Watch!Million
  <1>2. Watch!TypeOK /\ [Watch!Next]_(Watch!vars) => Watch!TypeOK'
    BY DEF Watch!TypeOK, Watch!Next, Watch!STOPWATCH_START, Watch!STOPWATCH_STOP, Watch!vars
  <1>3. QED  BY <1>1, <1>2, PTL DEF Watch!Spec

\* The parts of the difference, with the second borrowed where it is needed.
LEMMA Parts ==
  ASSUME Watch!TypeOK
  PROVE  /\ Watch!STOPWATCH_ELAPSED_S \in Int /\ Watch!STOPWATCH_ELAPSED_US \in Nat
         /\ Watch!STOPWATCH_ELAPSED_US < Watch!Million
         /\ Watch!STOPWATCH_ELAPSED_F =
              Watch!STOPWATCH_ELAPSED_S * Watch!Million + Watch!STOPWATCH_ELAPSED_US
  BY DEF Watch!TypeOK, Watch!Timeval, Watch!Million, Watch!Borrow, Watch!STOPWATCH_ELAPSED_S,
         Watch!STOPWATCH_ELAPSED_US, Watch!STOPWATCH_ELAPSED_F

\* The four macros agree: seconds and microseconds are the borrow-adjusted
\* difference (lines 50-56 and 81-108).
THEOREM ElapsedRight == Watch!Spec => []Watch!ElapsedExact
  <1>1. Watch!TypeOK => Watch!ElapsedExact
    BY Parts DEF Watch!ElapsedExact, Watch!STOPWATCH_TO_TIMEVAL, Watch!Timeval
  <1>2. QED  BY StopwatchTypes, <1>1, PTL

\* Exactly when STOPWATCH_PRINT tells the truth (lines 60-65 and 111-114).
THEOREM PrintedWhen == Watch!Spec => []Watch!PrintedRight
  <1>1. Watch!TypeOK => Watch!PrintedRight
    <2> SUFFICES ASSUME Watch!TypeOK PROVE Watch!PrintedRight  OBVIOUS
    <2> DEFINE s == Watch!STOPWATCH_ELAPSED_S
               us == Watch!STOPWATCH_ELAPSED_US
    <2>1. Watch!STOPWATCH_PRINT = IF s < 0 THEN s * Watch!Million - us
                                           ELSE s * Watch!Million + us
      BY DEF Watch!STOPWATCH_PRINT, Watch!Printed, Watch!DTIMER_PRINT_PARAMS,
             Watch!STOPWATCH_TO_TIMEVAL
    <2>2. QED  BY <2>1, Parts DEF Watch!PrintedRight, Watch!Million
  <1>2. QED  BY StopwatchTypes, <1>1, PTL
=============================================================================
