----------------------------- MODULE Wait4Crash -----------------------------
(***************************************************************************)
(* wait4crash/wait4crash.sh: a shell loop that starts an application again *)
(* and again, with a killer beside it that ends it after WAIT_S seconds,   *)
(* until a round ends without the killer's having done its work.           *)
(*                                                                         *)
(* Four processes run side by side: the script, the killer's subshell, the *)
(* application and what the application has forked.  Signals arrive some   *)
(* time after they are sent; SIGKILL is taken to be there at once.         *)
(***************************************************************************)
EXTENDS Naturals

CONSTANT MaxRetries   \* bound on the rounds, for TLC

ASSUME RetriesAssumption == MaxRetries \in Nat

VARIABLES
  sh,        \* the line the script is at
  killStat, retries,
  app,       \* the process $pid
  children,  \* processes of the same name that it has forked are alive
  killer,    \* the process $killerPid
  sigterm,   \* a SIGTERM for it is on its way
  fired      \* history: what the killer's signal met in this round, if it was sent

vars == <<sh, killStat, retries, app, children, killer, sigterm, fired>>

TimedOut   == 55
Terminated == 143   \* 128 + SIGTERM

KillerLives == killer \in {"sleeping", "killing", "leaving"}

Line(from, to) == sh = from /\ sh' = to

-----------------------------------------------------------------------------
(* The script *)

Start ==
  /\ Line("test", "background") /\ killStat = TimedOut /\ retries < MaxRetries
  /\ app' = "running" /\ retries' = retries + 1 /\ fired' = "no"
  /\ UNCHANGED <<killStat, children, killer, sigterm>>

StartKiller ==
  /\ Line("background", "wait app")
  /\ killer' = "sleeping" /\ sigterm' = FALSE
  /\ UNCHANGED <<killStat, retries, app, children, fired>>

WaitApp ==
  /\ Line("wait app", "kill killer") /\ app # "running"
  /\ UNCHANGED <<killStat, retries, app, children, killer, sigterm, fired>>

\* There may be nobody to get it any more.
KillKiller ==
  /\ Line("kill killer", "wait killer")
  /\ sigterm' = KillerLives
  /\ UNCHANGED <<killStat, retries, app, children, killer, fired>>

\* Mutant: without the wait, killStat is what it was.
WaitKillerNot ==
  /\ Line("wait killer", "killall")
  /\ UNCHANGED <<killStat, retries, app, children, killer, sigterm, fired>>

WaitKiller ==
  /\ Line("wait killer", "killall") /\ ~KillerLives
  /\ killStat' = IF killer = "done" THEN TimedOut ELSE Terminated
  /\ UNCHANGED <<retries, app, children, killer, sigterm, fired>>

\* Mutant: only the process that was started.
KillAppAgain ==
  /\ Line("killall", "test")
  /\ app' = IF app = "running" THEN "killed" ELSE app
  /\ UNCHANGED <<killStat, retries, children, killer, sigterm, fired>>

\* killall -9, by name, and the sleep.
KillAll ==
  /\ Line("killall", "test")
  /\ children' = FALSE
  /\ app' = IF app = "running" THEN "killed" ELSE app
  /\ UNCHANGED <<killStat, retries, killer, sigterm, fired>>

Crashed ==
  /\ Line("test", "crashed") /\ killStat # TimedOut
  /\ UNCHANGED <<killStat, retries, app, children, killer, sigterm, fired>>

-----------------------------------------------------------------------------
(* The killer's subshell *)

Killer(from, to) == /\ killer = from /\ killer' = to
                    /\ UNCHANGED <<sh, killStat, retries, children, sigterm>>

Timeout == Killer("sleeping", "killing") /\ UNCHANGED <<app, fired>>

\* What a signal for $pid meets: the process, or nobody any more.
Met == IF app = "running" THEN "hit" ELSE "missed"

\* Mutant: a signal that the application may ignore.
KillPolitely == Killer("killing", "leaving") /\ fired' = Met /\ UNCHANGED app

\* kill -9 $pid; too late for an application that has ended.
Kill == /\ Killer("killing", "leaving")
        /\ app' = IF app = "running" THEN "killed" ELSE app
        /\ fired' = Met

Exit55 == Killer("leaving", "done") /\ UNCHANGED <<app, fired>>

\* SIGTERM arrives, wherever the subshell is.
Dies == KillerLives /\ sigterm /\ Killer(killer, "terminated") /\ UNCHANGED <<app, fired>>

-----------------------------------------------------------------------------
(* The application, and what it forks *)

AppEnds == /\ app = "running" /\ app' = "ended"
           /\ UNCHANGED <<sh, killStat, retries, children, killer, sigterm, fired>>
Forks   == /\ app = "running" /\ children' = TRUE
           /\ UNCHANGED <<sh, killStat, retries, app, killer, sigterm, fired>>
ChildrenEnd == /\ children /\ children' = FALSE
               /\ UNCHANGED <<sh, killStat, retries, app, killer, sigterm, fired>>

Init ==
  /\ sh = "test" /\ killStat = TimedOut /\ retries = 0
  /\ app = "none" /\ children = FALSE /\ killer = "none" /\ sigterm = FALSE
  /\ fired = "no"

Script == \/ Start \/ StartKiller \/ WaitApp \/ KillKiller \/ WaitKiller \/ KillAll
          \/ Crashed
Subshell == Timeout \/ Kill \/ Exit55 \/ Dies

Next == Script \/ Subshell \/ AppEnds \/ Forks \/ ChildrenEnd

\* The shells run; the application may hang for ever.
Spec == Init /\ [][Next]_vars /\ WF_vars(Script) /\ WF_vars(Subshell)

-----------------------------------------------------------------------------
(* Properties *)

\* When the loop goes on, this round's killer has sent its signal: either to an
\* application that was running, which died of it, or too late, to one that had ended by
\* itself.  So a crash is lost only in the second case, to a killer that got as far as its
\* kill before the script stopped it (README, section 6), and never while the killer was
\* asleep or by the status of an earlier round (lines 10 and 16-24).
LostOnlyToALateKill ==
  sh = "test" /\ retries > 0 /\ killStat = TimedOut =>
    \/ fired = "hit" /\ app = "killed"
    \/ fired = "missed" /\ app = "ended"

\* A round leaves nothing behind that the next could run into: neither the
\* application nor what it forked, nor a killer that still has its signal to
\* send (lines 19-25).
NothingLeft == sh \in {"test", "crashed"} => app # "running" /\ ~children /\ ~KillerLives

\* Every round ends, also with an application that hangs (lines 16-25).
RoundEnds == sh = "wait app" ~> sh = "test"
=============================================================================
