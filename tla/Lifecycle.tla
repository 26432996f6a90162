----------------------------- MODULE Lifecycle -----------------------------
(***************************************************************************)
(* The life of runtrace in a user space process (runtrace/runtrace.c):     *)
(* runtrace_init, runtrace_reconfigure, runtrace_exit, the calls that end  *)
(* in abort(), and the SIGABRT handler, which prints the trace with        *)
(* print_trace_stack from wherever the aborting thread was.                *)
(*                                                                         *)
(* The pool is there or not; TracePool has its contents.  A thread that    *)
(* aborts inside the handler enters the handler again, one frame deeper.   *)
(***************************************************************************)
EXTENDS Integers, FiniteSets

CONSTANTS
  Workers,      \* threads that trace, print and reconfigure
  Main,         \* the thread that starts and stops the facility
  StackDepth,   \* frames of the handler that fit the stack
  NoThread

Threads == Workers \cup {Main}

ASSUME LifeAssumption ==
  StackDepth \in Nat \ {0} /\ Main \notin Workers /\ NoThread \notin Threads

VARIABLES
  pool,               \* tp_pool, tp_pool_copy and vsprint_buffer are allocated
  lock_initialised, readers, writer,
  handled,            \* signal(SIGABRT, sigabort) has been called
  flush_on_abort,
  pc, frames,         \* where each thread is, in how many frames of sigabort
  enough,             \* its print's size is needed_bufsize at least
  dead,               \* the process has ended
  shown               \* history: the handler has printed the trace

lockVars == <<readers, writer>>
lifeVars == <<pool, lock_initialised, handled, flush_on_abort>>
vars == <<lifeVars, lockVars, pc, frames, enough, dead, shown>>

Goto(t, from, to) == ~dead /\ pc[t] = from /\ pc' = [pc EXCEPT ![t] = to]
Step(t, from, to) == /\ Goto(t, from, to)
                     /\ UNCHANGED <<lifeVars, lockVars, frames, enough, dead, shown>>
Dies == dead' = TRUE /\ UNCHANGED <<lifeVars, lockVars, pc, frames, enough, shown>>

-----------------------------------------------------------------------------
(* print_rwlock, which prefers writers; wrlock fails with EDEADLK, and goes *)
(* on, for the thread that holds it for writing, but waits for itself when  *)
(* that thread is a reader.                                                 *)

WantsWrite == {t \in Threads : pc[t] \in {"prlock", "relock"}}

RdLock(t) == /\ writer = NoThread /\ WantsWrite = {}
             /\ readers' = readers \cup {t} /\ UNCHANGED writer
WrLock(t) == /\ writer \in {t, NoThread} /\ readers = {}
             /\ writer' = t /\ UNCHANGED readers

-----------------------------------------------------------------------------
(* make_tracept, with tpprintf's test of its buffer as the same test *)

\* "runtrace_init must be called before other user API functions, except
\* runtrace_reconfigure" (lines 853-854): a thread that calls one too early finds
\* no pool.
InTime == pool => lock_initialised

\* Mutant: tested under the lock.
MakeTraceptLate(t) ==
  /\ t \in Workers /\ InTime
  /\ \/ Step(t, "idle", "rdlock")
     \/ ~pool /\ Step(t, "trace", "raise")

MakeTracept(t) ==
  /\ t \in Workers /\ InTime
  /\ Step(t, "idle", IF pool THEN "rdlock" ELSE "raise")

EnterTracept(t) == /\ Goto(t, "rdlock", "trace") /\ RdLock(t)
                   /\ UNCHANGED <<lifeVars, frames, enough, dead, shown>>

LeaveTracept(t) == /\ pool /\ Goto(t, "trace", "idle")
                   /\ readers' = readers \ {t}
                   /\ UNCHANGED <<writer, lifeVars, frames, enough, dead, shown>>

-----------------------------------------------------------------------------
(* print_trace_stack *)

PrintTrace(t) == /\ t \in Workers /\ pool /\ InTime
            /\ Goto(t, "idle", "prlock")
            /\ \E e \in BOOLEAN : enough' = [enough EXCEPT ![t] = e]
            /\ UNCHANGED <<lifeVars, lockVars, frames, dead, shown>>

EnterPrint(t) == /\ Goto(t, "prlock", "copy") /\ WrLock(t)
                 /\ UNCHANGED <<lifeVars, frames, enough, dead, shown>>

\* memcpy and WRUNLOCK; without a pool the memcpy is from and to NULL.
CopyPool(t) == /\ pool /\ Goto(t, "copy", "size")
               /\ writer' = NoThread
               /\ UNCHANGED <<readers, lifeVars, frames, enough, dead, shown>>
CopyNothing(t) == ~pool /\ ~dead /\ pc[t] = "copy" /\ Dies

TooSmall(t) == ~enough[t] /\ Step(t, "size", "raise")

Prints(t) == /\ enough[t]
             /\ Goto(t, "size", IF frames[t] = 0 THEN "idle" ELSE "leave")
             /\ shown' = (shown \/ frames[t] > 0)
             /\ UNCHANGED <<lifeVars, lockVars, frames, enough, dead>>

-----------------------------------------------------------------------------
(* runtrace_reconfigure *)

Reconfigure(t) == t \in Workers /\ pool /\ InTime /\ Step(t, "idle", "relock")

\* A pool_size that is not a power of 2, or below 4.
RefuseSize(t) == t \in Workers /\ InTime /\ Step(t, "idle", "raise")

EnterReconfigure(t) == /\ Goto(t, "relock", "realloc") /\ WrLock(t)
                       /\ UNCHANGED <<lifeVars, frames, enough, dead, shown>>

Realloc(t) == /\ Goto(t, "realloc", "idle")
              /\ writer' = NoThread
              /\ UNCHANGED <<readers, lifeVars, frames, enough, dead, shown>>

\* Mutant: the error path unlocks.
ReallocFailsUnlocking(t) == /\ Goto(t, "realloc", "raise")
                            /\ pool' = FALSE /\ writer' = NoThread
                            /\ UNCHANGED <<lock_initialised, handled, flush_on_abort,
                                           readers, frames, enough, dead, shown>>

\* The pools are freed, and abort() is called with the write lock held.
ReallocFails(t) == /\ Goto(t, "realloc", "raise")
                   /\ pool' = FALSE
                   /\ UNCHANGED <<lock_initialised, handled, flush_on_abort, lockVars,
                                  frames, enough, dead, shown>>

-----------------------------------------------------------------------------
(* runtrace_flush_on_abort, runtrace_init, runtrace_exit *)

FlushOnAbort == /\ ~dead /\ flush_on_abort' \in BOOLEAN
                /\ pc[Main] = "idle"
                /\ UNCHANGED <<pool, lock_initialised, handled, lockVars, pc, frames,
                               enough, dead, shown>>

\* The application starts its threads after runtrace_init and stops them before
\* runtrace_exit; a thread may still make a tracepoint too early or too late.
AllIdle == ~dead /\ \A t \in Threads : pc[t] = "idle"

\* Its runtrace_reconfigure takes no lock: lock_initialised is still 0.
RuntraceInit ==
  /\ AllIdle /\ ~lock_initialised
  /\ pool' = TRUE /\ lock_initialised' = TRUE /\ handled' = TRUE
  /\ UNCHANGED <<flush_on_abort, lockVars, pc, frames, enough, dead, shown>>

\* runtrace_reconfigure before runtrace_init takes no lock either.
ReconfigureFirst ==
  /\ AllIdle /\ ~lock_initialised
  /\ pool' = TRUE
  /\ UNCHANGED <<lock_initialised, handled, flush_on_abort, lockVars, pc, frames,
                 enough, dead, shown>>

\* RT_POOL_SIZE asks for a wrong size, or there is no memory, in either of them.
InitFails ==
  /\ AllIdle /\ ~lock_initialised
  /\ Goto(Main, "idle", "raise")
  /\ pool' \in {FALSE, pool}
  /\ UNCHANGED <<lock_initialised, handled, flush_on_abort, lockVars, frames, enough,
                 dead, shown>>

\* The handler stays installed.
RuntraceExit ==
  /\ AllIdle /\ lock_initialised
  /\ pool' = FALSE /\ lock_initialised' = FALSE
  /\ UNCHANGED <<handled, flush_on_abort, lockVars, pc, frames, enough, dead, shown>>

-----------------------------------------------------------------------------
(* abort() and sigabort *)

\* abort() raises SIGABRT; the handler's next frame may be one too many.
Raise(t) ==
  /\ ~dead /\ pc[t] = "raise"
  /\ IF ~handled \/ frames[t] = StackDepth
     THEN Dies
     ELSE /\ Goto(t, "raise", "handler")
          /\ frames' = [frames EXCEPT ![t] = @ + 1]
          /\ UNCHANGED <<lifeVars, lockVars, enough, dead, shown>>

\* print_trace_stack(flush_with_flags): dst is NULL and size 0.
FlushSize == FALSE

Flush(t) == /\ flush_on_abort
            /\ Goto(t, "handler", "prlock")
            /\ enough' = [enough EXCEPT ![t] = FlushSize]
            /\ UNCHANGED <<lifeVars, lockVars, frames, dead, shown>>

NoFlush(t) == ~flush_on_abort /\ Step(t, "handler", "leave")

\* The handler returns to abort(), which ends the process.
HandlerReturns(t) == ~dead /\ pc[t] = "leave" /\ Dies

-----------------------------------------------------------------------------
Init ==
  /\ pool = FALSE /\ lock_initialised = FALSE /\ handled = FALSE /\ flush_on_abort = FALSE
  /\ readers = {} /\ writer = NoThread
  /\ pc = [t \in Threads |-> "idle"] /\ frames = [t \in Threads |-> 0]
  /\ enough = [t \in Threads |-> FALSE] /\ dead = FALSE /\ shown = FALSE

Call(t) == MakeTracept(t) \/ PrintTrace(t) \/ Reconfigure(t) \/ RefuseSize(t)
Go(t) == \/ EnterTracept(t) \/ LeaveTracept(t)
         \/ EnterPrint(t) \/ CopyPool(t) \/ CopyNothing(t) \/ TooSmall(t) \/ Prints(t)
         \/ EnterReconfigure(t) \/ Realloc(t) \/ ReallocFails(t)
         \/ Raise(t) \/ Flush(t) \/ NoFlush(t) \/ HandlerReturns(t)
Manage == FlushOnAbort \/ ReconfigureFirst \/ RuntraceInit \/ InitFails \/ RuntraceExit

Next == Manage \/ \E t \in Threads : Call(t) \/ Go(t)

\* A call in progress goes on; whether calls are made is up to the program.  A
\* writer that unlocks hands the lock over to one that waits (glibc).
Spec == /\ Init /\ [][Next]_vars
        /\ \A t \in Threads : WF_vars(Go(t)) /\ SF_vars(EnterPrint(t))

-----------------------------------------------------------------------------
(* Properties *)

\* The facility's own aborts end the process: the handler, which takes
\* print_rwlock for writing, is never entered by a thread that holds it for
\* reading, and the holders it waits for let it go (lines 299-313 and 483).
AbortEnds == \A t \in Threads : pc[t] = "raise" ~> dead

\* A pool that is gone while the facility is up was freed by a thread that
\* aborts and keeps the write lock: no other thread gets at the NULL pointers
\* in the time the process has left (lines 814-827).
NullBehindLock ==
  lock_initialised /\ ~pool =>
    \A t \in Threads : pc[t] \in {"trace", "copy", "realloc"} => t = writer

\* "If SIGABRT is called on running application and flush on abort feature is
\* enabled the runtrace stack is printed to stderr" (lines 725-726): once the
\* handler has called print_trace_stack.
FlushShows ==
  \A t \in Threads : pc[t] = "prlock" /\ frames[t] > 0 /\ pool ~> shown
=============================================================================
