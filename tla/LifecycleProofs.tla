--------------------------- MODULE LifecycleProofs ---------------------------
(* Proofs about the life of runtrace: who holds the lock around a NULL pool.  *)
EXTENDS Lifecycle, TLAPS

\* Where a thread may be while it holds print_rwlock for writing: in the section
\* itself, or on its way from a failed reconfiguration to the end of the process.
Holding == {"copy", "realloc", "raise", "handler", "prlock", "leave"}

\* The type of every variable.
TypeOK ==
  /\ pool \in BOOLEAN /\ lock_initialised \in BOOLEAN /\ handled \in BOOLEAN
  /\ flush_on_abort \in BOOLEAN /\ dead \in BOOLEAN /\ shown \in BOOLEAN
  /\ readers \subseteq Threads /\ writer \in Threads \cup {NoThread}
  /\ pc \in [Threads -> {"idle", "rdlock", "trace", "prlock", "copy", "size", "relock",
                         "realloc", "raise", "handler", "leave"}]
  /\ frames \in [Threads -> 0 .. StackDepth] /\ enough \in [Threads -> BOOLEAN]

\* The lock is held by those who are in a section and by nobody else who could
\* give it up; a pool that is gone has an aborting thread's lock before it.
LockInv ==
  /\ readers \subseteq Threads /\ writer \in Threads \cup {NoThread}
  /\ \A t \in Threads : pc[t] = "trace" => t \in readers
  /\ \A t \in Threads : pc[t] \in {"copy", "realloc"} => t = writer
  /\ writer # NoThread => readers = {} /\ pc[writer] \in Holding

PoolInv == lock_initialised /\ ~pool => writer # NoThread /\ pc[writer] # "realloc"

IInv == TypeOK /\ LockInv /\ PoolInv

-----------------------------------------------------------------------------
\* Nobody holds the lock of a process that has just been loaded.
LEMMA InitIInv == Init => IInv
<1> SUFFICES ASSUME Init PROVE IInv OBVIOUS
<1>1. TypeOK
  <2>1. /\ pool \in BOOLEAN /\ lock_initialised \in BOOLEAN /\ handled \in BOOLEAN
        /\ flush_on_abort \in BOOLEAN /\ dead \in BOOLEAN /\ shown \in BOOLEAN
    BY DEF Init
  <2>2. 0 \in 0 .. StackDepth BY LifeAssumption DEF LifeAssumption
  <2>3. frames \in [Threads -> 0 .. StackDepth] /\ enough \in [Threads -> BOOLEAN]
    BY <2>2 DEF Init
  <2>4. readers \subseteq Threads /\ writer \in Threads \cup {NoThread} BY DEF Init
  <2> QED BY <2>1, <2>3, <2>4 DEF Init, TypeOK
<1>2. LockInv /\ PoolInv BY LifeAssumption DEF LifeAssumption, Init, LockInv, PoolInv, Threads
<1> QED BY <1>1, <1>2 DEF IInv

\* A NULL pool under a lock that is up has its writer, and only that one.
LEMMA IInvSafe == IInv => NullBehindLock
  BY LifeAssumption DEF LifeAssumption, TypeOK, IInv, LockInv, PoolInv, NullBehindLock, Threads

\* The calls of the threads start without the lock.
LEMMA CallKeepsIInv ==
  ASSUME IInv, NEW t \in Threads, Call(t)
  PROVE  LockInv' /\ PoolInv'
<1>1. CASE MakeTracept(t) \/ Reconfigure(t) \/ RefuseSize(t)
  BY <1>1, LifeAssumption DEF LifeAssumption, TypeOK, MakeTracept, Reconfigure, RefuseSize, Step, Goto, lifeVars,
     lockVars, IInv, LockInv, PoolInv, Holding, Threads
<1>2. CASE PrintTrace(t)
  BY <1>2, LifeAssumption DEF LifeAssumption, TypeOK, PrintTrace, Goto, lifeVars, lockVars, IInv, LockInv, PoolInv,
     Holding, Threads
<1> QED BY <1>1, <1>2 DEF Call

\* A tracer takes and gives back the lock for reading.
LEMMA TraceKeepsIInv ==
  ASSUME IInv, NEW t \in Threads, EnterTracept(t) \/ LeaveTracept(t)
  PROVE  LockInv' /\ PoolInv'
  BY LifeAssumption DEF LifeAssumption, TypeOK, EnterTracept, LeaveTracept, RdLock, Goto, lifeVars, IInv, LockInv,
     PoolInv, Holding, Threads

\* The write lock is taken by a thread that can use it, and given back only where
\* there is a pool.
LEMMA PrintKeepsIInv ==
  ASSUME IInv, NEW t \in Threads,
         \/ EnterPrint(t) \/ CopyPool(t) \/ CopyNothing(t) \/ TooSmall(t) \/ Prints(t)
  PROVE  LockInv' /\ PoolInv'
<1>1. CASE EnterPrint(t)
  BY <1>1, LifeAssumption DEF LifeAssumption, TypeOK, EnterPrint, WrLock, Goto, lifeVars, IInv, LockInv, PoolInv,
     Holding, Threads
<1>2. CASE CopyPool(t)
  BY <1>2, LifeAssumption DEF LifeAssumption, TypeOK, CopyPool, Goto, lifeVars, IInv, LockInv, PoolInv, Holding,
     Threads
<1>3. CASE CopyNothing(t)
  BY <1>3 DEF TypeOK, CopyNothing, Dies, lifeVars, lockVars, IInv, LockInv, PoolInv
<1>4. CASE TooSmall(t) \/ Prints(t)
  BY <1>4, LifeAssumption DEF LifeAssumption, TypeOK, TooSmall, Prints, Step, Goto, lifeVars, lockVars, IInv,
     LockInv, PoolInv, Holding, Threads
<1> QED BY <1>1, <1>2, <1>3, <1>4

\* A reconfiguration that fails keeps the lock, and never comes back to unlock.
LEMMA ReconfigureKeepsIInv ==
  ASSUME IInv, NEW t \in Threads, EnterReconfigure(t) \/ Realloc(t) \/ ReallocFails(t)
  PROVE  LockInv' /\ PoolInv'
<1>1. CASE EnterReconfigure(t)
  BY <1>1, LifeAssumption DEF LifeAssumption, TypeOK, EnterReconfigure, WrLock, Goto, lifeVars, IInv, LockInv,
     PoolInv, Holding, Threads
<1>2. CASE Realloc(t)
  BY <1>2, LifeAssumption DEF LifeAssumption, TypeOK, Realloc, Goto, lifeVars, IInv, LockInv, PoolInv, Holding,
     Threads
<1>3. CASE ReallocFails(t)
  BY <1>3, LifeAssumption DEF LifeAssumption, TypeOK, ReallocFails, Goto, lockVars, IInv, LockInv, PoolInv, Holding,
     Threads
<1> QED BY <1>1, <1>2, <1>3

\* An aborting thread keeps what it holds.
LEMMA AbortKeepsIInv ==
  ASSUME IInv, NEW t \in Threads,
         Raise(t) \/ Flush(t) \/ NoFlush(t) \/ HandlerReturns(t)
  PROVE  LockInv' /\ PoolInv'
<1>1. CASE Raise(t) \/ HandlerReturns(t)
  BY <1>1, LifeAssumption DEF LifeAssumption, TypeOK, Raise, HandlerReturns, Dies, Goto, lifeVars, lockVars, IInv,
     LockInv, PoolInv, Holding, Threads
<1>2. CASE Flush(t) \/ NoFlush(t)
  BY <1>2, LifeAssumption DEF LifeAssumption, TypeOK, Flush, NoFlush, Step, Goto, lifeVars, lockVars, IInv, LockInv,
     PoolInv, Holding, Threads
<1> QED BY <1>1, <1>2

\* The pool comes and goes with the lock, while no thread is in a call.
LEMMA ManageKeepsIInv ==
  ASSUME IInv, Manage
  PROVE  LockInv' /\ PoolInv'
<1>1. CASE FlushOnAbort
  BY <1>1 DEF TypeOK, FlushOnAbort, lockVars, IInv, LockInv, PoolInv
<1>2. CASE ReconfigureFirst \/ RuntraceInit \/ RuntraceExit
  BY <1>2 DEF TypeOK, ReconfigureFirst, RuntraceInit, RuntraceExit, lockVars, IInv, LockInv, PoolInv
<1>3. CASE InitFails
  BY <1>3, LifeAssumption DEF LifeAssumption, TypeOK, InitFails, AllIdle, Goto, lockVars, IInv, LockInv, PoolInv,
     Holding, Threads
<1> QED BY <1>1, <1>2, <1>3 DEF Manage

\* The types, for the steps of the threads and for the facility's own.
LEMMA CallKeepsType ==
  ASSUME TypeOK, NEW t \in Threads, Call(t)
  PROVE  TypeOK'
  BY DEF TypeOK, Call, MakeTracept, PrintTrace, Reconfigure, RefuseSize, Step, Goto, lifeVars,
     lockVars

LEMMA GoKeepsType ==
  ASSUME TypeOK, NEW t \in Threads, Go(t)
  PROVE  TypeOK'
<1>1. CASE EnterTracept(t) \/ LeaveTracept(t)
  BY <1>1 DEF TypeOK, EnterTracept, LeaveTracept, RdLock, Goto, lifeVars
<1>2. CASE EnterPrint(t) \/ EnterReconfigure(t)
  BY <1>2 DEF TypeOK, EnterPrint, EnterReconfigure, WrLock, Goto, lifeVars
<1>3. CASE CopyPool(t) \/ CopyNothing(t) \/ HandlerReturns(t)
  BY <1>3 DEF TypeOK, CopyPool, CopyNothing, HandlerReturns, Dies, Goto, lifeVars, lockVars
<1>4. CASE TooSmall(t) \/ NoFlush(t) \/ Prints(t)
  BY <1>4 DEF TypeOK, TooSmall, NoFlush, Prints, Step, Goto, lifeVars, lockVars
<1>5. CASE Realloc(t) \/ ReallocFails(t)
  BY <1>5 DEF TypeOK, Realloc, ReallocFails, Goto, lifeVars, lockVars
<1>6. CASE Raise(t)
  <2>1. CASE ~handled \/ frames[t] = StackDepth
    BY <1>6, <2>1 DEF TypeOK, Raise, Dies, lifeVars, lockVars
  <2>2. CASE handled /\ frames[t] # StackDepth
    <3>1. frames[t] \in 0 .. StackDepth BY DEF TypeOK
    <3>2. frames[t] + 1 \in 0 .. StackDepth
      BY <2>2, <3>1, LifeAssumption DEF LifeAssumption
    <3>3. frames' = [frames EXCEPT ![t] = @ + 1] BY <1>6, <2>2 DEF Raise
    <3>4. frames' \in [Threads -> 0 .. StackDepth] BY <3>2, <3>3 DEF TypeOK
    <3> QED BY <1>6, <2>2, <3>4 DEF TypeOK, Raise, Goto, lifeVars, lockVars
  <2> QED BY <2>1, <2>2 DEF TypeOK
<1>7. CASE Flush(t)
  BY <1>7 DEF TypeOK, Flush, FlushSize, Goto, lifeVars, lockVars
<1> QED BY <1>1, <1>2, <1>3, <1>4, <1>5, <1>6, <1>7 DEF Go

LEMMA ManageKeepsType ==
  ASSUME TypeOK, Manage
  PROVE  TypeOK'
  BY DEF TypeOK, Manage, FlushOnAbort, ReconfigureFirst, RuntraceInit, InitFails,
     RuntraceExit, Goto, lifeVars, lockVars, Threads

\* Every step keeps the invariant.
LEMMA NextKeepsIInv == IInv /\ [Next]_vars => IInv'
<1> SUFFICES ASSUME IInv, [Next]_vars PROVE IInv' OBVIOUS
<1>0. TypeOK BY DEF IInv
<1>1. CASE Manage BY <1>0, <1>1, ManageKeepsType, ManageKeepsIInv DEF IInv
<1>2. ASSUME NEW t \in Threads, Call(t) PROVE IInv'
  BY <1>0, <1>2, CallKeepsType, CallKeepsIInv DEF IInv
<1>3. ASSUME NEW t \in Threads, Go(t) PROVE LockInv' /\ PoolInv'
  BY <1>3, TraceKeepsIInv, PrintKeepsIInv, ReconfigureKeepsIInv, AbortKeepsIInv DEF Go
<1>4. ASSUME NEW t \in Threads, Go(t) PROVE IInv'
  BY <1>0, <1>3, <1>4, GoKeepsType DEF IInv
<1>5. CASE UNCHANGED vars
  <2>1. TypeOK' BY <1>0, <1>5 DEF vars, lifeVars, lockVars, TypeOK
  <2>2. LockInv' /\ PoolInv' BY <1>5 DEF vars, lifeVars, lockVars, IInv, LockInv, PoolInv
  <2> QED BY <2>1, <2>2 DEF IInv
<1> QED BY <1>1, <1>2, <1>4, <1>5 DEF Next

-----------------------------------------------------------------------------
\* For any number of threads: while the facility is up, only the thread whose
\* reconfiguration failed can meet the NULL pool, whatever it aborts into.
THEOREM NullSafe == Spec => []NullBehindLock
<1> QED BY InitIInv, NextKeepsIInv, IInvSafe, PTL DEF Spec
=============================================================================
