--------------------------- MODULE TracePoolProofs ---------------------------
(***************************************************************************)
(* Proofs about the tracepoint pool, for any number of threads, any pool   *)
(* sizes and either build: what print_rwlock protects, what the ring holds *)
(* while tracers overtake one another, and what a lone printer gets.       *)
(***************************************************************************)
EXTENDS TracePool, TLAPS

-----------------------------------------------------------------------------
(* Arithmetic of slots and counters. *)

\* A remainder lies below its divisor.
LEMMA ModRange ==
  ASSUME NEW n \in Int, NEW d \in Nat \ {0}
  PROVE  n % d \in 0 .. d - 1
  OBVIOUS

\* Masking a counter value or a position selects a slot of the pool.
LEMMA SlotRange ==
  ASSUME NEW n \in Int, tp_pool_size \in {m \in PoolSizes : ValidSize(m)}
  PROVE  Slot(n) \in 0 .. tp_pool_size - 1
  <1>1. tp_pool_size \in Nat \ {0}  BY PoolAssumption DEF PoolAssumption, ValidSize
  <1>2. QED  BY <1>1, ModRange DEF Slot

\* The values of an int are integers.
LEMMA IntsAreIntegers == \A n \in Ints : n \in Int
  BY PoolAssumption DEF PoolAssumption, Ints

\* The int made of a counter value lies between the ends of an int.
LEMMA ToIntRange ==
  ASSUME NEW n \in Int
  PROVE  ToInt(n) \in Ints
  <1>1. CounterMod \in Nat \ {0} /\ CounterMod % 2 = 0
    BY PoolAssumption DEF PoolAssumption
  <1>2. n % CounterMod \in 0 .. CounterMod - 1  BY <1>1, ModRange
  <1>3. CounterMod = 2 * (CounterMod \div 2)  BY <1>1
  <1>4. QED  BY <1>1, <1>2, <1>3 DEF ToInt, Ints

-----------------------------------------------------------------------------
(* Type correctness.  Realloc installs the size the caller asked for, which *)
(* was checked when the call was made.                                      *)

RequestOK ==
  \A t \in Threads : pc[t] \in {"relock", "realloc", "reunlock"} =>
    request[t] \in {n \in PoolSizes : ValidSize(n)}

TypeInv == TypeOK /\ RequestOK

\* A cleared pool, or one of garbage, is a pool.
LEMMA ZeroedType ==
  ASSUME NEW n
  PROVE  /\ Zeroed(n) \in [0 .. n - 1 -> Record]
         /\ Garbage(n) \in [0 .. n - 1 -> Record]
  BY DEF Zeroed, Garbage, Filled, Record, Field

\* Writing a ticket into a field of a record leaves it a record.
LEMMA FieldUpdate ==
  ASSUME NEW r \in Record, NEW n \in Tickets
  PROVE  [r EXCEPT !.src = n] \in Record /\ [r EXCEPT !.msg = n] \in Record
  BY DEF Record, Field

\* The pool that runtrace_init leaves has the types of TypeInv.
LEMMA TypeInit == Init => TypeInv
  <1> SUFFICES ASSUME Init PROVE TypeInv  OBVIOUS
  <1> USE DEF Init
  <1>1. 0 \in Tickets /\ 0 \in Ints  BY PoolAssumption DEF PoolAssumption, Tickets, Ints
  <1>2. tp_pool \in [0 .. tp_pool_size - 1 -> Record]
        /\ tp_pool_copy \in [0 .. tp_pool_size - 1 -> Record]  BY ZeroedType
  <1>3. TypeOK  BY <1>1, <1>2 DEF TypeOK
  <1>4. QED  BY <1>3 DEF TypeInv, RequestOK

\* Entering any of the three functions keeps the types.
LEMMA TypeCall ==
  ASSUME TypeInv, NEW t \in Threads, Call(t)
  PROVE  TypeInv'
  <1> USE DEF TypeInv, TypeOK, RequestOK, Goto, poolVars, lockVars, printVars
  <1>1. CASE MakeTracept(t)  BY <1>1 DEF MakeTracept
  <1>2. CASE LateInit(t)
    <2>1. 0 \in Tickets  BY PoolAssumption DEF PoolAssumption, Tickets
    <2>2. QED  BY <1>2, <2>1 DEF LateInit
  <1>3. CASE PrintTrace(t)
    <2>1. PrintArgs \subseteq [dst : BOOLEAN, size : Nat]
      BY PoolAssumption DEF PoolAssumption
    <2>2. QED  BY <1>3, <2>1 DEF PrintTrace
  <1>4. CASE RefuseSize(t)
    <2>1. aborted' \in BOOLEAN  BY <1>4, PoolAssumption DEF RefuseSize, DisablingErr, PoolAssumption
    <2>2. QED  BY <1>4, <2>1 DEF RefuseSize
  <1>5. CASE Reconfigure(t)  BY <1>5 DEF Reconfigure
  <1>6. QED  BY <1>1, <1>2, <1>3, <1>4, <1>5 DEF Call

\* The steps of make_tracept keep the types.
LEMMA TypeTracing ==
  ASSUME TypeInv, NEW t \in Threads, Tracing(t)
  PROVE  TypeInv'
  <1> USE DEF TypeInv, TypeOK, RequestOK, Goto, poolVars, lockVars, printVars
  <1>1. CASE EnterTracept(t)  BY <1>1 DEF EnterTracept, RdLock
  <1>2. CASE Claim(t)
    <2>1. (next_tp + 1) % CounterMod \in Tickets
      BY ModRange, PoolAssumption DEF PoolAssumption, Tickets
    <2>2. tp_pool' \in [0 .. tp_pool_size - 1 -> Record]
      <3> DEFINE hit == \E u \in InFlight : Slot(ticket[u]) = Slot(next_tp)
                 new == [tp_pool[Slot(next_tp)] EXCEPT !.due = next_tp, !.raced = hit]
      <3>1. hit \in BOOLEAN  OBVIOUS
      <3>2. tp_pool' = [tp_pool EXCEPT ![Slot(next_tp)] = new]  BY <1>2 DEF Claim, RetInc
      <3> HIDE DEF hit
      <3>3. tp_pool[Slot(next_tp)] \in Record => new \in Record
        BY <3>1 DEF Record, Field
      <3> HIDE DEF new
      <3>4. Slot(next_tp) \in 0 .. tp_pool_size - 1  BY SlotRange DEF Tickets
      <3>5. tp_pool \in [0 .. tp_pool_size - 1 -> Record]  OBVIOUS
      <3>6. new \in Record  BY <3>3, <3>4, <3>5
      <3>7. QED  BY ONLY <3>2, <3>4, <3>5, <3>6
    <2>3. delivered' \in [Followers -> SUBSET Field]  BY <1>2 DEF Claim, RetInc
    <2>4. QED  BY <1>2, <2>1, <2>2, <2>3 DEF Claim, RetInc
  <1>3. CASE WriteSrc(t)
    <2>1. tp_pool' \in [0 .. tp_pool_size - 1 -> Record]
      <3>1. Slot(ticket[t]) \in 0 .. tp_pool_size - 1  BY SlotRange DEF Tickets
      <3>2. [tp_pool[Slot(ticket[t])] EXCEPT !.src = ticket[t]] \in Record
        BY <3>1, FieldUpdate
      <3>3. QED  BY <1>3, <3>2 DEF WriteSrc
    <2>2. QED  BY <1>3, <2>1 DEF WriteSrc
  <1>4. CASE WriteMsg(t)
    <2>1. tp_pool' \in [0 .. tp_pool_size - 1 -> Record]
      <3>1. Slot(ticket[t]) \in 0 .. tp_pool_size - 1  BY SlotRange DEF Tickets
      <3>2. [tp_pool[Slot(ticket[t])] EXCEPT !.msg = ticket[t]] \in Record
        BY <3>1, FieldUpdate
      <3>3. QED  BY <1>4, <3>2 DEF WriteMsg
    <2>2. QED  BY <1>4, <2>1 DEF WriteMsg
  <1>5. CASE LeaveTracept(t)
    <2>1. 0 \in Tickets  BY PoolAssumption DEF PoolAssumption, Tickets
    <2>2. QED  BY <1>5, <2>1 DEF LeaveTracept, RdUnlock
  <1>6. QED  BY <1>1, <1>2, <1>3, <1>4, <1>5 DEF Tracing

\* The steps of print_trace_stack keep the types.
LEMMA TypePrintStep ==
  ASSUME TypeInv, NEW t \in Threads, PrintStep(t)
  PROVE  TypeInv'
  <1> USE DEF TypeInv, TypeOK, RequestOK, Goto, poolVars, lockVars, printVars
  <1>0. CounterMod \in Nat \ {0} /\ Kernel \in BOOLEAN /\ 0 \in Ints
    BY PoolAssumption DEF PoolAssumption, Ints
  <1>1. CASE EnterPrint(t)  BY <1>1 DEF EnterPrint, WrLock
  <1>2. CASE CopyPool(t)
    <2>1. ToInt(next_tp) \in Ints  BY ToIntRange DEF Tickets
    <2>2. QED  BY <1>2, <2>1 DEF CopyPool
  <1>3. CASE UnlockPrint(t)  BY <1>3 DEF UnlockPrint, WrUnlock
  <1>4. CASE TooSmall(t)  BY <1>0, <1>4 DEF TooSmall, DisablingErr, Return
  <1>5. CASE NothingNew(t)  BY <1>0, <1>5 DEF NothingNew, Return
  <1>6. CASE StartLoop(t)
    <2>1. ToInt(last_tp[t] - tp_pool_size) \in Ints
      <3>1. last_tp[t] - tp_pool_size \in Int
        BY IntsAreIntegers, PoolAssumption DEF PoolAssumption
      <3>2. QED  BY <3>1, ToIntRange
    <2>2. tp_num' \in [Threads -> Ints]  BY <1>6, <2>1 DEF StartLoop, Oldest
    <2>3. printed' \in [Threads -> Nat]  BY <1>6 DEF StartLoop, Oldest
    <2>4. QED  BY <1>6, <2>2, <2>3 DEF StartLoop, Oldest
  <1>7. CASE SkipBlank(t)
    <2>1. ToInt(tp_num[t] + 1) \in Ints  BY ToIntRange, IntsAreIntegers
    <2>2. QED  BY <1>7, <2>1 DEF SkipBlank, Advance
  <1>8. CASE EmitRecord(t)
    <2>1. ToInt(tp_num[t] + 1) \in Ints  BY ToIntRange, IntsAreIntegers
    <2>2. printed' \in [Threads -> Nat]  BY <1>8 DEF EmitRecord, Written
    <2>3. delivered' \in [Followers -> SUBSET Field]
      <3>1. Slot(tp_num[t]) \in 0 .. tp_pool_size - 1  BY SlotRange, IntsAreIntegers
      <3>2. Current(t).src \in Field  BY <3>1 DEF Current, Record
      <3>3. QED  BY <1>8, <3>2 DEF EmitRecord, Written
    <2>4. QED  BY <1>8, <2>1, <2>2, <2>3 DEF EmitRecord, Written, Advance
  <1>9. CASE FinishPrint(t)
    <2>1. priv' \in [Followers -> Ints]  BY <1>9 DEF FinishPrint
    <2>2. QED  BY <1>0, <1>9, <2>1 DEF FinishPrint, Return
  <1>10. QED
    BY <1>1, <1>2, <1>3, <1>4, <1>5, <1>6, <1>7, <1>8, <1>9 DEF PrintStep

\* The steps of runtrace_reconfigure keep the types.
LEMMA TypeResizeStep ==
  ASSUME TypeInv, NEW t \in Threads, ResizeStep(t)
  PROVE  TypeInv'
  <1> USE DEF TypeInv, TypeOK, RequestOK, Goto, poolVars, lockVars, printVars
  <1>0. Kernel \in BOOLEAN  BY PoolAssumption DEF PoolAssumption
  <1>1. CASE EnterReconfigure(t)  BY <1>1 DEF EnterReconfigure, WrLock
  <1>2. CASE Realloc(t)
    BY <1>2, ZeroedType DEF Realloc, Pointing, InFlight, Printing, At
  <1>3. CASE ReallocFails(t)
    BY <1>0, <1>3, ZeroedType DEF ReallocFails, DisablingErr, Pointing, InFlight, Printing, At
  <1>4. CASE LeaveReconfigure(t)  BY <1>4 DEF LeaveReconfigure, WrUnlock
  <1>5. QED  BY <1>1, <1>2, <1>3, <1>4 DEF ResizeStep

\* TypeInv is inductive.
LEMMA TypeNext == TypeInv /\ [Next]_vars => TypeInv'
  <1> SUFFICES ASSUME TypeInv, [Next]_vars PROVE TypeInv'  OBVIOUS
  <1>1. CASE \E t \in Threads : Call(t) \/ Tracing(t) \/ PrintStep(t) \/ ResizeStep(t)
    BY <1>1, TypeCall, TypeTracing, TypePrintStep, TypeResizeStep
  <1>2. CASE UNCHANGED vars
    BY <1>2 DEF TypeInv, TypeOK, RequestOK, vars, poolVars, lockVars, printVars
  <1>3. QED  BY <1>1, <1>2 DEF Next, Dead

\* Every variable keeps its type, for all values of the constants.
THEOREM TypeCorrect == Spec => []TypeOK
  <1>1. TypeInv => TypeOK  BY DEF TypeInv
  <1>2. QED  BY TypeInit, TypeNext, <1>1, PTL DEF Spec

-----------------------------------------------------------------------------
(* The lock.  A thread holds it for reading or writing exactly while it is  *)
(* between the two calls; a failed reconfiguration keeps it for ever.       *)

ReadHeld  == {"claim", "src", "msg", "rdunlock"}
WriteHeld == {"copy", "prunlock", "realloc", "reunlock"}

LockInv ==
  /\ \A t \in Threads : t \in readers <=> pc[t] \in ReadHeld
  /\ \A t \in Threads : pc[t] \in WriteHeld => writer = t
  /\ writer # NoThread => readers = {}

\* After a failed reconfiguration the write lock is held by nobody who runs.
LeakInv ==
  ~allocated => writer # NoThread /\ \A t \in Threads : pc[t] \notin WriteHeld

\* Only printers ever hold a pointer across a reallocation.
DangleInv == dangling \subseteq Printing

ExclusionInv == LockInv /\ LeakInv /\ DangleInv

\* Nobody holds the lock at first.
LEMMA ExclusionInit == Init => ExclusionInv
  BY DEF Init, ExclusionInv, LockInv, LeakInv, DangleInv, ReadHeld, WriteHeld

\* A call takes no lock yet.
LEMMA ExclusionCall ==
  ASSUME TypeInv, ExclusionInv, NEW t \in Threads, Call(t)
  PROVE  ExclusionInv'
  <1> USE DEF TypeInv, TypeOK, ExclusionInv, LockInv, LeakInv, DangleInv, ReadHeld,
              WriteHeld, Goto, lockVars, poolVars, Printing, At
  <1>1. CASE MakeTracept(t)  BY <1>1 DEF MakeTracept
  <1>2. CASE LateInit(t)     BY <1>2 DEF LateInit
  <1>3. CASE PrintTrace(t)   BY <1>3 DEF PrintTrace
  <1>4. CASE RefuseSize(t)   BY <1>4 DEF RefuseSize
  <1>5. CASE Reconfigure(t)  BY <1>5 DEF Reconfigure
  <1>6. QED  BY <1>1, <1>2, <1>3, <1>4, <1>5 DEF Call

\* make_tracept works between RDLOCK and RDUNLOCK (lines 983-1000).
LEMMA ExclusionTracing ==
  ASSUME TypeInv, ExclusionInv, NEW t \in Threads, Tracing(t)
  PROVE  ExclusionInv'
  <1> USE DEF TypeInv, TypeOK, ExclusionInv, LockInv, LeakInv, DangleInv, ReadHeld,
              WriteHeld, Goto, lockVars, poolVars, Printing, At
  <1>1. CASE EnterTracept(t)  BY <1>1 DEF EnterTracept, RdLock, MayRead
  <1>2. CASE Claim(t)         BY <1>2 DEF Claim, RetInc
  <1>3. CASE WriteSrc(t)      BY <1>3 DEF WriteSrc
  <1>4. CASE WriteMsg(t)      BY <1>4 DEF WriteMsg
  <1>5. CASE LeaveTracept(t)  BY <1>5 DEF LeaveTracept, RdUnlock
  <1>6. QED  BY <1>1, <1>2, <1>3, <1>4, <1>5 DEF Tracing

\* print_trace_stack copies between WRLOCK and WRUNLOCK (lines 483-486).
LEMMA ExclusionPrintStep ==
  ASSUME TypeInv, ExclusionInv, NEW t \in Threads, PrintStep(t)
  PROVE  ExclusionInv'
  <1> USE DEF TypeInv, TypeOK, ExclusionInv, LockInv, LeakInv, DangleInv, ReadHeld,
              WriteHeld, Goto, lockVars, poolVars, Printing, At
  <1>0. NoThread \notin Threads  BY PoolAssumption DEF PoolAssumption
  <1>1. CASE EnterPrint(t)   BY <1>0, <1>1 DEF EnterPrint, WrLock, MayWrite
  <1>2. CASE CopyPool(t)     BY <1>2 DEF CopyPool
  <1>3. CASE UnlockPrint(t)  BY <1>0, <1>3 DEF UnlockPrint, WrUnlock
  <1>4. CASE TooSmall(t)     BY <1>4 DEF TooSmall, Return
  <1>5. CASE NothingNew(t)   BY <1>5 DEF NothingNew, Return
  <1>6. CASE StartLoop(t)    BY <1>6 DEF StartLoop, Oldest
  <1>7. CASE SkipBlank(t)    BY <1>7 DEF SkipBlank, Advance
  <1>8. CASE EmitRecord(t)   BY <1>8 DEF EmitRecord, Written, Advance
  <1>9. CASE FinishPrint(t)  BY <1>9 DEF FinishPrint, Return
  <1>10. QED
    BY <1>1, <1>2, <1>3, <1>4, <1>5, <1>6, <1>7, <1>8, <1>9 DEF PrintStep

\* runtrace_reconfigure frees with the write lock held, and a failed one keeps it
\* (lines 793-839).
LEMMA ExclusionResizeStep ==
  ASSUME TypeInv, ExclusionInv, NEW t \in Threads, ResizeStep(t)
  PROVE  ExclusionInv'
  <1> USE DEF TypeInv, TypeOK, ExclusionInv, LockInv, LeakInv, DangleInv, ReadHeld,
              WriteHeld, Goto, lockVars, poolVars, Printing, At
  <1>0. NoThread \notin Threads  BY PoolAssumption DEF PoolAssumption
  <1>1. CASE EnterReconfigure(t)  BY <1>0, <1>1 DEF EnterReconfigure, WrLock, MayWrite
  <1>2. CASE Realloc(t)           BY <1>0, <1>2 DEF Realloc, Pointing, InFlight
  <1>3. CASE ReallocFails(t)      BY <1>0, <1>3 DEF ReallocFails, Pointing, InFlight
  <1>4. CASE LeaveReconfigure(t)  BY <1>0, <1>4 DEF LeaveReconfigure, WrUnlock
  <1>5. QED  BY <1>1, <1>2, <1>3, <1>4 DEF ResizeStep

\* ExclusionInv is inductive, given the types.
LEMMA ExclusionNext ==
  TypeInv /\ ExclusionInv /\ [Next]_vars => ExclusionInv'
  <1> SUFFICES ASSUME TypeInv, ExclusionInv, [Next]_vars PROVE ExclusionInv'  OBVIOUS
  <1>1. CASE \E t \in Threads : Call(t) \/ Tracing(t) \/ PrintStep(t) \/ ResizeStep(t)
    BY <1>1, ExclusionCall, ExclusionTracing, ExclusionPrintStep, ExclusionResizeStep
  <1>2. CASE UNCHANGED vars
    BY <1>2 DEF ExclusionInv, LockInv, LeakInv, DangleInv, Printing, At, vars, lockVars,
                poolVars
  <1>3. QED  BY <1>1, <1>2 DEF Next, Dead

\* make_tracept never writes into a freed pool.
THEOREM TracersSafe == Spec => []TracerNeverDangles
  <1>1. ExclusionInv => TracerNeverDangles
    BY DEF ExclusionInv, DangleInv, TracerNeverDangles, InFlight, Printing, At
  <1>2. QED  BY TypeInit, TypeNext, ExclusionInit, ExclusionNext, <1>1, PTL DEF Spec

\* No thread inside the lock meets a NULL pool.
THEOREM NullSafe == Spec => []NullNeverTouched
  <1>1. ExclusionInv => NullNeverTouched
    BY DEF ExclusionInv, LockInv, LeakInv, NullNeverTouched, ReadHeld, WriteHeld, At
  <1>2. QED  BY TypeInit, TypeNext, ExclusionInit, ExclusionNext, <1>1, PTL DEF Spec

-----------------------------------------------------------------------------
(* Records.  In a slot that was not raced for, every writer still there has *)
(* the newest ticket, and once they are gone the record is whole.           *)

SlotOK(i) ==
  /\ \A t \in InFlight : Slot(ticket[t]) = i =>
       ticket[t] = tp_pool[i].due /\ (pc[t] = "msg" => tp_pool[i].src = tp_pool[i].due)
  /\ (\A t \in InFlight : Slot(ticket[t]) # i) => Whole(tp_pool[i])

SlotInv == \A i \in 0 .. tp_pool_size - 1 : tp_pool[i].raced \/ SlotOK(i)

\* The slots of a cleared pool are whole and have no writer.
LEMMA FreshSlots ==
  ASSUME NEW n
  PROVE  \A i \in 0 .. n - 1 : Whole(Zeroed(n)[i]) /\ Whole(Garbage(n)[i])
  BY DEF Zeroed, Garbage, Filled, Whole

\* So are those of the first pool.
LEMMA SlotInit == Init => SlotInv
  <1> SUFFICES ASSUME Init PROVE SlotInv  OBVIOUS
  <1>1. InFlight = {}  BY DEF Init, InFlight, At
  <1>2. \A i \in 0 .. tp_pool_size - 1 : Whole(tp_pool[i])  BY FreshSlots DEF Init
  <1>3. QED  BY <1>1, <1>2 DEF SlotInv, SlotOK

\* A step that leaves the pool, the tickets and who is in flight alone.
LEMMA SlotFrame ==
  ASSUME SlotInv, UNCHANGED <<tp_pool_size, tp_pool>>, InFlight' = InFlight,
         \A t \in InFlight : ticket'[t] = ticket[t] /\ pc'[t] = pc[t]
  PROVE  SlotInv'
  BY DEF SlotInv, SlotOK, Slot, Whole

\* A call touches no slot.
LEMMA SlotCall ==
  ASSUME TypeInv, SlotInv, NEW t \in Threads, Call(t)
  PROVE  SlotInv'
  <1>1. /\ UNCHANGED <<tp_pool_size, tp_pool, ticket>>
        /\ InFlight' = InFlight
        /\ \A u \in InFlight : pc'[u] = pc[u]
    BY DEF Call, MakeTracept, LateInit, PrintTrace, RefuseSize, Reconfigure, Goto, poolVars,
           InFlight, At, TypeInv, TypeOK
  <1>2. QED  BY <1>1, SlotFrame

\* print_trace_stack only reads the pool.
LEMMA SlotPrintStep ==
  ASSUME TypeInv, SlotInv, NEW t \in Threads, PrintStep(t)
  PROVE  SlotInv'
  <1> USE DEF Goto, poolVars, InFlight, At, TypeInv, TypeOK, Return, Advance
  <1>1. /\ UNCHANGED <<tp_pool_size, tp_pool, ticket>>
        /\ pc[t] \notin {"src", "msg"} /\ pc'[t] \notin {"src", "msg"}
        /\ pc' = [pc EXCEPT ![t] = pc'[t]]
    <2>1. CASE EnterPrint(t) \/ CopyPool(t) \/ UnlockPrint(t)
      BY <2>1 DEF EnterPrint, CopyPool, UnlockPrint
    <2>2. CASE TooSmall(t) \/ NothingNew(t)  BY <2>2 DEF TooSmall, NothingNew
    <2>3. CASE StartLoop(t) \/ FinishPrint(t)  BY <2>3 DEF StartLoop, Oldest, FinishPrint
    <2>4. CASE SkipBlank(t) \/ EmitRecord(t)  BY <2>4 DEF SkipBlank, EmitRecord, Written
    <2>5. QED  BY <2>1, <2>2, <2>3, <2>4 DEF PrintStep
  <1>2. InFlight' = InFlight /\ \A u \in InFlight : pc'[u] = pc[u]  BY <1>1
  <1>3. QED  BY <1>1, <1>2, SlotFrame

\* make_tracept: a slot that is being written is raced for, or has the one writer
\* its newest ticket belongs to (lines 985-998).
LEMMA SlotTracing ==
  ASSUME TypeInv, SlotInv, NEW t \in Threads, Tracing(t)
  PROVE  SlotInv'
  <1> USE DEF Goto, poolVars, TypeInv, TypeOK
  <1> DEFINE mine == Slot(ticket[t])
  <1>1. CASE EnterTracept(t) \/ LeaveTracept(t)
    <2>1. /\ UNCHANGED <<tp_pool_size, tp_pool>>
          /\ InFlight' = InFlight
          /\ \A u \in InFlight : ticket'[u] = ticket[u] /\ pc'[u] = pc[u]
      BY <1>1 DEF EnterTracept, LeaveTracept, InFlight, At
    <2>2. QED  BY <2>1, SlotFrame
  <1>2. CASE Claim(t)
    <2> DEFINE s == Slot(next_tp)
    <2>1. s \in 0 .. tp_pool_size - 1  BY SlotRange DEF Tickets
    <2>2. InFlight' = InFlight \cup {t} /\ t \notin InFlight
      BY <1>2 DEF Claim, RetInc, InFlight, At
    <2>3. \A n : Slot(n)' = Slot(n)  BY <1>2 DEF Claim, RetInc, Slot
    <2>4. SUFFICES ASSUME NEW i \in 0 .. tp_pool_size - 1, ~tp_pool'[i].raced
                   PROVE  SlotOK(i)'
      BY <1>2 DEF SlotInv, Claim, RetInc
    <2>5. CASE i = s
      <3>1. tp_pool'[i].due = next_tp /\ \A u \in InFlight : Slot(ticket[u]) # i
        BY <1>2, <2>1, <2>4, <2>5 DEF Claim, RetInc, Record
      <3>2. ticket'[t] = next_tp /\ pc'[t] = "src"
            /\ \A u \in InFlight : ticket'[u] = ticket[u]
        BY <1>2, <2>2 DEF Claim, RetInc, InFlight, At
      <3>3. QED  BY <2>2, <2>3, <2>5, <3>1, <3>2 DEF SlotOK
    <2>6. CASE i # s
      <3>1. tp_pool'[i] = tp_pool[i]  BY <1>2, <2>6 DEF Claim, RetInc
      <3>2. ticket'[t] = next_tp /\ \A u \in InFlight : ticket'[u] = ticket[u] /\ pc'[u] = pc[u]
        BY <1>2, <2>2 DEF Claim, RetInc, InFlight, At
      <3>3. SlotOK(i)  BY <2>4, <3>1 DEF SlotInv
      <3>4. QED  BY <2>2, <2>3, <2>6, <3>1, <3>2, <3>3 DEF SlotOK, Whole
    <2>7. QED  BY <2>5, <2>6
  <1>3. CASE WriteSrc(t)
    <2>1. mine \in 0 .. tp_pool_size - 1  BY SlotRange DEF Tickets
    <2>2. InFlight' = InFlight /\ t \in InFlight /\ ticket' = ticket
      BY <1>3 DEF WriteSrc, InFlight, At
    <2>3. \A n : Slot(n)' = Slot(n)  BY <1>3 DEF WriteSrc, Slot
    <2>4. \A i \in 0 .. tp_pool_size - 1 : i # mine => tp_pool'[i] = tp_pool[i]
      BY <1>3 DEF WriteSrc
    <2>5. /\ tp_pool'[mine].src = ticket[t] /\ tp_pool'[mine].due = tp_pool[mine].due
          /\ tp_pool'[mine].raced = tp_pool[mine].raced
      BY <1>3, <2>1 DEF WriteSrc, Record
    <2>6. pc'[t] = "msg" /\ \A u \in InFlight : u # t => pc'[u] = pc[u]
      BY <1>3 DEF WriteSrc, InFlight, At
    <2>7. SUFFICES ASSUME NEW i \in 0 .. tp_pool_size - 1, ~tp_pool'[i].raced
                   PROVE  SlotOK(i)'
      BY <1>3 DEF SlotInv, WriteSrc
    <2>8. SlotOK(i)  BY <2>1, <2>4, <2>5, <2>7 DEF SlotInv
    <2>9. CASE i # mine  BY <2>2, <2>3, <2>4, <2>6, <2>8, <2>9 DEF SlotOK, Whole
    <2>10. CASE i = mine  BY <2>2, <2>3, <2>5, <2>6, <2>8, <2>10 DEF SlotOK, Whole
    <2>11. QED  BY <2>9, <2>10
  <1>4. CASE WriteMsg(t)
    <2>1. mine \in 0 .. tp_pool_size - 1  BY SlotRange DEF Tickets
    <2>2. InFlight' = InFlight \ {t} /\ t \in InFlight /\ ticket' = ticket
      BY <1>4 DEF WriteMsg, InFlight, At
    <2>3. \A n : Slot(n)' = Slot(n)  BY <1>4 DEF WriteMsg, Slot
    <2>4. \A i \in 0 .. tp_pool_size - 1 : i # mine => tp_pool'[i] = tp_pool[i]
      BY <1>4 DEF WriteMsg
    <2>5. /\ tp_pool'[mine].msg = ticket[t] /\ tp_pool'[mine].due = tp_pool[mine].due
          /\ tp_pool'[mine].src = tp_pool[mine].src
          /\ tp_pool'[mine].raced = tp_pool[mine].raced
      BY <1>4, <2>1 DEF WriteMsg, Record
    <2>6. pc[t] = "msg" /\ \A u \in InFlight : u # t => pc'[u] = pc[u]
      BY <1>4 DEF WriteMsg, InFlight, At
    <2>7. SUFFICES ASSUME NEW i \in 0 .. tp_pool_size - 1, ~tp_pool'[i].raced
                   PROVE  SlotOK(i)'
      BY <1>4 DEF SlotInv, WriteMsg
    <2>8. SlotOK(i)  BY <2>1, <2>4, <2>5, <2>7 DEF SlotInv
    <2>9. CASE i # mine  BY <2>2, <2>3, <2>4, <2>6, <2>8, <2>9 DEF SlotOK, Whole
    <2>10. CASE i = mine  BY <2>2, <2>3, <2>5, <2>6, <2>8, <2>10 DEF SlotOK, Whole
    <2>11. QED  BY <2>9, <2>10
  <1>5. QED  BY <1>1, <1>2, <1>3, <1>4 DEF Tracing

\* A reconfiguration finds no tracer at work, and leaves fresh slots.
LEMMA SlotResizeStep ==
  ASSUME TypeInv, ExclusionInv, SlotInv, NEW t \in Threads, ResizeStep(t)
  PROVE  SlotInv'
  <1> USE DEF Goto, poolVars, TypeInv, TypeOK
  <1>1. CASE EnterReconfigure(t) \/ LeaveReconfigure(t)
    <2>1. /\ UNCHANGED <<tp_pool_size, tp_pool, ticket>>
          /\ InFlight' = InFlight
          /\ \A u \in InFlight : pc'[u] = pc[u]
      BY <1>1 DEF EnterReconfigure, LeaveReconfigure, InFlight, At
    <2>2. QED  BY <2>1, SlotFrame
  <1>2. CASE Realloc(t) \/ ReallocFails(t)
    <2>1. InFlight = {}
      BY <1>2, PoolAssumption DEF Realloc, ReallocFails, ExclusionInv, LockInv, ReadHeld,
         WriteHeld, InFlight, At, PoolAssumption
    <2>2. InFlight' = {}  BY <1>2, <2>1 DEF Realloc, ReallocFails, InFlight, At
    <2>3. \A i \in 0 .. tp_pool_size' - 1 : Whole(tp_pool'[i])
      BY <1>2, FreshSlots DEF Realloc, ReallocFails
    <2>4. QED  BY <2>2, <2>3 DEF SlotInv, SlotOK, Whole
  <1>3. QED  BY <1>1, <1>2 DEF ResizeStep

\* SlotInv is inductive, given the types and the exclusion.
LEMMA SlotNext == TypeInv /\ ExclusionInv /\ SlotInv /\ [Next]_vars => SlotInv'
  <1> SUFFICES ASSUME TypeInv, ExclusionInv, SlotInv, [Next]_vars PROVE SlotInv'  OBVIOUS
  <1>1. CASE \E t \in Threads : Call(t) \/ Tracing(t) \/ PrintStep(t) \/ ResizeStep(t)
    BY <1>1, SlotCall, SlotTracing, SlotPrintStep, SlotResizeStep
  <1>2. CASE UNCHANGED vars
    BY <1>2, SlotFrame DEF vars, poolVars, InFlight, At
  <1>3. QED  BY <1>1, <1>2 DEF Next, Dead

\* Whatever is copied or freed under the write lock is whole, but for the
\* slots that lapped writers raced for.
THEOREM SnapshotWhole == Spec => []SnapshotIsNewest
  <1>1. TypeInv /\ ExclusionInv /\ SlotInv => SnapshotIsNewest
    <2> SUFFICES ASSUME TypeInv, ExclusionInv, SlotInv, writer # NoThread,
                        NEW i \in DOMAIN tp_pool, ~tp_pool[i].raced
                 PROVE  Whole(tp_pool[i])
      BY DEF SnapshotIsNewest
    <2>1. InFlight = {}  BY DEF ExclusionInv, LockInv, ReadHeld, InFlight, At
    <2>2. i \in 0 .. tp_pool_size - 1  BY DEF TypeInv, TypeOK
    <2>3. QED  BY <2>1, <2>2 DEF SlotInv, SlotOK
  <1>2. QED
    BY TypeInit, TypeNext, ExclusionInit, ExclusionNext, SlotInit, SlotNext, <1>1, PTL
       DEF Spec

-----------------------------------------------------------------------------
(* Positions.  Counter values, positions and slots agree but for whole      *)
(* rounds of the counter or of the ring.                                    *)

Congruent(a, b, d) == \E q \in Int : a - b = q * d

\* A remainder is congruent to what it is the remainder of.
LEMMA RemainderCongruent ==
  ASSUME NEW n \in Int, NEW d \in Nat \ {0}
  PROVE  Congruent(n % d, n, d)
  <1>1. PICK q \in Int : n = q * d + (n % d)
    <2>1. n \div d \in Int /\ n = (n \div d) * d + (n % d)  OBVIOUS
    <2>2. QED  BY <2>1
  <1>2. n % d \in Int  BY ModRange
  <1>3. PICK r \in Int : r = n % d  BY <1>2
  <1>4. q * d \in Int /\ n = q * d + r  BY <1>1, <1>3
  <1>5. r - n = -(q * d)  BY <1>4
  <1>6. -(q * d) = (-q) * d /\ -q \in Int  OBVIOUS
  <1>7. QED  BY <1>3, <1>5, <1>6 DEF Congruent

\* Congruence is symmetric.
LEMMA CongruentBack ==
  ASSUME NEW a \in Int, NEW b \in Int, NEW d \in Nat \ {0}, Congruent(a, b, d)
  PROVE  Congruent(b, a, d)
  <1>1. PICK q \in Int : a - b = q * d  BY DEF Congruent
  <1>2. b - a = -(q * d)  BY <1>1
  <1>3. -(q * d) = (-q) * d  OBVIOUS
  <1>4. -q \in Int  OBVIOUS
  <1>5. QED  BY <1>2, <1>3, <1>4 DEF Congruent

\* It is transitive.
LEMMA CongruentOn ==
  ASSUME NEW a \in Int, NEW b \in Int, NEW c \in Int, NEW d \in Nat \ {0},
         Congruent(a, b, d), Congruent(b, c, d)
  PROVE  Congruent(a, c, d)
  <1>1. PICK p \in Int : a - b = p * d  BY DEF Congruent
  <1>2. PICK q \in Int : b - c = q * d  BY DEF Congruent
  <1>3. a - c = p * d + q * d  BY <1>1, <1>2
  <1>4. p * d + q * d = (p + q) * d  OBVIOUS
  <1>5. p + q \in Int  OBVIOUS
  <1>6. QED  BY <1>3, <1>4, <1>5 DEF Congruent

\* Only the difference counts.
LEMMA CongruentShift ==
  ASSUME NEW a \in Int, NEW b \in Int, NEW e \in Int, NEW f \in Int,
         NEW d \in Nat \ {0}, Congruent(a, b, d), e - f = a - b
  PROVE  Congruent(e, f, d)
  BY DEF Congruent

\* Numbers less than one round apart are not congruent.
LEMMA CongruentNear ==
  ASSUME NEW a \in Int, NEW b \in Int, NEW d \in Nat \ {0}, Congruent(a, b, d),
         a - b < d, b - a < d
  PROVE  a = b
  <1>1. PICK q \in Int : a - b = q * d  BY DEF Congruent
  <1>2. CASE q >= 1
    <2>1. q * d >= d  BY <1>2
    <2>2. QED  BY <1>1, <2>1
  <1>3. CASE q <= -1
    <2>1. (-q) * d >= d /\ (-q) * d = b - a
      <3>1. -q >= 1 /\ -q \in Int  BY <1>3
      <3>2. (-q) * d >= d  BY <3>1
      <3>3. (-q) * d = b - a  BY <1>1
      <3>4. QED  BY <3>2, <3>3
    <2>2. QED  BY <2>1
  <1>4. CASE q = 0  BY <1>1, <1>4
  <1>5. QED  BY <1>2, <1>3, <1>4

\* Equal remainders are those of congruent numbers.
LEMMA CongruentRemainders ==
  ASSUME NEW a \in Int, NEW b \in Int, NEW d \in Nat \ {0}
  PROVE  Congruent(a, b, d) <=> a % d = b % d
  <1>1. /\ a % d \in 0 .. d - 1 /\ b % d \in 0 .. d - 1
        /\ Congruent(a % d, a, d) /\ Congruent(b % d, b, d)
    BY ModRange, RemainderCongruent
  <1>2. a % d \in Int /\ b % d \in Int  BY <1>1
  <1>3. ASSUME Congruent(a, b, d) PROVE a % d = b % d
    <2>1. Congruent(b, b % d, d)  BY <1>1, <1>2, CongruentBack
    <2>2. Congruent(a % d, b, d)  BY <1>1, <1>2, <1>3, CongruentOn
    <2>3. Congruent(a % d, b % d, d)  BY <1>2, <2>1, <2>2, CongruentOn
    <2>4. (a % d) - (b % d) < d /\ (b % d) - (a % d) < d  BY <1>1
    <2>5. QED  BY <1>2, <2>3, <2>4, CongruentNear
  <1>4. ASSUME a % d = b % d PROVE Congruent(a, b, d)
    <2>1. Congruent(a, a % d, d)  BY <1>1, <1>2, CongruentBack
    <2>2. Congruent(a % d, b, d)  BY <1>1, <1>4
    <2>3. QED  BY <1>2, <2>1, <2>2, CongruentOn
  <1>5. QED  BY <1>3, <1>4

\* The size of the ring, and the counter, which goes round it a whole number of
\* times.
LEMMA Sizes ==
  ASSUME tp_pool_size \in {n \in PoolSizes : ValidSize(n)}
  PROVE  /\ CounterMod \in Nat \ {0} /\ CounterMod \div 2 \in Nat
         /\ CounterMod = 2 * (CounterMod \div 2)
         /\ tp_pool_size \in Nat \ {0} /\ tp_pool_size >= 4
         /\ tp_pool_size <= CounterMod \div 2
         /\ \A a, b \in Int :
              Congruent(a, b, CounterMod) => Congruent(a, b, tp_pool_size)
  <1>1. /\ CounterMod \in Nat \ {0} /\ CounterMod % 2 = 0 /\ tp_pool_size \in Nat
        /\ CounterMod % tp_pool_size = 0 /\ tp_pool_size <= CounterMod \div 2
        /\ tp_pool_size >= 4
    BY PoolAssumption DEF PoolAssumption, ValidSize
  <1>2. CounterMod \div 2 \in Nat /\ CounterMod = 2 * (CounterMod \div 2)  BY <1>1
  <1>3. PICK c \in Int : CounterMod = c * tp_pool_size
    <2>1. /\ CounterMod \div tp_pool_size \in Int
          /\ CounterMod = (CounterMod \div tp_pool_size) * tp_pool_size
                          + (CounterMod % tp_pool_size)
      BY <1>1
    <2>2. QED  BY <1>1, <2>1
  <1>4. ASSUME NEW a \in Int, NEW b \in Int, Congruent(a, b, CounterMod)
        PROVE  Congruent(a, b, tp_pool_size)
    <2>1. PICK q \in Int : a - b = q * CounterMod  BY <1>4 DEF Congruent
    <2>2. q * CounterMod = (q * c) * tp_pool_size  BY <1>1, <1>3
    <2>3. q * c \in Int  OBVIOUS
    <2>4. QED  BY <2>1, <2>2, <2>3 DEF Congruent
  <1>5. QED  BY <1>1, <1>2, <1>4

\* What an int holds.
IntValues == -(CounterMod \div 2) .. CounterMod \div 2 - 1

\* An int made of a number is congruent to it, and is the number itself when that
\* is an int already.
LEMMA ToIntCongruent ==
  ASSUME NEW n \in Int
  PROVE  /\ ToInt(n) \in IntValues /\ Congruent(ToInt(n), n, CounterMod)
         /\ n \in IntValues => ToInt(n) = n
  <1>1. CounterMod \in Nat \ {0} /\ CounterMod % 2 = 0
    BY PoolAssumption DEF PoolAssumption
  <1>2. n % CounterMod \in 0 .. CounterMod - 1  BY <1>1, ModRange
  <1>3. CounterMod = 2 * (CounterMod \div 2) /\ CounterMod \div 2 \in Nat  BY <1>1
  <1>4. ToInt(n) \in IntValues  BY <1>2, <1>3 DEF ToInt, IntValues
  <1>5. PICK q \in Int : (n % CounterMod) - n = q * CounterMod
    BY <1>1, RemainderCongruent DEF Congruent
  <1>6. Congruent(ToInt(n), n, CounterMod)
    <2>1. CASE n % CounterMod >= CounterMod \div 2
      <3>1. ToInt(n) - n = (q - 1) * CounterMod  BY <1>1, <1>2, <1>5, <2>1 DEF ToInt
      <3>2. QED  BY <3>1 DEF Congruent
    <2>2. CASE ~(n % CounterMod >= CounterMod \div 2)
      <3>1. ToInt(n) - n = q * CounterMod  BY <1>5, <2>2 DEF ToInt
      <3>2. QED  BY <3>1 DEF Congruent
    <2>3. QED  BY <2>1, <2>2
  <1>7. ASSUME n \in IntValues PROVE ToInt(n) = n
    <2>1. ToInt(n) \in Int  BY <1>3, <1>4 DEF IntValues
    <2>2. ToInt(n) - n < CounterMod /\ n - ToInt(n) < CounterMod
      BY <1>3, <1>4, <1>7 DEF IntValues
    <2>3. QED  BY <1>1, <1>6, <2>1, <2>2, CongruentNear
  <1>8. QED  BY <1>4, <1>6, <1>7

-----------------------------------------------------------------------------
(* What a lone printer sees, when the caller keeps runtrace_reconfigure     *)
(* apart from it.  The theorems about followers assume InRange, that the    *)
(* counter of a program that follows its trace with a cursor never passes   *)
(* the largest int: they say nothing of what comes after.                   *)

\* Where a thread can be.
Labels == {"idle", "rdlock", "claim", "src", "msg", "rdunlock", "init",
           "prlock", "copy", "prunlock", "start", "loop", "relock", "realloc", "reunlock"}

\* Nobody prints while the pools are being replaced, nor after that has failed.
PrintInv ==
  /\ Printing \subseteq Printers
  /\ Printing = {} \/ Resizing = {}
  /\ ~allocated => At({"copy", "prunlock", "start", "loop"}) = {}

\* The caller's promise is kept by every step.
LEMMA PrintInit == Init => PrintInv
  BY DEF Init, PrintInv, Printing, Resizing, At

LEMMA PrintNext ==
  ASSUME ~ReconfigureAnyTime
  PROVE  TypeInv /\ ExclusionInv /\ PrintInv /\ [Next]_vars => PrintInv'
  <1> SUFFICES ASSUME TypeInv, ExclusionInv, PrintInv, [Next]_vars PROVE PrintInv'  OBVIOUS
  <1> USE DEF PrintInv, Printing, Resizing, At, Goto, poolVars
  <1>0. pc \in [Threads -> Labels]
    BY DEF TypeInv, TypeOK, Labels
  <1>1. ASSUME NEW t \in Threads, Call(t) PROVE PrintInv'
    BY <1>0, <1>1 DEF Call, MakeTracept, LateInit, PrintTrace, RefuseSize, Reconfigure
  <1>2. ASSUME NEW t \in Threads, Tracing(t) PROVE PrintInv'
    BY <1>0, <1>2 DEF Tracing, EnterTracept, Claim, WriteSrc, WriteMsg, LeaveTracept
  <1>3. ASSUME NEW t \in Threads, PrintStep(t) PROVE PrintInv'
    <2>1. CASE EnterPrint(t)
      <3>1. allocated  BY <2>1 DEF EnterPrint, WrLock, MayWrite, ExclusionInv, LeakInv
      <3>2. QED  BY <1>0, <2>1, <3>1 DEF EnterPrint
    <2>2. CASE CopyPool(t) \/ UnlockPrint(t)
      BY <1>0, <2>2 DEF CopyPool, UnlockPrint
    <2>3. CASE TooSmall(t) \/ NothingNew(t) \/ FinishPrint(t)
      BY <1>0, <2>3 DEF TooSmall, NothingNew, FinishPrint, Return
    <2>4. CASE StartLoop(t)  BY <1>0, <2>4 DEF StartLoop
    <2>5. CASE SkipBlank(t) \/ EmitRecord(t)
      BY <1>0, <2>5 DEF SkipBlank, EmitRecord, Advance
    <2>6. QED  BY <1>3, <2>1, <2>2, <2>3, <2>4, <2>5 DEF PrintStep
  <1>4. ASSUME NEW t \in Threads, ResizeStep(t) PROVE PrintInv'
    BY <1>0, <1>4 DEF ResizeStep, EnterReconfigure, Realloc, ReallocFails, LeaveReconfigure
  <1>5. CASE UNCHANGED vars  BY <1>5 DEF vars
  <1>6. QED  BY <1>1, <1>2, <1>3, <1>4, <1>5 DEF Next, Dead

\* No thread points into a freed pool.
NoneDangles == dangling = {}

\* If the caller keeps reconfigurations apart from prints, no printer is left with
\* tp_end or tp pointing into a freed copy, although it computes and uses them
\* outside the lock (lines 473 and 525-553).
THEOREM PrintersSafe ==
  ASSUME ~ReconfigureAnyTime
  PROVE  Spec => []PrinterNeverDangles
  <1>1. Init => NoneDangles  BY DEF Init, NoneDangles
  <1>2. TypeInv /\ ExclusionInv /\ PrintInv /\ NoneDangles /\ [Next]_vars => NoneDangles'
    <2> SUFFICES ASSUME TypeInv, ExclusionInv, PrintInv, NoneDangles, [Next]_vars
                 PROVE  dangling' = {}
      BY DEF NoneDangles
    <2> USE DEF NoneDangles
    <2>1. ASSUME NEW t \in Threads, ResizeStep(t) PROVE dangling' = {}
      <3>1. CASE EnterReconfigure(t) \/ LeaveReconfigure(t)
        BY <3>1 DEF EnterReconfigure, LeaveReconfigure
      <3>2. CASE Realloc(t) \/ ReallocFails(t)
        <4>1. pc[t] = "realloc"  BY <3>2 DEF Realloc, ReallocFails, Goto
        <4>2. Printing = {}  BY <4>1 DEF PrintInv, Resizing, At
        <4>3. InFlight = {}
          BY <4>1, PoolAssumption DEF ExclusionInv, LockInv, ReadHeld, WriteHeld, InFlight, At,
             PoolAssumption
        <4>4. dangling' = dangling \cup Pointing  BY <3>2 DEF Realloc, ReallocFails
        <4>5. QED  BY <4>2, <4>3, <4>4 DEF Pointing
      <3>3. QED  BY <2>1, <3>1, <3>2 DEF ResizeStep
    <2>2. ASSUME NEW t \in Threads, Call(t) \/ Tracing(t) PROVE dangling' = {}
      BY <2>2 DEF Call, MakeTracept, LateInit, PrintTrace, RefuseSize, Reconfigure, Tracing,
         EnterTracept, Claim, WriteSrc, WriteMsg, LeaveTracept
    <2>3. ASSUME NEW t \in Threads, PrintStep(t) PROVE dangling' = {}
      BY <2>3 DEF PrintStep, EnterPrint, CopyPool, UnlockPrint, TooSmall, NothingNew, Return,
         StartLoop, SkipBlank, EmitRecord, Advance, FinishPrint
    <2>4. QED  BY <2>1, <2>2, <2>3 DEF Next, Dead, vars
  <1>3. NoneDangles => PrinterNeverDangles  BY DEF NoneDangles, PrinterNeverDangles
  <1>4. QED
    BY TypeInit, TypeNext, ExclusionInit, ExclusionNext, PrintInit, PrintNext, <1>1, <1>2,
       <1>3, PTL DEF Spec

\* A slot is empty, or was last claimed by one of the tp_pool_size tracepoints
\* before n, and is the one that tracepoint selects.
DueOK(r, i, n) ==
  \/ r.due = NoTicket /\ r.src = NoTicket
  \/ /\ r.due \in Tickets /\ Slot(r.due) = i
     /\ \E k \in 1 .. tp_pool_size : Congruent(r.due, n - k, CounterMod)

RingInv ==
  allocated =>
    /\ \A i \in 0 .. tp_pool_size - 1 : DueOK(tp_pool[i], i, next_tp)
    /\ \A t \in InFlight : tp_pool[Slot(ticket[t])].due \in Tickets

\* An empty ring.
LEMMA RingInit == Init => RingInv
  BY DEF Init, RingInv, DueOK, Zeroed, Filled, InFlight, At

\* Steps that touch neither the ring nor the counter.
LEMMA RingFrame ==
  ASSUME RingInv, UNCHANGED <<next_tp, tp_pool, tp_pool_size, ticket, allocated>>,
         InFlight' \subseteq InFlight
  PROVE  RingInv'
  BY DEF RingInv, DueOK, Slot

\* The next tracepoint takes the place of the oldest.
LEMMA RingClaim ==
  ASSUME TypeInv, ExclusionInv, RingInv, NEW t \in Threads, Claim(t)
  PROVE  RingInv'
  <1> DEFINE s == Slot(next_tp)
  <1>1. /\ CounterMod \in Nat \ {0} /\ tp_pool_size \in Nat \ {0}
        /\ \A a, b \in Int : Congruent(a, b, CounterMod) => Congruent(a, b, tp_pool_size)
    BY Sizes DEF TypeInv, TypeOK
  <1>2. next_tp \in Tickets /\ next_tp \in Int  BY DEF TypeInv, TypeOK, Tickets
  <1>3. s \in 0 .. tp_pool_size - 1  BY <1>2, SlotRange DEF TypeInv, TypeOK
  <1>4. tp_pool \in [0 .. tp_pool_size - 1 -> Record] /\ UNCHANGED <<tp_pool_size, allocated>>
    BY DEF TypeInv, TypeOK, Claim
  <1>5. tp_pool'[s].due = next_tp
    BY <1>3, <1>4 DEF Claim, RetInc, Record
  <1>6. \A i \in 0 .. tp_pool_size - 1 : i # s => tp_pool'[i] = tp_pool[i]
    BY <1>3, <1>4 DEF Claim, RetInc
  <1>7. next_tp' = (next_tp + 1) % CounterMod /\ (next_tp + 1) % CounterMod \in Int
    BY <1>1, <1>2, ModRange DEF Claim
  <1>8. PICK n \in Int : n = next_tp'  BY <1>7
  <1>9. Congruent(n, next_tp + 1, CounterMod)
    BY <1>1, <1>2, <1>7, <1>8, RemainderCongruent
  <1>91. Congruent(next_tp + 1, n, CounterMod)  BY <1>1, <1>2, <1>9, CongruentBack
  <1>10. ASSUME allocated, NEW i \in 0 .. tp_pool_size - 1 PROVE DueOK(tp_pool[i], i, next_tp)'
    <2>1. CASE i = s
      <3>1. next_tp - (n - 1) = next_tp + 1 - n /\ n - 1 \in Int /\ next_tp + 1 \in Int
        BY <1>2, <1>8
      <3>2. Congruent(next_tp, n - 1, CounterMod)
        BY <1>1, <1>2, <1>91, <3>1, CongruentShift
      <3>3. 1 \in 1 .. tp_pool_size  BY <1>1
      <3>4. \E k \in 1 .. tp_pool_size : Congruent(next_tp, n - k, CounterMod)
        BY <3>2, <3>3
      <3>5. Slot(next_tp) = i  BY <2>1
      <3>6. QED  BY <1>2, <1>4, <1>5, <1>8, <2>1, <3>4, <3>5 DEF DueOK, Slot
    <2>2. CASE i # s
      <3>1. tp_pool'[i] = tp_pool[i]  BY <1>6, <2>2
      <3>2. DueOK(tp_pool[i], i, next_tp)  BY <1>10 DEF RingInv
      <3>3. CASE tp_pool[i].due = NoTicket /\ tp_pool[i].src = NoTicket
        BY <3>1, <3>3 DEF DueOK
      <3>4. CASE ~(tp_pool[i].due = NoTicket /\ tp_pool[i].src = NoTicket)
        <4>1. PICK d : d = tp_pool[i].due  OBVIOUS
        <4>2. d \in Tickets /\ Slot(d) = i  BY <3>2, <3>4, <4>1 DEF DueOK
        <4>3. d \in Int  BY <4>2 DEF Tickets
        <4>4. PICK k \in 1 .. tp_pool_size : Congruent(d, next_tp - k, CounterMod)
          BY <3>2, <3>4, <4>1 DEF DueOK
        <4>5. k # tp_pool_size
          <5>1. SUFFICES ASSUME k = tp_pool_size PROVE FALSE  OBVIOUS
          <5>2. Congruent(d, next_tp - k, tp_pool_size)  BY <1>1, <1>2, <4>3, <4>4
          <5>3. Congruent(next_tp - k, next_tp, tp_pool_size)
            <6>1. (next_tp - k) - next_tp = (-1) * tp_pool_size  BY <1>1, <1>2, <5>1
            <6>2. QED  BY <6>1 DEF Congruent
          <5>4. next_tp - k \in Int  BY <1>2
          <5>5. Congruent(d, next_tp, tp_pool_size)
            BY <1>1, <1>2, <4>3, <5>2, <5>3, <5>4, CongruentOn
          <5>6. d % tp_pool_size = next_tp % tp_pool_size
            BY <1>1, <1>2, <4>3, <5>5, CongruentRemainders
          <5>7. QED  BY <2>2, <4>2, <5>6 DEF Slot
        <4>6. (next_tp - k) - (n - (k + 1)) = next_tp + 1 - n  BY <1>1, <1>2
        <4>7. next_tp - k \in Int /\ n - (k + 1) \in Int /\ next_tp + 1 \in Int  BY <1>2
        <4>8. Congruent(next_tp - k, n - (k + 1), CounterMod)
          BY <1>1, <1>2, <1>91, <4>6, <4>7, CongruentShift
        <4>9. k + 1 \in 1 .. tp_pool_size  BY <1>1, <4>5
        <4>10. Congruent(d, n - (k + 1), CounterMod)
          BY <1>1, <4>3, <4>4, <4>7, <4>8, CongruentOn
        <4>11. \E j \in 1 .. tp_pool_size : Congruent(d, n - j, CounterMod)
          BY <4>9, <4>10
        <4>12. QED  BY <1>4, <1>8, <3>1, <4>1, <4>2, <4>11 DEF DueOK, Slot
      <3>5. QED  BY <3>3, <3>4
    <2>3. QED  BY <2>1, <2>2
  <1>11. ASSUME allocated, NEW u \in InFlight' PROVE (tp_pool[Slot(ticket[u])].due)' \in Tickets
    <2>1. ticket \in [Threads -> Tickets] /\ pc \in [Threads -> Labels]
      BY DEF TypeInv, TypeOK, Labels
    <2>2. CASE u = t
      <3>1. ticket'[u] = next_tp  BY <2>1, <2>2 DEF Claim, RetInc
      <3>2. Slot(ticket[u])' = s  BY <1>4, <3>1 DEF Slot
      <3>3. QED  BY <1>2, <1>5, <3>2
    <2>3. CASE u # t
      <3>1. u \in InFlight /\ ticket'[u] = ticket[u]
        BY <2>1, <2>3 DEF Claim, Goto, InFlight, At
      <3>2. Slot(ticket[u])' = Slot(ticket[u])  BY <1>4, <3>1 DEF Slot
      <3>3. tp_pool[Slot(ticket[u])].due \in Tickets  BY <1>11, <3>1, <1>4 DEF RingInv
      <3>4. Slot(ticket[u]) \in 0 .. tp_pool_size - 1
        BY <2>1, <3>1, SlotRange DEF TypeInv, TypeOK, InFlight, At, Tickets
      <3>5. QED  BY <1>2, <1>5, <1>6, <3>2, <3>3, <3>4
    <2>4. QED  BY <2>2, <2>3
  <1>12. QED  BY <1>4, <1>10, <1>11 DEF RingInv

\* A tracer writes only into a slot that has been claimed.
LEMMA RingWrite ==
  ASSUME TypeInv, RingInv, NEW t \in Threads, WriteSrc(t) \/ WriteMsg(t)
  PROVE  RingInv'
  <1> DEFINE s == Slot(ticket[t])
  <1>1. /\ tp_pool \in [0 .. tp_pool_size - 1 -> Record] /\ pc \in [Threads -> Labels]
        /\ UNCHANGED <<tp_pool_size, allocated, ticket, next_tp>>
    BY DEF TypeInv, TypeOK, WriteSrc, WriteMsg, Labels, poolVars
  <1>2. s \in 0 .. tp_pool_size - 1  BY SlotRange DEF TypeInv, TypeOK, Tickets
  <1>3. t \in InFlight /\ InFlight' \subseteq InFlight
    BY <1>1 DEF WriteSrc, WriteMsg, Goto, InFlight, At
  <1>4. \A i \in 0 .. tp_pool_size - 1 :
          tp_pool'[i].due = tp_pool[i].due /\ (i # s => tp_pool'[i] = tp_pool[i])
    <2>1. CASE WriteSrc(t)  BY <1>1, <1>2, <2>1 DEF WriteSrc, Record
    <2>2. CASE WriteMsg(t)  BY <1>1, <1>2, <2>2 DEF WriteMsg, Record
    <2>3. QED  BY <2>1, <2>2
  <1>5. allocated => tp_pool[s].due \in Tickets  BY <1>3 DEF RingInv
  <1>6. NoTicket \notin Tickets  BY PoolAssumption DEF PoolAssumption
  <1>7. ASSUME allocated, NEW i \in 0 .. tp_pool_size - 1 PROVE DueOK(tp_pool[i], i, next_tp)'
    <2>1. DueOK(tp_pool[i], i, next_tp)  BY <1>7 DEF RingInv
    <2>2. tp_pool'[i].due = tp_pool[i].due  BY <1>4
    <2>3. i # s => tp_pool'[i].src = tp_pool[i].src  BY <1>4
    <2>4. i = s => tp_pool[i].due # NoTicket  BY <1>5, <1>6, <1>7
    <2>5. QED  BY <1>1, <2>1, <2>2, <2>3, <2>4 DEF DueOK, Slot
  <1>8. ASSUME allocated, NEW u \in InFlight' PROVE (tp_pool[Slot(ticket[u])].due)' \in Tickets
    <2>1. Slot(ticket[u]) \in 0 .. tp_pool_size - 1
      BY <1>3, SlotRange DEF TypeInv, TypeOK, InFlight, At, Tickets
    <2>2. tp_pool[Slot(ticket[u])].due \in Tickets  BY <1>3, <1>8 DEF RingInv
    <2>3. QED  BY <1>1, <1>4, <2>1, <2>2 DEF Slot
  <1>9. QED  BY <1>1, <1>7, <1>8 DEF RingInv

\* RingInv is inductive, given the exclusion.
LEMMA RingNext == TypeInv /\ ExclusionInv /\ RingInv /\ [Next]_vars => RingInv'
  <1> SUFFICES ASSUME TypeInv, ExclusionInv, RingInv, [Next]_vars PROVE RingInv'  OBVIOUS
  <1> USE DEF Goto, poolVars, InFlight, At
  <1>0. pc \in [Threads -> Labels]  BY DEF TypeInv, TypeOK, Labels
  <1>1. ASSUME NEW t \in Threads, Call(t) PROVE RingInv'
    <2>1. CASE LateInit(t)  BY <2>1 DEF LateInit, RingInv
    <2>2. CASE ~LateInit(t)
      <3>1. UNCHANGED <<next_tp, tp_pool, tp_pool_size, ticket, allocated>>
        BY <1>1, <2>2 DEF Call, MakeTracept, PrintTrace, RefuseSize, Reconfigure
      <3>2. InFlight' \subseteq InFlight
        BY <1>0, <1>1, <2>2 DEF Call, MakeTracept, PrintTrace, RefuseSize, Reconfigure
      <3>3. QED  BY <3>1, <3>2, RingFrame
    <2>3. QED  BY <2>1, <2>2
  <1>2. ASSUME NEW t \in Threads, Tracing(t) PROVE RingInv'
    <2>1. CASE EnterTracept(t)
      <3>1. InFlight' \subseteq InFlight  BY <1>0, <2>1 DEF EnterTracept
      <3>2. QED  BY <2>1, <3>1, RingFrame DEF EnterTracept
    <2>2. CASE LeaveTracept(t)
      <3>1. InFlight' \subseteq InFlight /\ t \notin InFlight  BY <1>0, <2>2 DEF LeaveTracept
      <3>2. \A u \in InFlight' : ticket'[u] = ticket[u]
        BY <3>1, <2>2 DEF LeaveTracept, TypeInv, TypeOK
      <3>3. UNCHANGED <<next_tp, tp_pool, tp_pool_size, allocated>>  BY <2>2 DEF LeaveTracept
      <3>4. \A u \in InFlight' : Slot(ticket[u])' = Slot(ticket[u])  BY <3>2, <3>3 DEF Slot
      <3>5. \A i \in 0 .. tp_pool_size - 1 :
              DueOK(tp_pool[i], i, next_tp) => DueOK(tp_pool[i], i, next_tp)'
        BY <3>3 DEF DueOK, Slot
      <3> HIDE DEF InFlight
      <3>6. QED  BY <3>1, <3>3, <3>4, <3>5 DEF RingInv
    <2>3. QED  BY <1>2, <2>1, <2>2, RingClaim, RingWrite DEF Tracing
  <1>3. ASSUME NEW t \in Threads, PrintStep(t) PROVE RingInv'
    <2>1. UNCHANGED <<next_tp, tp_pool, tp_pool_size, ticket, allocated>>
      BY <1>3 DEF PrintStep, EnterPrint, CopyPool, UnlockPrint, TooSmall, NothingNew, Return,
                  StartLoop, SkipBlank, EmitRecord, Advance, FinishPrint
    <2>2. InFlight' \subseteq InFlight
      BY <1>0, <1>3 DEF PrintStep, EnterPrint, CopyPool, UnlockPrint, TooSmall, NothingNew,
                  Return, StartLoop, SkipBlank, EmitRecord, Advance, FinishPrint
    <2>3. QED  BY <2>1, <2>2, RingFrame
  <1>4. ASSUME NEW t \in Threads, ResizeStep(t) PROVE RingInv'
    <2>1. CASE EnterReconfigure(t) \/ LeaveReconfigure(t)
      <3>1. InFlight' \subseteq InFlight
        BY <1>0, <2>1 DEF EnterReconfigure, LeaveReconfigure
      <3>2. QED  BY <2>1, <3>1, RingFrame DEF EnterReconfigure, LeaveReconfigure
    <2>2. CASE Realloc(t)
      <3>1. InFlight = {}
        BY <2>2, PoolAssumption DEF Realloc, ExclusionInv, LockInv, ReadHeld, WriteHeld,
           PoolAssumption
      <3>2. InFlight' = {}  BY <1>0, <2>2, <3>1 DEF Realloc
      <3>3. \A i \in 0 .. tp_pool_size' - 1 : DueOK(tp_pool[i], i, next_tp)'
        BY <2>2 DEF Realloc, Zeroed, Filled, DueOK
      <3>4. QED  BY <3>2, <3>3 DEF RingInv
    <2>3. CASE ReallocFails(t)  BY <2>3 DEF ReallocFails, RingInv
    <2>4. QED  BY <1>4, <2>1, <2>2, <2>3 DEF ResizeStep
  <1>5. CASE UNCHANGED vars  BY <1>5, RingFrame DEF vars
  <1>6. QED  BY <1>1, <1>2, <1>3, <1>4, <1>5 DEF Next, Dead

\* runtrace_reconfigure is kept apart from printing, and there is one printer.
CalledAlone == ~ReconfigureAnyTime /\ \A p, q \in Printers : p = q

\* The printer has made its copy, and works on it.
HasCopy(t) == pc[t] \in {"prunlock", "start", "loop"}

\* The copy is that of the ring as it was when the counter stood at last_tp.
CopyInv ==
  \A t \in Printers : HasCopy(t) =>
    /\ last_tp[t] \in IntValues
    /\ \A i \in 0 .. tp_pool_size - 1 :
         /\ DueOK(tp_pool_copy[i], i, last_tp[t])
         /\ tp_pool_copy[i].raced \/ Whole(tp_pool_copy[i])

\* Nobody has a copy at first.
LEMMA CopyInit == Init => CopyInv
  BY DEF Init, CopyInv, HasCopy, Printers, Threads

\* Steps that leave the copy and the printer's place in it alone.
LEMMA CopyFrame ==
  ASSUME CopyInv, UNCHANGED <<tp_pool_copy, tp_pool_size>>,
         \A u \in Printers : HasCopy(u)' => HasCopy(u) /\ last_tp'[u] = last_tp[u]
  PROVE  CopyInv'
  BY DEF CopyInv, DueOK, Slot, Whole

\* Nobody writes to the ring while it is copied.
LEMMA CopyTaken ==
  ASSUME CalledAlone, TypeInv, ExclusionInv, SlotInv, PrintInv, RingInv,
         NEW t \in Threads, CopyPool(t)
  PROVE  CopyInv'
  <1>1. /\ pc[t] = "copy" /\ last_tp'[t] = ToInt(next_tp) /\ tp_pool_copy' = tp_pool
        /\ UNCHANGED <<tp_pool_size, tp_pool>>
    BY DEF CopyPool, Goto, TypeInv, TypeOK
  <1>2. t \in Printers /\ allocated  BY <1>1 DEF PrintInv, Printing, At
  <1>3. \A u \in Printers : u = t  BY <1>2 DEF CalledAlone
  <1>4. InFlight = {}
    BY <1>1, PoolAssumption DEF ExclusionInv, LockInv, ReadHeld, WriteHeld, InFlight, At,
       PoolAssumption
  <1>5. \A i \in 0 .. tp_pool_size - 1 : tp_pool[i].raced \/ Whole(tp_pool[i])
    BY <1>4 DEF SlotInv, SlotOK
  <1>6. next_tp \in Int  BY DEF TypeInv, TypeOK, Tickets
  <1>7. PICK n : n = ToInt(next_tp)  OBVIOUS
  <1>8. n \in IntValues /\ Congruent(n, next_tp, CounterMod)  BY <1>6, <1>7, ToIntCongruent
  <1>9. /\ CounterMod \in Nat \ {0} /\ CounterMod \div 2 \in Nat
        /\ tp_pool_size \in Nat \ {0}
    BY Sizes DEF TypeInv, TypeOK
  <1>10. n \in Int  BY <1>8, <1>9 DEF IntValues
  <1>11. Congruent(next_tp, n, CounterMod)  BY <1>6, <1>8, <1>9, <1>10, CongruentBack
  <1>12. ASSUME NEW i \in 0 .. tp_pool_size - 1 PROVE DueOK(tp_pool[i], i, n)
    <2>1. DueOK(tp_pool[i], i, next_tp)  BY <1>2 DEF RingInv
    <2>2. PICK d : d = tp_pool[i].due  OBVIOUS
    <2>3. CASE d = NoTicket /\ tp_pool[i].src = NoTicket  BY <2>2, <2>3 DEF DueOK
    <2>4. CASE ~(d = NoTicket /\ tp_pool[i].src = NoTicket)
      <3>1. d \in Tickets /\ Slot(d) = i  BY <2>1, <2>2, <2>4 DEF DueOK
      <3>2. PICK k \in 1 .. tp_pool_size : Congruent(d, next_tp - k, CounterMod)
        BY <2>1, <2>2, <2>4 DEF DueOK
      <3>3. d \in Int /\ next_tp - k \in Int /\ n - k \in Int
            /\ (next_tp - k) - (n - k) = next_tp - n
        BY <1>6, <1>10, <3>1 DEF Tickets
      <3>4. Congruent(next_tp - k, n - k, CounterMod)
        BY <1>6, <1>9, <1>10, <1>11, <3>3, CongruentShift
      <3>5. Congruent(d, n - k, CounterMod)  BY <1>9, <3>2, <3>3, <3>4, CongruentOn
      <3>6. QED  BY <2>2, <3>1, <3>5 DEF DueOK
    <2>5. QED  BY <2>3, <2>4
  <1>13. \A i \in 0 .. tp_pool_size - 1 : DueOK(tp_pool_copy[i], i, last_tp[t])'
    BY <1>1, <1>7, <1>12 DEF DueOK, Slot
  <1>14. \A i \in 0 .. tp_pool_size' - 1 : (tp_pool_copy[i].raced \/ Whole(tp_pool_copy[i]))'
    BY <1>1, <1>5 DEF Whole
  <1>15. last_tp'[t] \in IntValues  BY <1>1, <1>7, <1>8
  <1>16. QED  BY <1>1, <1>3, <1>13, <1>14, <1>15 DEF CopyInv

\* CopyInv is inductive, given what keeps others off the copy.
LEMMA CopyNext ==
  ASSUME CalledAlone
  PROVE  TypeInv /\ ExclusionInv /\ SlotInv /\ PrintInv /\ RingInv /\ CopyInv /\ [Next]_vars
         => CopyInv'
  <1> SUFFICES ASSUME TypeInv, ExclusionInv, SlotInv, PrintInv, RingInv, CopyInv, [Next]_vars
               PROVE  CopyInv'
    OBVIOUS
  <1> USE DEF Goto, poolVars, printVars, HasCopy
  <1>0. pc \in [Threads -> Labels] /\ DOMAIN last_tp = Threads /\ Printers \subseteq Threads
    BY DEF TypeInv, TypeOK, Labels, Printers, Threads
  <1>1. ASSUME NEW t \in Threads, Call(t) PROVE CopyInv'
    <2>1. UNCHANGED <<tp_pool_copy, tp_pool_size, last_tp>>
      BY <1>1 DEF Call, MakeTracept, LateInit, PrintTrace, RefuseSize, Reconfigure
    <2>2. \A u \in Printers : HasCopy(u)' => HasCopy(u)
      BY <1>0, <1>1 DEF Call, MakeTracept, LateInit, PrintTrace, RefuseSize, Reconfigure
    <2>3. QED  BY <2>1, <2>2, CopyFrame
  <1>2. ASSUME NEW t \in Threads, Tracing(t) PROVE CopyInv'
    <2>1. UNCHANGED <<tp_pool_copy, tp_pool_size, last_tp>>
      BY <1>2 DEF Tracing, EnterTracept, Claim, WriteSrc, WriteMsg, LeaveTracept
    <2>2. \A u \in Printers : HasCopy(u)' => HasCopy(u)
      BY <1>0, <1>2 DEF Tracing, EnterTracept, Claim, WriteSrc, WriteMsg, LeaveTracept
    <2>3. QED  BY <2>1, <2>2, CopyFrame
  <1>3. ASSUME NEW t \in Threads, PrintStep(t) PROVE CopyInv'
    <2>1. CASE CopyPool(t)  BY <2>1, CopyTaken
    <2>2. CASE EnterPrint(t) \/ UnlockPrint(t) \/ SkipBlank(t) \/ EmitRecord(t)
      <3>1. UNCHANGED <<tp_pool_copy, tp_pool_size, last_tp>>
        BY <2>2 DEF EnterPrint, UnlockPrint, SkipBlank, EmitRecord, Advance
      <3>2. \A u \in Printers : HasCopy(u)' => HasCopy(u)
        BY <1>0, <2>2 DEF EnterPrint, UnlockPrint, SkipBlank, EmitRecord, Advance
      <3>3. QED  BY <3>1, <3>2, CopyFrame
    <2>3. CASE StartLoop(t)
      <3>1. UNCHANGED <<tp_pool_copy, tp_pool_size, last_tp>>  BY <2>3 DEF StartLoop
      <3>2. \A u \in Printers : HasCopy(u)' => HasCopy(u)  BY <1>0, <2>3 DEF StartLoop
      <3>3. QED  BY <3>1, <3>2, CopyFrame
    <2>4. CASE TooSmall(t) \/ NothingNew(t) \/ FinishPrint(t)
      <3>1. Return(t)  BY <2>4 DEF TooSmall, NothingNew, FinishPrint
      <3>2. \A u \in Printers : HasCopy(u)' => HasCopy(u) /\ u # t
        BY <1>0, <3>1 DEF Return
      <3>3. QED  BY <1>0, <3>1, <3>2, CopyFrame DEF Return
    <2>5. QED  BY <1>3, <2>1, <2>2, <2>3, <2>4 DEF PrintStep
  <1>4. ASSUME NEW t \in Threads, ResizeStep(t) PROVE CopyInv'
    <2>1. Printing = {}
      BY <1>4 DEF ResizeStep, EnterReconfigure, Realloc, ReallocFails, LeaveReconfigure,
                  PrintInv, Resizing, At
    <2>2. \A u \in Printers : ~HasCopy(u)'
      BY <1>0, <1>4, <2>1 DEF ResizeStep, EnterReconfigure, Realloc, ReallocFails,
         LeaveReconfigure, Printing, At
    <2>3. QED  BY <2>2 DEF CopyInv
  <1>5. CASE UNCHANGED vars  BY <1>5, CopyFrame DEF vars
  <1>6. QED  BY <1>1, <1>2, <1>3, <1>4, <1>5 DEF Next, Dead

\* A cursor and the position of a walk stay between 0 and the counter, and a
\* walk starts at most tp_pool_size before the counter as it was at the copy.
CursorInv ==
  \A f \in Followers : allocated =>
    /\ priv[f] \in 0 .. next_tp
    /\ HasCopy(f) => priv[f] <= last_tp[f] /\ last_tp[f] <= next_tp
    /\ pc[f] = "loop" => /\ priv[f] <= tp_num[f] /\ tp_num[f] <= last_tp[f]
                         /\ last_tp[f] - tp_num[f] <= tp_pool_size

\* Where a follower's walk begins: at its cursor, or at the oldest position of
\* the ring when that is further on.
LEMMA StartRange ==
  ASSUME TypeInv, InRange, CursorInv, allocated, NEW f \in Followers, StartLoop(f)
  PROVE  /\ last_tp[f] \in 0 .. next_tp /\ priv[f] \in 0 .. last_tp[f]
         /\ last_tp[f] - tp_pool_size \in IntValues
         /\ \/ tp_num'[f] = priv[f] /\ last_tp[f] - priv[f] <= tp_pool_size
            \/ tp_num'[f] = last_tp[f] - tp_pool_size /\ priv[f] < tp_num'[f]
  <1> DEFINE last == last_tp[f]
             size == tp_pool_size
  <1>1. /\ CounterMod \in Nat \ {0} /\ CounterMod \div 2 \in Nat
        /\ CounterMod = 2 * (CounterMod \div 2)
        /\ size \in Nat \ {0} /\ size >= 4 /\ size <= CounterMod \div 2
    BY Sizes DEF TypeInv, TypeOK
  <1>2. next_tp \in Nat /\ next_tp < CounterMod \div 2
    BY DEF InRange, TypeInv, TypeOK, Tickets
  <1>3. last \in Int
    BY IntsAreIntegers DEF TypeInv, TypeOK, Threads, Printers
  <1>4. pc[f] = "start" /\ DOMAIN tp_num = Threads /\ f \in Threads
    BY DEF StartLoop, Goto, TypeInv, TypeOK, Threads, Printers
  <1>5. priv[f] \in Int /\ 0 <= priv[f] /\ priv[f] <= last /\ last <= next_tp
    BY <1>2, <1>4 DEF CursorInv, HasCopy
  <1>6. last - size \in IntValues /\ last - (size - 1) \in IntValues
    BY <1>1, <1>2, <1>3, <1>5 DEF IntValues
  <1>7. last - size \in Int /\ last - (size - 1) \in Int  BY <1>1, <1>3
  <1>8. ToInt(last - size) = last - size /\ ToInt(last - (size - 1)) = last - (size - 1)
    BY <1>6, <1>7, ToIntCongruent
  <1>9. Minus(last, size) = {last - size} /\ Minus(last, size - 1) = {last - (size - 1)}
        /\ Oldest(last) = last - size
    BY <1>8 DEF Minus, Oldest
  <1> DEFINE lost(m, o) == f \in Followers /\ Overrun(priv[f], last, m, o)
             start(m, o) == IF f \in Followers /\ ~lost(m, o) THEN priv[f] ELSE Oldest(last)
  <1>10. PICK m \in Minus(last, size - 1), o \in Minus(last, size) : tp_num'[f] = start(m, o)
    BY <1>4 DEF StartLoop
  <1>11. m = last - (size - 1) /\ o = last - size  BY <1>9, <1>10
  <1>12. lost(m, o) <=> m >= 0 /\ priv[f] < o
    BY <1>1, <1>3, <1>5, <1>11 DEF Overrun
  <1>13. CASE lost(m, o)
    <2>1. tp_num'[f] = last - size  BY <1>9, <1>10, <1>13
    <2>2. QED  BY <1>3, <1>5, <1>6, <1>11, <1>12, <1>13, <2>1
  <1>14. CASE ~lost(m, o)
    <2>1. tp_num'[f] = priv[f]  BY <1>10, <1>14
    <2>2. last - priv[f] <= size  BY <1>1, <1>3, <1>5, <1>11, <1>12, <1>14
    <2>3. QED  BY <1>3, <1>5, <1>6, <2>1, <2>2
  <1>15. QED  BY <1>13, <1>14

\* Cursors start at 0.
LEMMA CursorInit == Init => CursorInv
  BY DEF Init, CursorInv, HasCopy, Threads, Printers

\* Steps that leave the cursors alone, and that of every walk in progress.
LEMMA CursorFrame ==
  ASSUME TypeInv, CursorInv, UNCHANGED <<priv, tp_pool_size, allocated>>,
         allocated => next_tp' \in Nat /\ next_tp <= next_tp',
         \A f \in Followers : HasCopy(f)' => HasCopy(f) /\ last_tp'[f] = last_tp[f],
         \A f \in Followers : pc'[f] = "loop" => pc[f] = "loop" /\ tp_num'[f] = tp_num[f]
  PROVE  CursorInv'
  <1> SUFFICES ASSUME NEW f \in Followers, allocated
               PROVE  /\ priv[f] \in 0 .. next_tp'
                      /\ HasCopy(f)' => priv[f] <= last_tp'[f] /\ last_tp'[f] <= next_tp'
                      /\ pc'[f] = "loop" => /\ priv[f] <= tp_num'[f] /\ tp_num'[f] <= last_tp'[f]
                                            /\ last_tp'[f] - tp_num'[f] <= tp_pool_size
    BY DEF CursorInv
  <1>1. next_tp \in Nat /\ priv[f] \in Int /\ last_tp[f] \in Int
    BY IntsAreIntegers DEF TypeInv, TypeOK, Tickets, Threads, Printers
  <1>2. priv[f] \in 0 .. next_tp  BY DEF CursorInv
  <1>3. HasCopy(f)' => priv[f] <= last_tp[f] /\ last_tp[f] <= next_tp  BY DEF CursorInv
  <1>4. pc'[f] = "loop" => /\ priv[f] <= tp_num[f] /\ tp_num[f] <= last_tp[f]
                           /\ last_tp[f] - tp_num[f] <= tp_pool_size
    BY DEF CursorInv
  <1>5. pc'[f] = "loop" => HasCopy(f)'  BY DEF HasCopy
  <1>6. priv[f] \in 0 .. next_tp'  BY <1>1, <1>2
  <1>7. HasCopy(f)' => priv[f] <= last_tp'[f] /\ last_tp'[f] <= next_tp'  BY <1>1, <1>3
  <1>8. QED  BY <1>4, <1>5, <1>6, <1>7

\* The steps of print_trace_stack move a cursor and its walk forward only, and
\* not beyond the counter.
LEMMA CursorPrintStep ==
  ASSUME TypeInv, InRange, PrintInv, CursorInv, NEW t \in Threads, PrintStep(t)
  PROVE  CursorInv'
  <1> USE DEF Goto, poolVars, printVars, HasCopy
  <1>0. /\ pc \in [Threads -> Labels] /\ DOMAIN last_tp = Threads /\ DOMAIN tp_num = Threads
        /\ Followers \subseteq Threads /\ next_tp \in Nat
    BY DEF TypeInv, TypeOK, Labels, Printers, Threads, Tickets
  <1>1. CASE EnterPrint(t) \/ UnlockPrint(t)
    <2>1. \A u \in Followers : HasCopy(u)' => HasCopy(u)
      BY <1>0, <1>1 DEF EnterPrint, UnlockPrint
    <2>2. \A u \in Followers : pc'[u] = "loop" => pc[u] = "loop"
      BY <1>0, <1>1 DEF EnterPrint, UnlockPrint
    <2>3. UNCHANGED <<priv, tp_pool_size, allocated, next_tp, last_tp, tp_num>>
      BY <1>1 DEF EnterPrint, UnlockPrint
    <2>4. QED  BY <1>0, <2>1, <2>2, <2>3, CursorFrame
  <1>2. CASE TooSmall(t) \/ NothingNew(t)
    <2>1. Return(t) /\ UNCHANGED priv  BY <1>2 DEF TooSmall, NothingNew
    <2>2. \A u \in Followers : HasCopy(u)' => HasCopy(u) /\ u # t  BY <1>0, <2>1 DEF Return
    <2>3. \A u \in Followers : pc'[u] = "loop" => pc[u] = "loop" /\ u # t
      BY <1>0, <2>1 DEF Return
    <2>4. UNCHANGED <<tp_pool_size, allocated, next_tp>>  BY <2>1 DEF Return
    <2>5. \A u \in Threads : u # t => last_tp'[u] = last_tp[u] /\ tp_num'[u] = tp_num[u]
      BY <1>0, <2>1 DEF Return
    <2>6. QED  BY <1>0, <2>1, <2>2, <2>3, <2>4, <2>5, CursorFrame
  <1>3. ASSUME ~(EnterPrint(t) \/ UnlockPrint(t)), ~(TooSmall(t) \/ NothingNew(t)),
               NEW f \in Followers, allocated'
        PROVE  /\ priv'[f] \in 0 .. next_tp'
               /\ HasCopy(f)' => priv'[f] <= last_tp'[f] /\ last_tp'[f] <= next_tp'
               /\ pc'[f] = "loop" => /\ priv'[f] <= tp_num'[f] /\ tp_num'[f] <= last_tp'[f]
                                     /\ last_tp'[f] - tp_num'[f] <= tp_pool_size'
    <2>1. UNCHANGED <<tp_pool_size, allocated, next_tp>>
      BY <1>3, PrintStep(t) DEF PrintStep, CopyPool, StartLoop, SkipBlank, EmitRecord,
         Advance, FinishPrint, Return
    <2>2. /\ priv[f] \in 0 .. next_tp
          /\ HasCopy(f) => priv[f] <= last_tp[f] /\ last_tp[f] <= next_tp
          /\ pc[f] = "loop" => /\ priv[f] <= tp_num[f] /\ tp_num[f] <= last_tp[f]
                               /\ last_tp[f] - tp_num[f] <= tp_pool_size
      BY <1>3, <2>1 DEF CursorInv
    <2>3. /\ priv[f] \in Int /\ last_tp[f] \in Int /\ tp_num[f] \in Int
          /\ tp_pool_size \in Nat \ {0} /\ CounterMod \div 2 \in Nat
          /\ next_tp < CounterMod \div 2
      BY IntsAreIntegers, Sizes DEF TypeInv, TypeOK, Threads, Printers, InRange
    <2>4. CASE f # t
      <3>1. pc'[f] = pc[f] /\ last_tp'[f] = last_tp[f] /\ tp_num'[f] = tp_num[f]
        BY <1>0, <1>3, <2>4, PrintStep(t) DEF PrintStep, CopyPool, StartLoop, SkipBlank,
           EmitRecord, Advance, FinishPrint, Return
      <3>2. priv'[f] = priv[f]
        BY <1>3, <2>4, PrintStep(t) DEF PrintStep, CopyPool, StartLoop, SkipBlank,
           EmitRecord, Advance, FinishPrint, Return
      <3>3. QED  BY <2>1, <2>2, <3>1, <3>2
    <2>5. CASE f = t /\ CopyPool(t)
      <3>1. next_tp \in IntValues  BY <1>0, <2>3 DEF IntValues
      <3>2. last_tp'[f] = next_tp  BY <1>0, <2>5, <3>1, ToIntCongruent DEF CopyPool
      <3>3. UNCHANGED priv /\ pc'[f] = "prunlock"  BY <1>0, <2>5 DEF CopyPool
      <3>4. QED  BY <1>0, <2>1, <2>2, <2>3, <3>2, <3>3
    <2>6. CASE f = t /\ StartLoop(t)
      <3>1. /\ last_tp[f] \in 0 .. next_tp /\ priv[f] \in 0 .. last_tp[f]
            /\ \/ tp_num'[f] = priv[f] /\ last_tp[f] - priv[f] <= tp_pool_size
               \/ tp_num'[f] = last_tp[f] - tp_pool_size /\ priv[f] < tp_num'[f]
        BY <1>3, <2>1, <2>6, StartRange
      <3>2. UNCHANGED <<priv, last_tp>>  BY <2>6 DEF StartLoop
      <3>3. QED  BY <1>0, <2>1, <2>2, <2>3, <3>1, <3>2
    <2>7. CASE f = t /\ (SkipBlank(t) \/ EmitRecord(t))
      <3>1. /\ pc[f] = "loop" /\ tp_num[f] # last_tp[f] /\ tp_num'[f] = ToInt(tp_num[f] + 1)
            /\ UNCHANGED <<priv, last_tp>>
        BY <1>0, <2>7 DEF SkipBlank, EmitRecord, Emitting, More, Advance
      <3>2. tp_num[f] + 1 \in IntValues /\ tp_num[f] + 1 \in Int
        BY <1>0, <2>2, <2>3, <3>1 DEF IntValues
      <3>3. tp_num'[f] = tp_num[f] + 1  BY <3>1, <3>2, ToIntCongruent
      <3>4. QED  BY <1>0, <2>1, <2>2, <2>3, <3>1, <3>3
    <2>8. CASE f = t /\ FinishPrint(t)
      <3>1. pc[f] = "loop" /\ pc'[f] = "idle" /\ priv'[f] = tp_num[f]
        BY <1>0, <2>8 DEF FinishPrint, Return
      <3>2. QED  BY <1>0, <2>1, <2>2, <2>3, <3>1
    <2>9. QED  BY <1>3, <2>4, <2>5, <2>6, <2>7, <2>8, PrintStep(t) DEF PrintStep
  <1>4. QED  BY <1>1, <1>2, <1>3 DEF CursorInv

\* CursorInv is inductive while the counter stays within an int.
LEMMA CursorNext ==
  TypeInv /\ InRange /\ PrintInv /\ CursorInv /\ [Next]_vars => CursorInv'
  <1> SUFFICES ASSUME TypeInv, InRange, PrintInv, CursorInv, [Next]_vars PROVE CursorInv'
    OBVIOUS
  <1> USE DEF Goto, poolVars, printVars, HasCopy
  <1>0. /\ pc \in [Threads -> Labels] /\ Followers \subseteq Threads /\ next_tp \in Nat
    BY DEF TypeInv, TypeOK, Labels, Printers, Threads, Tickets
  <1>1. ASSUME NEW t \in Threads, Call(t) PROVE CursorInv'
    <2>1. UNCHANGED <<tp_pool_size, last_tp, tp_num, priv, allocated>>
          /\ (allocated => next_tp' = next_tp)
      BY <1>1 DEF Call, MakeTracept, LateInit, PrintTrace, RefuseSize, Reconfigure
    <2>2. \A u \in Followers : HasCopy(u)' => HasCopy(u)
      BY <1>0, <1>1 DEF Call, MakeTracept, LateInit, PrintTrace, RefuseSize, Reconfigure
    <2>3. \A u \in Followers : pc'[u] = "loop" => pc[u] = "loop"
      BY <1>0, <1>1 DEF Call, MakeTracept, LateInit, PrintTrace, RefuseSize, Reconfigure
    <2>4. QED  BY <1>0, <2>1, <2>2, <2>3, CursorFrame
  <1>2. ASSUME NEW t \in Threads, Tracing(t) PROVE CursorInv'
    <2>1. UNCHANGED <<tp_pool_size, last_tp, tp_num, priv, allocated>>
      BY <1>2 DEF Tracing, EnterTracept, Claim, WriteSrc, WriteMsg, LeaveTracept
    <2>2. \A u \in Followers : HasCopy(u)' => HasCopy(u)
      BY <1>0, <1>2 DEF Tracing, EnterTracept, Claim, WriteSrc, WriteMsg, LeaveTracept
    <2>3. \A u \in Followers : pc'[u] = "loop" => pc[u] = "loop"
      BY <1>0, <1>2 DEF Tracing, EnterTracept, Claim, WriteSrc, WriteMsg, LeaveTracept
    <2>4. CASE Followers = {}  BY <2>4 DEF CursorInv
    <2>5. CASE Followers # {}
      <3>1. CounterMod \in Nat \ {0} /\ CounterMod = 2 * (CounterMod \div 2)
            /\ CounterMod \div 2 \in Nat
        BY Sizes DEF TypeInv, TypeOK
      <3>2. (next_tp + 1) % CounterMod = next_tp + 1
        <4>1. next_tp < CounterMod \div 2  BY <2>5 DEF InRange
        <4>2. next_tp + 1 \in 0 .. CounterMod - 1  BY <1>0, <3>1, <4>1
        <4>3. QED  BY <3>1, <4>2
      <3>3. next_tp' = next_tp \/ next_tp' = (next_tp + 1) % CounterMod
        BY <1>2 DEF Tracing, EnterTracept, Claim, WriteSrc, WriteMsg, LeaveTracept
      <3>4. next_tp' \in Nat /\ next_tp <= next_tp'  BY <1>0, <3>2, <3>3
      <3>5. QED  BY <2>1, <2>2, <2>3, <3>4, CursorFrame
    <2>6. QED  BY <2>4, <2>5
  <1>3. ASSUME NEW t \in Threads, PrintStep(t) PROVE CursorInv'
    BY <1>3, CursorPrintStep
  <1>4. ASSUME NEW t \in Threads, ResizeStep(t) PROVE CursorInv'
    <2>1. Printing = {}
      BY <1>4 DEF ResizeStep, EnterReconfigure, Realloc, ReallocFails, LeaveReconfigure,
                  PrintInv, Resizing, At
    <2>2. \A u \in Followers : ~HasCopy(u)' /\ pc'[u] # "loop"
      BY <1>0, <1>4, <2>1 DEF ResizeStep, EnterReconfigure, Realloc, ReallocFails,
         LeaveReconfigure, Printing, At
    <2>3. UNCHANGED <<priv, next_tp>> /\ (allocated' => allocated)
      BY <1>4 DEF ResizeStep, EnterReconfigure, Realloc, ReallocFails, LeaveReconfigure
    <2>4. QED  BY <2>2, <2>3 DEF CursorInv
  <1>5. CASE UNCHANGED vars  BY <1>0, <1>5, CursorFrame DEF vars
  <1>6. QED  BY <1>1, <1>2, <1>3, <1>4, <1>5 DEF Next, Dead

\* A printer walks through the tp_pool_size positions before the counter as it
\* was at the copy.
WalkInv ==
  \A t \in Printers : pc[t] = "loop" =>
    /\ tp_num[t] \in IntValues
    /\ \E k \in 0 .. tp_pool_size : Congruent(tp_num[t], last_tp[t] - k, CounterMod)

\* Nobody walks at first.
LEMMA WalkInit == Init => WalkInv
  BY DEF Init, WalkInv, Printers, Threads

\* Steps that leave every walk where it is.
LEMMA WalkFrame ==
  ASSUME WalkInv,
         \A u \in Printers : pc'[u] = "loop" =>
           /\ pc[u] = "loop" /\ tp_num'[u] = tp_num[u] /\ last_tp'[u] = last_tp[u]
           /\ tp_pool_size' = tp_pool_size
  PROVE  WalkInv'
  BY DEF WalkInv

\* A walk begins at the oldest position, or at the cursor of a follower that the
\* ring still covers.
LEMMA WalkStart ==
  ASSUME TypeInv, InRange, PrintInv, CopyInv, CursorInv, WalkInv,
         NEW t \in Threads, StartLoop(t)
  PROVE  WalkInv'
  <1>0. /\ pc \in [Threads -> Labels] /\ DOMAIN tp_num = Threads /\ Printers \subseteq Threads
    BY DEF TypeInv, TypeOK, Labels, Printers, Threads
  <1>1. /\ pc[t] = "start" /\ pc' = [pc EXCEPT ![t] = "loop"]
        /\ UNCHANGED <<last_tp, tp_pool_size>>
        /\ \A u \in Threads : u # t => tp_num'[u] = tp_num[u]
    BY <1>0 DEF StartLoop, Goto, poolVars
  <1>2. t \in Printers /\ allocated  BY <1>1 DEF PrintInv, Printing, At
  <1>3. last_tp[t] \in IntValues  BY <1>1, <1>2 DEF CopyInv, HasCopy
  <1>4. /\ CounterMod \in Nat \ {0} /\ CounterMod \div 2 \in Nat
        /\ tp_pool_size \in Nat \ {0} /\ tp_pool_size <= CounterMod \div 2
        /\ CounterMod = 2 * (CounterMod \div 2)
    BY Sizes DEF TypeInv, TypeOK
  <1>5. last_tp[t] \in Int /\ last_tp[t] - tp_pool_size \in Int
    BY <1>3, <1>4 DEF IntValues
  <1>6. PICK first : first = tp_num'[t]  OBVIOUS
  <1>7. first \in IntValues
        /\ \E k \in 0 .. tp_pool_size : Congruent(first, last_tp[t] - k, CounterMod)
    <2>1. CASE t \in Followers
      <3>1. /\ last_tp[t] \in 0 .. next_tp /\ priv[t] \in 0 .. last_tp[t]
            /\ last_tp[t] - tp_pool_size \in IntValues
            /\ \/ first = priv[t] /\ last_tp[t] - priv[t] <= tp_pool_size
               \/ first = last_tp[t] - tp_pool_size /\ priv[t] < first
        BY <1>2, <1>6, <2>1, StartRange
      <3>2. first \in Int /\ first >= 0 /\ first <= last_tp[t]
            /\ last_tp[t] - first <= tp_pool_size
        BY <1>4, <1>5, <3>1
      <3>3. first \in IntValues  BY <1>3, <1>4, <1>5, <3>2 DEF IntValues
      <3>4. last_tp[t] - first \in 0 .. tp_pool_size  BY <1>4, <1>5, <3>2
      <3>5. first - (last_tp[t] - (last_tp[t] - first)) = 0 * CounterMod
        BY <1>4, <1>5, <3>2
      <3>6. Congruent(first, last_tp[t] - (last_tp[t] - first), CounterMod)
        BY <3>5 DEF Congruent
      <3>7. QED  BY <3>3, <3>4, <3>6
    <2>2. CASE t \notin Followers
      <3>1. first = ToInt(last_tp[t] - tp_pool_size)
        BY <1>0, <1>6, <2>2 DEF StartLoop, Oldest
      <3>2. first \in IntValues /\ Congruent(first, last_tp[t] - tp_pool_size, CounterMod)
        BY <1>5, <3>1, ToIntCongruent
      <3>3. tp_pool_size \in 0 .. tp_pool_size  BY <1>4
      <3>4. QED  BY <3>2, <3>3
    <2>3. QED  BY <2>1, <2>2
  <1>8. ASSUME NEW u \in Printers, pc'[u] = "loop"
        PROVE  /\ tp_num'[u] \in IntValues
               /\ \E k \in 0 .. tp_pool_size : Congruent(tp_num'[u], last_tp[u] - k, CounterMod)
    <2>1. CASE u = t  BY <1>6, <1>7, <2>1
    <2>2. CASE u # t
      <3>1. pc[u] = "loop" /\ tp_num'[u] = tp_num[u]  BY <1>0, <1>1, <1>8, <2>2
      <3>2. QED  BY <3>1 DEF WalkInv
    <2>3. QED  BY <2>1, <2>2
  <1>9. QED  BY <1>1, <1>8 DEF WalkInv

\* A walk goes on by one, and ends at last_tp.
LEMMA WalkAdvance ==
  ASSUME TypeInv, PrintInv, CopyInv, WalkInv, NEW t \in Threads, Advance(t), More(t)
  PROVE  WalkInv'
  <1>0. /\ pc \in [Threads -> Labels] /\ DOMAIN tp_num = Threads /\ Printers \subseteq Threads
    BY DEF TypeInv, TypeOK, Labels, Printers, Threads
  <1>1. /\ pc[t] = "loop" /\ pc'[t] = "loop" /\ tp_num[t] # last_tp[t]
        /\ \A u \in Threads : u # t => pc'[u] = pc[u] /\ tp_num'[u] = tp_num[u]
        /\ tp_num'[t] = ToInt(tp_num[t] + 1) /\ UNCHANGED <<last_tp, tp_pool_size>>
    BY <1>0 DEF Advance, More, Goto, poolVars
  <1>2. t \in Printers  BY <1>1 DEF PrintInv, Printing, At
  <1>3. /\ CounterMod \in Nat \ {0} /\ CounterMod \div 2 \in Nat
        /\ tp_pool_size \in Nat \ {0} /\ CounterMod = 2 * (CounterMod \div 2)
    BY Sizes DEF TypeInv, TypeOK
  <1>4. PICK num, last : num = tp_num[t] /\ last = last_tp[t]  OBVIOUS
  <1>5. num \in IntValues /\ last \in IntValues
    BY <1>1, <1>2, <1>4 DEF WalkInv, CopyInv, HasCopy
  <1>6. num \in Int /\ last \in Int /\ num - last < CounterMod /\ last - num < CounterMod
    BY <1>3, <1>5 DEF IntValues
  <1>7. PICK k \in 0 .. tp_pool_size : Congruent(num, last - k, CounterMod)
    BY <1>1, <1>2, <1>4 DEF WalkInv
  <1>8. k # 0
    <2>1. SUFFICES ASSUME k = 0 PROVE FALSE  OBVIOUS
    <2>2. last - k = last  BY <1>6, <2>1
    <2>3. num = last  BY <1>3, <1>6, <1>7, <2>2, CongruentNear
    <2>4. QED  BY <1>1, <1>4, <2>3
  <1>9. k - 1 \in 0 .. tp_pool_size  BY <1>3, <1>8
  <1>10. PICK next : next = ToInt(num + 1)  OBVIOUS
  <1>11. next \in IntValues /\ Congruent(next, num + 1, CounterMod)
    BY <1>6, <1>10, ToIntCongruent
  <1>12. next \in Int /\ num + 1 \in Int /\ last - (k - 1) \in Int /\ last - k \in Int
    BY <1>3, <1>6, <1>11 DEF IntValues
  <1>13. (num + 1) - (last - (k - 1)) = num - (last - k)  BY <1>6
  <1>14. Congruent(num + 1, last - (k - 1), CounterMod)
    BY <1>3, <1>6, <1>7, <1>12, <1>13, CongruentShift
  <1>15. Congruent(next, last - (k - 1), CounterMod)
    BY <1>3, <1>11, <1>12, <1>14, CongruentOn
  <1>16. \E j \in 0 .. tp_pool_size : Congruent(next, last - j, CounterMod)
    BY <1>9, <1>15
  <1>17. ASSUME NEW u \in Printers, pc'[u] = "loop"
         PROVE  /\ tp_num'[u] \in IntValues
                /\ \E j \in 0 .. tp_pool_size : Congruent(tp_num'[u], last_tp[u] - j, CounterMod)
    <2>1. CASE u = t  BY <1>1, <1>4, <1>10, <1>11, <1>16, <2>1
    <2>2. CASE u # t
      <3>1. pc[u] = "loop" /\ tp_num'[u] = tp_num[u]  BY <1>0, <1>1, <1>17, <2>2
      <3>2. QED  BY <3>1 DEF WalkInv
    <2>3. QED  BY <2>1, <2>2
  <1>18. QED  BY <1>1, <1>17 DEF WalkInv

\* WalkInv is inductive, given the copy and the cursors.
LEMMA WalkNext ==
  TypeInv /\ InRange /\ PrintInv /\ CopyInv /\ CursorInv /\ WalkInv /\ [Next]_vars => WalkInv'
  <1> SUFFICES ASSUME TypeInv, InRange, PrintInv, CopyInv, CursorInv, WalkInv, [Next]_vars
               PROVE  WalkInv'
    OBVIOUS
  <1> USE DEF Goto, poolVars, printVars
  <1>0. /\ pc \in [Threads -> Labels] /\ DOMAIN tp_num = Threads /\ DOMAIN last_tp = Threads
        /\ Printers \subseteq Threads
    BY DEF TypeInv, TypeOK, Labels, Printers, Threads
  <1>1. ASSUME NEW t \in Threads, Call(t) PROVE WalkInv'
    <2>1. UNCHANGED <<tp_num, tp_pool_size, last_tp>>
      BY <1>1 DEF Call, MakeTracept, LateInit, PrintTrace, RefuseSize, Reconfigure
    <2>2. \A u \in Printers : pc'[u] = "loop" => pc[u] = "loop"
      BY <1>0, <1>1 DEF Call, MakeTracept, LateInit, PrintTrace, RefuseSize, Reconfigure
    <2>3. QED  BY <2>1, <2>2, WalkFrame
  <1>2. ASSUME NEW t \in Threads, Tracing(t) PROVE WalkInv'
    <2>1. UNCHANGED <<tp_num, tp_pool_size, last_tp>>
      BY <1>2 DEF Tracing, EnterTracept, Claim, WriteSrc, WriteMsg, LeaveTracept
    <2>2. \A u \in Printers : pc'[u] = "loop" => pc[u] = "loop"
      BY <1>0, <1>2 DEF Tracing, EnterTracept, Claim, WriteSrc, WriteMsg, LeaveTracept
    <2>3. QED  BY <2>1, <2>2, WalkFrame
  <1>3. ASSUME NEW t \in Threads, PrintStep(t) PROVE WalkInv'
    <2>1. CASE EnterPrint(t) \/ CopyPool(t) \/ UnlockPrint(t)
      <3>1. \A u \in Printers : pc'[u] = "loop" => pc[u] = "loop" /\ u # t
        BY <1>0, <2>1 DEF EnterPrint, CopyPool, UnlockPrint
      <3>2. /\ UNCHANGED <<tp_num, tp_pool_size>>
            /\ \A u \in Threads : u # t => last_tp'[u] = last_tp[u]
        BY <1>0, <2>1 DEF EnterPrint, CopyPool, UnlockPrint
      <3>3. QED  BY <1>0, <3>1, <3>2, WalkFrame
    <2>2. CASE TooSmall(t) \/ NothingNew(t) \/ FinishPrint(t)
      <3>1. Return(t)  BY <2>2 DEF TooSmall, NothingNew, FinishPrint
      <3>2. \A u \in Printers : pc'[u] = "loop" => pc[u] = "loop" /\ u # t
        BY <1>0, <3>1 DEF Return
      <3>3. /\ UNCHANGED tp_pool_size
            /\ \A u \in Threads : u # t => last_tp'[u] = last_tp[u] /\ tp_num'[u] = tp_num[u]
        BY <1>0, <3>1 DEF Return
      <3>4. QED  BY <1>0, <3>2, <3>3, WalkFrame
    <2>3. CASE StartLoop(t)  BY <2>3, WalkStart
    <2>4. CASE SkipBlank(t) \/ EmitRecord(t)
      BY <2>4, WalkAdvance DEF SkipBlank, EmitRecord, Emitting
    <2>5. QED  BY <1>3, <2>1, <2>2, <2>3, <2>4 DEF PrintStep
  <1>4. ASSUME NEW t \in Threads, ResizeStep(t) PROVE WalkInv'
    <2>1. Printing = {}
      BY <1>4 DEF ResizeStep, EnterReconfigure, Realloc, ReallocFails, LeaveReconfigure,
                  PrintInv, Resizing, At
    <2>2. \A u \in Printers : pc'[u] # "loop"
      BY <1>0, <1>4, <2>1 DEF ResizeStep, EnterReconfigure, Realloc, ReallocFails,
         LeaveReconfigure, Printing, At
    <2>3. QED  BY <2>2 DEF WalkInv
  <1>5. CASE UNCHANGED vars  BY <1>5, WalkFrame DEF vars
  <1>6. QED  BY <1>1, <1>2, <1>3, <1>4, <1>5 DEF Next, Dead

\* What holds while a lone printer prints.
PrinterInv ==
  /\ TypeInv /\ ExclusionInv /\ SlotInv
  /\ PrintInv /\ RingInv /\ CopyInv /\ CursorInv /\ WalkInv

\* At first, and after every step for as long as the counter is an int.
LEMMA PrinterInit == Init => PrinterInv
  BY TypeInit, ExclusionInit, SlotInit, PrintInit, RingInit, CopyInit, CursorInit, WalkInit
     DEF PrinterInv

\* The parts together are inductive.
LEMMA PrinterNext ==
  ASSUME CalledAlone
  PROVE  PrinterInv /\ InRange /\ [Next]_vars => PrinterInv'
  <1>1. ~ReconfigureAnyTime  BY DEF CalledAlone
  <1>2. QED
    BY <1>1, TypeNext, ExclusionNext, SlotNext, PrintNext, RingNext, CopyNext, CursorNext,
       WalkNext DEF PrinterInv

\* Two positions of the copied ring in the same slot are the same position.
LEMMA SameSlot ==
  ASSUME TypeInv, NEW a \in Int, NEW b \in Int, NEW last \in Int,
         NEW j \in 1 .. tp_pool_size, NEW k \in 1 .. tp_pool_size,
         Congruent(a, last - j, CounterMod), Congruent(b, last - k, CounterMod),
         Slot(a) = Slot(b)
  PROVE  a % CounterMod = b % CounterMod
  <1>1. /\ CounterMod \in Nat \ {0} /\ tp_pool_size \in Nat \ {0}
        /\ \A x, y \in Int : Congruent(x, y, CounterMod) => Congruent(x, y, tp_pool_size)
    BY Sizes DEF TypeInv, TypeOK
  <1>2. PICK p, q : p = last - j /\ q = last - k  OBVIOUS
  <1>3. p \in Int /\ q \in Int /\ p - q < tp_pool_size /\ q - p < tp_pool_size
    BY <1>1, <1>2
  <1>4. Congruent(a, p, CounterMod) /\ Congruent(b, q, CounterMod)  BY <1>2
  <1>5. Congruent(p, a, tp_pool_size) /\ Congruent(b, q, tp_pool_size)
    BY <1>1, <1>3, <1>4, CongruentBack
  <1>6. Congruent(a, b, tp_pool_size)  BY <1>1, CongruentRemainders DEF Slot
  <1>7. Congruent(p, b, tp_pool_size)  BY <1>1, <1>3, <1>5, <1>6, CongruentOn
  <1>8. Congruent(p, q, tp_pool_size)  BY <1>1, <1>3, <1>5, <1>7, CongruentOn
  <1>9. p = q  BY <1>1, <1>3, <1>8, CongruentNear
  <1>10. Congruent(p, b, CounterMod)  BY <1>1, <1>3, <1>4, <1>9, CongruentBack
  <1>11. Congruent(a, b, CounterMod)  BY <1>1, <1>3, <1>4, <1>10, CongruentOn
  <1>12. QED  BY <1>1, <1>11, CongruentRemainders

\* What is due in a slot of the copy is the tracepoint of the position a printer
\* walks over, if there is anything in the slot.
LEMMA DueAtPosition ==
  ASSUME PrinterInv, NEW t \in Printers, pc[t] = "loop", More(t),
         Current(t).due # NoTicket \/ Current(t).src # NoTicket
  PROVE  Current(t).due \in Tickets /\ Current(t).due = tp_num[t] % CounterMod
  <1> USE DEF PrinterInv
  <1>1. /\ CounterMod \in Nat \ {0} /\ CounterMod \div 2 \in Nat
        /\ tp_pool_size \in Nat \ {0} /\ CounterMod = 2 * (CounterMod \div 2)
    BY Sizes DEF TypeInv, TypeOK
  <1>2. PICK num, last, d : num = tp_num[t] /\ last = last_tp[t] /\ d = Current(t).due
    OBVIOUS
  <1>3. num \in IntValues /\ last \in IntValues
    BY <1>2 DEF WalkInv, CopyInv, HasCopy
  <1>4. num \in Int /\ last \in Int /\ num - last < CounterMod /\ last - num < CounterMod
    BY <1>1, <1>3 DEF IntValues
  <1>5. Slot(num) \in 0 .. tp_pool_size - 1  BY <1>4, SlotRange DEF TypeInv, TypeOK
  <1>6. DueOK(Current(t), Slot(num), last)
    BY <1>2, <1>5 DEF CopyInv, HasCopy, Current
  <1>7. d \in Tickets /\ Slot(d) = Slot(num)  BY <1>2, <1>6 DEF DueOK
  <1>8. PICK j \in 1 .. tp_pool_size : Congruent(d, last - j, CounterMod)
    BY <1>2, <1>6 DEF DueOK
  <1>9. PICK k \in 0 .. tp_pool_size : Congruent(num, last - k, CounterMod)
    BY <1>2 DEF WalkInv
  <1>10. k \in 1 .. tp_pool_size
    <2>1. SUFFICES ASSUME k = 0 PROVE FALSE  BY <1>1
    <2>2. last - k = last  BY <1>4, <2>1
    <2>3. num = last  BY <1>1, <1>4, <1>9, <2>2, CongruentNear
    <2>4. QED  BY <1>2, <2>3 DEF More
  <1>11. d \in Int /\ d \in 0 .. CounterMod - 1  BY <1>1, <1>7 DEF Tickets
  <1>12. d % CounterMod = num % CounterMod
    BY <1>4, <1>7, <1>8, <1>9, <1>10, <1>11, SameSlot
  <1>13. d % CounterMod = d  BY <1>1, <1>11
  <1>14. QED  BY <1>2, <1>7, <1>12, <1>13

\* print_trace_stack prints at each position the tracepoint of that position,
\* whole, whatever the number of tracers and however often the counter has gone
\* round (a follower's: up to the largest int).
THEOREM PrintsPositions ==
  ASSUME CalledAlone
  PROVE  Spec /\ []InRange => []PrintsItsPosition
  <1>1. PrinterInv => PrintsItsPosition
    <2> SUFFICES ASSUME PrinterInv, NEW t \in Printers, Emitting(t), ~Current(t).raced
                 PROVE  Current(t).src = tp_num[t] % CounterMod /\ Whole(Current(t))
      BY DEF PrintsItsPosition
    <2>1. pc[t] = "loop" /\ More(t) /\ Current(t).src # NoTicket
      BY DEF Emitting, Blank
    <2>2. Current(t).due = tp_num[t] % CounterMod  BY <2>1, DueAtPosition
    <2>3. tp_num[t] \in Int
      BY IntsAreIntegers DEF PrinterInv, TypeInv, TypeOK, Threads, Printers
    <2>4. Slot(tp_num[t]) \in 0 .. tp_pool_size - 1
      BY <2>3, SlotRange DEF PrinterInv, TypeInv, TypeOK
    <2>5. Whole(Current(t))  BY <2>1, <2>4 DEF PrinterInv, CopyInv, HasCopy, Current
    <2>6. QED  BY <2>2, <2>5 DEF Whole
  <1>2. QED  BY PrinterInit, PrinterNext, <1>1, PTL DEF Spec

\* Only StartLoop takes a thread into the loop (lines 497-521).
LEMMA OnlyStartLoop ==
  ASSUME TypeInv, Next, NEW f \in Threads, pc[f] = "start", pc'[f] = "loop"
  PROVE  StartLoop(f)
  <1>0. pc \in [Threads -> Labels]  BY DEF TypeInv, TypeOK, Labels
  <1>1. pc' # pc  OBVIOUS
  <1>2. PICK t \in Threads : Call(t) \/ Tracing(t) \/ PrintStep(t) \/ ResizeStep(t)
    BY <1>1 DEF Next, Dead, vars
  <1> USE DEF Goto
  <1>3. ~Call(t)
    BY <1>0, <1>1 DEF Call, MakeTracept, LateInit, PrintTrace, RefuseSize, Reconfigure
  <1>4. ~Tracing(t)
    BY <1>0 DEF Tracing, EnterTracept, Claim, WriteSrc, WriteMsg, LeaveTracept
  <1>5. ~ResizeStep(t)
    BY <1>0 DEF ResizeStep, EnterReconfigure, Realloc, ReallocFails, LeaveReconfigure
  <1>6. ~(EnterPrint(t) \/ CopyPool(t) \/ UnlockPrint(t))
    BY <1>0 DEF EnterPrint, CopyPool, UnlockPrint
  <1>7. ~(TooSmall(t) \/ NothingNew(t) \/ FinishPrint(t))
    BY <1>0 DEF TooSmall, NothingNew, FinishPrint, Return
  <1>8. ~(SkipBlank(t) \/ EmitRecord(t))
    BY <1>0 DEF SkipBlank, EmitRecord, Advance
  <1>9. StartLoop(t)  BY <1>2, <1>3, <1>4, <1>5, <1>6, <1>7, <1>8 DEF PrintStep
  <1>10. t = f  BY <1>0, <1>9 DEF StartLoop
  <1>11. QED  BY <1>9, <1>10

\* A follower that is lapped is told so, for every pool size and any number of
\* tracers, for as long as the counter has never passed the largest int.
THEOREM LapsNoticed ==
  ASSUME CalledAlone
  PROVE  Spec /\ []InRange => LapIsNoticed
  <1>1. PrinterInv /\ InRange /\ [Next]_vars =>
          [\A f \in Followers :
             /\ pc[f] = "start" /\ pc'[f] = "loop" /\ tp_num'[f] = priv[f]
             /\ InRange
             => (last_tp[f] - priv[f]) % CounterMod <= tp_pool_size]_vars
    <2> SUFFICES ASSUME PrinterInv, InRange, Next, NEW f \in Followers,
                        pc[f] = "start", pc'[f] = "loop", tp_num'[f] = priv[f]
                 PROVE  (last_tp[f] - priv[f]) % CounterMod <= tp_pool_size
      OBVIOUS
    <2> USE DEF PrinterInv
    <2>1. f \in Threads  BY DEF Threads, Printers
    <2>2. StartLoop(f)  BY <2>1, OnlyStartLoop
    <2>3. allocated  BY <2>1 DEF PrintInv, At
    <2>4. /\ last_tp[f] \in 0 .. next_tp /\ priv[f] \in 0 .. last_tp[f]
          /\ last_tp[f] - priv[f] <= tp_pool_size
      <3>1. next_tp \in Nat /\ tp_pool_size \in Nat
        BY Sizes DEF TypeInv, TypeOK, Tickets
      <3>2. QED  BY <2>2, <2>3, <3>1, StartRange
    <2>5. /\ CounterMod \in Nat \ {0} /\ CounterMod \div 2 \in Nat
          /\ CounterMod = 2 * (CounterMod \div 2) /\ tp_pool_size <= CounterMod \div 2
          /\ tp_pool_size \in Nat \ {0}
      BY Sizes DEF TypeInv, TypeOK
    <2>6. next_tp \in Nat  BY DEF TypeInv, TypeOK, Tickets
    <2>7. PICK n : n = last_tp[f] - priv[f]  OBVIOUS
    <2>8. n \in 0 .. CounterMod - 1 /\ n <= tp_pool_size  BY <2>4, <2>5, <2>6, <2>7
    <2>9. n % CounterMod = n  BY <2>5, <2>8
    <2>10. QED  BY <2>7, <2>8, <2>9
  <1>2. QED  BY PrinterInit, PrinterNext, <1>1, PTL DEF Spec, LapIsNoticed

\* A follower's cursor is moved only over what the ring no longer holds.
THEOREM SkipsOverwritten ==
  ASSUME CalledAlone
  PROVE  Spec /\ []InRange => SkipsOnlyTheOverwritten
  <1>1. PrinterInv /\ InRange /\ [Next]_vars =>
          [\A f \in Followers : pc[f] = "start" /\ pc'[f] = "loop" =>
             \A i \in DOMAIN tp_pool_copy : LET r == tp_pool_copy[i] IN
               r.raced \/ r.src \notin {n % CounterMod : n \in priv[f] .. tp_num'[f] - 1}]_vars
    <2> SUFFICES ASSUME PrinterInv, InRange, Next, NEW f \in Followers,
                        pc[f] = "start", pc'[f] = "loop",
                        NEW i \in DOMAIN tp_pool_copy, ~tp_pool_copy[i].raced,
                        NEW n \in priv[f] .. tp_num'[f] - 1,
                        tp_pool_copy[i].src = n % CounterMod
                 PROVE  FALSE
      OBVIOUS
    <2> USE DEF PrinterInv
    <2>1. f \in Threads /\ f \in Printers  BY DEF Threads, Printers
    <2>2. StartLoop(f)  BY <2>1, OnlyStartLoop
    <2>3. allocated  BY <2>1 DEF PrintInv, At
    <2>4. PICK last : last = last_tp[f]  OBVIOUS
    <2>5. /\ last \in 0 .. next_tp /\ priv[f] \in 0 .. last
          /\ \/ tp_num'[f] = priv[f]
             \/ tp_num'[f] = last - tp_pool_size /\ priv[f] < tp_num'[f]
      BY <2>2, <2>3, <2>4, StartRange
    <2>6. /\ CounterMod \in Nat \ {0} /\ CounterMod \div 2 \in Nat
          /\ CounterMod = 2 * (CounterMod \div 2)
          /\ tp_pool_size \in Nat \ {0} /\ next_tp \in Nat
      BY Sizes DEF TypeInv, TypeOK, Tickets
    <2>7. next_tp < CounterMod \div 2  BY DEF InRange
    <2>8. priv[f] \in Int /\ last \in Int  BY <2>5, <2>6
    <2>9. tp_num'[f] = last - tp_pool_size  BY <2>5, <2>8
    <2>10. n \in Int /\ 0 <= n /\ n < last - tp_pool_size  BY <2>5, <2>6, <2>8, <2>9
    <2>11. n \in 0 .. CounterMod - 1  BY <2>5, <2>6, <2>7, <2>8, <2>10
    <2>12. n % CounterMod = n  BY <2>6, <2>11
    <2>13. n \in Tickets  BY <2>11 DEF Tickets
    <2>14. i \in 0 .. tp_pool_size - 1  BY DEF TypeInv, TypeOK
    <2>15. DueOK(tp_pool_copy[i], i, last) /\ Whole(tp_pool_copy[i])
      BY <2>1, <2>4, <2>14 DEF CopyInv, HasCopy
    <2>16. tp_pool_copy[i].due = n  BY <2>12, <2>15 DEF Whole
    <2>17. n # NoTicket  BY <2>13, PoolAssumption DEF PoolAssumption
    <2>18. PICK k \in 1 .. tp_pool_size : Congruent(n, last - k, CounterMod)
      BY <2>15, <2>16, <2>17 DEF DueOK
    <2>19. PICK p : p = last - k  OBVIOUS
    <2>20. p \in Int /\ n < p /\ p - n < CounterMod
      BY <2>5, <2>6, <2>7, <2>8, <2>10, <2>19
    <2>21. p = n  BY <2>6, <2>10, <2>18, <2>19, <2>20, CongruentNear
    <2>22. QED  BY <2>10, <2>20, <2>21
  <1>2. QED  BY PrinterInit, PrinterNext, <1>1, PTL DEF Spec, SkipsOnlyTheOverwritten

-----------------------------------------------------------------------------
(* No tracepoint twice.  A record that a follower has been given lies       *)
(* behind it, or its slot has been claimed again and waits for its writer.  *)

\* The tracer with ticket n has yet to overwrite what its slot holds.
WritesSrc(n) == \E u \in Threads : pc[u] = "src" /\ ticket[u] = n

\* n is a ticket, no older than m.
Since(n, m) == n \in Nat /\ m <= n

RingBelow ==
  \A i \in 0 .. tp_pool_size - 1 :
    \/ tp_pool[i].src = NoTicket
    \/ tp_pool[i].src \in 0 .. next_tp - 1 /\ Slot(tp_pool[i].src) = i

\* Whoever has yet to write is newer than all that was delivered or copied.
WriterInv(f) ==
  \A u \in Threads : pc[u] = "src" =>
    /\ ticket[u] \in 0 .. next_tp - 1
    /\ Since(tp_pool[Slot(ticket[u])].due, ticket[u])
    /\ \A v \in delivered[f] : v < ticket[u]
    /\ HasCopy(f) => last_tp[f] <= ticket[u]

DeliveredInv(f) ==
  /\ delivered[f] \subseteq 0 .. next_tp - 1
  /\ \A i \in 0 .. tp_pool_size - 1 :
       tp_pool[i].src \in delivered[f] =>
         tp_pool[i].due \in 0 .. Pos(f) - 1 \/ WritesSrc(tp_pool[i].due)

\* The slot holds what was copied from it, or something newer is on its way.
Kept(f, i) ==
  \/ tp_pool[i].due = tp_pool_copy[i].due /\ tp_pool[i].src = tp_pool_copy[i].src
  \/ /\ Since(tp_pool[i].due, last_tp[f])
     /\ WritesSrc(tp_pool[i].due) \/ Since(tp_pool[i].src, last_tp[f])

CopiedInv(f) ==
  HasCopy(f) => \A i \in 0 .. tp_pool_size - 1 :
    /\ \/ tp_pool_copy[i].src = NoTicket
       \/ tp_pool_copy[i].src \in 0 .. last_tp[f] - 1 /\ Slot(tp_pool_copy[i].src) = i
    /\ tp_pool_copy[i].src \in delivered[f] => tp_pool_copy[i].due \in 0 .. Pos(f) - 1
    /\ Kept(f, i)

OnceInv ==
  \A f \in Followers : allocated =>
    RingBelow /\ WriterInv(f) /\ DeliveredInv(f) /\ CopiedInv(f)

\* Nothing has been delivered at first.
LEMMA OnceInit == Init => OnceInv
  <1> SUFFICES ASSUME Init PROVE OnceInv  OBVIOUS
  <1>1. RingBelow  BY DEF Init, RingBelow, Zeroed, Filled
  <1>2. \A u \in Threads : pc[u] = "idle"  BY DEF Init
  <1>3. \A f \in Followers : WriterInv(f)  BY <1>2 DEF WriterInv
  <1>4. \A f \in Followers : DeliveredInv(f)  BY DEF Init, DeliveredInv
  <1>5. \A f \in Followers : CopiedInv(f)
    BY <1>2 DEF CopiedInv, HasCopy, Threads, Printers
  <1>6. QED  BY <1>1, <1>3, <1>4, <1>5 DEF OnceInv

\* Steps that change no record's ticket, deliver nothing and move the follower
\* forward, if at all.
LEMMA OnceFrame ==
  ASSUME TypeInv, OnceInv,
         UNCHANGED <<next_tp, tp_pool_size, tp_pool_copy, allocated, delivered>>,
         \A i \in 0 .. tp_pool_size - 1 :
           tp_pool'[i].src = tp_pool[i].src /\ tp_pool'[i].due = tp_pool[i].due,
         \A u \in Threads : pc'[u] = "src" <=> pc[u] = "src",
         \A u \in Threads : pc[u] = "src" => ticket'[u] = ticket[u],
         \A f \in Followers : HasCopy(f)' => HasCopy(f) /\ last_tp'[f] = last_tp[f],
         \A f \in Followers : allocated => Pos(f)' \in Int /\ Pos(f) <= Pos(f)'
  PROVE  OnceInv'
  <1> SUFFICES ASSUME NEW f \in Followers, allocated
               PROVE  (RingBelow /\ WriterInv(f) /\ DeliveredInv(f) /\ CopiedInv(f))'
    BY DEF OnceInv
  <1>1. RingBelow /\ WriterInv(f) /\ DeliveredInv(f) /\ CopiedInv(f)  BY DEF OnceInv
  <1>2. \A n : Slot(n)' = Slot(n)  BY DEF Slot
  <1>3. RingBelow'  BY <1>1, <1>2 DEF RingBelow
  <1>4. \A u \in Threads : pc[u] = "src" => Slot(ticket[u]) \in 0 .. tp_pool_size - 1
    BY SlotRange DEF TypeInv, TypeOK, Tickets
  <1>5. WriterInv(f)'  BY <1>1, <1>2, <1>4 DEF WriterInv, Since
  <1>6. \A n : WritesSrc(n) => WritesSrc(n)'  BY DEF WritesSrc
  <1>7. Pos(f) \in Int
    BY IntsAreIntegers DEF Pos, TypeInv, TypeOK, Threads, Printers
  <1>8. PICK p, q \in Int : p = Pos(f) /\ q = Pos(f)' /\ p <= q  BY <1>7
  <1>9. 0 .. p - 1 \subseteq 0 .. q - 1  BY <1>8
  <1>10. DeliveredInv(f)'
    <2>1. SUFFICES ASSUME NEW i \in 0 .. tp_pool_size - 1, tp_pool[i].src \in delivered[f]
                   PROVE  tp_pool[i].due \in 0 .. q - 1 \/ WritesSrc(tp_pool[i].due)'
      BY <1>1, <1>8 DEF DeliveredInv, WritesSrc
    <2>2. tp_pool[i].due \in 0 .. p - 1 \/ WritesSrc(tp_pool[i].due)
      BY <1>1, <1>8, <2>1 DEF DeliveredInv
    <2>3. WritesSrc(tp_pool[i].due) => WritesSrc(tp_pool[i].due)'  BY DEF WritesSrc
    <2>4. QED  BY <1>9, <2>2, <2>3
  <1>11. CopiedInv(f)'
    <2>1. SUFFICES ASSUME HasCopy(f)', NEW i \in 0 .. tp_pool_size - 1
                   PROVE  /\ \/ tp_pool_copy[i].src = NoTicket
                             \/ /\ tp_pool_copy[i].src \in 0 .. last_tp[f] - 1
                                /\ Slot(tp_pool_copy[i].src) = i
                          /\ tp_pool_copy[i].src \in delivered[f] =>
                               tp_pool_copy[i].due \in 0 .. q - 1
                          /\ Kept(f, i)'
      BY <1>2, <1>8 DEF CopiedInv
    <2>2. HasCopy(f) /\ last_tp'[f] = last_tp[f]  BY <2>1
    <2>3. Kept(f, i)  BY <1>1, <2>2 DEF CopiedInv
    <2>4. Kept(f, i)'  BY <2>2, <2>3 DEF Kept, WritesSrc, Since
    <2>5. tp_pool_copy[i].src \in delivered[f] => tp_pool_copy[i].due \in 0 .. p - 1
      BY <1>1, <1>8, <2>2 DEF CopiedInv
    <2>6. \/ tp_pool_copy[i].src = NoTicket
          \/ tp_pool_copy[i].src \in 0 .. last_tp[f] - 1 /\ Slot(tp_pool_copy[i].src) = i
      BY <1>1, <2>2 DEF CopiedInv
    <2>7. QED  BY <1>9, <2>4, <2>5, <2>6
  <1>12. QED  BY <1>3, <1>5, <1>10, <1>11

\* A new ticket is newer than all others, and its slot waits for its writer.
LEMMA OnceClaim ==
  ASSUME TypeInv, InRange, CursorInv, OnceInv, NEW t \in Threads, Claim(t)
  PROVE  OnceInv'
  <1> SUFFICES ASSUME NEW f \in Followers, allocated
               PROVE  (RingBelow /\ WriterInv(f) /\ DeliveredInv(f) /\ CopiedInv(f))'
    BY DEF OnceInv, Claim
  <1> DEFINE s == Slot(next_tp)
  <1>1. RingBelow /\ WriterInv(f) /\ DeliveredInv(f) /\ CopiedInv(f)  BY DEF OnceInv
  <1>2. next_tp \in Nat /\ next_tp < CounterMod \div 2 /\ next_tp \in Int
    BY DEF InRange, TypeInv, TypeOK, Tickets
  <1>3. next_tp' = next_tp + 1
    <2>1. CounterMod \in Nat \ {0} /\ CounterMod = 2 * (CounterMod \div 2)
          /\ CounterMod \div 2 \in Nat
      BY Sizes DEF TypeInv, TypeOK
    <2>2. next_tp + 1 \in 0 .. CounterMod - 1  BY <1>2, <2>1
    <2>3. (next_tp + 1) % CounterMod = next_tp + 1  BY <2>1, <2>2
    <2>4. QED  BY <2>3 DEF Claim
  <1>4. /\ pc \in [Threads -> Labels] /\ ticket \in [Threads -> Tickets]
        /\ tp_pool \in [0 .. tp_pool_size - 1 -> Record] /\ f \in Threads
    BY DEF TypeInv, TypeOK, Labels, Threads, Printers
  <1>5. s \in 0 .. tp_pool_size - 1  BY <1>2, SlotRange DEF TypeInv, TypeOK
  <1>6. /\ tp_pool'[s].due = next_tp /\ tp_pool'[s].src = tp_pool[s].src
        /\ \A i \in 0 .. tp_pool_size - 1 : i # s => tp_pool'[i] = tp_pool[i]
    BY <1>4, <1>5 DEF Claim, RetInc, Record
  <1>7. /\ UNCHANGED <<tp_pool_size, tp_pool_copy, allocated, last_tp, tp_num, priv>>
        /\ pc[t] = "claim" /\ pc'[t] = "src" /\ ticket'[t] = next_tp
        /\ \A u \in Threads : u # t => pc'[u] = pc[u] /\ ticket'[u] = ticket[u]
    BY <1>4 DEF Claim, RetInc, Goto, printVars
  <1>8. \A n : Slot(n)' = Slot(n)  BY <1>7 DEF Slot
  <1>9. delivered'[f] = delivered[f]
    <2>1. next_tp \notin delivered[f]  BY <1>1, <1>2 DEF DeliveredInv
    <2>2. delivered'[f] = delivered[f] \ {next_tp}  BY DEF Claim, RetInc
    <2>3. QED  BY <2>1, <2>2
  <1>10. (HasCopy(f)' => HasCopy(f)) /\ Pos(f)' = Pos(f)
    <2>1. CASE f = t  BY <1>7, <2>1 DEF HasCopy, Pos
    <2>2. CASE f # t  BY <1>4, <1>7, <2>2 DEF HasCopy, Pos
    <2>3. QED  BY <2>1, <2>2
  <1>11. \A n : WritesSrc(n) => \E u \in Threads : pc'[u] = "src" /\ ticket'[u] = n
    BY <1>7 DEF WritesSrc
  <1>12. \E u \in Threads : pc'[u] = "src" /\ ticket'[u] = next_tp  BY <1>7
  <1>13. RingBelow'
    <2>1. \A i \in 0 .. tp_pool_size - 1 : tp_pool'[i].src = tp_pool[i].src  BY <1>6
    <2>2. 0 .. next_tp - 1 \subseteq 0 .. next_tp' - 1  BY <1>2, <1>3
    <2>3. QED  BY <1>1, <1>7, <1>8, <2>1, <2>2 DEF RingBelow
  <1>14. WriterInv(f)'
    <2>1. SUFFICES ASSUME NEW u \in Threads, pc'[u] = "src"
                   PROVE  /\ ticket'[u] \in 0 .. next_tp
                          /\ Since(tp_pool'[Slot(ticket'[u])].due, ticket'[u])
                          /\ \A v \in delivered[f] : v < ticket'[u]
                          /\ HasCopy(f) => last_tp[f] <= ticket'[u]
      BY <1>2, <1>3, <1>7, <1>8, <1>9, <1>10 DEF WriterInv, Slot, Since
    <2>2. CASE u = t
      <3>1. \A v \in delivered[f] : v < next_tp  BY <1>1, <1>2 DEF DeliveredInv
      <3>2. HasCopy(f) => last_tp[f] <= next_tp  BY DEF CursorInv
      <3>3. QED  BY <1>2, <1>6, <1>7, <2>2, <3>1, <3>2 DEF Since
    <2>3. CASE u # t
      <3>1. pc[u] = "src" /\ ticket'[u] = ticket[u]  BY <1>7, <2>1, <2>3
      <3>2. /\ ticket[u] \in 0 .. next_tp - 1
            /\ Since(tp_pool[Slot(ticket[u])].due, ticket[u])
            /\ \A v \in delivered[f] : v < ticket[u]
            /\ HasCopy(f) => last_tp[f] <= ticket[u]
        BY <1>1, <3>1 DEF WriterInv
      <3>3. Slot(ticket[u]) \in 0 .. tp_pool_size - 1
        BY <1>4, SlotRange DEF TypeInv, TypeOK, Tickets
      <3>4. ticket[u] \in 0 .. next_tp /\ ticket[u] <= next_tp  BY <1>2, <3>2
      <3>5. Since(tp_pool'[Slot(ticket[u])].due, ticket[u])
        BY <1>2, <1>6, <3>2, <3>3, <3>4 DEF Since
      <3>6. QED  BY <3>1, <3>2, <3>4, <3>5
    <2>4. QED  BY <2>2, <2>3
  <1>15. DeliveredInv(f)'
    <2>1. delivered'[f] \subseteq 0 .. next_tp' - 1
      BY <1>1, <1>2, <1>3, <1>9 DEF DeliveredInv
    <2>2. ASSUME NEW i \in 0 .. tp_pool_size - 1, tp_pool'[i].src \in delivered[f]
          PROVE  \/ tp_pool'[i].due \in 0 .. Pos(f) - 1
                 \/ \E u \in Threads : pc'[u] = "src" /\ ticket'[u] = tp_pool'[i].due
      <3>1. CASE i = s  BY <1>6, <1>12, <3>1
      <3>2. CASE i # s
        <4>1. tp_pool'[i] = tp_pool[i]  BY <1>6, <3>2
        <4>2. tp_pool[i].due \in 0 .. Pos(f) - 1 \/ WritesSrc(tp_pool[i].due)
          BY <1>1, <2>2, <4>1 DEF DeliveredInv
        <4>3. QED  BY <1>11, <4>1, <4>2
      <3>3. QED  BY <3>1, <3>2
    <2>3. QED  BY <1>7, <1>9, <1>10, <2>1, <2>2 DEF DeliveredInv, WritesSrc
  <1>16. CopiedInv(f)'
    <2>1. SUFFICES ASSUME HasCopy(f)', NEW i \in 0 .. tp_pool_size - 1
                   PROVE  /\ \/ tp_pool_copy[i].src = NoTicket
                             \/ /\ tp_pool_copy[i].src \in 0 .. last_tp[f] - 1
                                /\ Slot(tp_pool_copy[i].src) = i
                          /\ tp_pool_copy[i].src \in delivered[f] =>
                               tp_pool_copy[i].due \in 0 .. Pos(f) - 1
                          /\ Kept(f, i)'
      BY <1>7, <1>8, <1>9, <1>10 DEF CopiedInv
    <2>2. HasCopy(f)  BY <1>10, <2>1
    <2>3. Kept(f, i)  BY <1>1, <2>2 DEF CopiedInv
    <2>4. last_tp[f] <= next_tp  BY <2>2 DEF CursorInv
    <2>5. Kept(f, i)'
      <3>1. CASE i = s
        BY <1>2, <1>6, <1>7, <1>12, <2>4, <3>1 DEF Kept, Since, WritesSrc
      <3>2. CASE i # s
        <4>1. tp_pool'[i] = tp_pool[i]  BY <1>6, <3>2
        <4>2. QED  BY <1>7, <1>11, <2>3, <4>1 DEF Kept, Since, WritesSrc
      <3>3. QED  BY <3>1, <3>2
    <2>6. /\ \/ tp_pool_copy[i].src = NoTicket
             \/ tp_pool_copy[i].src \in 0 .. last_tp[f] - 1 /\ Slot(tp_pool_copy[i].src) = i
          /\ tp_pool_copy[i].src \in delivered[f] => tp_pool_copy[i].due \in 0 .. Pos(f) - 1
      BY <1>1, <2>2 DEF CopiedInv
    <2>7. QED  BY <2>5, <2>6
  <1>17. QED  BY <1>13, <1>14, <1>15, <1>16

\* A writer leaves something newer than all that was delivered or copied.
LEMMA OnceWrite ==
  ASSUME TypeInv, RingInv, OnceInv, NEW t \in Threads, WriteSrc(t)
  PROVE  OnceInv'
  <1> SUFFICES ASSUME NEW f \in Followers, allocated
               PROVE  (RingBelow /\ WriterInv(f) /\ DeliveredInv(f) /\ CopiedInv(f))'
    BY DEF OnceInv, WriteSrc
  <1> DEFINE n == ticket[t]
             s == Slot(n)
  <1>1. RingBelow /\ WriterInv(f) /\ DeliveredInv(f) /\ CopiedInv(f)  BY DEF OnceInv
  <1>2. /\ pc \in [Threads -> Labels] /\ ticket \in [Threads -> Tickets]
        /\ tp_pool \in [0 .. tp_pool_size - 1 -> Record] /\ f \in Threads
        /\ next_tp \in Nat /\ n \in Int
    BY DEF TypeInv, TypeOK, Labels, Threads, Printers, Tickets
  <1>3. s \in 0 .. tp_pool_size - 1  BY <1>2, SlotRange DEF TypeInv, TypeOK
  <1>4. /\ tp_pool'[s].due = tp_pool[s].due /\ tp_pool'[s].src = n
        /\ \A i \in 0 .. tp_pool_size - 1 : i # s => tp_pool'[i] = tp_pool[i]
    BY <1>2, <1>3 DEF WriteSrc, Record
  <1>5. /\ UNCHANGED <<tp_pool_size, tp_pool_copy, allocated, last_tp, tp_num, priv, ticket,
                       next_tp, delivered>>
        /\ pc[t] = "src" /\ pc'[t] = "msg"
        /\ \A u \in Threads : u # t => pc'[u] = pc[u]
    BY <1>2 DEF WriteSrc, Goto, printVars
  <1>6. \A m : Slot(m)' = Slot(m)  BY <1>5 DEF Slot
  <1>7. /\ n \in 0 .. next_tp - 1 /\ Since(tp_pool[s].due, n)
        /\ \A v \in delivered[f] : v < n
        /\ HasCopy(f) => last_tp[f] <= n
    BY <1>1, <1>5 DEF WriterInv
  <1>8. (HasCopy(f)' => HasCopy(f)) /\ Pos(f)' = Pos(f)
    <2>1. CASE f = t  BY <1>5, <2>1 DEF HasCopy, Pos
    <2>2. CASE f # t  BY <1>2, <1>5, <2>2 DEF HasCopy, Pos
    <2>3. QED  BY <2>1, <2>2
  <1>9. \A m : m # n /\ WritesSrc(m) => \E u \in Threads : pc'[u] = "src" /\ ticket'[u] = m
    BY <1>5 DEF WritesSrc
  <1>10. ASSUME NEW i \in 0 .. tp_pool_size - 1, i # s PROVE tp_pool[i].due # n
    <2>1. DueOK(tp_pool[i], i, next_tp)  BY DEF RingInv
    <2>2. n \in Tickets /\ n # NoTicket  BY <1>2, PoolAssumption DEF PoolAssumption
    <2>3. QED  BY <1>10, <2>1, <2>2 DEF DueOK
  <1>11. RingBelow'
    <2>1. SUFFICES ASSUME NEW i \in 0 .. tp_pool_size - 1
                   PROVE  \/ tp_pool'[i].src = NoTicket
                          \/ tp_pool'[i].src \in 0 .. next_tp - 1 /\ Slot(tp_pool'[i].src) = i
      BY <1>5 DEF RingBelow, Slot
    <2>2. CASE i = s  BY <1>4, <1>7, <2>2
    <2>3. CASE i # s  BY <1>1, <1>4, <2>3 DEF RingBelow
    <2>4. QED  BY <2>2, <2>3
  <1>12. WriterInv(f)'
    <2>1. \A u \in Threads : pc'[u] = "src" => pc[u] = "src"  BY <1>5
    <2>2. \A u \in Threads : Slot(ticket[u]) \in 0 .. tp_pool_size - 1
      BY <1>2, SlotRange DEF TypeInv, TypeOK, Tickets
    <2>3. \A i \in 0 .. tp_pool_size - 1 : tp_pool'[i].due = tp_pool[i].due  BY <1>4
    <2>4. QED  BY <1>1, <1>5, <1>6, <1>8, <2>1, <2>2, <2>3 DEF WriterInv, Since
  <1>13. DeliveredInv(f)'
    <2>1. ASSUME NEW i \in 0 .. tp_pool_size - 1, tp_pool'[i].src \in delivered[f]
          PROVE  \/ tp_pool'[i].due \in 0 .. Pos(f) - 1
                 \/ \E u \in Threads : pc'[u] = "src" /\ ticket'[u] = tp_pool'[i].due
      <3>1. n \notin delivered[f]  BY <1>2, <1>7
      <3>2. i # s  BY <1>4, <2>1, <3>1
      <3>3. tp_pool'[i] = tp_pool[i] /\ tp_pool[i].due # n  BY <1>4, <1>10, <3>2
      <3>4. tp_pool[i].due \in 0 .. Pos(f) - 1 \/ WritesSrc(tp_pool[i].due)
        BY <1>1, <2>1, <3>3 DEF DeliveredInv
      <3>5. QED  BY <1>9, <3>3, <3>4
    <2>2. QED  BY <1>1, <1>5, <1>8, <2>1 DEF DeliveredInv, WritesSrc
  <1>14. CopiedInv(f)'
    <2>1. SUFFICES ASSUME HasCopy(f)', NEW i \in 0 .. tp_pool_size - 1
                   PROVE  /\ \/ tp_pool_copy[i].src = NoTicket
                             \/ /\ tp_pool_copy[i].src \in 0 .. last_tp[f] - 1
                                /\ Slot(tp_pool_copy[i].src) = i
                          /\ tp_pool_copy[i].src \in delivered[f] =>
                               tp_pool_copy[i].due \in 0 .. Pos(f) - 1
                          /\ Kept(f, i)'
      BY <1>5, <1>6, <1>8 DEF CopiedInv
    <2>2. HasCopy(f)  BY <1>8, <2>1
    <2>3. Kept(f, i)  BY <1>1, <2>2 DEF CopiedInv
    <2>4. Kept(f, i)'
      <3>1. CASE i = s
        <4>1. last_tp[f] \in Int
          BY <1>2, IntsAreIntegers DEF TypeInv, TypeOK
        <4>2. Since(tp_pool[s].due, last_tp[f]) /\ Since(n, last_tp[f])
          BY <1>2, <1>7, <2>2, <4>1 DEF Since
        <4>3. QED  BY <1>4, <1>5, <3>1, <4>2 DEF Kept, Since
      <3>2. CASE i # s
        <4>1. tp_pool'[i] = tp_pool[i] /\ tp_pool[i].due # n  BY <1>4, <1>10, <3>2
        <4>2. QED  BY <1>5, <1>9, <2>3, <4>1 DEF Kept, Since, WritesSrc
      <3>3. QED  BY <3>1, <3>2
    <2>5. /\ \/ tp_pool_copy[i].src = NoTicket
             \/ tp_pool_copy[i].src \in 0 .. last_tp[f] - 1 /\ Slot(tp_pool_copy[i].src) = i
          /\ tp_pool_copy[i].src \in delivered[f] => tp_pool_copy[i].due \in 0 .. Pos(f) - 1
      BY <1>1, <2>2 DEF CopiedInv
    <2>6. QED  BY <2>4, <2>5
  <1>15. QED  BY <1>11, <1>12, <1>13, <1>14

\* The copy is taken when nobody has yet to write.
LEMMA OnceCopy ==
  ASSUME CalledAlone, TypeInv, ExclusionInv, InRange, PrintInv, OnceInv,
         NEW t \in Threads, CopyPool(t)
  PROVE  OnceInv'
  <1> SUFFICES ASSUME NEW f \in Followers, allocated
               PROVE  (RingBelow /\ WriterInv(f) /\ DeliveredInv(f) /\ CopiedInv(f))'
    BY DEF OnceInv, CopyPool
  <1>1. RingBelow /\ WriterInv(f) /\ DeliveredInv(f) /\ CopiedInv(f)  BY DEF OnceInv
  <1>2. pc \in [Threads -> Labels] /\ DOMAIN last_tp = Threads
    BY DEF TypeInv, TypeOK, Labels
  <1>3. /\ pc[t] = "copy" /\ pc'[t] = "prunlock" /\ last_tp'[t] = ToInt(next_tp)
        /\ tp_pool_copy' = tp_pool
        /\ UNCHANGED <<next_tp, tp_pool_size, tp_pool, ticket, delivered, tp_num, priv>>
        /\ \A u \in Threads : u # t => pc'[u] = pc[u]
    BY <1>2 DEF CopyPool, Goto
  <1>4. t = f
    <2>1. t \in Printers /\ f \in Printers  BY <1>3 DEF PrintInv, Printing, At, Printers
    <2>2. QED  BY <2>1 DEF CalledAlone
  <1>5. /\ CounterMod \div 2 \in Nat /\ next_tp \in Nat /\ next_tp < CounterMod \div 2
    BY Sizes DEF InRange, TypeInv, TypeOK, Tickets
  <1>6. last_tp'[f] = next_tp
    <2>1. next_tp \in IntValues /\ next_tp \in Int  BY <1>5 DEF IntValues
    <2>2. QED  BY <1>3, <1>4, <2>1, ToIntCongruent
  <1>7. \A u \in Threads : pc[u] # "src" /\ pc'[u] # "src"
    BY <1>3, PoolAssumption DEF ExclusionInv, LockInv, ReadHeld, WriteHeld, PoolAssumption
  <1>8. \A m : ~WritesSrc(m)  BY <1>7 DEF WritesSrc
  <1>9. Pos(f)' = Pos(f)  BY <1>3, <1>4 DEF Pos
  <1>10. \A m : Slot(m)' = Slot(m)  BY <1>3 DEF Slot
  <1>11. RingBelow'  BY <1>1, <1>3, <1>10 DEF RingBelow
  <1>12. WriterInv(f)'  BY <1>7 DEF WriterInv
  <1>13. \A i \in 0 .. tp_pool_size - 1 :
           tp_pool[i].src \in delivered[f] => tp_pool[i].due \in 0 .. Pos(f) - 1
    BY <1>1, <1>8 DEF DeliveredInv
  <1>14. DeliveredInv(f)'  BY <1>1, <1>3, <1>9, <1>13 DEF DeliveredInv
  <1>15. CopiedInv(f)'
    <2>1. \A i \in 0 .. tp_pool_size - 1 :
            \/ tp_pool[i].src = NoTicket
            \/ tp_pool[i].src \in 0 .. next_tp - 1 /\ Slot(tp_pool[i].src) = i
      BY <1>1 DEF RingBelow
    <2>2. \A i \in 0 .. tp_pool_size - 1 : Kept(f, i)'  BY <1>3 DEF Kept
    <2>3. QED  BY <1>3, <1>6, <1>9, <1>10, <1>13, <2>1, <2>2 DEF CopiedInv
  <1>16. QED  BY <1>11, <1>12, <1>14, <1>15

\* The record printed was copied from the follower's position, which it leaves.
LEMMA OnceEmit ==
  ASSUME CalledAlone, PrinterInv, InRange, OnceInv, NEW t \in Threads, EmitRecord(t)
  PROVE  OnceInv'
  <1> SUFFICES ASSUME NEW f \in Followers, allocated
               PROVE  (RingBelow /\ WriterInv(f) /\ DeliveredInv(f) /\ CopiedInv(f))'
    BY DEF OnceInv, EmitRecord, Advance, poolVars
  <1> USE DEF PrinterInv
  <1>1. RingBelow /\ WriterInv(f) /\ DeliveredInv(f) /\ CopiedInv(f)  BY DEF OnceInv
  <1>2. /\ pc \in [Threads -> Labels] /\ DOMAIN tp_num = Threads /\ f \in Threads
        /\ DOMAIN delivered = Followers
    BY DEF TypeInv, TypeOK, Labels, Threads, Printers
  <1>3. /\ pc[t] = "loop" /\ pc' = pc /\ More(t) /\ Current(t).src # NoTicket
        /\ tp_num'[t] = ToInt(tp_num[t] + 1)
        /\ UNCHANGED <<next_tp, tp_pool_size, tp_pool, tp_pool_copy, ticket, last_tp, priv>>
        /\ delivered'[f] = delivered[f] \cup (IF f = t THEN {Current(t).src} ELSE {})
    BY <1>2 DEF EmitRecord, Emitting, Blank, Advance, Goto, poolVars
  <1>4. t = f
    <2>1. t \in Printers /\ f \in Printers  BY <1>3 DEF PrintInv, Printing, At, Printers
    <2>2. QED  BY <2>1 DEF CalledAlone
  <1>5. PICK num, last : num = tp_num[f] /\ last = last_tp[f]  OBVIOUS
  <1>6. /\ CounterMod \in Nat \ {0} /\ CounterMod \div 2 \in Nat
        /\ CounterMod = 2 * (CounterMod \div 2)
        /\ next_tp \in Nat /\ next_tp < CounterMod \div 2
    BY Sizes DEF InRange, TypeInv, TypeOK, Tickets
  <1>7. num \in Int /\ last \in Int /\ priv[f] \in 0 .. next_tp
        /\ 0 <= num /\ num < last /\ last <= next_tp
    <2>1. num \in Int /\ last \in Int  BY <1>2, <1>5, IntsAreIntegers DEF TypeInv, TypeOK
    <2>2. priv[f] \in 0 .. next_tp /\ priv[f] <= num /\ num <= last /\ last <= next_tp
      BY <1>3, <1>4, <1>5 DEF CursorInv, HasCopy
    <2>3. num # last  BY <1>3, <1>4, <1>5 DEF More
    <2>4. QED  BY <1>6, <2>1, <2>2, <2>3
  <1>8. num + 1 \in IntValues /\ num + 1 \in Int  BY <1>6, <1>7 DEF IntValues
  <1>9. Pos(f) = num /\ Pos(f)' = num + 1 /\ HasCopy(f)
    BY <1>3, <1>4, <1>5, <1>8, ToIntCongruent DEF Pos, HasCopy
  <1> DEFINE c == Slot(num)
  <1>10. PICK r : r = tp_pool_copy[c]  OBVIOUS
  <1>11. r = Current(f)  BY <1>5, <1>10 DEF Current
  <1>12. c \in 0 .. tp_pool_size - 1  BY <1>7, SlotRange DEF TypeInv, TypeOK
  <1>13. r.due = num
    <2>1. f \in Printers  BY DEF Printers
    <2>2. r.due = num % CounterMod  BY <1>3, <1>4, <1>5, <1>11, <2>1, DueAtPosition
    <2>3. num \in 0 .. CounterMod - 1  BY <1>6, <1>7
    <2>4. QED  BY <1>6, <2>2, <2>3
  <1>14. r.src \in 0 .. last - 1 /\ Slot(r.src) = c
    BY <1>1, <1>3, <1>4, <1>5, <1>9, <1>10, <1>11, <1>12 DEF CopiedInv
  <1>15. delivered'[f] = delivered[f] \cup {r.src}  BY <1>3, <1>4, <1>11
  <1>16. 0 .. num - 1 \subseteq 0 .. num /\ num \in 0 .. num /\ num + 1 - 1 = num  BY <1>7
  <1>17. \A m : Slot(m)' = Slot(m)  BY <1>3 DEF Slot
  <1>18. RingBelow'  BY <1>1, <1>3, <1>17 DEF RingBelow
  <1>19. WriterInv(f)'
    <2>1. SUFFICES ASSUME NEW u \in Threads, pc[u] = "src"
                   PROVE  \A v \in delivered[f] \cup {r.src} : v < ticket[u]
      BY <1>1, <1>3, <1>15, <1>17 DEF WriterInv, HasCopy, Since
    <2>2. last <= ticket[u] /\ ticket[u] \in Int /\ \A v \in delivered[f] : v < ticket[u]
      BY <1>1, <1>5, <1>9, <2>1 DEF WriterInv
    <2>3. r.src < ticket[u]  BY <1>7, <1>14, <2>2
    <2>4. QED  BY <2>2, <2>3
  <1>20. DeliveredInv(f)'
    <2>1. delivered'[f] \subseteq 0 .. next_tp' - 1
      BY <1>1, <1>3, <1>6, <1>7, <1>14, <1>15 DEF DeliveredInv
    <2>2. ASSUME NEW i \in 0 .. tp_pool_size - 1, tp_pool[i].src \in delivered'[f]
          PROVE  tp_pool[i].due \in 0 .. num \/ WritesSrc(tp_pool[i].due)
      <3>1. CASE tp_pool[i].src \in delivered[f]
        BY <1>1, <1>9, <1>16, <3>1 DEF DeliveredInv
      <3>2. CASE tp_pool[i].src = r.src
        <4>1. tp_pool[i].src # NoTicket  BY <1>3, <1>4, <1>11, <3>2
        <4>2. i = c  BY <1>1, <1>14, <3>2, <4>1 DEF RingBelow
        <4>3. Kept(f, i)  BY <1>1, <1>9 DEF CopiedInv
        <4>4. ~Since(tp_pool[i].src, last)  BY <1>7, <1>14, <3>2 DEF Since
        <4>5. QED  BY <1>5, <1>10, <1>13, <1>16, <4>2, <4>3, <4>4 DEF Kept
      <3>3. QED  BY <1>15, <2>2, <3>1, <3>2
    <2>3. QED  BY <1>3, <1>9, <1>16, <2>1, <2>2 DEF DeliveredInv, WritesSrc
  <1>21. CopiedInv(f)'
    <2>1. SUFFICES ASSUME NEW i \in 0 .. tp_pool_size - 1
                   PROVE  /\ \/ tp_pool_copy[i].src = NoTicket
                             \/ /\ tp_pool_copy[i].src \in 0 .. last - 1
                                /\ Slot(tp_pool_copy[i].src) = i
                          /\ tp_pool_copy[i].src \in delivered'[f] =>
                               tp_pool_copy[i].due \in 0 .. num
                          /\ Kept(f, i)
      BY <1>3, <1>5, <1>9, <1>16, <1>17 DEF CopiedInv, Kept, WritesSrc
    <2>2. /\ \/ tp_pool_copy[i].src = NoTicket
             \/ tp_pool_copy[i].src \in 0 .. last - 1 /\ Slot(tp_pool_copy[i].src) = i
          /\ tp_pool_copy[i].src \in delivered[f] => tp_pool_copy[i].due \in 0 .. num - 1
          /\ Kept(f, i)
      BY <1>1, <1>5, <1>9 DEF CopiedInv
    <2>3. ASSUME tp_pool_copy[i].src = r.src PROVE tp_pool_copy[i].due = num
      <3>1. tp_pool_copy[i].src # NoTicket  BY <1>3, <1>4, <1>11, <2>3
      <3>2. i = c  BY <1>14, <2>2, <2>3, <3>1
      <3>3. QED  BY <1>10, <1>13, <3>2
    <2>4. QED  BY <1>15, <1>16, <2>2, <2>3
  <1>22. QED  BY <1>18, <1>19, <1>20, <1>21

\* An emptied ring holds nothing that was delivered.
LEMMA OnceRealloc ==
  ASSUME TypeInv, ExclusionInv, PrintInv, OnceInv, NEW t \in Threads, Realloc(t)
  PROVE  OnceInv'
  <1> SUFFICES ASSUME NEW f \in Followers, allocated
               PROVE  (RingBelow /\ WriterInv(f) /\ DeliveredInv(f) /\ CopiedInv(f))'
    BY DEF OnceInv, Realloc
  <1>1. DeliveredInv(f)  BY DEF OnceInv
  <1>2. /\ pc \in [Threads -> Labels] /\ f \in Threads /\ next_tp \in Tickets
    BY DEF TypeInv, TypeOK, Labels, Threads, Printers
  <1>3. /\ pc[t] = "realloc" /\ pc' = [pc EXCEPT ![t] = "reunlock"]
        /\ UNCHANGED <<next_tp, delivered>>
        /\ \A i \in 0 .. tp_pool_size' - 1 : tp_pool'[i].src = NoTicket
    BY DEF Realloc, Goto, Zeroed, Filled
  <1>4. Printing = {}  BY <1>3 DEF PrintInv, Resizing, At
  <1>5. ~HasCopy(f)'  BY <1>2, <1>3, <1>4 DEF HasCopy, Printing, At
  <1>6. \A u \in Threads : pc'[u] # "src"
    BY <1>2, <1>3, PoolAssumption DEF ExclusionInv, LockInv, ReadHeld, WriteHeld, PoolAssumption
  <1>7. NoTicket \notin delivered[f]
    BY <1>1, <1>2, PoolAssumption DEF DeliveredInv, PoolAssumption, Tickets
  <1>8. RingBelow'  BY <1>3 DEF RingBelow
  <1>9. WriterInv(f)'  BY <1>6 DEF WriterInv
  <1>10. DeliveredInv(f)'  BY <1>1, <1>3, <1>7 DEF DeliveredInv
  <1>11. CopiedInv(f)'  BY <1>5 DEF CopiedInv
  <1>12. QED  BY <1>8, <1>9, <1>10, <1>11

\* The other steps of print_trace_stack deliver nothing and do not turn back.
LEMMA OncePrintStep ==
  ASSUME CalledAlone, PrinterInv, InRange, OnceInv, NEW t \in Threads, PrintStep(t)
  PROVE  OnceInv'
  <1> USE DEF PrinterInv
  <1>0. /\ pc \in [Threads -> Labels] /\ DOMAIN last_tp = Threads /\ DOMAIN tp_num = Threads
        /\ \A f \in Followers : f \in Threads /\ f \in Printers
    BY DEF TypeInv, TypeOK, Labels, Printers, Threads
  <1>1. \A f \in Followers : Pos(f) \in Int
    BY <1>0, IntsAreIntegers DEF Pos, TypeInv, TypeOK
  <1>2. CASE CopyPool(t)  BY <1>2, OnceCopy
  <1>3. CASE EmitRecord(t)  BY <1>3, OnceEmit
  <1> USE DEF Goto, poolVars, printVars, HasCopy
  <1>4. CASE EnterPrint(t) \/ UnlockPrint(t)
    <2>1. /\ UNCHANGED <<next_tp, tp_pool_size, tp_pool_copy, allocated, delivered, tp_pool,
                         ticket, last_tp, tp_num, priv>>
          /\ \A u \in Threads : pc'[u] = "src" <=> pc[u] = "src"
          /\ \A u \in Threads : pc'[u] = "loop" <=> pc[u] = "loop"
          /\ \A u \in Threads : HasCopy(u)' => HasCopy(u)
      BY <1>0, <1>4 DEF EnterPrint, UnlockPrint
    <2>2. \A f \in Followers : Pos(f)' = Pos(f)  BY <1>0, <2>1 DEF Pos
    <2>3. \A f \in Followers : Pos(f)' \in Int /\ Pos(f) <= Pos(f)'  BY <1>1, <2>2
    <2>4. QED  BY <1>0, <2>1, <2>3, OnceFrame
  <1>5. CASE TooSmall(t) \/ NothingNew(t) \/ FinishPrint(t)
    <2>1. Return(t)  BY <1>5 DEF TooSmall, NothingNew, FinishPrint
    <2>2. /\ UNCHANGED <<next_tp, tp_pool_size, tp_pool_copy, allocated, delivered, tp_pool,
                         ticket>>
          /\ \A u \in Threads : pc'[u] = "src" <=> pc[u] = "src" /\ u # t
          /\ \A u \in Threads : HasCopy(u)' => HasCopy(u) /\ u # t
          /\ \A u \in Threads : u # t => /\ pc'[u] = pc[u] /\ tp_num'[u] = tp_num[u]
                                         /\ last_tp'[u] = last_tp[u]
          /\ pc'[t] = "idle"
      BY <1>0, <2>1 DEF Return
    <2>3. pc[t] # "src"
      BY <1>5 DEF TooSmall, NothingNew, FinishPrint
    <2>4. \A u \in Threads : pc'[u] = "src" <=> pc[u] = "src"  BY <2>2, <2>3
    <2>5. ASSUME NEW f \in Followers PROVE Pos(f)' = Pos(f)
      <3>1. CASE f # t
        <4>1. priv'[f] = priv[f]
          BY <1>5, <3>1 DEF TooSmall, NothingNew, FinishPrint
        <4>2. QED  BY <1>0, <2>2, <3>1, <4>1 DEF Pos
      <3>2. CASE f = t /\ (TooSmall(t) \/ NothingNew(t))
        <4>1. pc[t] = "start" /\ UNCHANGED priv  BY <3>2 DEF TooSmall, NothingNew
        <4>2. QED  BY <2>2, <3>2, <4>1 DEF Pos
      <3>3. CASE f = t /\ FinishPrint(t)
        <4>1. pc[t] = "loop" /\ priv'[f] = tp_num[f]  BY <3>3 DEF FinishPrint
        <4>2. QED  BY <2>2, <3>3, <4>1 DEF Pos
      <3>4. QED  BY <1>5, <3>1, <3>2, <3>3
    <2>6. \A f \in Followers : Pos(f)' \in Int /\ Pos(f) <= Pos(f)'  BY <1>1, <2>5
    <2>7. QED  BY <1>0, <2>2, <2>4, <2>6, OnceFrame
  <1>6. CASE StartLoop(t)
    <2>1. /\ UNCHANGED <<next_tp, tp_pool_size, tp_pool_copy, allocated, delivered, tp_pool,
                         ticket, last_tp, priv>>
          /\ pc[t] = "start" /\ pc'[t] = "loop"
          /\ \A u \in Threads : pc'[u] = "src" <=> pc[u] = "src"
          /\ \A u \in Threads : HasCopy(u)' => HasCopy(u)
          /\ \A u \in Threads : u # t => pc'[u] = pc[u] /\ tp_num'[u] = tp_num[u]
      BY <1>0, <1>6 DEF StartLoop
    <2>2. ASSUME NEW f \in Followers, allocated PROVE Pos(f)' \in Int /\ Pos(f) <= Pos(f)'
      <3>1. CASE f # t
        <4>1. Pos(f)' = Pos(f)  BY <1>0, <2>1, <3>1 DEF Pos
        <4>2. QED  BY <1>1, <4>1
      <3>2. CASE f = t
        <4>1. /\ tp_pool_size \in Nat /\ last_tp[f] \in Int /\ priv[f] \in Int
          BY <1>0, IntsAreIntegers, Sizes DEF TypeInv, TypeOK
        <4>2. /\ \/ tp_num'[f] = priv[f]
                 \/ tp_num'[f] = last_tp[f] - tp_pool_size /\ priv[f] < tp_num'[f]
          BY <1>6, <2>2, <3>2, StartRange
        <4>3. Pos(f) = priv[f] /\ Pos(f)' = tp_num'[f]  BY <2>1, <3>2 DEF Pos
        <4>4. QED  BY <4>1, <4>2, <4>3
      <3>3. QED  BY <3>1, <3>2
    <2>3. QED  BY <1>0, <2>1, <2>2, OnceFrame
  <1>7. CASE SkipBlank(t)
    <2>1. /\ UNCHANGED <<next_tp, tp_pool_size, tp_pool_copy, allocated, delivered, tp_pool,
                         ticket, last_tp, priv, pc>>
          /\ pc[t] = "loop" /\ tp_num'[t] = ToInt(tp_num[t] + 1) /\ tp_num[t] # last_tp[t]
          /\ \A u \in Threads : u # t => tp_num'[u] = tp_num[u]
      BY <1>0, <1>7 DEF SkipBlank, Advance, More
    <2>2. ASSUME NEW f \in Followers, allocated PROVE Pos(f)' \in Int /\ Pos(f) <= Pos(f)'
      <3>1. CASE f # t
        <4>1. Pos(f)' = Pos(f)  BY <1>0, <2>1, <3>1 DEF Pos
        <4>2. QED  BY <1>1, <4>1
      <3>2. CASE f = t
        <4>1. /\ CounterMod \div 2 \in Nat /\ next_tp \in Nat /\ next_tp < CounterMod \div 2
              /\ last_tp[f] \in Int /\ priv[f] \in Int /\ tp_num[f] \in Int
          BY <1>0, IntsAreIntegers, Sizes DEF TypeInv, TypeOK, Tickets, InRange
        <4>2. /\ priv[f] \in 0 .. next_tp /\ priv[f] <= tp_num[f]
              /\ tp_num[f] <= last_tp[f] /\ last_tp[f] <= next_tp
          BY <2>1, <2>2, <3>2 DEF CursorInv
        <4>3. tp_num[f] + 1 \in IntValues /\ tp_num[f] + 1 \in Int
          BY <2>1, <3>2, <4>1, <4>2 DEF IntValues
        <4>4. tp_num'[f] = tp_num[f] + 1  BY <2>1, <3>2, <4>3, ToIntCongruent
        <4>5. Pos(f) = tp_num[f] /\ Pos(f)' = tp_num'[f]  BY <2>1, <3>2 DEF Pos
        <4>6. QED  BY <4>1, <4>4, <4>5
      <3>3. QED  BY <3>1, <3>2
    <2>3. QED  BY <1>0, <2>1, <2>2, OnceFrame
  <1>8. QED
    BY PrintStep(t), <1>2, <1>3, <1>4, <1>5, <1>6, <1>7 DEF PrintStep

\* OnceInv is inductive, given what holds of a lone printer.
LEMMA OnceNext ==
  ASSUME CalledAlone
  PROVE  PrinterInv /\ InRange /\ OnceInv /\ [Next]_vars => OnceInv'
  <1> SUFFICES ASSUME PrinterInv, InRange, OnceInv, [Next]_vars PROVE OnceInv'  OBVIOUS
  <1> USE DEF PrinterInv
  <1>0. /\ pc \in [Threads -> Labels] /\ ticket \in [Threads -> Tickets]
        /\ \A f \in Followers : f \in Threads
    BY DEF TypeInv, TypeOK, Labels, Printers, Threads
  <1>1. \A f \in Followers : Pos(f) \in Int
    BY <1>0, IntsAreIntegers DEF Pos, TypeInv, TypeOK
  <1>2. ASSUME UNCHANGED <<next_tp, tp_pool_size, tp_pool_copy, allocated, delivered,
                           last_tp, tp_num, priv>>,
               \A i \in 0 .. tp_pool_size - 1 :
                 tp_pool'[i].src = tp_pool[i].src /\ tp_pool'[i].due = tp_pool[i].due,
               \A u \in Threads : pc'[u] = "src" <=> pc[u] = "src",
               \A u \in Threads : pc'[u] = "loop" <=> pc[u] = "loop",
               \A u \in Threads : HasCopy(u)' => HasCopy(u),
               \A u \in Threads : pc[u] = "src" => ticket'[u] = ticket[u]
        PROVE  OnceInv'
    <2>1. \A f \in Followers : Pos(f)' = Pos(f)  BY <1>0, <1>2 DEF Pos
    <2>2. \A f \in Followers : Pos(f)' \in Int /\ Pos(f) <= Pos(f)'  BY <1>1, <2>1
    <2>3. \A f \in Followers : HasCopy(f)' => HasCopy(f)  BY <1>0, <1>2
    <2>4. QED  BY <1>2, <2>2, <2>3, OnceFrame
  <1> USE DEF Goto, poolVars, printVars
  <1>3. ASSUME NEW t \in Threads, Call(t) PROVE OnceInv'
    <2>1. CASE LateInit(t)  BY <2>1 DEF LateInit, OnceInv
    <2>2. CASE ~LateInit(t)
      <3>1. UNCHANGED <<next_tp, tp_pool_size, tp_pool_copy, allocated, delivered,
                        last_tp, tp_num, priv, tp_pool, ticket>>
        BY <1>3, <2>2 DEF Call, MakeTracept, PrintTrace, RefuseSize, Reconfigure
      <3>2. /\ \A u \in Threads : pc'[u] = "src" <=> pc[u] = "src"
            /\ \A u \in Threads : pc'[u] = "loop" <=> pc[u] = "loop"
            /\ \A u \in Threads : HasCopy(u)' => HasCopy(u)
        BY <1>0, <1>3, <2>2 DEF Call, MakeTracept, PrintTrace, RefuseSize, Reconfigure, HasCopy
      <3>3. QED  BY <1>2, <3>1, <3>2
    <2>3. QED  BY <2>1, <2>2
  <1>4. ASSUME NEW t \in Threads, Tracing(t) PROVE OnceInv'
    <2>1. CASE Claim(t)  BY <2>1, OnceClaim
    <2>2. CASE WriteSrc(t)  BY <2>2, OnceWrite
    <2>3. CASE EnterTracept(t) \/ WriteMsg(t) \/ LeaveTracept(t)
      <3>1. UNCHANGED <<next_tp, tp_pool_size, tp_pool_copy, allocated, delivered,
                        last_tp, tp_num, priv>>
        BY <2>3 DEF EnterTracept, WriteMsg, LeaveTracept
      <3>2. \A i \in 0 .. tp_pool_size - 1 :
              tp_pool'[i].src = tp_pool[i].src /\ tp_pool'[i].due = tp_pool[i].due
        <4>1. CASE WriteMsg(t)
          <5>1. tp_pool \in [0 .. tp_pool_size - 1 -> Record]  BY DEF TypeInv, TypeOK
          <5>2. QED  BY <4>1, <5>1 DEF WriteMsg, Record
        <4>2. CASE ~WriteMsg(t)  BY <2>3, <4>2 DEF EnterTracept, LeaveTracept
        <4>3. QED  BY <4>1, <4>2
      <3>3. /\ \A u \in Threads : pc'[u] = "src" <=> pc[u] = "src"
            /\ \A u \in Threads : pc'[u] = "loop" <=> pc[u] = "loop"
            /\ \A u \in Threads : HasCopy(u)' => HasCopy(u)
        BY <1>0, <2>3 DEF EnterTracept, WriteMsg, LeaveTracept, HasCopy
      <3>4. \A u \in Threads : pc[u] = "src" => ticket'[u] = ticket[u]
        BY <1>0, <2>3 DEF EnterTracept, WriteMsg, LeaveTracept
      <3>5. QED  BY <1>2, <3>1, <3>2, <3>3, <3>4
    <2>4. QED  BY <1>4, <2>1, <2>2, <2>3 DEF Tracing
  <1>5. ASSUME NEW t \in Threads, PrintStep(t) PROVE OnceInv'
    BY <1>5, OncePrintStep
  <1>6. ASSUME NEW t \in Threads, ResizeStep(t) PROVE OnceInv'
    <2>1. CASE EnterReconfigure(t) \/ LeaveReconfigure(t)
      <3>1. UNCHANGED <<next_tp, tp_pool_size, tp_pool_copy, allocated, delivered,
                        last_tp, tp_num, priv, tp_pool, ticket>>
        BY <2>1 DEF EnterReconfigure, LeaveReconfigure
      <3>2. /\ \A u \in Threads : pc'[u] = "src" <=> pc[u] = "src"
            /\ \A u \in Threads : pc'[u] = "loop" <=> pc[u] = "loop"
            /\ \A u \in Threads : HasCopy(u)' => HasCopy(u)
        BY <1>0, <2>1 DEF EnterReconfigure, LeaveReconfigure, HasCopy
      <3>3. QED  BY <1>2, <3>1, <3>2
    <2>2. CASE Realloc(t)  BY <2>2, OnceRealloc
    <2>3. CASE ReallocFails(t)  BY <2>3 DEF ReallocFails, OnceInv
    <2>4. QED  BY <1>6, <2>1, <2>2, <2>3 DEF ResizeStep
  <1>7. CASE UNCHANGED vars
    BY <1>2, <1>7 DEF vars, HasCopy
  <1>8. QED  BY <1>3, <1>4, <1>5, <1>6, <1>7 DEF Next, Dead

\* What the record printed has in it was not delivered before.
LEMMA NewToFollower ==
  ASSUME PrinterInv, InRange, OnceInv, NEW f \in Followers, Emitting(f)
  PROVE  Current(f).src \notin delivered[f]
  <1> SUFFICES ASSUME Current(f).src \in delivered[f] PROVE FALSE  OBVIOUS
  <1> USE DEF PrinterInv
  <1>1. /\ pc[f] = "loop" /\ More(f) /\ Current(f).src # NoTicket /\ f \in Printers
    BY DEF Emitting, Blank, Printers
  <1>2. allocated  BY <1>1 DEF PrintInv, At, Threads
  <1>3. PICK num : num = tp_num[f]  OBVIOUS
  <1>4. /\ CounterMod \in Nat \ {0} /\ CounterMod \div 2 \in Nat
        /\ CounterMod = 2 * (CounterMod \div 2)
        /\ next_tp \in Nat /\ next_tp < CounterMod \div 2
    BY Sizes DEF InRange, TypeInv, TypeOK, Tickets
  <1>5. num \in Int /\ priv[f] \in Int /\ last_tp[f] \in Int
    BY <1>1, <1>3, IntsAreIntegers DEF TypeInv, TypeOK, Threads
  <1>6. /\ priv[f] \in 0 .. next_tp /\ priv[f] <= num /\ num <= last_tp[f]
        /\ last_tp[f] <= next_tp
    BY <1>1, <1>2, <1>3 DEF CursorInv, HasCopy
  <1>7. num \in 0 .. CounterMod - 1  BY <1>4, <1>5, <1>6
  <1>8. Current(f).due = num
    <2>1. Current(f).due = num % CounterMod  BY <1>1, <1>3, DueAtPosition
    <2>2. QED  BY <1>4, <1>7, <2>1
  <1>9. Slot(num) \in 0 .. tp_pool_size - 1  BY <1>5, SlotRange DEF TypeInv, TypeOK
  <1>10. Current(f).due \in 0 .. num - 1
    BY <1>1, <1>2, <1>3, <1>9 DEF OnceInv, CopiedInv, HasCopy, Pos, Current
  <1>11. QED  BY <1>5, <1>8, <1>10

\* A follower is never printed the same tracepoint twice, however the ring is
\* overwritten between and during its calls.
THEOREM DeliversOnce ==
  ASSUME CalledAlone
  PROVE  Spec /\ []InRange => []AtMostOnce
  <1>1. PrinterInv /\ InRange /\ OnceInv => AtMostOnce  BY NewToFollower DEF AtMostOnce
  <1>2. QED  BY PrinterInit, PrinterNext, OnceInit, OnceNext, <1>1, PTL DEF Spec

-----------------------------------------------------------------------------
(* The pool implements TraceLog.  The tickets due in the ring are the last   *)
(* ones made, and those due in the copy are the last ones made when it was   *)
(* taken.                                                                    *)

\* What is due in a slot was made, and is there or on its way; in the copy of a
\* printer nothing is on its way.
ThereOrDue(i) ==
  tp_pool[i].due \in Tickets =>
    /\ tp_pool[i].due < next_tp
    /\ \/ tp_pool[i].src # NoTicket
       \/ \E u \in Threads : pc[u] = "src" /\ Slot(ticket[u]) = i

HeldInv ==
  allocated =>
    /\ \A i \in 0 .. tp_pool_size - 1 : ThereOrDue(i)
    /\ \A t \in Printers : HasCopy(t) =>
         \A i \in 0 .. tp_pool_size - 1 :
           tp_pool_copy[i].due \in Tickets => tp_pool_copy[i].src # NoTicket

\* An empty ring has nothing due.
LEMMA HeldInit == Init => HeldInv
  BY PoolAssumption DEF Init, HeldInv, ThereOrDue, Zeroed, Filled, HasCopy, Printers, Threads,
     PoolAssumption

\* Steps that change no slot's tickets and take no writer away.
LEMMA HeldFrame ==
  ASSUME HeldInv, UNCHANGED <<next_tp, tp_pool_size, tp_pool_copy, allocated>>,
         \A i \in 0 .. tp_pool_size - 1 :
           tp_pool'[i].src = tp_pool[i].src /\ tp_pool'[i].due = tp_pool[i].due,
         \A u \in Threads : pc[u] = "src" => pc'[u] = "src" /\ ticket'[u] = ticket[u],
         \A u \in Printers : HasCopy(u)' => HasCopy(u)
  PROVE  HeldInv'
  BY DEF HeldInv, ThereOrDue, Slot

\* A claim is the newest ticket, and its writer is on its way.
LEMMA HeldClaim ==
  ASSUME TypeInv, InRange, HeldInv, NEW t \in Threads, Claim(t), Followers # {}
  PROVE  HeldInv'
  <1> SUFFICES ASSUME allocated PROVE HeldInv'  BY DEF HeldInv, Claim
  <1> DEFINE s == Slot(next_tp)
  <1>1. /\ pc[t] = "claim" /\ pc' = [pc EXCEPT ![t] = "src"]
        /\ ticket' = [ticket EXCEPT ![t] = next_tp]
        /\ UNCHANGED <<tp_pool_size, tp_pool_copy, allocated>>
        /\ tp_pool'[s].due = next_tp
        /\ \A i \in 0 .. tp_pool_size - 1 : i # s => tp_pool'[i] = tp_pool[i]
    <2>1. s \in 0 .. tp_pool_size - 1  BY SlotRange DEF TypeInv, TypeOK, Tickets
    <2>2. tp_pool \in [0 .. tp_pool_size - 1 -> Record]  BY DEF TypeInv, TypeOK
    <2>3. QED  BY <2>1, <2>2 DEF Claim, Goto, RetInc, Record
  <1>2. /\ pc \in [Threads -> Labels] /\ ticket \in [Threads -> Tickets]
        /\ Printers \subseteq Threads
    BY DEF TypeInv, TypeOK, Labels, Threads, Printers
  <1>3. next_tp \in Nat /\ next_tp' = next_tp + 1
    <2>1. /\ CounterMod \in Nat \ {0} /\ CounterMod \div 2 \in Nat
          /\ CounterMod = 2 * (CounterMod \div 2)
          /\ next_tp \in Nat /\ next_tp < CounterMod \div 2
      BY Sizes DEF InRange, TypeInv, TypeOK, Tickets
    <2>2. next_tp + 1 \in 0 .. CounterMod - 1  BY <2>1
    <2>3. QED  BY <2>1, <2>2 DEF Claim
  <1>4. ASSUME NEW i \in 0 .. tp_pool_size - 1 PROVE ThereOrDue(i)'
    <2>1. CASE i = s
      <3>1. pc'[t] = "src" /\ Slot(ticket[t])' = i  BY <1>1, <1>2, <2>1 DEF Slot
      <3>2. tp_pool'[i].due < next_tp'  BY <1>1, <1>3, <2>1
      <3>3. QED  BY <3>1, <3>2 DEF ThereOrDue
    <2>2. CASE i # s
      <3>1. ThereOrDue(i) /\ tp_pool'[i] = tp_pool[i]  BY <1>1, <2>2 DEF HeldInv
      <3>2. \A u \in Threads : pc[u] = "src" => pc'[u] = "src" /\ Slot(ticket[u])' = Slot(ticket[u])
        BY <1>1, <1>2 DEF Slot
      <3>3. \A n \in Tickets : n < next_tp => n < next_tp'  BY <1>3 DEF Tickets
      <3>4. QED  BY <3>1, <3>2, <3>3 DEF ThereOrDue
    <2>3. QED  BY <2>1, <2>2
  <1>5. \A u \in Printers : HasCopy(u)' => HasCopy(u)  BY <1>1, <1>2 DEF HasCopy
  <1>6. QED  BY <1>1, <1>4, <1>5 DEF HeldInv

\* HeldInv is inductive, given the exclusion.
LEMMA HeldNext ==
  ASSUME CalledAlone, Followers # {}
  PROVE  PrinterInv /\ InRange /\ HeldInv /\ [Next]_vars => HeldInv'
  <1> SUFFICES ASSUME PrinterInv, InRange, HeldInv, [Next]_vars PROVE HeldInv'  OBVIOUS
  <1> USE DEF PrinterInv
  <1>0. /\ pc \in [Threads -> Labels] /\ ticket \in [Threads -> Tickets]
        /\ Printers \subseteq Threads /\ tp_pool \in [0 .. tp_pool_size - 1 -> Record]
    BY DEF TypeInv, TypeOK, Labels, Printers, Threads
  <1>1. NoTicket \notin Tickets /\ Uninit \notin Tickets
    BY PoolAssumption DEF PoolAssumption
  <1> USE DEF Goto, poolVars, printVars
  <1>2. ASSUME NEW t \in Threads, Call(t) PROVE HeldInv'
    <2>1. CASE LateInit(t)  BY <2>1 DEF LateInit, HeldInv
    <2>2. CASE ~LateInit(t)
      <3>1. /\ UNCHANGED <<next_tp, tp_pool, tp_pool_size, tp_pool_copy, ticket, allocated>>
            /\ \A u \in Threads : pc[u] = "src" => pc'[u] = "src"
            /\ \A u \in Threads : HasCopy(u)' => HasCopy(u)
        BY <1>0, <1>2, <2>2 DEF Call, MakeTracept, PrintTrace, RefuseSize, Reconfigure, HasCopy
      <3>2. QED  BY <1>0, <3>1, HeldFrame
    <2>3. QED  BY <2>1, <2>2
  <1>3. ASSUME NEW t \in Threads, Tracing(t) PROVE HeldInv'
    <2>1. CASE Claim(t)  BY <2>1, HeldClaim
    <2>2. CASE WriteSrc(t)
      <3> DEFINE s == Slot(ticket[t])
      <3>1. s \in 0 .. tp_pool_size - 1  BY <1>0, SlotRange DEF TypeInv, TypeOK, Tickets
      <3>2. /\ tp_pool'[s].src = ticket[t] /\ tp_pool'[s].due = tp_pool[s].due
            /\ \A i \in 0 .. tp_pool_size - 1 : i # s => tp_pool'[i] = tp_pool[i]
        BY <1>0, <2>2, <3>1 DEF WriteSrc, Record
      <3>3. /\ UNCHANGED <<next_tp, tp_pool_size, tp_pool_copy, ticket, allocated>>
            /\ \A u \in Threads : u # t => pc'[u] = pc[u]
            /\ \A u \in Threads : HasCopy(u)' => HasCopy(u)
        BY <1>0, <2>2 DEF WriteSrc, HasCopy
      <3>4. ticket[t] # NoTicket  BY <1>0, <1>1
      <3>5. ASSUME allocated, NEW i \in 0 .. tp_pool_size - 1 PROVE ThereOrDue(i)'
        <4>1. ThereOrDue(i)  BY <3>5 DEF HeldInv
        <4>2. CASE i = s  BY <3>2, <3>3, <3>4, <4>1, <4>2 DEF ThereOrDue
        <4>3. CASE i # s
          <5>1. \A u \in Threads : pc[u] = "src" /\ Slot(ticket[u]) = i =>
                                   pc'[u] = "src" /\ Slot(ticket[u])' = i
            BY <3>3, <4>3 DEF Slot
          <5>2. tp_pool'[i] = tp_pool[i]  BY <3>2, <4>3
          <5>3. QED  BY <3>3, <4>1, <5>1, <5>2 DEF ThereOrDue
        <4>4. QED  BY <4>2, <4>3
      <3>6. QED  BY <1>0, <3>3, <3>5 DEF HeldInv
    <2>3. CASE EnterTracept(t) \/ WriteMsg(t) \/ LeaveTracept(t)
      <3>1. \A i \in 0 .. tp_pool_size - 1 :
              tp_pool'[i].src = tp_pool[i].src /\ tp_pool'[i].due = tp_pool[i].due
        <4>1. CASE WriteMsg(t)  BY <1>0, <4>1 DEF WriteMsg, Record
        <4>2. CASE ~WriteMsg(t)  BY <2>3, <4>2 DEF EnterTracept, LeaveTracept
        <4>3. QED  BY <4>1, <4>2
      <3>2. /\ UNCHANGED <<next_tp, tp_pool_size, tp_pool_copy, allocated>>
            /\ \A u \in Threads : pc[u] = "src" => pc'[u] = "src" /\ ticket'[u] = ticket[u]
            /\ \A u \in Threads : HasCopy(u)' => HasCopy(u)
        BY <1>0, <2>3 DEF EnterTracept, WriteMsg, LeaveTracept, HasCopy
      <3>3. QED  BY <1>0, <3>1, <3>2, HeldFrame
    <2>4. QED  BY <1>3, <2>1, <2>2, <2>3 DEF Tracing
  <1>4. ASSUME NEW t \in Threads, PrintStep(t) PROVE HeldInv'
    <2>1. CASE CopyPool(t)
      <3>1. /\ pc[t] = "copy" /\ tp_pool_copy' = tp_pool
            /\ UNCHANGED <<next_tp, tp_pool_size, tp_pool, ticket, allocated>>
            /\ \A u \in Threads : pc[u] = "src" => pc'[u] = "src"
        BY <1>0, <2>1 DEF CopyPool
      <3>2. \A u \in Threads : pc[u] # "src"
        BY <1>0, <3>1, PoolAssumption DEF ExclusionInv, LockInv, ReadHeld, WriteHeld,
           PoolAssumption
      <3>3. QED  BY <3>1, <3>2 DEF HeldInv, ThereOrDue, Slot
    <2>2. CASE ~CopyPool(t)
      <3>1. /\ UNCHANGED <<next_tp, tp_pool, tp_pool_size, tp_pool_copy, ticket, allocated>>
            /\ \A u \in Threads : pc[u] = "src" => pc'[u] = "src"
            /\ \A u \in Threads : HasCopy(u)' => HasCopy(u)
        BY <1>0, <1>4, <2>2 DEF PrintStep, EnterPrint, UnlockPrint, TooSmall, NothingNew, Return,
           StartLoop, SkipBlank, EmitRecord, Advance, FinishPrint, HasCopy
      <3>2. QED  BY <1>0, <3>1, HeldFrame
    <2>3. QED  BY <2>1, <2>2
  <1>5. ASSUME NEW t \in Threads, ResizeStep(t) PROVE HeldInv'
    <2>1. CASE EnterReconfigure(t) \/ LeaveReconfigure(t)
      <3>1. /\ UNCHANGED <<next_tp, tp_pool, tp_pool_size, tp_pool_copy, ticket, allocated>>
            /\ \A u \in Threads : pc[u] = "src" => pc'[u] = "src"
            /\ \A u \in Threads : HasCopy(u)' => HasCopy(u)
        BY <1>0, <2>1 DEF EnterReconfigure, LeaveReconfigure, HasCopy
      <3>2. QED  BY <1>0, <3>1, HeldFrame
    <2>2. CASE Realloc(t)
      <3>1. \A u \in Printers : ~HasCopy(u)'
        BY <1>0, <2>2 DEF Realloc, PrintInv, Printing, Resizing, At, HasCopy
      <3>2. \A i \in 0 .. tp_pool_size' - 1 : ThereOrDue(i)'
        BY <1>1, <2>2 DEF Realloc, Zeroed, Filled, ThereOrDue
      <3>3. QED  BY <3>1, <3>2 DEF HeldInv
    <2>3. CASE ReallocFails(t)  BY <2>3 DEF ReallocFails, HeldInv
    <2>4. QED  BY <1>5, <2>1, <2>2, <2>3 DEF ResizeStep
  <1>6. CASE UNCHANGED vars  BY <1>6, HeldFrame DEF vars, HasCopy
  <1>7. QED  BY <1>2, <1>3, <1>4, <1>5, <1>6 DEF Next, Dead
\* What the ring and the copy have: a slot each.
LEMMA InHeld ==
  ASSUME allocated, NEW P, NEW e
  PROVE  e \in Held(P) <=> \E i \in DOMAIN P : /\ P[i].due \in Tickets
                                              /\ e = [num |-> P[i].due, spoiled |-> P[i].raced]
  BY DEF Held

\* The ring holds the tracepoints made last, each in its slot.
LEMMA LastMade ==
  ASSUME TypeInv, InRange, RingInv, HeldInv, allocated, Followers # {},
         NEW i \in 0 .. tp_pool_size - 1, tp_pool[i].due \in Tickets
  PROVE  /\ tp_pool[i].due \in Nat
         /\ next_tp - tp_pool_size <= tp_pool[i].due /\ tp_pool[i].due < next_tp
         /\ Slot(tp_pool[i].due) = i
  <1>1. /\ CounterMod \in Nat \ {0} /\ CounterMod \div 2 \in Nat
        /\ CounterMod = 2 * (CounterMod \div 2) /\ tp_pool_size \in Nat \ {0}
        /\ tp_pool_size <= CounterMod \div 2
        /\ next_tp \in Nat /\ next_tp < CounterMod \div 2
    BY Sizes DEF InRange, TypeInv, TypeOK, Tickets
  <1>2. PICK d : d = tp_pool[i].due  OBVIOUS
  <1>3. d \in Nat /\ d < next_tp
    BY <1>1, <1>2 DEF HeldInv, ThereOrDue, Tickets
  <1>4. d # NoTicket  BY <1>2, PoolAssumption DEF PoolAssumption
  <1>5. Slot(d) = i /\ \E k \in 1 .. tp_pool_size : Congruent(d, next_tp - k, CounterMod)
    BY <1>2, <1>4 DEF RingInv, DueOK
  <1>6. PICK k \in 1 .. tp_pool_size : Congruent(d, next_tp - k, CounterMod)  BY <1>5
  <1>7. PICK p \in Int : p = next_tp - k  BY <1>1
  <1>8. d - p < CounterMod /\ p - d < CounterMod /\ next_tp - tp_pool_size <= p
    BY <1>1, <1>3, <1>7
  <1>9. d = p  BY <1>1, <1>3, <1>6, <1>7, <1>8, CongruentNear
  <1>10. QED  BY <1>2, <1>3, <1>5, <1>8, <1>9

\* Of two tickets in a slot, less than a round of the ring apart, there is one.
LEMMA OneInSlot ==
  ASSUME TypeInv, NEW a \in Int, NEW b \in Int, Slot(a) = Slot(b),
         a - b < tp_pool_size, b - a < tp_pool_size
  PROVE  a = b
  <1>1. tp_pool_size \in Nat \ {0}  BY Sizes DEF TypeInv, TypeOK
  <1>2. Congruent(a, b, tp_pool_size)  BY <1>1, CongruentRemainders DEF Slot
  <1>3. QED  BY <1>1, <1>2, CongruentNear

\* What a follower's copy has from its cursor on is the tracepoints made last
\* when it was taken, each in its slot.
LEMMA LastCopied ==
  ASSUME PrinterInv, InRange, allocated, NEW f \in Followers, HasCopy(f),
         NEW i \in 0 .. tp_pool_size - 1, tp_pool_copy[i].due \in Tickets,
         tp_pool_copy[i].due < last_tp[f]
  PROVE  /\ tp_pool_copy[i].due \in Nat
         /\ last_tp[f] - tp_pool_size <= tp_pool_copy[i].due
         /\ Slot(tp_pool_copy[i].due) = i
  <1> USE DEF PrinterInv
  <1>1. /\ CounterMod \in Nat \ {0} /\ CounterMod \div 2 \in Nat
        /\ CounterMod = 2 * (CounterMod \div 2) /\ tp_pool_size \in Nat \ {0}
        /\ tp_pool_size <= CounterMod \div 2
        /\ next_tp \in Nat /\ next_tp < CounterMod \div 2
    BY Sizes DEF InRange, TypeInv, TypeOK, Tickets
  <1>2. PICK d, last : d = tp_pool_copy[i].due /\ last = last_tp[f]  OBVIOUS
  <1>3. d \in Nat /\ d < last  BY <1>1, <1>2 DEF Tickets
  <1>4. last \in Int /\ last <= next_tp
    BY <1>2, IntsAreIntegers DEF CursorInv, TypeInv, TypeOK, Threads, Printers
  <1>5. f \in Printers /\ d # NoTicket  BY <1>2, PoolAssumption DEF PoolAssumption, Printers
  <1>6. Slot(d) = i /\ \E k \in 1 .. tp_pool_size : Congruent(d, last - k, CounterMod)
    BY <1>2, <1>5 DEF CopyInv, DueOK
  <1>7. PICK k \in 1 .. tp_pool_size : Congruent(d, last - k, CounterMod)  BY <1>6
  <1>8. PICK p \in Int : p = last - k  BY <1>4
  <1>9. d - p < CounterMod /\ p - d < CounterMod /\ last - tp_pool_size <= p
    BY <1>1, <1>3, <1>4, <1>8
  <1>10. d = p  BY <1>1, <1>3, <1>7, <1>8, <1>9, CongruentNear
  <1>11. QED  BY <1>2, <1>3, <1>6, <1>9, <1>10
\* The variables of the log, as the pool has them.
Made    == IF allocated THEN next_tp ELSE 0
Cursors == [f \in Followers |-> Pos(f)]
LogVars == <<Made, tp_pool_size, Held(tp_pool), Held(tp_pool_copy), Cursors, delivered>>

\* Writing a record changes nothing about what the ring is meant to hold.
LEMMA HeldSame ==
  ASSUME NEW P, NEW Q, DOMAIN P = DOMAIN Q,
         \A i \in DOMAIN P : P[i].due = Q[i].due /\ P[i].raced = Q[i].raced
  PROVE  Held(P) = Held(Q)
  <1>1. CASE ~allocated  BY <1>1 DEF Held
  <1>2. CASE allocated
    <2>1. \A e : e \in Held(P) <=> e \in Held(Q)  BY <1>2, InHeld
    <2>2. QED  BY <2>1
  <1>3. QED  BY <1>1, <1>2

\* A claim is the making of a tracepoint: it takes the place of the oldest.
LEMMA ClaimMakes ==
  ASSUME PrinterInv, InRange, OnceInv, HeldInv, Followers # {},
         NEW t \in Threads, Claim(t)
  PROVE  Log!Make
  <1> USE DEF PrinterInv
  <1> DEFINE s == Slot(next_tp)
  <1>1. allocated
    BY PoolAssumption DEF Claim, Goto, ExclusionInv, LockInv, LeakInv, ReadHeld, PoolAssumption
  <1>2. /\ CounterMod \in Nat \ {0} /\ CounterMod \div 2 \in Nat
        /\ CounterMod = 2 * (CounterMod \div 2) /\ tp_pool_size \in Nat \ {0}
        /\ next_tp \in Nat /\ next_tp < CounterMod \div 2 /\ next_tp \in Tickets
    BY Sizes DEF InRange, TypeInv, TypeOK, Tickets
  <1>3. next_tp' = next_tp + 1
    <2>1. next_tp + 1 \in 0 .. CounterMod - 1  BY <1>2
    <2>2. QED  BY <1>2, <2>1 DEF Claim
  <1>4. s \in 0 .. tp_pool_size - 1  BY <1>2, SlotRange DEF TypeInv, TypeOK
  <1>5. /\ tp_pool \in [0 .. tp_pool_size - 1 -> Record]
        /\ pc \in [Threads -> Labels] /\ \A f \in Followers : f \in Threads
        /\ delivered \in [Followers -> SUBSET Field]
    BY DEF TypeInv, TypeOK, Labels, Threads, Printers
  <1>6. PICK raced \in BOOLEAN :
          tp_pool' = [tp_pool EXCEPT ![s] = [@ EXCEPT !.due = next_tp, !.raced = raced]]
    BY DEF Claim, RetInc
  <1>7. /\ tp_pool'[s].due = next_tp /\ tp_pool'[s].raced = raced
        /\ DOMAIN tp_pool' = 0 .. tp_pool_size - 1 /\ DOMAIN tp_pool = 0 .. tp_pool_size - 1
        /\ \A i \in 0 .. tp_pool_size - 1 : i # s => tp_pool'[i] = tp_pool[i]
    BY <1>4, <1>5, <1>6 DEF Record
  <1>8. UNCHANGED <<tp_pool_size, tp_pool_copy, allocated, priv, tp_num>>
    BY DEF Claim, printVars
  <1>9. Held(tp_pool_copy)' = Held(tp_pool_copy)  BY <1>8 DEF Held
  <1>10. delivered' = delivered
    <2>1. \A f \in Followers : next_tp \notin delivered[f]
      BY <1>1, <1>2 DEF OnceInv, DeliveredInv
    <2>2. \A f \in Followers : delivered[f] \ {next_tp} = delivered[f]  BY <2>1
    <2>3. QED  BY <1>5, <2>2 DEF Claim, RetInc
  <1>11. [f \in Followers |-> Pos(f)]' = [f \in Followers |-> Pos(f)]
    <2>1. \A f \in Followers : Pos(f)' = Pos(f)
      BY <1>5, <1>8 DEF Claim, Goto, Pos
    <2>2. QED  BY <2>1
  <1> DEFINE new  == [num |-> next_tp, spoiled |-> raced]
             rest == {e \in Held(tp_pool) : e.num > next_tp - tp_pool_size}
  <1>12. ASSUME NEW i \in 0 .. tp_pool_size - 1, tp_pool[i].due \in Tickets
         PROVE  tp_pool[i].due > next_tp - tp_pool_size <=> i # s
    <2>1. PICK d : d = tp_pool[i].due  OBVIOUS
    <2>2. d \in Nat /\ next_tp - tp_pool_size <= d /\ d < next_tp /\ Slot(d) = i
      BY <1>1, <1>12, <2>1, LastMade
    <2>3. PICK o \in Int : o = next_tp - tp_pool_size  BY <1>2
    <2>4. Slot(o) = s
      <3>1. o - next_tp = (-1) * tp_pool_size  BY <1>2, <2>3
      <3>2. Congruent(o, next_tp, tp_pool_size)  BY <3>1 DEF Congruent
      <3>3. QED  BY <1>2, <3>2, CongruentRemainders DEF Slot
    <2>5. i = s => d = o
      <3>1. d - o < tp_pool_size /\ o - d < tp_pool_size  BY <1>2, <2>2, <2>3
      <3>2. QED  BY <2>2, <2>4, <3>1, OneInSlot
    <2>6. d = o => i = s  BY <2>2, <2>4
    <2>7. QED  BY <2>1, <2>2, <2>3, <2>5, <2>6
  <1>13. Held(tp_pool)' = rest \cup {new}
    <2>1. allocated'  BY <1>1, <1>8
    <2>2. \A e : e \in Held(tp_pool)' <=>
                   \E i \in DOMAIN tp_pool' : /\ tp_pool'[i].due \in Tickets
                     /\ e = [num |-> tp_pool'[i].due, spoiled |-> tp_pool'[i].raced]
      BY <2>1 DEF Held
    <2>3. ASSUME NEW e, e \in Held(tp_pool)' PROVE e \in rest \cup {new}
      <3>1. PICK i \in 0 .. tp_pool_size - 1 :
              /\ tp_pool'[i].due \in Tickets
              /\ e = [num |-> tp_pool'[i].due, spoiled |-> tp_pool'[i].raced]
        BY <1>7, <2>2, <2>3
      <3>2. CASE i = s  BY <1>7, <3>1, <3>2
      <3>3. CASE i # s
        <4>1. tp_pool'[i] = tp_pool[i]  BY <1>7, <3>3
        <4>2. e \in Held(tp_pool)  BY <1>1, <1>7, <3>1, <4>1, InHeld
        <4>3. e.num > next_tp - tp_pool_size  BY <1>12, <3>1, <3>3, <4>1
        <4>4. QED  BY <4>2, <4>3
      <3>4. QED  BY <3>2, <3>3
    <2>4. ASSUME NEW e \in rest PROVE e \in Held(tp_pool)'
      <3>0. e \in Held(tp_pool) /\ e.num > next_tp - tp_pool_size  OBVIOUS
      <3> HIDE DEF rest
      <3>1. PICK i \in 0 .. tp_pool_size - 1 :
              /\ tp_pool[i].due \in Tickets
              /\ e = [num |-> tp_pool[i].due, spoiled |-> tp_pool[i].raced]
        <4>1. \E i \in DOMAIN tp_pool : /\ tp_pool[i].due \in Tickets
                /\ e = [num |-> tp_pool[i].due, spoiled |-> tp_pool[i].raced]
          BY <1>1, <3>0, InHeld
        <4>2. QED  BY <1>7, <4>1
      <3>2. i # s  BY <1>12, <3>0, <3>1
      <3>3. QED  BY <1>7, <2>2, <3>1, <3>2
    <2>5. new \in Held(tp_pool)'  BY <1>2, <1>4, <1>7, <2>2
    <2>6. QED  BY <2>3, <2>4, <2>5
  <1>14. QED  BY <1>1, <1>3, <1>8, <1>9, <1>10, <1>11, <1>13 DEF Log!Make
\* The copy is what the ring holds.
LEMMA CopyCopies ==
  ASSUME TypeInv, PrintInv, NEW t \in Threads, CopyPool(t)
  PROVE  Log!Copy
  <1>1. pc[t] = "copy" /\ pc' = [pc EXCEPT ![t] = "prunlock"] /\ tp_pool_copy' = tp_pool
        /\ UNCHANGED <<next_tp, tp_pool_size, tp_pool, allocated, tp_num, priv, delivered>>
    BY DEF CopyPool, Goto
  <1>2. Held(tp_pool_copy)' = Held(tp_pool) /\ Held(tp_pool)' = Held(tp_pool)
    BY <1>1 DEF Held
  <1>3. pc \in [Threads -> Labels] /\ \A f \in Followers : f \in Threads
    BY DEF TypeInv, TypeOK, Labels, Threads, Printers
  <1>4. \A f \in Followers : Pos(f)' = Pos(f)  BY <1>1, <1>3 DEF Pos
  <1>5. QED  BY <1>1, <1>2, <1>4 DEF Log!Copy

\* The follower's walk in its copy: where it is, and that the copy has there what
\* is due in the slot.
LEMMA InWalk ==
  ASSUME CalledAlone, PrinterInv, InRange, NEW t \in Threads, Followers # {},
         pc[t] = "loop", More(t)
  PROVE  /\ Followers = {t} /\ t \in Printers /\ allocated /\ HasCopy(t) /\ Pos(t) = tp_num[t]
         /\ tp_num[t] \in Nat /\ tp_num[t] < last_tp[t] /\ last_tp[t] <= next_tp
         /\ last_tp[t] \in Nat /\ last_tp[t] - tp_num[t] <= tp_pool_size
         /\ next_tp \in Nat /\ tp_num[t] \in Tickets
         /\ ToInt(tp_num[t] + 1) = tp_num[t] + 1
         /\ Slot(tp_num[t]) \in 0 .. tp_pool_size - 1
         /\ Current(t) = tp_pool_copy[Slot(tp_num[t])]
  <1> USE DEF PrinterInv
  <1>1. t \in Printers  BY DEF PrintInv, Printing, At
  <1>2. Followers = {t}  BY <1>1 DEF CalledAlone, Printers
  <1>3. allocated /\ HasCopy(t) /\ Pos(t) = tp_num[t]
    BY DEF PrintInv, At, HasCopy, Pos
  <1>4. /\ CounterMod \in Nat \ {0} /\ CounterMod \div 2 \in Nat
        /\ CounterMod = 2 * (CounterMod \div 2) /\ tp_pool_size \in Nat \ {0}
        /\ next_tp \in Nat /\ next_tp < CounterMod \div 2
    BY Sizes DEF InRange, TypeInv, TypeOK, Tickets
  <1>5. PICK num, last : num = tp_num[t] /\ last = last_tp[t]  OBVIOUS
  <1>6. num \in Int /\ last \in Int  BY <1>5, IntsAreIntegers DEF TypeInv, TypeOK
  <1>7. /\ priv[t] \in 0 .. next_tp /\ priv[t] <= num /\ num <= last /\ last <= next_tp
        /\ last - num <= tp_pool_size
    BY <1>2, <1>3, <1>5 DEF CursorInv
  <1>8. num # last  BY <1>5 DEF More
  <1>9. num \in Nat /\ last \in Nat /\ num < last /\ num \in Tickets /\ num + 1 \in IntValues
    BY <1>4, <1>6, <1>7, <1>8 DEF Tickets, IntValues
  <1>10. ToInt(num + 1) = num + 1  BY <1>6, <1>9, ToIntCongruent
  <1>11. Slot(num) \in 0 .. tp_pool_size - 1  BY <1>6, SlotRange DEF TypeInv, TypeOK
  <1>12. QED
    BY <1>1, <1>2, <1>3, <1>4, <1>5, <1>7, <1>9, <1>10, <1>11 DEF Current

\* What is printed is the copy's tracepoint at the follower's cursor.
LEMMA EmitShows ==
  ASSUME CalledAlone, PrinterInv, InRange, OnceInv, NEW t \in Threads, EmitRecord(t),
         Followers # {}
  PROVE  Log!Show(t)
  <1> USE DEF PrinterInv
  <1>1. /\ pc[t] = "loop" /\ pc' = pc /\ More(t) /\ Current(t).src # NoTicket
        /\ tp_num' = [tp_num EXCEPT ![t] = ToInt(@ + 1)] /\ Emitting(t)
        /\ UNCHANGED <<next_tp, tp_pool_size, tp_pool, tp_pool_copy, allocated, priv>>
    BY DEF EmitRecord, Emitting, Blank, Advance, Goto, poolVars, TypeInv, TypeOK
  <1>2. /\ Followers = {t} /\ t \in Printers /\ allocated /\ HasCopy(t) /\ Pos(t) = tp_num[t]
        /\ tp_num[t] \in Nat /\ tp_num[t] < last_tp[t] /\ last_tp[t] \in Nat
        /\ last_tp[t] - tp_num[t] <= tp_pool_size /\ tp_num[t] \in Tickets
        /\ ToInt(tp_num[t] + 1) = tp_num[t] + 1
        /\ Slot(tp_num[t]) \in 0 .. tp_pool_size - 1
        /\ Current(t) = tp_pool_copy[Slot(tp_num[t])]
    BY <1>1, InWalk
  <1>3. PICK num, c, r : num = tp_num[t] /\ c = Slot(num) /\ r = tp_pool_copy[c]  OBVIOUS
  <1>4. /\ CounterMod \in Nat \ {0} /\ tp_pool_size \in Nat \ {0}
        /\ tp_pool_copy \in [0 .. tp_pool_size - 1 -> Record]
        /\ DOMAIN tp_num = Threads /\ delivered \in [Followers -> SUBSET Field]
    BY Sizes DEF TypeInv, TypeOK
  <1>5. r.due = num
    <2>1. r.due = num % CounterMod  BY <1>1, <1>2, <1>3, DueAtPosition
    <2>2. num \in 0 .. CounterMod - 1  BY <1>2, <1>3 DEF Tickets
    <2>3. num % CounterMod = num  BY <1>4, <2>2
    <2>4. QED  BY <1>3, <2>1, <2>3
  <1>6. r.src \in Nat /\ r.src <= num
    <2>1. r.src \in 0 .. last_tp[t] - 1 /\ Slot(r.src) = c
      BY <1>1, <1>2, <1>3 DEF OnceInv, CopiedInv
    <2>2. r.src \in Nat /\ num \in Nat /\ r.src - num < tp_pool_size
      BY <1>2, <1>3, <1>4, <2>1
    <2>3. CASE num - r.src < tp_pool_size
      <3>1. r.src = num  BY <1>3, <2>1, <2>2, <2>3, OneInSlot
      <3>2. QED  BY <2>2, <3>1
    <2>4. CASE ~(num - r.src < tp_pool_size)  BY <1>4, <2>2, <2>4
    <2>5. QED  BY <2>3, <2>4
  <1>7. ~r.raced => r.src = num
    <2>1. ~r.raced => Whole(r)  BY <1>2, <1>3 DEF CopyInv
    <2>2. QED  BY <1>5, <2>1 DEF Whole
  <1>8. r.src \notin delivered[t]  BY <1>1, <1>2, <1>3, NewToFollower
  <1> DEFINE e == [num |-> num, spoiled |-> r.raced]
  <1>9. e \in Held(tp_pool_copy)
    <2>1. c \in DOMAIN tp_pool_copy /\ r.due \in Tickets  BY <1>2, <1>3, <1>4, <1>5
    <2>2. QED  BY <1>2, <1>3, <1>5, <2>1, InHeld
  <1>10. r.src \in (IF e.spoiled THEN 0 .. e.num ELSE {e.num}) \ delivered[t]
    BY <1>2, <1>3, <1>6, <1>7, <1>8
  <1>11. delivered' = [delivered EXCEPT ![t] = @ \cup {r.src}]
    <2>1. delivered' = [f \in Followers |->
                         delivered[f] \cup (IF f = t THEN {r.src} ELSE {})]
      BY <1>2, <1>3 DEF EmitRecord
    <2>2. QED  BY <1>2, <1>4, <2>1
  <1>12. Cursors' = [Cursors EXCEPT ![t] = @ + 1]
    <2>1. Pos(t)' = num + 1 /\ Pos(t) = num
      BY <1>1, <1>2, <1>3, <1>4 DEF Pos
    <2>2. Cursors = [f \in {t} |-> num] /\ Cursors' = [f \in {t} |-> num + 1]
      BY <1>2, <2>1 DEF Cursors
    <2>3. QED  BY <2>2
  <1>13. Held(tp_pool)' = Held(tp_pool) /\ Held(tp_pool_copy)' = Held(tp_pool_copy)
    BY <1>1 DEF Held
  <1>14. e.num = Cursors[t]  BY <1>2, <1>3 DEF Cursors
  <1> HIDE DEF e
  <1>15. QED
    BY <1>1, <1>9, <1>10, <1>11, <1>12, <1>13, <1>14 DEF Log!Show, Cursors
\* A slot of the copy at whose position there is nothing is passed over.
LEMMA BlankSkips ==
  ASSUME CalledAlone, PrinterInv, InRange, HeldInv, NEW t \in Threads,
         pc[t] = "loop", SkipBlank(t), Followers # {}
  PROVE  Log!Skip(t)
  <1> USE DEF PrinterInv
  <1>1. /\ pc' = pc /\ More(t) /\ Current(t).src = NoTicket
        /\ tp_num' = [tp_num EXCEPT ![t] = ToInt(@ + 1)]
        /\ UNCHANGED <<next_tp, tp_pool_size, tp_pool, tp_pool_copy, allocated, priv, delivered>>
    BY DEF SkipBlank, Blank, Advance, Goto, poolVars, TypeInv, TypeOK
  <1>2. /\ Followers = {t} /\ t \in Printers /\ allocated /\ HasCopy(t) /\ Pos(t) = tp_num[t]
        /\ tp_num[t] \in Nat /\ tp_num[t] < last_tp[t] /\ last_tp[t] \in Nat
        /\ last_tp[t] <= next_tp /\ next_tp \in Nat
        /\ ToInt(tp_num[t] + 1) = tp_num[t] + 1
        /\ Slot(tp_num[t]) \in 0 .. tp_pool_size - 1
        /\ Current(t) = tp_pool_copy[Slot(tp_num[t])]
    BY <1>1, InWalk
  <1>3. PICK num : num = tp_num[t]  OBVIOUS
  <1>4. ASSUME NEW e \in Held(tp_pool_copy), e.num = num PROVE FALSE
    <2>1. DOMAIN tp_pool_copy = 0 .. tp_pool_size - 1  BY DEF TypeInv, TypeOK
    <2>2. PICK i \in 0 .. tp_pool_size - 1 :
            tp_pool_copy[i].due \in Tickets /\ tp_pool_copy[i].due = num
      <3>1. PICK i \in DOMAIN tp_pool_copy : /\ tp_pool_copy[i].due \in Tickets
              /\ e = [num |-> tp_pool_copy[i].due, spoiled |-> tp_pool_copy[i].raced]
        BY <1>2, InHeld
      <3>2. QED  BY <1>4, <2>1, <3>1
    <2>3. Slot(num) = i  BY <1>2, <1>3, <2>2, LastCopied
    <2>4. tp_pool_copy[i].src # NoTicket  BY <1>2, <2>2 DEF HeldInv
    <2>5. QED  BY <1>1, <1>2, <1>3, <2>3, <2>4
  <1>5. /\ Cursors = [f \in {t} |-> num] /\ Cursors' = [f \in {t} |-> num + 1]
    <2>1. DOMAIN tp_num = Threads  BY DEF TypeInv, TypeOK
    <2>2. Pos(t)' = num + 1  BY <1>1, <1>2, <1>3, <2>1 DEF Pos
    <2>3. QED  BY <1>2, <1>3, <2>2 DEF Cursors
  <1>6. Cursors' = [Cursors EXCEPT ![t] = num + 1] /\ Cursors[t] = num  BY <1>5
  <1>7. num + 1 \in Cursors[t] + 1 .. Made  BY <1>2, <1>3, <1>6 DEF Made
  <1>8. \A e \in Held(tp_pool_copy) : e.num \notin Cursors[t] .. (num + 1) - 1
    <2>1. Cursors[t] .. (num + 1) - 1 = {num}  BY <1>2, <1>3, <1>6
    <2>2. QED  BY <1>4, <2>1
  <1>9. Held(tp_pool)' = Held(tp_pool) /\ Held(tp_pool_copy)' = Held(tp_pool_copy)
    BY <1>1 DEF Held
  <1>10. QED  BY <1>1, <1>6, <1>7, <1>8, <1>9 DEF Log!Skip, Cursors, Made

\* A follower that was lapped goes on with the oldest that its copy has.
LEMMA StartSkips ==
  ASSUME CalledAlone, PrinterInv, InRange, NEW t \in Threads, StartLoop(t), Followers # {}
  PROVE  Log!Skip(t) \/ UNCHANGED LogVars
  <1> USE DEF PrinterInv
  <1>1. /\ pc[t] = "start" /\ pc' = [pc EXCEPT ![t] = "loop"]
        /\ UNCHANGED <<next_tp, tp_pool_size, tp_pool, tp_pool_copy, allocated, priv, delivered>>
    BY DEF StartLoop, Goto, poolVars
  <1>2. t \in Printers /\ allocated /\ HasCopy(t)
    BY <1>1 DEF PrintInv, Printing, At, HasCopy
  <1>3. Followers = {t}  BY <1>2 DEF CalledAlone, Printers
  <1>4. /\ last_tp[t] \in 0 .. next_tp /\ priv[t] \in 0 .. last_tp[t]
        /\ \/ tp_num'[t] = priv[t]
           \/ tp_num'[t] = last_tp[t] - tp_pool_size /\ priv[t] < tp_num'[t]
    BY <1>2, <1>3, StartRange
  <1>5. next_tp \in Nat /\ tp_pool_size \in Nat \ {0} /\ pc \in [Threads -> Labels]
    BY Sizes DEF TypeInv, TypeOK, Tickets, Labels
  <1>6. PICK from, p : from = priv[t] /\ p = tp_num'[t]  OBVIOUS
  <1>7. Cursors = [f \in {t} |-> from] /\ Cursors' = [f \in {t} |-> p]
    <2>1. Pos(t) = from /\ Pos(t)' = p  BY <1>1, <1>5, <1>6 DEF Pos
    <2>2. QED  BY <1>3, <2>1 DEF Cursors
  <1>8. Held(tp_pool)' = Held(tp_pool) /\ Held(tp_pool_copy)' = Held(tp_pool_copy)
        /\ Made' = Made
    BY <1>1 DEF Held, Made
  <1>9. CASE p = from  BY <1>1, <1>7, <1>8, <1>9 DEF LogVars
  <1>10. CASE p # from
    <2>1. /\ p = last_tp[t] - tp_pool_size /\ from < p /\ from \in Nat
          /\ last_tp[t] \in Nat /\ p \in Nat /\ p <= next_tp
      BY <1>4, <1>5, <1>6, <1>10
    <2>2. ASSUME NEW e \in Held(tp_pool_copy), e.num \in from .. p - 1 PROVE FALSE
      <3>1. DOMAIN tp_pool_copy = 0 .. tp_pool_size - 1  BY DEF TypeInv, TypeOK
      <3>2. PICK i \in 0 .. tp_pool_size - 1 :
              tp_pool_copy[i].due \in Tickets /\ tp_pool_copy[i].due = e.num
        <4>1. PICK i \in DOMAIN tp_pool_copy : /\ tp_pool_copy[i].due \in Tickets
                /\ e = [num |-> tp_pool_copy[i].due, spoiled |-> tp_pool_copy[i].raced]
          BY <1>2, InHeld
        <4>2. QED  BY <3>1, <4>1
      <3>3. e.num \in Nat /\ e.num < p  BY <2>1, <2>2
      <3>4. e.num < last_tp[t]  BY <1>5, <2>1, <3>3
      <3>5. last_tp[t] - tp_pool_size <= e.num  BY <1>2, <1>3, <3>2, <3>4, LastCopied
      <3>6. QED  BY <1>5, <2>1, <3>3, <3>5
    <2>3. Cursors' = [Cursors EXCEPT ![t] = p] /\ Cursors[t] = from  BY <1>7
    <2>4. p \in Cursors[t] + 1 .. Made  BY <1>2, <1>5, <2>1, <2>3 DEF Made
    <2>5. \A e \in Held(tp_pool_copy) : e.num \notin Cursors[t] .. p - 1  BY <2>2, <2>3
    <2>6. QED  BY <1>1, <1>8, <2>3, <2>4, <2>5 DEF Log!Skip, Cursors, Made
  <1>11. QED  BY <1>9, <1>10

\* Steps between which the follower stays where it is.
LEMMA LogSame ==
  ASSUME UNCHANGED <<next_tp, tp_pool_size, tp_pool_copy, allocated, delivered>>,
         Held(tp_pool)' = Held(tp_pool), \A f \in Followers : Pos(f)' = Pos(f)
  PROVE  UNCHANGED LogVars
  <1>1. Held(tp_pool_copy)' = Held(tp_pool_copy)  BY DEF Held
  <1>2. Cursors' = Cursors  BY DEF Cursors
  <1>3. QED  BY <1>1, <1>2 DEF LogVars, Made

\* New pools are empty, and those there is no memory for are gone.
LEMMA ReallocResizes ==
  ASSUME PrinterInv, NEW t \in Threads, Realloc(t) \/ ReallocFails(t)
  PROVE  Log!Resize \/ Log!Lose
  <1> USE DEF PrinterInv
  <1>1. /\ pc[t] = "realloc" /\ (pc' = [pc EXCEPT ![t] = "reunlock"] \/ pc' = [pc EXCEPT ![t] = "idle"])
        /\ tp_pool_size' = request[t]
        /\ UNCHANGED <<next_tp, tp_num, priv, delivered>>
    BY DEF Realloc, ReallocFails, Goto, printVars
  <1>2. tp_pool_size' \in {n \in PoolSizes : ValidSize(n)}
    BY <1>1 DEF TypeInv, RequestOK
  <1>3. allocated
    BY <1>1 DEF ExclusionInv, LeakInv, WriteHeld
  <1>4. Cursors' = Cursors
    <2>1. pc \in [Threads -> Labels] /\ \A f \in Followers : f \in Threads
      BY DEF TypeInv, TypeOK, Labels, Threads, Printers
    <2>2. \A f \in Followers : Pos(f)' = Pos(f)  BY <1>1, <2>1 DEF Pos
    <2>3. QED  BY <2>2 DEF Cursors
  <1>5. CASE Realloc(t)
    <2>1. /\ allocated' = allocated /\ tp_pool' = Zeroed(request[t])
          /\ tp_pool_copy' = Garbage(request[t])
      BY <1>5 DEF Realloc
    <2>2. Held(tp_pool)' = {} /\ Held(tp_pool_copy)' = {}
      BY <2>1, PoolAssumption DEF Held, Zeroed, Garbage, Filled, PoolAssumption
    <2>3. QED  BY <1>1, <1>2, <1>3, <1>4, <2>1, <2>2 DEF Log!Resize, Cursors
  <1>6. CASE ReallocFails(t)
    <2>1. ~allocated'  BY <1>6 DEF ReallocFails
    <2>2. Held(tp_pool)' = {} /\ Held(tp_pool_copy)' = {}  BY <2>1 DEF Held
    <2>3. QED  BY <1>1, <1>2, <1>4, <2>1, <2>2 DEF Log!Lose, Cursors
  <1>7. QED  BY <1>5, <1>6

\* The first pool is an empty log, which nobody has read.
LEMMA LogInit == Init => Log!Init
  <1> SUFFICES ASSUME Init PROVE Log!Init  OBVIOUS
  <1>1. Held(tp_pool) = {} /\ Held(tp_pool_copy) = {}
    BY PoolAssumption DEF Init, Held, Zeroed, Garbage, Filled, PoolAssumption
  <1>2. \A f \in Followers : Pos(f) = 0  BY DEF Init, Pos, Threads, Printers
  <1>3. QED  BY <1>1, <1>2 DEF Init, Log!Init

\* Every step of the pool is one of the log, or changes nothing in it.
LEMMA LogNext ==
  ASSUME CalledAlone, Followers # {}, PrinterInv, InRange, OnceInv, HeldInv, [Next]_vars
  PROVE  Log!Next \/ UNCHANGED LogVars
  <1> USE DEF PrinterInv
  <1>0. /\ pc \in [Threads -> Labels] /\ \A f \in Followers : f \in Threads
        /\ tp_pool \in [0 .. tp_pool_size - 1 -> Record]
        /\ ticket \in [Threads -> Tickets] /\ DOMAIN priv = Followers
    BY DEF TypeInv, TypeOK, Labels, Threads, Printers
  <1> USE DEF Goto, poolVars, printVars
  <1>1. ASSUME NEW t \in Threads, Call(t) PROVE UNCHANGED LogVars
    <2>1. /\ UNCHANGED <<tp_pool_size, tp_pool, tp_pool_copy, allocated, delivered, priv, tp_num>>
          /\ \A f \in Followers : pc'[f] = "loop" <=> pc[f] = "loop"
          /\ next_tp' = next_tp \/ ~allocated
      BY <1>0, <1>1 DEF Call, MakeTracept, LateInit, PrintTrace, RefuseSize, Reconfigure
    <2>2. Held(tp_pool)' = Held(tp_pool) /\ Held(tp_pool_copy)' = Held(tp_pool_copy)
          /\ Made' = Made
      BY <2>1 DEF Held, Made
    <2>3. Cursors' = Cursors
      <3>1. \A f \in Followers : Pos(f)' = Pos(f)  BY <2>1 DEF Pos
      <3>2. QED  BY <3>1 DEF Cursors
    <2>4. QED  BY <2>1, <2>2, <2>3 DEF LogVars
  <1>2. ASSUME NEW t \in Threads, Tracing(t) PROVE Log!Next \/ UNCHANGED LogVars
    <2>1. CASE Claim(t)  BY <2>1, ClaimMakes DEF Log!Next
    <2>2. CASE ~Claim(t)
      <3>1. /\ UNCHANGED <<next_tp, tp_pool_size, tp_pool_copy, allocated, delivered, priv, tp_num>>
            /\ \A f \in Followers : pc'[f] = "loop" <=> pc[f] = "loop"
        BY <1>0, <1>2, <2>2 DEF Tracing, EnterTracept, WriteSrc, WriteMsg, LeaveTracept
      <3>2. Held(tp_pool)' = Held(tp_pool)
        <4>1. CASE WriteSrc(t) \/ WriteMsg(t)
          <5>1. /\ DOMAIN tp_pool' = DOMAIN tp_pool
                /\ \A i \in DOMAIN tp_pool : /\ tp_pool'[i].due = tp_pool[i].due
                                             /\ tp_pool'[i].raced = tp_pool[i].raced
            <6>1. CASE WriteSrc(t)  BY <1>0, <6>1 DEF WriteSrc, Record
            <6>2. CASE WriteMsg(t)  BY <1>0, <6>2 DEF WriteMsg, Record
            <6>3. QED  BY <4>1, <6>1, <6>2
          <5>2. Held(tp_pool') = Held(tp_pool)  BY <5>1, HeldSame
          <5>3. Held(tp_pool)' = Held(tp_pool')  BY <3>1 DEF Held
          <5>4. QED  BY <5>2, <5>3
        <4>2. CASE EnterTracept(t) \/ LeaveTracept(t)
          <5>1. tp_pool' = tp_pool  BY <4>2 DEF EnterTracept, LeaveTracept
          <5>2. QED  BY <3>1, <5>1 DEF Held
        <4>3. QED  BY <1>2, <2>2, <4>1, <4>2 DEF Tracing
      <3>3. \A f \in Followers : Pos(f)' = Pos(f)  BY <3>1 DEF Pos
      <3>4. QED  BY <3>1, <3>2, <3>3, LogSame
    <2>3. QED  BY <2>1, <2>2
  <1>3. ASSUME NEW t \in Threads, PrintStep(t) PROVE Log!Next \/ UNCHANGED LogVars
    <2>1. CASE CopyPool(t)  BY <2>1, CopyCopies DEF Log!Next
    <2>2. CASE StartLoop(t)
      <3>1. Followers = {t}
        BY <1>0, <2>2 DEF StartLoop, PrintInv, Printing, At, CalledAlone, Printers
      <3>2. QED  BY <2>2, <3>1, StartSkips DEF Log!Next
    <2>3. CASE SkipBlank(t) \/ EmitRecord(t)
      <3>1. pc[t] = "loop"  BY <2>3 DEF SkipBlank, EmitRecord, Advance
      <3>2. Followers = {t}  BY <3>1 DEF PrintInv, Printing, At, CalledAlone, Printers
      <3>3. QED  BY <2>3, <3>1, <3>2, BlankSkips, EmitShows DEF Log!Next
    <2>4. CASE EnterPrint(t) \/ UnlockPrint(t) \/ TooSmall(t) \/ NothingNew(t) \/ FinishPrint(t)
      <3>1. UNCHANGED <<next_tp, tp_pool_size, tp_pool, tp_pool_copy, allocated, delivered>>
        BY <2>4 DEF EnterPrint, UnlockPrint, TooSmall, NothingNew, FinishPrint, Return
      <3>2. \A f \in Followers : Pos(f)' = Pos(f)
        <4>1. CASE FinishPrint(t)
          <5>1. /\ pc[t] = "loop" /\ pc'[t] = "idle"
                /\ \A f \in Followers : priv'[f] = IF f = t THEN tp_num[t] ELSE priv[f]
                /\ \A f \in Followers : f # t => pc'[f] = pc[f] /\ tp_num'[f] = tp_num[f]
            BY <1>0, <4>1 DEF FinishPrint, Return, TypeInv, TypeOK
          <5>2. QED  BY <5>1 DEF Pos
        <4>2. CASE ~FinishPrint(t)
          <5>1. /\ priv' = priv /\ pc[t] # "loop" /\ pc'[t] # "loop"
                /\ \A f \in Followers : f # t => pc'[f] = pc[f] /\ tp_num'[f] = tp_num[f]
            BY <1>0, <2>4, <4>2 DEF EnterPrint, UnlockPrint, TooSmall, NothingNew, Return,
               TypeInv, TypeOK
          <5>2. QED  BY <5>1 DEF Pos
        <4>3. QED  BY <4>1, <4>2
      <3>3. Held(tp_pool)' = Held(tp_pool)  BY <3>1 DEF Held
      <3>4. QED  BY <3>1, <3>2, <3>3, LogSame
    <2>5. QED  BY <1>3, <2>1, <2>2, <2>3, <2>4 DEF PrintStep
  <1>4. ASSUME NEW t \in Threads, ResizeStep(t) PROVE Log!Next \/ UNCHANGED LogVars
    <2>1. CASE EnterReconfigure(t) \/ LeaveReconfigure(t)
      <3>1. /\ UNCHANGED <<next_tp, tp_pool_size, tp_pool, tp_pool_copy, allocated, delivered,
                           priv, tp_num>>
            /\ \A f \in Followers : pc'[f] = "loop" <=> pc[f] = "loop"
        BY <1>0, <2>1 DEF EnterReconfigure, LeaveReconfigure
      <3>2. Held(tp_pool)' = Held(tp_pool)  BY <3>1 DEF Held
      <3>3. \A f \in Followers : Pos(f)' = Pos(f)  BY <3>1 DEF Pos
      <3>4. QED  BY <3>1, <3>2, <3>3, LogSame
    <2>2. CASE Realloc(t) \/ ReallocFails(t)  BY <2>2, ReallocResizes DEF Log!Next
    <2>3. QED  BY <1>4, <2>1, <2>2 DEF ResizeStep
  <1>5. CASE UNCHANGED vars
    <2>1. Held(tp_pool)' = Held(tp_pool)  BY <1>5 DEF vars, Held
    <2>2. \A f \in Followers : Pos(f)' = Pos(f)  BY <1>5 DEF vars, Pos
    <2>3. QED  BY <1>5, <2>1, <2>2, LogSame DEF vars
  <1>6. QED  BY <1>1, <1>2, <1>3, <1>4, <1>5 DEF Next, Dead

\* The pool implements the log: whatever is traced and reconfigured between a lone
\* follower's calls and during them, it is shown every tracepoint that its copy
\* holds from its cursor on, in order and once.
THEOREM LogKept ==
  ASSUME CalledAlone, Followers # {}
  PROVE  Spec /\ []InRange => KeepsLog
  <1>1. PrinterInv /\ InRange /\ HeldInv /\ [Next]_vars => HeldInv'  BY HeldNext
  <1>2. PrinterInv /\ InRange /\ [Next]_vars => PrinterInv'  BY PrinterNext
  <1>3. PrinterInv /\ InRange /\ OnceInv /\ [Next]_vars => OnceInv'  BY OnceNext
  <1>4. PrinterInv /\ InRange /\ OnceInv /\ HeldInv /\ [Next]_vars => [Log!Next]_LogVars
    BY LogNext
  <1>5. QED
    BY PrinterInit, OnceInit, HeldInit, LogInit, <1>1, <1>2, <1>3, <1>4, PTL
       DEF Spec, KeepsLog, Log!Spec, LogVars, Made, Cursors
=============================================================================
