------------------------------ MODULE TracePool ------------------------------
(***************************************************************************)
(* The tracepoint pool of runtrace (runtrace/runtrace.c): the ring buffer  *)
(* tp_pool, its static copy tp_pool_copy, the counter next_tp, the         *)
(* read/write lock print_rwlock, and the three API functions that work on  *)
(* them from any thread: make_tracept, print_trace_stack and               *)
(* runtrace_reconfigure.  runtrace_init() has already returned.            *)
(*                                                                         *)
(* A tracepoint is identified by its ticket, the value of next_tp it was   *)
(* given.  Its fields are written in two steps, `src' standing for time,   *)
(* line and src and `msg' for the text, so a torn record is a state.       *)
(***************************************************************************)
EXTENDS Integers

CONSTANTS
  Tracers,            \* threads that call make_tracept
  Dumpers,            \* threads that call print_trace_stack with priv = NULL
  Followers,          \* threads that call it with a cursor in priv
  Configurers,        \* threads that call runtrace_reconfigure
  PoolSizes,          \* the pool sizes they ask for, refused ones included
  PrintArgs,          \* the (dst, size) pairs given to print_trace_stack
  CounterMod,         \* number of values of an unsigned int, 2^32 in the code
  MaxTracepts,        \* bound: no make_tracept starts at or after this ticket
  Kernel,             \* TRUE: the __KERNEL__ build, FALSE: the user space one
  AllocMayFail,       \* TRUE: MALLOC may return NULL in runtrace_reconfigure
  ReconfigureAnyTime, \* FALSE: the caller keeps it apart from printing
  NoTicket, Uninit, NoThread

Threads == Tracers \cup Dumpers \cup Followers \cup Configurers
Printers == Dumpers \cup Followers
Tickets == 0 .. CounterMod - 1

\* The checks at the head of runtrace_reconfigure: at least 4, a power of 2.
ValidSize(n) == n >= 4 /\ \E k \in 2 .. n : n = 2 ^ k

ASSUME PoolAssumption ==
  /\ CounterMod \in Nat \ {0} /\ CounterMod % 2 = 0
  /\ MaxTracepts \in Nat
  /\ PoolSizes \subseteq Nat
  /\ \A n \in PoolSizes : ValidSize(n) => CounterMod % n = 0 /\ n <= CounterMod \div 2
  /\ PrintArgs \subseteq [dst : BOOLEAN, size : Nat]
  /\ Kernel \in BOOLEAN /\ AllocMayFail \in BOOLEAN /\ ReconfigureAnyTime \in BOOLEAN
  /\ NoTicket \notin Tickets /\ Uninit \notin Tickets /\ NoTicket # Uninit
  /\ NoThread \notin Threads

VARIABLES
  next_tp, tp_pool_size, tp_pool, tp_pool_copy,
  allocated,          \* tp_pool, tp_pool_copy and vsprint_buffer are not NULL
  readers, writer,    \* who holds print_rwlock
  pc, aborted,        \* where each thread is; the process has called abort()
  ticket,             \* make_tracept: tp, as the ticket that selected it
  arg, last_tp, tp_num, printed,      \* locals of print_trace_stack
  priv,               \* the cursor a follower passes by address
  request,            \* runtrace_reconfigure: pool_size
  dangling,           \* history: threads holding a pointer into freed pools
  delivered           \* history: live tickets already printed to a follower

poolVars  == <<tp_pool_size, tp_pool, tp_pool_copy, allocated>>
lockVars  == <<readers, writer>>
printVars == <<arg, last_tp, tp_num, printed>>
vars == <<next_tp, poolVars, lockVars, pc, aborted, ticket, printVars, priv,
          request, dangling, delivered>>

-----------------------------------------------------------------------------
(* Records.  `due' and `raced' are history: the newest ticket that selected *)
(* the slot, and whether it did so while an earlier writer was still there. *)

Field  == Tickets \cup {NoTicket, Uninit}
Record == [src : Field, msg : Field, due : Field, raced : BOOLEAN]
Filled(v) == [src |-> v, msg |-> v, due |-> v, raced |-> FALSE]
Zeroed(n) == [i \in 0 .. n - 1 |-> Filled(NoTicket)]
Garbage(n) == [i \in 0 .. n - 1 |-> Filled(Uninit)]

\* tp_cnt_mask & n, the size being a power of 2.
Slot(n) == n % tp_pool_size

\* The int an unsigned counter value, or an overflowed int result, becomes.
ToInt(n) == LET u == n % CounterMod
            IN  IF u >= CounterMod \div 2 THEN u - CounterMod ELSE u

At(labels) == {t \in Threads : pc[t] \in labels}
InFlight   == At({"src", "msg"})
Printing   == At({"prlock", "copy", "prunlock", "start", "loop"})
Resizing   == At({"relock", "realloc", "reunlock"})

Goto(t, from, to) == /\ ~aborted
                     /\ pc[t] = from
                     /\ pc' = [pc EXCEPT ![t] = to]

\* RT_DISABLING_ERR: abort() in user space, only a printk in the kernel.
DisablingErr == aborted' = ~Kernel

-----------------------------------------------------------------------------
(* print_rwlock.  The user space lock prefers writers; the kernel's does not.*)

\* Mutant: no preference.
MayReadPastWriters == writer = NoThread
\* Mutant: readers are not waited for.
MayWriteOverReaders == writer = NoThread

MayRead  == writer = NoThread /\ (Kernel \/ At({"prlock", "relock"}) = {})
MayWrite == writer = NoThread /\ readers = {}

RdLock(t)   == MayRead  /\ readers' = readers \cup {t} /\ UNCHANGED writer
RdUnlock(t) == readers' = readers \ {t} /\ UNCHANGED writer
WrLock(t)   == MayWrite /\ writer' = t /\ UNCHANGED readers
WrUnlock    == writer' = NoThread /\ UNCHANGED readers

-----------------------------------------------------------------------------
(* make_tracept *)

MakeTracept(t) ==
  /\ t \in Tracers /\ allocated /\ next_tp < MaxTracepts
  /\ Goto(t, "idle", "rdlock")
  /\ UNCHANGED <<next_tp, poolVars, lockVars, aborted, ticket, printVars, priv,
                 request, dangling, delivered>>

\* tp_pool is NULL: the kernel build resets the counter in runtrace_init and
\* goes for the write lock in its runtrace_reconfigure.  A NULL pool outlives
\* only a failed runtrace_reconfigure, which leaves that lock held for ever.
LateInit(t) ==
  /\ t \in Tracers /\ ~allocated
  /\ Goto(t, "idle", "init")
  /\ next_tp' = 0
  /\ UNCHANGED <<poolVars, lockVars, aborted, ticket, printVars, priv, request,
                 dangling, delivered>>

EnterTracept(t) ==
  /\ Goto(t, "rdlock", "claim")
  /\ RdLock(t)
  /\ UNCHANGED <<next_tp, poolVars, aborted, ticket, printVars, priv, request,
                 dangling, delivered>>

\* Mutant: atomic_inc_return without the - 1.
IncReturn == (next_tp + 1) % CounterMod

\* The value of ATOMIC_RET_INC(next_tp).
RetInc == next_tp

\* tp = tp_pool + (tp_cnt_mask & ATOMIC_RET_INC(next_tp))
Claim(t) ==
  LET s == Slot(RetInc) IN
  /\ Goto(t, "claim", "src")
  /\ ticket' = [ticket EXCEPT ![t] = RetInc]
  /\ next_tp' = (next_tp + 1) % CounterMod
  /\ tp_pool' = [tp_pool EXCEPT ![s] =
                  [@ EXCEPT !.due = RetInc,
                            !.raced = \E u \in InFlight : Slot(ticket[u]) = s]]
  /\ delivered' = [f \in Followers |-> delivered[f] \ {RetInc}]
  /\ UNCHANGED <<tp_pool_size, tp_pool_copy, allocated, lockVars, aborted,
                 printVars, priv, request, dangling>>

WriteSrc(t) ==
  /\ Goto(t, "src", "msg")
  /\ tp_pool' = [tp_pool EXCEPT ![Slot(ticket[t])] = [@ EXCEPT !.src = ticket[t]]]
  /\ UNCHANGED <<next_tp, tp_pool_size, tp_pool_copy, allocated, lockVars, aborted,
                 ticket, printVars, priv, request, dangling, delivered>>

WriteMsg(t) ==
  /\ Goto(t, "msg", "rdunlock")
  /\ tp_pool' = [tp_pool EXCEPT ![Slot(ticket[t])] = [@ EXCEPT !.msg = ticket[t]]]
  /\ UNCHANGED <<next_tp, tp_pool_size, tp_pool_copy, allocated, lockVars, aborted,
                 ticket, printVars, priv, request, dangling, delivered>>

LeaveTracept(t) ==
  /\ Goto(t, "rdunlock", "idle")
  /\ RdUnlock(t)
  /\ ticket' = [ticket EXCEPT ![t] = 0]
  /\ UNCHANGED <<next_tp, poolVars, aborted, printVars, priv, request, dangling,
                 delivered>>

-----------------------------------------------------------------------------
(* print_trace_stack.  Sizes are counted in records: one unit is            *)
(* needed_bufsize, the room the code keeps for one more record or ellipsis. *)

NeededBuf == 1

\* What __print_trace_point returns: nothing goes to a buffer that is not there.
Written(t) == IF arg[t].dst THEN 1 ELSE 0

\* The call; tp_end is computed from tp_pool_copy here, before the lock.
PrintTrace(t) ==
  /\ t \in Printers
  /\ ReconfigureAnyTime \/ Resizing = {}
  /\ Goto(t, "idle", "prlock")
  /\ \E a \in PrintArgs : arg' = [arg EXCEPT ![t] = a]
  /\ UNCHANGED <<next_tp, poolVars, lockVars, aborted, ticket, last_tp, tp_num,
                 printed, priv, request, dangling, delivered>>

EnterPrint(t) ==
  /\ Goto(t, "prlock", "copy")
  /\ WrLock(t)
  /\ UNCHANGED <<next_tp, poolVars, aborted, ticket, printVars, priv, request,
                 dangling, delivered>>

CopyPool(t) ==
  /\ Goto(t, "copy", "prunlock")
  /\ last_tp' = [last_tp EXCEPT ![t] = ToInt(next_tp)]
  /\ tp_pool_copy' = tp_pool
  /\ UNCHANGED <<next_tp, tp_pool_size, tp_pool, allocated, lockVars, aborted,
                 ticket, arg, tp_num, printed, priv, request, dangling, delivered>>

UnlockPrint(t) ==
  /\ Goto(t, "prunlock", "start")
  /\ WrUnlock
  /\ UNCHANGED <<next_tp, poolVars, aborted, ticket, printVars, priv, request,
                 dangling, delivered>>

\* What every return does to the caller's frame and to the history.
Return(t) ==
  /\ Goto(t, pc[t], "idle")
  /\ arg'     = [arg     EXCEPT ![t] = [dst |-> FALSE, size |-> 0]]
  /\ last_tp' = [last_tp EXCEPT ![t] = 0]
  /\ tp_num'  = [tp_num  EXCEPT ![t] = 0]
  /\ printed' = [printed EXCEPT ![t] = 0]
  /\ dangling' = dangling \ {t}
  /\ UNCHANGED <<next_tp, poolVars, lockVars, ticket, request, delivered>>

\* size < needed_bufsize: tested whether or not there is a dst to overflow.
TooSmall(t) ==
  /\ pc[t] = "start" /\ arg[t].size < NeededBuf
  /\ DisablingErr
  /\ Return(t)
  /\ UNCHANGED priv

\* last_tp == *priv
NothingNew(t) ==
  /\ pc[t] = "start" /\ arg[t].size >= NeededBuf
  /\ t \in Followers /\ last_tp[t] = priv[t]
  /\ Return(t)
  /\ UNCHANGED <<aborted, priv>>

\* An int difference: overflow is undefined, a build wraps or compares exactly.
Minus(a, b) == {a - b, ToInt(a - b)}

\* Mutants: nothing is noticed, or only what wrapped around.
OverrunIgnored(num, last, lastMinusMask, oldest) == FALSE
OverrunWrapOnly(num, last, lastMinusMask, oldest) == num > last

\* Has the ring overwritten the record a cursor stands at?  tp_cnt_mask is one
\* less than the size.
Overrun(num, last, lastMinusMask, oldest) ==
  IF lastMinusMask < 0
  THEN num > last /\ num < oldest
  ELSE num < oldest \/ num > last

\* Mutant: tp_cnt_mask for tp_pool_size.
OldestByMask(last) == ToInt(last - (tp_pool_size - 1))

\* The oldest position in the ring.
Oldest(last) == ToInt(last - tp_pool_size)

\* Where the loop starts, and whether an ellipsis is printed first.
StartLoop(t) == \E m \in Minus(last_tp[t], tp_pool_size - 1),
                  o \in Minus(last_tp[t], tp_pool_size) :
  LET last  == last_tp[t]
      lost  == t \in Followers /\ Overrun(priv[t], last, m, o)
      first == IF t \in Followers /\ ~lost THEN priv[t] ELSE Oldest(last)
      dots  == lost /\ arg[t].dst /\ tp_pool_copy[Slot(first)].src # NoTicket
  IN
  /\ arg[t].size >= NeededBuf
  /\ ~(t \in Followers /\ last = priv[t])
  /\ Goto(t, "start", "loop")
  /\ tp_num'  = [tp_num  EXCEPT ![t] = first]
  /\ printed' = [printed EXCEPT ![t] = IF dots THEN 1 ELSE 0]
  /\ UNCHANGED <<next_tp, poolVars, lockVars, aborted, ticket, arg, last_tp, priv,
                 request, dangling, delivered>>

\* Mutant: >= for >.
FullEarly(t) == arg[t].dst /\ printed[t] >= arg[t].size - NeededBuf

Current(t) == tp_pool_copy[Slot(tp_num[t])]
More(t)    == tp_num[t] # last_tp[t]
Blank(t)   == Current(t).src = NoTicket
Full(t)    == arg[t].dst /\ printed[t] > arg[t].size - NeededBuf
Emitting(t) == pc[t] = "loop" /\ More(t) /\ ~Blank(t) /\ ~Full(t)

Advance(t) == /\ Goto(t, "loop", "loop")
              /\ tp_num' = [tp_num EXCEPT ![t] = ToInt(@ + 1)]
              /\ UNCHANGED <<next_tp, poolVars, lockVars, aborted, ticket, arg,
                             last_tp, priv, request, dangling>>

SkipBlank(t) ==
  /\ More(t) /\ Blank(t)
  /\ Advance(t)
  /\ UNCHANGED <<printed, delivered>>

EmitRecord(t) ==
  /\ Emitting(t)
  /\ Advance(t)
  /\ printed' = [printed EXCEPT ![t] = @ + Written(t)]
  /\ delivered' = [f \in Followers |->
                    delivered[f] \cup (IF f = t THEN {Current(t).src} ELSE {})]

\* Mutant: the cursor is saved only by a loop that ran to its end.
FinishPrintForgetful(t) ==
  /\ pc[t] = "loop"
  /\ ~More(t) \/ (~Blank(t) /\ Full(t))
  /\ priv' = [f \in Followers |-> IF f = t /\ ~More(t) THEN tp_num[t] ELSE priv[f]]
  /\ Return(t)
  /\ UNCHANGED aborted

FinishPrint(t) ==
  /\ pc[t] = "loop"
  /\ ~More(t) \/ (~Blank(t) /\ Full(t))
  /\ priv' = [f \in Followers |-> IF f = t THEN tp_num[t] ELSE priv[f]]
  /\ Return(t)
  /\ UNCHANGED aborted

-----------------------------------------------------------------------------
(* runtrace_reconfigure *)

RefuseSize(t) ==
  /\ t \in Configurers /\ ~aborted /\ pc[t] = "idle"
  /\ \E n \in PoolSizes : ~ValidSize(n)
  /\ DisablingErr
  /\ UNCHANGED <<next_tp, poolVars, lockVars, pc, ticket, printVars, priv, request,
                 dangling, delivered>>

Reconfigure(t) ==
  /\ t \in Configurers
  /\ ReconfigureAnyTime \/ Printing = {}
  /\ Goto(t, "idle", "relock")
  /\ \E n \in PoolSizes : ValidSize(n) /\ request' = [request EXCEPT ![t] = n]
  /\ UNCHANGED <<next_tp, poolVars, lockVars, aborted, ticket, printVars, priv,
                 dangling, delivered>>

\* Mutant: without the lock.
EnterReconfigureUnlocked(t) ==
  /\ Goto(t, "relock", "realloc")
  /\ UNCHANGED <<next_tp, poolVars, lockVars, aborted, ticket, printVars, priv, request,
                 dangling, delivered>>

EnterReconfigure(t) ==
  /\ Goto(t, "relock", "realloc")
  /\ WrLock(t)
  /\ UNCHANGED <<next_tp, poolVars, aborted, ticket, printVars, priv, request,
                 dangling, delivered>>

\* The threads whose pointers FREE leaves dangling.
Pointing == InFlight \cup Printing

\* Mutant: tp_pool_copy stays as it was.
ReallocPoolOnly(t) ==
  /\ Goto(t, "realloc", "reunlock")
  /\ tp_pool_size' = request[t]
  /\ tp_pool' = Zeroed(request[t])
  /\ dangling' = dangling \cup Pointing
  /\ UNCHANGED <<next_tp, tp_pool_copy, allocated, lockVars, aborted, ticket, printVars,
                 priv, request, delivered>>

Realloc(t) ==
  /\ Goto(t, "realloc", "reunlock")
  /\ tp_pool_size' = request[t]
  /\ tp_pool' = Zeroed(request[t])
  /\ tp_pool_copy' = Garbage(request[t])
  /\ dangling' = dangling \cup Pointing
  /\ UNCHANGED <<next_tp, allocated, lockVars, aborted, ticket, printVars, priv,
                 request, delivered>>

\* Mutant: the error path unlocks.
ReallocFailsUnlocking(t) ==
  /\ AllocMayFail
  /\ Goto(t, "realloc", "idle")
  /\ WrUnlock
  /\ allocated' = FALSE
  /\ dangling' = dangling \cup Pointing
  /\ request' = [request EXCEPT ![t] = 0]
  /\ DisablingErr
  /\ UNCHANGED <<next_tp, tp_pool_size, tp_pool, tp_pool_copy, ticket, printVars, priv,
                 delivered>>

\* The error path frees everything and returns without WRUNLOCK.
ReallocFails(t) ==
  /\ AllocMayFail
  /\ Goto(t, "realloc", "idle")
  /\ allocated' = FALSE
  /\ tp_pool_size' = request[t]
  /\ tp_pool' = Garbage(request[t])
  /\ tp_pool_copy' = Garbage(request[t])
  /\ dangling' = dangling \cup Pointing
  /\ request' = [request EXCEPT ![t] = 0]
  /\ DisablingErr
  /\ UNCHANGED <<next_tp, lockVars, ticket, printVars, priv, delivered>>

LeaveReconfigure(t) ==
  /\ Goto(t, "reunlock", "idle")
  /\ WrUnlock
  /\ request' = [request EXCEPT ![t] = 0]
  /\ UNCHANGED <<next_tp, poolVars, aborted, ticket, printVars, priv, dangling,
                 delivered>>

-----------------------------------------------------------------------------
Init ==
  /\ next_tp = 0
  /\ tp_pool_size \in {n \in PoolSizes : ValidSize(n)}
  /\ tp_pool = Zeroed(tp_pool_size)
  /\ tp_pool_copy = Garbage(tp_pool_size)
  /\ allocated = TRUE
  /\ readers = {} /\ writer = NoThread
  /\ pc = [t \in Threads |-> "idle"] /\ aborted = FALSE
  /\ ticket = [t \in Threads |-> 0]
  /\ arg = [t \in Threads |-> [dst |-> FALSE, size |-> 0]]
  /\ last_tp = [t \in Threads |-> 0]
  /\ tp_num = [t \in Threads |-> 0]
  /\ printed = [t \in Threads |-> 0]
  /\ priv = [f \in Followers |-> 0]
  /\ request = [t \in Threads |-> 0]
  /\ dangling = {}
  /\ delivered = [f \in Followers |-> {}]

\* The steps of a call in progress, and the calls.
Tracing(t) == \/ EnterTracept(t) \/ Claim(t) \/ WriteSrc(t) \/ WriteMsg(t)
              \/ LeaveTracept(t)
PrintStep(t) == \/ EnterPrint(t) \/ CopyPool(t) \/ UnlockPrint(t) \/ TooSmall(t)
                \/ NothingNew(t) \/ StartLoop(t) \/ SkipBlank(t) \/ EmitRecord(t)
                \/ FinishPrint(t)
ResizeStep(t) == \/ EnterReconfigure(t) \/ Realloc(t) \/ ReallocFails(t)
                 \/ LeaveReconfigure(t)
Call(t) == \/ MakeTracept(t) \/ LateInit(t) \/ PrintTrace(t) \/ RefuseSize(t)
           \/ Reconfigure(t)

\* After abort() the process is gone.
Dead == aborted /\ UNCHANGED vars

Next == \/ \E t \in Threads : Call(t) \/ Tracing(t) \/ PrintStep(t) \/ ResizeStep(t)
        \/ Dead

Spec == Init /\ [][Next]_vars

\* A call in progress goes on; calls are made or not as the program pleases.
FairSpec == Spec /\ \A t \in Threads : /\ WF_vars(Tracing(t))
                                      /\ WF_vars(PrintStep(t))
                                      /\ WF_vars(ResizeStep(t))

\* Besides, whoever follows the trace keeps calling print_trace_stack.
FollowSpec == FairSpec /\ \A f \in Followers : WF_vars(PrintTrace(f))

-----------------------------------------------------------------------------
(* Properties *)

Ints == -(CounterMod \div 2) .. CounterMod - 1

\* The type of every variable.
TypeOK ==
  /\ next_tp \in Tickets
  /\ tp_pool_size \in {n \in PoolSizes : ValidSize(n)}
  /\ tp_pool \in [0 .. tp_pool_size - 1 -> Record]
  /\ tp_pool_copy \in [0 .. tp_pool_size - 1 -> Record]
  /\ allocated \in BOOLEAN /\ aborted \in BOOLEAN
  /\ readers \subseteq Threads /\ writer \in Threads \cup {NoThread}
  /\ pc \in [Threads -> {"idle", "rdlock", "claim", "src", "msg", "rdunlock", "init",
                         "prlock", "copy", "prunlock", "start", "loop",
                         "relock", "realloc", "reunlock"}]
  /\ ticket \in [Threads -> Tickets]
  /\ arg \in [Threads -> [dst : BOOLEAN, size : Nat]]
  /\ last_tp \in [Threads -> Ints] /\ tp_num \in [Threads -> Ints]
  /\ printed \in [Threads -> Nat]
  /\ priv \in [Followers -> Ints]
  /\ request \in [Threads -> {0} \cup {n \in PoolSizes : ValidSize(n)}]
  /\ dangling \subseteq Threads
  /\ delivered \in [Followers -> SUBSET Field]

\* A record all of whose fields come from the tracepoint that owns the slot.
Whole(r) == r.src = r.due /\ r.msg = r.due

\* While a printer or a reconfiguration holds the write lock, every slot that
\* no lapped writer raced for holds all of the newest tracepoint that claimed
\* it: the memcpy of line 485 sees no half written record.
SnapshotIsNewest ==
  writer # NoThread => \A i \in DOMAIN tp_pool : tp_pool[i].raced \/ Whole(tp_pool[i])

\* The record print_trace_stack is about to print at position tp_num is the
\* tracepoint with that number, all of it: neither an older nor a newer one
\* that happens to share the slot (the tp/tp_num walk of lines 525-545).
PrintsItsPosition ==
  \A t \in Printers : Emitting(t) /\ ~Current(t).raced =>
    Current(t).src = tp_num[t] % CounterMod /\ Whole(Current(t))

\* A follower, which hands the cursor of one call to the next, is never printed
\* the same tracepoint twice (lines 497-519 and 557-559).
AtMostOnce ==
  \A f \in Followers : Emitting(f) => Current(f).src \notin delivered[f]

\* When a follower's cursor is moved forward the tracepoints it jumps over are
\* no longer in the copied ring: an overrun is never reported falsely
\* (lines 507-518).
SkipsOnlyTheOverwritten ==
  [][\A f \in Followers : pc[f] = "start" /\ pc'[f] = "loop" =>
       \A i \in DOMAIN tp_pool_copy : LET r == tp_pool_copy[i] IN
         r.raced \/ r.src \notin {n % CounterMod : n \in priv[f] .. tp_num'[f] - 1}]_vars

\* The counter has not passed the largest int.
InRange == Followers # {} => next_tp < CounterMod \div 2

\* When the cursor is not moved forward the ring still holds every tracepoint
\* from there on: being lapped is noticed (lines 507-518) until next_tp passes
\* the largest int.  Lines 504-506 mean it for the whole range of the counter;
\* beyond the largest int a lap can go unnoticed.
LapIsNoticed ==
  [][\A f \in Followers :
       /\ pc[f] = "start" /\ pc'[f] = "loop" /\ tp_num'[f] = priv[f]
       /\ InRange
       => (last_tp[f] - priv[f]) % CounterMod <= tp_pool_size]_vars

\* make_tracept never writes through a pointer into a pool that
\* runtrace_reconfigure has freed: the read lock covers lines 989-998.
TracerNeverDangles == dangling \cap InFlight = {}

\* Code under print_rwlock never meets a pool that is NULL: the only thing that
\* stands between a failed runtrace_reconfigure and the threads already past
\* the NULL test of line 975 is the write lock that its error path leaks
\* (lines 814-827).
NullNeverTouched == ~allocated => At({"claim", "src", "msg", "copy"}) = {}

\* No printer holds tp_end or tp over a reallocation of tp_pool_copy.
PrinterNeverDangles == dangling \cap Printing = {}

\* A caller of print_trace_stack gets the lock however many tracepoints are
\* being made (the lock prefers writers, line 105), and the loop ends.
PrintReturns == \A t \in Printers : pc[t] = "prlock" ~> pc[t] = "idle"

\* Once tracing pauses, a follower with the smallest buffer catches up: its
\* cursor reaches next_tp, by however many calls (lines 535-537 and 557-559).
CatchesUp == \A f \in Followers, n \in Tickets :
               <>[](next_tp = n) => <>(priv[f] = ToInt(n))
\* Where a follower stands: in the walk, or where the last one left it.
Pos(f) == IF pc[f] = "loop" THEN tp_num[f] ELSE priv[f]

\* The tracepoints a ring has, a pool that is not there having none.
Held(pool) == IF ~allocated THEN {} ELSE
  {[num |-> pool[i].due, spoiled |-> pool[i].raced] :
     i \in {j \in DOMAIN pool : pool[j].due \in Tickets}}

\* The pool implements the log: a lone follower is shown everything the copied
\* ring holds from its cursor on, in order and once, and nothing else (lines
\* 482-559), whoever traces and reconfigures between its calls and during them.
Log == INSTANCE TraceLog WITH
         Sizes <- {n \in PoolSizes : ValidSize(n)},
         made <- IF allocated THEN next_tp ELSE 0, size <- tp_pool_size,
         log <- Held(tp_pool), copy <- Held(tp_pool_copy),
         cursor <- [f \in Followers |-> Pos(f)], shown <- delivered

KeepsLog == Log!Spec
=============================================================================
