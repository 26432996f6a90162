-------------------------------- MODULE Cdev --------------------------------
(***************************************************************************)
(* The character device of the kernel build (runtrace/runtrace.c:576-687)  *)
(* on top of the tracepoint pool: processes open the device, read the      *)
(* trace through print_trace_stack with the file's position as its cursor, *)
(* sleep in read_queue while there is nothing new and are woken by         *)
(* make_tracept, and switch blocking reads off and on by writing.          *)
(*                                                                         *)
(* TracePool's followers are the processes that read; priv is f_pos.  The  *)
(* module is not unloaded, so try_module_get does not fail.                *)
(***************************************************************************)
EXTENDS TracePool, FiniteSets

CONSTANTS
  Writers,  \* processes that open the device to write to it
  MaxRefs   \* bound on the references to the module: refused opens leak them

Users == Followers \cup Writers

\* A size is an int, hence below half the counter's range.
ASSUME CdevAssumption ==
  /\ Kernel /\ Writers \cap Followers = {} /\ MaxRefs \in Nat
  /\ IsFiniteSet(Users)
  /\ \A n \in PoolSizes : ValidSize(n) => n < CounterMod \div 2

VARIABLES
  cdev_readers, module_refs, cdev_blocking_read,
  file,     \* what each user has: nothing, half an open, an open file
  rd,       \* where each reader is in cdev_read
  call,     \* its arguments: count, as print_trace_stack gets it; O_NONBLOCK
  answer    \* history: what the last cdev_read of the open file returned

openVars == <<cdev_readers, module_refs, cdev_blocking_read, file>>
readVars == <<rd, call, answer>>
cdevVars == <<openVars, readVars>>
traceVars == <<next_tp, poolVars, lockVars, pc, aborted, ticket, printVars, request,
               dangling>>

-----------------------------------------------------------------------------
(* cdev_open, cdev_release, cdev_write *)

\* Mutant: one more.
TooManyByOne(old) == old > 2

\* ATOMIC_RET_INC(cdev_readers) > 1, the value before the increment.
TooMany(old) == old > 1

OpenCount(u) ==
  /\ file[u] = "closed" /\ module_refs < MaxRefs
  /\ module_refs' = module_refs + 1
  /\ cdev_readers' = cdev_readers + 1
  /\ file' = [file EXCEPT ![u] = IF TooMany(cdev_readers) THEN "refused" ELSE "counted"]
  /\ UNCHANGED <<vars, readVars, cdev_blocking_read>>

\* Mutant: without ATOMIC_DEC.
OpenRefusedCounted(u) ==
  /\ file[u] = "refused"
  /\ file' = [file EXCEPT ![u] = "closed"]
  /\ UNCHANGED <<vars, readVars, cdev_readers, module_refs, cdev_blocking_read>>

\* -EBUSY; the reference to the module stays.
OpenRefused(u) ==
  /\ file[u] = "refused"
  /\ file' = [file EXCEPT ![u] = "closed"]
  /\ cdev_readers' = cdev_readers - 1
  /\ UNCHANGED <<vars, readVars, module_refs, cdev_blocking_read>>

\* Mutant: tp_cnt_mask for tp_pool_size, and not one behind.
FirstPositionByMask == ToInt(next_tp - (tp_pool_size - 1))

\* (unsigned int) (next_tp - tp_pool_size - 1)
FirstPosition == ToInt(next_tp - tp_pool_size - 1)

OpenPosition(u) ==
  /\ file[u] = "counted"
  /\ file' = [file EXCEPT ![u] = "open"]
  /\ priv' = [f \in Followers |-> IF f = u THEN FirstPosition ELSE priv[f]]
  /\ delivered' = [f \in Followers |-> IF f = u THEN {} ELSE delivered[f]]
  /\ answer' = [f \in Followers |-> IF f = u THEN "none" ELSE answer[f]]
  /\ UNCHANGED <<traceVars, cdev_readers, module_refs, cdev_blocking_read, rd, call>>

Release(u) ==
  /\ file[u] = "open" /\ (u \in Followers => rd[u] = "out")
  /\ file' = [file EXCEPT ![u] = "closed"]
  /\ cdev_readers' = cdev_readers - 1
  /\ module_refs' = module_refs - 1
  /\ UNCHANGED <<vars, readVars, cdev_blocking_read>>

\* "blocking 0" and "blocking 1"; nobody is woken, and nothing else changes it.
Write(u) ==
  /\ u \in Writers /\ file[u] = "open"
  /\ cdev_blocking_read' = ~cdev_blocking_read
  /\ UNCHANGED <<vars, readVars, cdev_readers, module_refs, file>>

-----------------------------------------------------------------------------
(* cdev_read *)

Moves(f, from, to) == rd[f] = from /\ rd' = [rd EXCEPT ![f] = to]
Returns(f, from, what) == /\ Moves(f, from, "out")
                          /\ answer' = [answer EXCEPT ![f] = what]
                          /\ UNCHANGED <<vars, openVars, call>>
Passes(f, from, to) == Moves(f, from, to) /\ UNCHANGED <<vars, openVars, call, answer>>

Behind(f) == priv[f] # ToInt(next_tp)

Read(f) ==
  /\ file[f] = "open"
  /\ Moves(f, "out", "test")
  /\ \E a \in PrintArgs, n \in BOOLEAN :
       a.dst /\ call' = [call EXCEPT ![f] = [arg |-> a, nonblock |-> n]]
  /\ UNCHANGED <<vars, openVars, answer>>

SeesNews(f)  == Behind(f) /\ Passes(f, "test", "print")
SeesEmpty(f) == ~Behind(f) /\ Passes(f, "test", "empty")
Again(f)     == call[f].nonblock /\ Returns(f, "empty", "again")
EndOfFile(f) == /\ ~call[f].nonblock /\ ~cdev_blocking_read
                /\ Returns(f, "empty", "eof")
Queues(f)    == /\ ~call[f].nonblock /\ cdev_blocking_read
                /\ Passes(f, "empty", "queued")

\* Mutant: what was tested before the queue was entered is not tested again.
SleepsUntested(f) == Passes(f, "queued", "asleep")

\* wait_event_interruptible tests its condition once it is in the queue; a
\* wake-up between that test and the sleep ends the sleep at once.
Sleeps(f) == ~Behind(f) /\ Passes(f, "queued", "asleep")
StaysUp(f) == Behind(f) /\ Passes(f, "queued", "test")
Interrupted(f) == Returns(f, "asleep", "restart")

CallPrint(f) ==
  /\ rd[f] = "print" /\ PrintTrace(f) /\ arg'[f] = call[f].arg
  /\ Moves(f, "print", "printing")
  /\ UNCHANGED <<openVars, call, answer>>

\* What print_trace_stack returns at its various exits.
PrintResult(f) == CASE pc[f] = "start" /\ arg[f].size < NeededBuf -> "error"
                    [] pc[f] = "loop" /\ printed[f] > 0 -> "bytes"
                    [] OTHER -> "nothing"

\* Mutant: without the loop a printout of nothing is the end of the file.
AfterPrintAtOnce(f) ==
  /\ Moves(f, "printing", "out")
  /\ answer' = [answer EXCEPT ![f] = IF PrintResult(f) = "nothing" THEN "eof"
                                                               ELSE PrintResult(f)]

\* do ... while (0 == ret)
AfterPrint(f) ==
  IF PrintResult(f) = "nothing"
  THEN Moves(f, "printing", "test") /\ UNCHANGED answer
  ELSE Moves(f, "printing", "out") /\ answer' = [answer EXCEPT ![f] = PrintResult(f)]

PrintOn(f) ==
  /\ PrintStep(f)
  /\ IF pc'[f] = "idle" THEN AfterPrint(f) ELSE UNCHANGED <<rd, answer>>
  /\ UNCHANGED <<openVars, call>>

-----------------------------------------------------------------------------
(* make_tracept, which ends by waking all who sleep in read_queue *)

Awake == [f \in Followers |-> IF rd[f] = "asleep" THEN "test" ELSE rd[f]]

TraceAndWake(t) ==
  /\ Tracing(t)
  /\ rd' = IF pc[t] = "rdunlock" THEN Awake ELSE rd
  /\ UNCHANGED <<openVars, call, answer>>

Trace(t) == MakeTracept(t) /\ UNCHANGED cdevVars

-----------------------------------------------------------------------------
CdevInit ==
  /\ Init
  /\ cdev_readers = 0 /\ module_refs = 0 /\ cdev_blocking_read = TRUE
  /\ file = [u \in Users |-> "closed"]
  /\ rd = [f \in Followers |-> "out"]
  /\ call = [f \in Followers |-> [arg |-> [dst |-> FALSE, size |-> 0], nonblock |-> FALSE]]
  /\ answer = [f \in Followers |-> "none"]

Opening(u) == OpenCount(u) \/ OpenRefused(u) \/ OpenPosition(u) \/ Release(u) \/ Write(u)
ReadStep(f) == \/ SeesNews(f) \/ SeesEmpty(f) \/ Again(f) \/ EndOfFile(f) \/ Queues(f)
               \/ Sleeps(f) \/ StaysUp(f) \/ CallPrint(f) \/ PrintOn(f)

CdevNext == \/ \E u \in Users : Opening(u)
            \/ \E f \in Followers : Read(f) \/ ReadStep(f) \/ Interrupted(f)
            \/ \E t \in Tracers : Trace(t) \/ TraceAndWake(t)

\* A call in progress goes on, whether a tracer's or a reader's.
CdevSpec == /\ CdevInit /\ [][CdevNext]_<<vars, cdevVars>>
            /\ \A t \in Tracers : WF_<<vars, cdevVars>>(TraceAndWake(t))
            /\ \A f \in Followers : WF_<<vars, cdevVars>>(ReadStep(f))

-----------------------------------------------------------------------------
(* Properties *)

\* However opens, refused opens and releases interleave, no more than two files
\* are open at a time, the reader and the one who writes (lines 585-588).
AtMostTwoOpen == Cardinality({u \in Users : file[u] \in {"counted", "open"}}) <= 2

\* The counter that decides it counts every file open or being opened and
\* nothing else: it is never left too high, which would lock everybody out
\* (lines 585-586 and 608).
ReadersCounted == cdev_readers = Cardinality({u \in Users : file[u] # "closed"})

\* The first walk through the ring for a newly opened file leaves out no
\* tracepoint that is in it, unless its slot was raced for, when it may be an
\* old one (lines 590-591 and 502-522).
FirstReadMissesNothing ==
  [][\A f \in Followers : answer[f] = "none" /\ pc[f] = "start" /\ pc'[f] = "loop" =>
       \A i \in DOMAIN tp_pool_copy :
         ~tp_pool_copy[i].raced /\ tp_pool_copy[i].src \in Tickets =>
           tp_pool_copy[i].src >= tp_num'[f]]_<<vars, cdevVars>>

\* A read returns 0, which cat takes for the end, only while blocking reads are
\* switched off: neither a wake-up nor a walk over blank records ends it.
EndOnlyWhenSwitchedOff ==
  [][\A f \in Followers : answer'[f] = "eof" /\ answer[f] # "eof"
       => ~cdev_blocking_read]_<<vars, cdevVars>>

\* No wake-up is lost: a reader that sleeps although the trace has moved past
\* its position gets its answer (lines 629-643 and 1002).  MaxTracepts ends the
\* tracing of a run: under the kernel's lock, which prefers no writer, tracers
\* that never pause could keep the woken reader out of print_trace_stack.
SleeperAnswered ==
  \A f \in Followers : rd[f] = "asleep" /\ Behind(f) ~> rd[f] = "out"
=============================================================================
