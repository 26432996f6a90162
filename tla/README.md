# A verification project for tripping-robot

TLA+ models of the debugging facilities in this repository, the TLC runs that
check them on small instances, and theorems about them that the TLA+ proof system
(tlapm) checks for every value of the constants.  Line numbers are those of the files
under `src/`.

## 1. The system

The repository is a collection of independent facilities.  They share no state; each
is linked into an application (or, for runtrace, also loaded into the kernel) and is
called from its threads.

| Component | State it keeps | Operations | What is hard |
|---|---|---|---|
| **runtrace: tracepoint pool** (`runtrace/runtrace.c`) | the ring `tp_pool`, its static copy `tp_pool_copy`, the counter `next_tp`, the sizes, the read/write lock `print_rwlock` | `make_tracept`, `print_trace_stack`, `runtrace_reconfigure` | tracers write in parallel under the *read* lock; a printer copies under the write lock and prints without it; a cursor handed from call to call on a counter that wraps; failing allocations |
| **runtrace: formatting buffers** (same file) | the ring `vsprint_buffer` of `max_threads` containers, their `in_use` flags, `vspb_underrun_notice` | `tpprintf`; the ring is rebuilt by `runtrace_reconfigure` | lock-free search for a free container by any number of callers; the text is copied out of it later |
| **runtrace: life cycle** (same file) | whether the pools and the lock are there, the installed handler, the abort flags | `runtrace_init`, `runtrace_exit`, `runtrace_flush_on_abort`, the SIGABRT handler | a handler that prints from wherever the aborting thread was, the write lock held included; calls before and after the facility's life |
| **runtrace: character device** (same file, kernel) | `cdev_readers`, each reader's `f_pos`, the wait queue | `cdev_open`, `cdev_release`, `cdev_read`, `cdev_write` | sleeping readers, the count of readers, the starting position |
| **memleak** (`memleak/memleak.cpp`) | a sorted list of records per allocation site under `rec_lock`, and a piggyback area in front of every tracked block | `ss_malloc`, `ss_free`, the `new` and `delete` operators, `ss_memleak_point_register`, `memleak_report`, `memleak_allocs_at`, the report at exit | a block outlives the lock; marks shared by several reports; `exit` inside the bookkeeping |
| **timecmp** (`timecmp/timecmp.h`, `.hpp`) | the value of a `RollingTime` | assignment, sums, differences, four comparisons | roll-over, words wider than the timer |
| **stopwatch** (`stopwatch/stopwatch.h`) | two times of day | start, stop, difference | microseconds that borrow, a clock that is set |
| **obscurestr** (`obscurestr/obscurestr.hpp`) | none at run time but the string | obscuring at compile time, undoing it | the two key schedules must agree |
| **mallocoverload** | libc's functions, looked up lazily | `malloc`, `free` | the look-up may race, with equal results |
| **wait4crash** (shell) | the two children of a round | start, kill, wait | the timeout races with the application's end |

How they interact.  Inside runtrace, `tpprintf` formats a text in a container and
calls `make_tracept`, which copies it under the read lock; `runtrace_reconfigure` frees
and rebuilds both rings under the write lock; `cdev_read` calls `print_trace_stack` with
the file's position as cursor; the SIGABRT handler calls `print_trace_stack` too.  The
facilities' environment (threads, the system's `malloc`, `exit`) calls them at any time.

What makes each component correct:

* *pool*: what is printed at a position is the tracepoint with that number, whole; a
  follower gets nothing twice and misses nothing that is still in the ring, is told when
  it was lapped, and catches up; nobody uses freed memory; a printer gets the lock;
* *buffers*: a text reaches the trace as its caller formatted it; the underrun notice
  tells the truth; a caller finds a container;
* *memleak*: one record per site, in order, with the exact count and sum of the live
  blocks; the report of changes hides no change of a count; the application ends with its report;
* *life cycle*: nobody but the thread that lost it meets a NULL pool; an abort ends the
  process, whatever the thread held; the handler prints the trace;
* *character device*: two files at most, an exact count of them; the first read leaves
  nothing out; no wake-up is lost, and nothing but a switched-off block ends a file;
* *timecmp*: comparisons order timers as the times they stand for;
* *stopwatch*: the parts of a difference add up to it, and what is printed is the figure;
* *obscurestr*: every string comes back, and none is in clear;
* *wait4crash*: a round counts as timed out only if its killer has sent its signal, and every
  round ends and is cleaned up.

`PROJECT.json` lists under `hazards` each place in the code that is hard to test, with
the properties that cover it or the reason why none does.

## 2. The modules

| Module | What it is |
|---|---|
| `TracePool` | the tracepoint pool, with the three functions and the lock |
| `TraceLog` | what it promises to whoever follows the trace: a log that is read in order |
| `MCTracePool` | its instances for TLC |
| `TracePoolProofs` | its theorems |
| `VsprintBuffers`, `MCVsprintBuffers`, `VsprintBuffersProofs` | the formatting buffers, likewise |
| `Memleak`, `MCMemleak`, `MemleakProofs` | the bookkeeping of memleak, its instances and its theorems |
| `Ledger` | what that bookkeeping promises: live blocks per site |
| `Cdev`, `MCCdev`, `CdevProofs` | the character device; `Cdev` extends `TracePool`, whose followers are the readers |
| `Lifecycle`, `MCLifecycle`, `LifecycleProofs` | initialisation, exit and abort in user space |
| `TimeCmp`, `MCTimeCmp`, `TimeCmpProofs` | rolling times |
| `ObscureStr`, `MCObscureStr`, `ObscureStrProofs` | the key schedules of obscured strings |
| `Stopwatch` | the macros of the stopwatch; it has no instance for TLC |
| `Wait4Crash`, `MCWait4Crash` | the script that restarts an application until it crashes |
| `ToolsProofs` | the theorems of `Wait4Crash` and of `Stopwatch` |

Definitions have the names of the source where it has one.  An action is one step
between two points at which another thread can get in: taking or releasing a lock, one
atomic operation, one access to shared data; `pc[t]` says where thread t is.  The
definitions marked `Mutant:` are not part of the specifications.  Each is a definition
of the model changed the way a plausible bug in the code would change it; put in the
place of the original it makes TLC report the property named with it in `PROJECT.json`,
which shows that the property can fail.

### TracePool

| Model | Code |
|---|---|
| `MakeTracept`, `LateInit`, `EnterTracept`, `Claim`, `WriteSrc`, `WriteMsg`, `LeaveTracept` | `make_tracept`, 969-1003: test of the pool, RDLOCK, ATOMIC_RET_INC, the fields, RDUNLOCK |
| `PrintTrace`, `EnterPrint`, `CopyPool`, `UnlockPrint`, `TooSmall`, `NothingNew`, `StartLoop`, `SkipBlank`, `EmitRecord`, `FinishPrint` | `print_trace_stack`, 438-562: the copy under WRLOCK, then without the lock the tests, the choice of the first position, the loop, the cursor |
| `RefuseSize`, `Reconfigure`, `EnterReconfigure`, `Realloc`, `ReallocFails`, `LeaveReconfigure` | `runtrace_reconfigure`, 771-843, its error path with the lock kept included |
| `MayRead`, `MayWrite` | the two locks: pthread's prefers writers, the kernel's does not |

A tracepoint is its ticket, the value of `next_tp` it was given.  Its fields are written
in two steps, `src` standing for time, line and src and `msg` for the text, so that a
half written record is a state.  `ToInt` is what a counter value becomes in an `int`.
Where an `int` difference overflows, which is undefined, the build either wraps or
compares exactly: `Minus` has both.  Buffer sizes are counted in records, the unit being
`needed_bufsize`, and a record printed takes one unit.  History variables and fields:
`due` and `raced` (the newest ticket of a slot, and whether an earlier writer was still
there), `dangling` (threads that hold a pointer into a freed pool), `delivered`.

`TraceLog` is the abstract specification: it keeps the last `size` tracepoints made and is
read from a copy.  `Show` gives a follower the tracepoint at its cursor, `Skip` moves the
cursor over what the copy does not hold, and nothing else is ever done to a cursor.  The
pool implements it (`KeepsLog`): the log is what is `due` in the slots of the ring (`Held`),
the cursor is `tp_num` during a walk and `*priv` between two calls (`Pos`), and `Make`, `Copy`,
`Show`, `Skip`, `Resize` and `Lose` are `Claim`, `CopyPool`, `EmitRecord`, `SkipBlank` or
`StartLoop`, `Realloc` and `ReallocFails`; every other step of the pool stutters.  A tracepoint
that raced with a tracer of an earlier round is `spoiled`, and may be shown with what that
tracer wrote.  Any tracepoint may be spoiled in the log; which ones are is the concern of `raced`
and `SnapshotIsNewest`.

### VsprintBuffers

`Call`, `Grab`, `Skip`, `Vsnprintf`, `EnterTracept`, `LeaveTracept`, `Clear` are the
steps of `tpprintf` (1021-1070), with the read lock of the `make_tracept` it calls.
`Reconfigure` is the rebuilding of the ring, atomic since it holds the write lock, and
`RefuseCount` its check.  `Poisoned` is line 836: it writes 0xed over what line 832 has
cleared, which lands on the flag of container 2, so that one container of a ring of
three or more is never free.  (For a ring of one or two the same line writes beyond the
array; that is not modelled.)  A text is the thread that formatted it.

### Memleak and Ledger

The steps of an allocation are `Malloc`, `LockPush`, `Search`, then `Found`, or
`MakeRecord` and `Insert`, or `RecordFails`; then `StorePiggyback`.  Those of a free are
`Free`, `LockFree`, `Uncount`, `Release`; those of a report `Report`, `LockReport`,
`SkipLine` and `PrintLine`, `FinishReport`; the end is `Exit` and `ExitReport`.  Files
are numbers in `strcmp` order.  A block has the alignment by which `TRUEPTR_IS_VALID`
recognises it, and the piggyback data.  When `Overlap` says that the piggyback area is shorter
than its struct, as on x86_64, the upper half of the size is the application's to write, and
`Uncount` reads any of `PiggybackSizes`.  A `size_t` is two halves of `Half` values each.  The
flags of a report are chosen where they first decide something, under the lock; `shown` is
what the last line about a record gave, and a tight line gives the count alone.  malloc, new and new [] are one
operation, and so are free, delete and delete [].  Left out: the over-allocation flag,
the wording of the report, a `malloc` that refuses the application's own block (nothing
changes then), and calls made after `exit`.

`Ledger` is the abstract specification: per site, acquire adds one and release takes
one away, atomically, and only of what is there.  `KeepsLedger` is the refinement: the
count in a site's record, 0 while it has none, is the ledger's number.

### TimeCmp

A timer of `Values` values in a word of `Word`; the C functions for 32 and 64 bits and
the class are the same formulas.  `& mask` is a remainder.  `at` is the history: the same
time on a clock that does not roll over, against which the comparisons are judged.

### Cdev

`OpenCount`, `OpenRefused`, `OpenPosition` are the three steps of `cdev_open` (576-593) between
which another process can get in; `Release` and `Write` are `cdev_release` and `cdev_write`.
`cdev_read` (623-651) is `Read`, the test of the position (`SeesNews`, `SeesEmpty`), the ways
out (`Again`, `EndOfFile`), the sleep (`Queues`, `Sleeps` or `StaysUp`, `Interrupted`), and
`CallPrint` and `PrintOn`, which go through the steps of `TracePool`'s `print_trace_stack` with
the file's position as the cursor.  `wait_event_interruptible` first enters the queue and then
tests its condition; `TraceAndWake` is `make_tracept`, whose last step wakes the queue.
`refused` opens keep their reference to the module, hence the bound `MaxRefs`.

### Lifecycle

The pool is there or not.  A worker's calls are those of the facility cut down to what decides
the lock and the abort: `MakeTracept`, `EnterTracept`, `LeaveTracept`; `PrintTrace`, `EnterPrint`,
`CopyPool` (or `CopyNothing`, the memcpy from NULL that ends the process), `TooSmall`,
`Prints`; `Reconfigure`, `RefuseSize`, `EnterReconfigure`, `Realloc`, `ReallocFails`.
`RT_DISABLING_ERR` of the user space build is the step to `raise`; `Raise` is `abort()`
entering the installed handler once more or, without a handler or without stack left, ending the
process; `Flush`, `NoFlush`, `HandlerReturns` are `sigabort` (299-313).  glibc's `abort`
unblocks SIGABRT before each `raise`, so that an abort inside the handler nests.  The main
thread's operations are `RuntraceInit`, `InitFails`, `ReconfigureFirst`, `FlushOnAbort`,
`RuntraceExit`.  glibc's lock fails with EDEADLK, and the code goes on, for a thread that
already holds it for writing.

### ObscureStr

One state machine for the compiler and the program.  `__COUNTER__` (136) stands in the body of a
function template and is expanded once, when the header is read, so that a unit has one key:
`CountElsewhere` is a use of `__COUNTER__` by an earlier header, and `Include` draws the key (`value`,
the recurrence of `MetaRandomGenerator`).  `Obscure` is an `obscureStr(...)` in the source, which
obscures the bytes with that key; `Deobscure` is one round of the loop of lines 95-99.  A byte is the set of its bits; a
32-bit word is a pair of halves, so that no product leaves TLC's integers, and carries are
explicit (`Sum3`).  A sum never reaches 2^32 (16807 times two halves), so that unsigned
overflow does not arise.

### Stopwatch

Every macro as an operator on the two readings `start` and `stop`; `STOPWATCH_START` and
`STOPWATCH_STOP` may read any time, since the clock can be set.  `Printed` is what a reader
takes the format `%ld.%06ld` for.

### Wait4Crash

The script's lines are the values of `sh`.  The killer's subshell (line 16) is `Timeout`,
`Kill`, `Exit55`, and `Dies` wherever it is when a SIGTERM reaches it.  The application, which
is external, may end, fork children of its name, or hang.  `fired` is the history of the
killer's signal in this round: not sent, sent to the running application, or sent to nobody.

## 3. The runs

| Run | Instance | Shows |
|---|---|---|
| `pool_safety` (979,569 states) | 2 tracers, a follower, a reconfiguration; rings of 4 and 8 and a refused 6; buffers of none, one and eight records and none given; 6 tracepoints; failing allocations; the kernel's lock | the pool implements `TraceLog` (`KeepsLog`), the copy has the newest whole record of every slot (`SnapshotIsNewest`), no tracer writes to freed memory (`TracerNeverDangles`), nobody meets the NULL pool (`NullNeverTouched`) |
| `pool_follow` (48,831) | a tracer laps a follower with buffers of one or two records on a ring of 4; counter of 32 values, 10 tracepoints | `AtMostOnce`, `SkipsOnlyTheOverwritten`, `LapIsNoticed`, `CatchesUp` |
| `pool_live` (15,878) | a tracer that never stops and a thread that dumps the trace, on a counter of 8 values that wraps | prints are what they claim (`PrintsItsPosition`), the printer gets in and its loop ends (`PrintReturns`) |
| `buffers` (373,430) | 3 callers, 1 to 5 containers, reconfigured in between, a refused count | `TextIsOwn`, `NoticeNeedsCrowd`, `CallReturns` |
| `memleak_safety` (2,459,828) | 2 threads, 2 sites whose files and lines are ordered oppositely, 2 blocks, 2 sizes, reports with every set of flags, records that cannot be allocated | `ListSorted`, `CountIsLive`, `AllocsAtCounts`, `MemTotalExact`, `CleanIsPrinted`, and `KeepsLedger` |
| `memleak_exit` | 2 threads, one site and block, a record that cannot be allocated | that `ExitEnds` fails (section 6) |
| `timecmp` (6,889) | two timers of 3 bits in words of 5, seven increments | `OrderIsRight`, `NearerWayRound` |
| `cdev` (1,174,234) | a reader with buffers of none and two records, two processes that write, a tracer, a ring of 4, 4 tracepoints | `AtMostTwoOpen`, `ReadersCounted`, `FirstReadMissesNothing`, `EndOnlyWhenSwitchedOff`, `SleeperAnswered` |
| `lifecycle` (128,027) | 3 worker threads, a main thread, a stack with room for two frames of the handler | `NullBehindLock`, `AbortEnds` |
| `abort_flush` | the same with one worker | that `FlushShows` fails (section 6) |
| `obscurestr` (5,289) | five times of compilation, up to 40 earlier uses of `__COUNTER__`, strings of 1, 3, 6 and 10 bytes | `Restored`, `ClearOnlyAtMidnight` |
| `wait4crash` (243) | three rounds | `LostOnlyToALateKill`, `NothingLeft`, `RoundEnds` |

Why the bounds are enough.  Two tracers can race for a slot of a ring of 4 with 6
tracepoints: one is suspended while the other goes round.  The kernel's lock allows every
schedule that the user space one does and more, and there an error goes on where user
space aborts, so that `pool_safety` covers both builds.  Its follower is lapped by two of
the 6 tracepoints, and by a reconfiguration.  A follower with 10 tracepoints
on a ring of 4 can be lapped twice, with the oldest position below 0 and above it.  The counter of
`pool_follow` stays below half its range, which is what `LapIsNoticed` is restricted to: it says nothing
of a counter that has passed the largest int (section 6).  That of `pool_live` passes it again and again.
Three callers are more than the one or two usable containers of the rings of one to
three, as many as those of a ring of four, and fewer than those of a ring of five.
With two sites there is an insertion in front of,
behind and instead of the record a search is at.  The sums of two blocks reach 6 and do not
wrap at 16: that the total is right modulo the range of `size_t` is proved (`TotalsExact`).  Timers of 3 bits have every relation to one another, and words
of 5 bits have upper bits.  For the device two processes more than the limit allows beside the
reader are needed, one to be refused while another closes; with 4 tracepoints on a ring of 4
the trace is young, when the first position is below 0, and full; that the first read misses
nothing when tracers have gone round the ring, in between or while it prints, is proved
(`FirstComplete`).  In `lifecycle` one thread can
fail while a second traces and a third waits to print; two frames are the first entry of
the handler and one nested in it, and a deeper stack repeats the second.  Strings of 1 to 10
bytes are shorter and longer than a key and than two.  A round of wait4crash can meet only
what the round before it left, so that three are enough.  Bounds that only keep the instance
finite are `MaxTracepts`, `MaxRefs`, `MaxRetries`, `MaxCounter` and `MaxTime`; the last bounds the history.
`MaxTracepts` does more than that in `cdev`: it ends the tracing.  Under the kernel's lock, which
prefers no writer, tracers that never pause could keep a reader that was woken out of
`print_trace_stack`; `SleeperAnswered` says that the wake-up is not lost, and that the reader gets its
answer once the tracers leave the lock alone.

Deadlock is checked everywhere but where the system really stops: in `pool_safety`, where a
failed reconfiguration in the kernel build stops every thread, in the memleak and life cycle
runs, where the application ends, in `wait4crash`, whose loop ends, and in `cdev`, where the
bounded references are used up.  After `abort()` the process is gone and `Dead` stutters.

Preconditions.  `Sizes` of the memleak runs are above 0: with 0 `CountIsLive` fails
(section 6).  `Overlap` is FALSE, which is the build with pointers of 4 bytes: with TRUE
`MemTotalExact` fails (section 6), and the other properties are proved for either.  `ReconfigureAnyTime` is FALSE: the caller
keeps reconfigurations apart from prints and `tpprintf`, not from `make_tracept`.  One
thread prints at a time (section 6 says what happens otherwise); in `cdev` there is one
reader for the same reason.  In `lifecycle` the application calls `runtrace_init` before it
starts its threads (853-854 demand it) and `runtrace_exit` when none is inside a call;
calls that come too early or too late are made all the same, and abort.

Fairness.  A call in progress goes on: weak fairness of the steps of each thread, which
any scheduler gives.  No strong fairness of a lock is assumed: that a printer gets in
among tracers follows from the writer preference chosen in `LOCK_INIT` (103-107), which
is in the model, and would not hold for the kernel's lock.  `FollowSpec` adds that
whoever follows the trace keeps calling.  That tracers are not starved by somebody who
prints all the time is not claimed.  Calls are never fair: the application makes them or
not.  In `Cdev` the steps of a tracer and of a reader inside its call are weakly fair, a
signal that interrupts the sleep is not.  `Lifecycle` has weak fairness of each thread and, for
`EnterPrint`, strong fairness: a print waiting for the lock may be overtaken by another
writer, but not for ever, since glibc's unlock hands the lock over to a waiting
writer.  In `Wait4Crash` the two shells are fair; the application is not, it may hang.

## 4. The proofs

All are safety properties, proved for every set of threads, every size, every number of
containers and every width, from the named assumptions of the modules.

**TracePoolProofs.**
* `TypeCorrect`.  `TypeOK` is not inductive: `Realloc` takes its size from the request
  made when the call was entered, so `TypeInv` adds that a pending request is valid.
* `TracersSafe`, `NullSafe`.  `ExclusionInv` has three parts: a thread holds the lock
  exactly between the two calls (`LockInv`); after a failed reconfiguration the write lock
  is held by nobody who runs (`LeakInv`); only printers hold pointers into freed memory
  (`DangleInv`).  `NullSafe` says that it is the leaked lock that protects the NULL pool: the
  obvious repair, unlocking on the error path, needs another test of the pool.
* `PrintersSafe`, for callers that keep reconfigurations apart from prints
  (`~ReconfigureAnyTime`): then nobody ever points into freed memory (`NoneDangles`), by
  `PrintInv`, which says what that promise means in terms of where threads are.
* `SnapshotWhole`.  `SlotInv`: a slot nobody was lapped in is either whole, or has one
  writer, its newest, who has written `src` if it is at `msg`.  With the write lock held
  there is no writer, so it is whole.
* `PrintsPositions`, `LapsNoticed`, `SkipsOverwritten`, `DeliversOnce`, each from two
  conditions.  `CalledAlone`: one thread prints, and reconfigurations are kept apart from it.
  `InRange`, assumed throughout the behaviour: in a program that has a follower the counter stays
  below half its range, that is, within an int; beyond it the code does fail (section 6).  A
  program that only dumps its trace may wrap the counter as often as it likes, and
  `PrintsPositions` covers it.  `PrinterInv` collects what is needed besides the above.
  `RingInv`: what is due in a slot is one of the last `tp_pool_size` tickets and belongs there;
  with it a slot determines the ticket.  `CopyInv`: the copy is such a ring, whole, for the
  counter as it was then.  `CursorInv`: 0 <= cursor <= position of the walk <= counter at
  the copy <= counter, and a walk is never longer than the ring.  `WalkInv`: the same modulo
  the counter's range, for walks that wrap.  The positions of a walk and the tickets of the copy
  are then both within one round of the ring, so that the same slot means the same number
  (`SameSlot`, `DueAtPosition`): that is what `PrintsItsPosition` needs, and what a test can
  hardly show.  The arithmetic (`Congruent...`, `ToIntCongruent`) is stated once, modulo any
  divisor, and rests on the range of the counter being a multiple of every size.
* `DeliversOnce` needs more, `OnceInv`: AtMostOnce speaks of raced slots too, in which an older
  ticket may be written after a newer one, so that a record's `src` says nothing about its `due`.
  Whatever was delivered lies behind the follower's position, in the sense that its ticket is
  less than that position (`DeliveredInv`); no writer that is still to write `src` has a ticket
  that was delivered (`WriterInv`); and a delivered record in the copy lies in a slot the walk
  has passed (`CopiedInv`, with `Kept` for what the ring holds since).
* `LogKept`: the pool implements `TraceLog`, step by step, under `CalledAlone` and `InRange`, if
  there is a follower.  It rests on all of the above and on `HeldInv`, which it adds: what is
  due in a slot is less than the counter, and its record is there or has a writer who is yet to
  write it.  So a claim takes the place of the oldest tracepoint and of no other (`LastMade`), what
  an overrun jumps over is older than anything in the copy (`LastCopied`), and a slot found
  blank belongs to no tracepoint of the copy, as nobody writes while it is taken.  Both
  conditions are needed: with a dumper beside the follower, or with a counter of 16 values and 16
  tracepoints, TLC finds a step of the pool that the log does not have.

**VsprintBuffersProofs.**
* `TextSafe`, for callers that keep reconfigurations apart (`~ReconfigureAnyTime`).
  `OwnInv`: a set flag has one owner, or is the overwritten one.
* `NoticeIsFair`, under the same condition.  That a full walk met only taken containers
  says nothing by itself, since a container may be freed behind the walk and taken by a
  later call.  `CountInv` counts: the callers at or past container i, together with the
  overwritten flag if it lies there, are at most `max_threads - i` unless there was a
  crowd.  A walk that passes a taken container leaves the owner at or before it; so the
  walk cannot pass the last one.

**TimeCmpProofs.**  `SameRest`: a timer and the time it stands for have the same masked
bits, whatever garbage lies above them.  It is preserved by every operation because the
word is a whole number of roll-overs wide.  `OrderCorrect` and `NearerCorrect` follow.

**LifecycleProofs.**  `NullSafe`: `LockInv` says who can be in a section
(readers while tracing, the writer while copying or reallocating) and where the writer can be,
which includes the way from a failed reconfiguration through the handler; `PoolInv` says that a
NULL pool has such a writer, who never comes back to line 838 to unlock.

**CdevProofs.**
* `CountCorrect` and `TwoAtMost`, inductive together: that an open that is not refused found at
  most one file follows from the counter's being the number of files that are open or being
  opened.  From the assumption that the users are finitely many.
* `EndIsMeant`, for any number of readers.
* `FirstComplete`, under `CalledAlone` (one reader) and `InRange`.  The position of an open may be
  below 0, so that `CursorInv` does not hold here; but what `TracePoolProofs` finds about the
  ring and its copy does not depend on cursors and carries over (`PoolInv`: every step of the
  device is one of the pool, or an `OpenPosition`).  `FirstInv`: until the first read has
  returned something, nothing in the ring or in the copy was numbered before the position, or
  before the walk while that has printed nothing.  What keeps it true when a walk over blank
  records moves the position on, and the loop of 649 starts another, is `SinceCopy`: a slot is
  as it was copied or has been claimed since.  Raced slots are left out, since they may hold a
  ticket from any earlier round.  Whether the walk begins at the position or at the oldest slot
  makes no difference, so that the theorem holds whatever the test for an overrun makes of
  a position below 0.  It needs a ring smaller than half the counter's range (`CdevAssumption`;
  `pool_size` is an int).

**MemleakProofs.**  For any threads, sites and blocks.
* `SortedAlways`, `NothingHidden`.  `IInv` is inductive as a whole: `LockInv` (who can be inside
  `rec_lock`), `SearchInv` (where a search stands: it has passed only sites that come before the one it looks
  for, and a thread about to insert has found no record of it), `CallInv` (the site, size and
  record a call in progress works with exist), `HeapInv` (a block in the hands of a call is in no
  other's, and a live block that is marked has a record), and `ListInv` (as many entries as
  records, every entry a record and every record listed).  Without `SearchInv` the list would
  not be seen to stay sorted: the place was chosen several steps before the insertion.
* `CountsTheLive`, `AllocsAtAnswers`, when no size is 0.  `CountInv` says of every record that
  its count is the number of blocks charged to it, including those that a thread has counted but
  not yet marked, and those it has read the record of but not yet uncounted.  With a size of
  0 it is false (section 6), hence the condition.
* `TotalsExact`, unless the piggyback area overlaps the application's bytes (`~Overlap`); sizes of
  0 make no difference here.  `TotalInv`: the total of every record is the sum, modulo the range of
  `size_t`, of what was asked for the blocks that are charged to it, and what was asked for a charged
  block never changes (`AskedKept`), although the record and the block are written to in several
  steps.  `MapThenSumSet` takes the blocks away one by one in an order of its own; that the order
  makes no difference (`SumTakeAway`) is shown by induction over the subsets of a finite set, each of
  which, if the claim failed for any, would have a least one among those (`LeastSet`).
* `LedgerKept`, under the same condition: the refinement of `Ledger`, step by step.  Only
  `Found`, `Insert` and `Uncount` change the mapped state; `LiveInv` shows that the mapping
  does not depend on which record of a site is taken.

**ObscureStrProofs.**  `SpecRestored`: the running key is the drawn key rotated by p bytes,
for every p.  `SpecClearOnlyAtMidnight`: the recurrence takes a word that is not 0 and has 31
bits to one that is not 0 and has 31 bits, by the arithmetic of its halves.

**ToolsProofs.**  `LostToLateKills` and `RoundsClean` for any number of rounds: `IInv` ties the killer's
state to the line the script is at.  `ElapsedRight` for any two readings, and `PrintedWhen`, which
says exactly when the printed figure is the difference.

The assumptions of the modules, in one place.  `PoolAssumption`: the range of the counter is even
and a multiple of every size, no size exceeds half of it.  `CdevAssumption`: no valid size reaches
half of it, and there are finitely many users.  Conditions of theorems: `~ReconfigureAnyTime`,
`CalledAlone`, `[]InRange`, `Followers # {}`, `0 \notin Sizes`, `~Overlap`.  Each has instances
among the runs, and each is one without which the property is false (section 6; without a
follower `InRange` says nothing, and the log does not count round).

Only model-checked:
* Liveness and fairness: `PrintReturns`, `CatchesUp`, `CallReturns`, `SleeperAnswered`,
  `AbortEnds`, `RoundEnds`.

## 5. What is not modelled

* A SIGABRT from outside the process, which can interrupt any statement: it hangs when it
  meets a thread that holds the lock for reading (307, 483), and with flush on abort switched
  off the handler swallows it.
* The registration of the character device in `runtrace_init` and its removal, and two late
  initialisations at once in the kernel build (975-980), which nothing prevents.
* mallocoverload: one lazy look-up, whose races write equal values.
* The test programs.
* Texts, times, and the layout of what is printed.  Interrupts are threads.
* `memleak_report` from a signal handler; the unloading of the module; the reuse of process
  numbers in wait4crash.

## 6. What disagrees with the documents

Shown by a run:

* `abort_flush`: `runtrace_flush_on_abort` promises that the trace is printed when SIGABRT is
  called (725-726).  The handler's `print_trace_stack(flush_with_flags)` (307) has the
  default size 0, which line 489 finds too small, buffer or not, and aborts: the handler is
  entered again, and again, until the stack is used up.  With `FlushSize` TRUE, a size that is
  large enough, `FlushShows` holds: nothing else stands in the way.
* `memleak_exit`: the normal termination of an application prints a report
  (`memleak/README.md`:35).  When there is no memory for a record, `exit` runs with `rec_lock` held
  (319-322) and its report waits for that lock for ever (363).  With `RecordMayFail` FALSE
  `ExitEnds` holds: an application that exits while other threads are in the bookkeeping ends.

Refuted by a property of the modules on an instance that is not among the runs:

* The test for an overrun (507-518) is meant for the whole range of an int (504-506) and does not
  notice a lap once `next_tp` has passed the largest one: `LapIsNoticed` without its condition
  `InRange` fails in `pool_follow` with `CounterMod = 16` and `MaxTracepts = 16`.
* `print_trace_stack` is said to be multithread safe (416-417); two calls share
  `tp_pool_copy`: `PrintsItsPosition` fails with two threads in `Dumpers`.
* `runtrace_reconfigure` is said to be callable at any time (`runtrace/README.md`:33); during
  a print it frees what is being printed: `PrinterNeverDangles` fails with
  `ReconfigureAnyTime = TRUE`.
* The notice says that more threads called than were configured (278); with three containers
  three calls raise it, one container being unusable (836): `NoticeMeansExceeded` fails in
  `buffers`.

Seen while modelling:

* `make_tracept` is said to be multithread safe (953).  A tracer that is lapped while it
  writes leaves a record of two tracepoints: this is the exception `raced` in
  `SnapshotIsNewest`, which does not hold without it.
* `tpprintf` uses its container outside the lock, so that a reconfiguration frees it too.
* `print_trace_stack` "cannot fail" (434), but the size is tested when there is no buffer
  (489): its default, 0, aborts the process.
* The user space build does not compile at this commit: `wake_up_interruptible` (1002) is outside
  `__KERNEL__`.  The models of user space take the call for nothing there.
* `VsprintBuffers` has the flags of the C++11 and of the kernel build.  In the user space build without
  C++11 (124-131) a flag is a `long` of which `ATOMIC_CLEAR` clears the lowest bit and
  `ATOMIC_TEST_AND_SET` tests all: bits that `malloc` has left set (811, 832) make a container
  unusable for good.
* A failed allocation in `runtrace_reconfigure` returns with the lock held (826); in the
  kernel build every later call waits for ever.
* The first read of a device whose trace is young starts below 0, at the slot of the
  newest record, so that the newest records come first and once more at the end (591, 507-512).
* A refused open keeps its reference to the module (585-588); "blocking 0" does not wake
  those who sleep; two readers of the device share `tp_pool_copy`.
* `memleak_allocs_at` (`memleak.h`:57): an allocation of 0 bytes is not counted (301, 326)
  but its free is (553).
* `PIGGYBACK_SIZE` is 12 and the struct takes 16 bytes on x86_64 (69-77): the
  application's first four bytes lie on the upper half of the size that 555 subtracts.
* A tight report prints the count alone (425-427) and clears the mark of the record all the same
  (429): a change of `mem_total` alone, as a free and an allocation of another size at the
  same line make it, is then hidden from the next `MEML_ONLY_CHANGED` report.
* Every text string is said to have a unique key (`obscurestr/README.md`:5): `__COUNTER__` is
  expanded once, in the body of `obscureStr` (136), so that all strings of a unit share one key, and
  so do units compiled in the same second with as many uses of `__COUNTER__` before.
* A clock that is set back by a part of a second is printed wrongly: 0.3 s back is
  "-1.700000" (`stopwatch.h`:61-65, 111).
* `lo3` adds `hi` where the generator that line 48 names has `hi2` (`obscurestr.hpp`:66); at 00:00:00 every
  key is 0; `obscureStr` returns a pointer into a temporary (136).
* wait4crash counts a round as a crash when the SIGTERM of line 22 arrives between the killer's
  `kill -9` and its `exit 55`, and misses a crash when the killer exits between the
  application's end and line 22.  Any end of the application counts as a crash.

## 7. Plan

1. A module that composes `VsprintBuffers` with the pool through the lock they share, and
   `TextIsOwn` carried over to it.
2. The prints of a dumping thread beside those of the handler in `Lifecycle`; signals from outside.
3. The device as a reader of `TraceLog`: its positions may be below 0, and its first read may show
   the newest tracepoints twice, so that it implements a weaker log.
