-------------------------------- MODULE Memleak --------------------------------
(***************************************************************************)
(* The allocation bookkeeping of memleak (memleak/memleak.cpp).  Every     *)
(* allocation site (file, line) has a record in a sorted list guarded by   *)
(* rec_lock.  A tracked block carries a pointer to its site's record and   *)
(* its size in the piggyback area in front of the application's bytes; a   *)
(* free finds both there.  malloc, new and new [] are one operation here,  *)
(* and so are free, delete and delete [].                                  *)
(*                                                                         *)
(* The system's malloc is external: it hands out any block that is not in  *)
(* use, aligned.  When it refuses the application's own block nothing      *)
(* changes, and that case is left out.                                     *)
(***************************************************************************)
EXTENDS Integers, Sequences, FiniteSets, SequencesExt, FiniteSetsExt

CONSTANTS
  Threads,
  Sites,          \* <<file, line>> pairs, files numbered in strcmp order
  Blocks,         \* what the system's malloc has to give
  Sizes,          \* sizes the application asks for
  Half,           \* 2^32: number of values of one half of a size_t
  Overlap,        \* TRUE: the piggyback area is shorter than its struct (x86_64)
  RecordMayFail,  \* TRUE: malloc may refuse memory for a record
  NoThread, NoBlock

PIGGYBACK_SIZE == 12
ALLOC_ALIGN    == 16

ASSUME MemleakAssumption ==
  /\ Sites \subseteq Nat \X Nat
  /\ Half \in Nat \ {0} /\ Sizes \subseteq 0 .. Half - 1
  /\ Overlap \in BOOLEAN /\ RecordMayFail \in BOOLEAN
  /\ NoThread \notin Threads /\ NoBlock \notin Blocks

VARIABLES
  ss_memleak_tracking,
  records,      \* the alloc_records, in the order they were made
  alloc_list,   \* indices of records, in the order of the linked list
  rec_lock,     \* the thread that holds it, or NoThread
  block,        \* each block, and what its piggyback area says
  pc,           \* where each thread is
  site, size, blk, list_it, record,   \* locals of the call in progress
  flags,        \* of memleak_report
  exiting,      \* exit was called
  shown         \* history: per record, what memleak_report's last line of it said

locals == <<site, size, blk, list_it, record, flags>>
vars == <<ss_memleak_tracking, records, alloc_list, rec_lock, block, pc, locals,
          exiting, shown>>

-----------------------------------------------------------------------------
(* Memory.  `shift' is the distance of the application's pointer from the   *)
(* address malloc returned.                                                 *)

Unused == [state |-> "unused", shift |-> 0, record |-> 0, size |-> 0]

\* TRUEPTR_IS_VALID: is the pointer one of ours, judging by its alignment?
Mangled(b) == (block[b].shift - PIGGYBACK_SIZE) % ALLOC_ALIGN = 0

\* pbdata->size as a free may find it.  Where the area is too short its upper half is
\* the application's first four bytes, whatever the application has written there.
PiggybackSizes(b) ==
  {block[b].size + Half * w : w \in IF Overlap THEN 0 .. Half - 1 ELSE {0}}

\* Sums of size_t wrap.
SizeT(n) == n % (Half * Half)

\* strcmp on the files, then the lines.
Before(a, b) == a[1] < b[1] \/ (a[1] = b[1] /\ a[2] < b[2])

\* Mutants of the two below: a registered point counts too; the sum, the mark, or
\* the amount of the count is wrong.
CountedAlways(rec, n) == [rec EXCEPT !.cnt = @ + 1, !.mem_total = SizeT(@ + n),
                                     !.dirty = TRUE]
UncountedOnly(rec, n) == [rec EXCEPT !.cnt = @ - 1, !.dirty = TRUE]
UncountedClean(rec, n) == [rec EXCEPT !.cnt = @ - 1, !.mem_total = SizeT(@ - n)]
UncountedBytes(rec, n) == [rec EXCEPT !.cnt = @ - n, !.mem_total = SizeT(@ - n),
                                      !.dirty = TRUE]

\* A record after an allocation of n bytes, and after a free.
Counted(rec, n)   == [rec EXCEPT !.cnt = IF n > 0 THEN @ + 1 ELSE @,
                                 !.mem_total = SizeT(@ + n), !.dirty = TRUE]
Uncounted(rec, n) == [rec EXCEPT !.cnt = @ - 1, !.mem_total = SizeT(@ - n),
                                 !.dirty = TRUE]

Goto(t, from, to) == pc[t] = from /\ pc' = [pc EXCEPT ![t] = to]
\* Mutant: rec_lock is not waited for.
LockAtOnce(t) == rec_lock' = t

Lock(t)   == rec_lock = NoThread /\ rec_lock' = t
Unlock(t) == rec_lock' = NoThread

\* What the record at list_it is to the search, list_it being an index into
\* alloc_list and one past the end the list head.
AtEnd(t) == list_it[t] > Len(alloc_list)
Here(t)  == records[alloc_list[list_it[t]]]
Next1(t) == list_it' = [list_it EXCEPT ![t] = @ + 1]

\* A call that returns leaves nothing behind in its frame.
Return(t) == /\ site'    = [site    EXCEPT ![t] = <<0, 0>>]
             /\ size'    = [size    EXCEPT ![t] = 0]
             /\ blk'     = [blk     EXCEPT ![t] = NoBlock]
             /\ list_it' = [list_it EXCEPT ![t] = 0]
             /\ record'  = [record  EXCEPT ![t] = 0]
             /\ flags'   = [flags   EXCEPT ![t] = {}]

-----------------------------------------------------------------------------
(* The application *)

SetTracking ==
  /\ ~exiting
  /\ ss_memleak_tracking' = ~ss_memleak_tracking
  /\ UNCHANGED <<records, alloc_list, rec_lock, block, pc, locals, exiting, shown>>

-----------------------------------------------------------------------------
(* ss_malloc and the new operators; ss_memleak_point_register *)

MallocUntracked(t) ==
  /\ ~exiting /\ pc[t] = "idle" /\ ~ss_memleak_tracking
  /\ \E b \in Blocks : /\ block[b].state = "unused"
                       /\ block' = [block EXCEPT ![b] = [Unused EXCEPT !.state = "live"]]
  /\ UNCHANGED <<ss_memleak_tracking, records, alloc_list, rec_lock, pc, locals, exiting,
                 shown>>

\* get_memory, up to its call of list_push_record.
Malloc(t) ==
  /\ ~exiting /\ ss_memleak_tracking
  /\ Goto(t, "idle", "push")
  /\ \E b \in Blocks, s \in Sites, n \in Sizes :
       /\ block[b].state = "unused"
       /\ block' = [block EXCEPT ![b] = [Unused EXCEPT !.state = "held"]]
       /\ blk'  = [blk  EXCEPT ![t] = b]
       /\ site' = [site EXCEPT ![t] = s]
       /\ size' = [size EXCEPT ![t] = n]
  /\ UNCHANGED <<ss_memleak_tracking, records, alloc_list, rec_lock, list_it, record,
                 flags, exiting, shown>>

PointRegister(t) ==
  /\ ~exiting
  /\ Goto(t, "idle", "push")
  /\ \E s \in Sites : site' = [site EXCEPT ![t] = s]
  /\ size' = [size EXCEPT ![t] = 0]
  /\ blk'  = [blk  EXCEPT ![t] = NoBlock]
  /\ UNCHANGED <<ss_memleak_tracking, records, alloc_list, rec_lock, block, list_it,
                 record, flags, exiting, shown>>

LockPush(t) ==
  /\ Goto(t, "push", "search")
  /\ Lock(t)
  /\ list_it' = [list_it EXCEPT ![t] = 1]
  /\ UNCHANGED <<ss_memleak_tracking, records, alloc_list, block, site, size, blk, record,
                 flags, exiting, shown>>

Search(t) ==
  /\ Goto(t, "search", "search")
  /\ ~AtEnd(t) /\ Before(Here(t).site, site[t])
  /\ Next1(t)
  /\ UNCHANGED <<ss_memleak_tracking, records, alloc_list, rec_lock, block, site, size,
                 blk, record, flags, exiting, shown>>

\* list_push_record unlocks and returns r; a registered point needs no more.
PushReturns(t, r) ==
  /\ Unlock(t)
  /\ \/ /\ blk[t] = NoBlock
        /\ Goto(t, pc[t], "idle")
        /\ Return(t)
     \/ /\ blk[t] # NoBlock
        /\ Goto(t, pc[t], "store")
        /\ record'  = [record  EXCEPT ![t] = r]
        /\ list_it' = [list_it EXCEPT ![t] = 0]
        /\ UNCHANGED <<site, size, blk, flags>>

Found(t) ==
  /\ pc[t] = "search" /\ ~AtEnd(t) /\ Here(t).site = site[t]
  /\ records' = [records EXCEPT ![alloc_list[list_it[t]]] = Counted(@, size[t])]
  /\ PushReturns(t, alloc_list[list_it[t]])
  /\ UNCHANGED <<ss_memleak_tracking, alloc_list, block, exiting, shown>>

NotFound(t) == ~AtEnd(t) => Before(site[t], Here(t).site)

\* There is memory for a record.
MakeRecord(t) ==
  /\ Goto(t, "search", "insert")
  /\ NotFound(t)
  /\ UNCHANGED <<ss_memleak_tracking, records, alloc_list, rec_lock, block, locals,
                 exiting, shown>>

\* Mutant: the new record goes to the end of the list.
AddedLast(t) == Append(alloc_list, Len(records) + 1)

\* list_add_tail puts the new record in front of the one the search stopped at.
Added(t) == InsertAt(alloc_list, list_it[t], Len(records) + 1)

Insert(t) ==
  /\ pc[t] = "insert"
  /\ records' = Append(records, [site |-> site[t], cnt |-> IF size[t] > 0 THEN 1 ELSE 0,
                                 mem_total |-> size[t], dirty |-> TRUE])
  /\ alloc_list' = Added(t)
  /\ shown' = Append(shown, [cnt |-> 0, mem_total |-> 0])
  /\ PushReturns(t, Len(records) + 1)
  /\ UNCHANGED <<ss_memleak_tracking, block, exiting>>

\* No memory for the record: exit(1), rec_lock still held.  A second exit while one is
\* running is left out.
RecordFails(t) ==
  /\ RecordMayFail /\ ~exiting
  /\ Goto(t, "search", "exit")
  /\ NotFound(t)
  /\ exiting' = TRUE
  /\ UNCHANGED <<ss_memleak_tracking, records, alloc_list, rec_lock, block, locals, shown>>

\* The rest of get_memory; the application gets its pointer.
StorePiggyback(t) ==
  /\ Goto(t, "store", "idle")
  /\ block' = [block EXCEPT ![blk[t]] =
       [state |-> "live", shift |-> PIGGYBACK_SIZE, record |-> record[t],
        size |-> size[t]]]
  /\ Return(t)
  /\ UNCHANGED <<ss_memleak_tracking, records, alloc_list, rec_lock, exiting, shown>>

-----------------------------------------------------------------------------
(* free_memory: ss_free and the delete operators *)

FreeUntracked(t) ==
  /\ ~exiting /\ pc[t] = "idle"
  /\ \E b \in Blocks : /\ block[b].state = "live" /\ ~Mangled(b)
                       /\ block' = [block EXCEPT ![b] = Unused]
  /\ UNCHANGED <<ss_memleak_tracking, records, alloc_list, rec_lock, pc, locals, exiting,
                 shown>>

\* The record's address is read before the lock is taken.
Free(t) ==
  /\ ~exiting
  /\ Goto(t, "idle", "free")
  /\ \E b \in Blocks : /\ block[b].state = "live" /\ Mangled(b)
                       /\ block'  = [block  EXCEPT ![b].state = "freed"]
                       /\ blk'    = [blk    EXCEPT ![t] = b]
                       /\ record' = [record EXCEPT ![t] = block[b].record]
  /\ UNCHANGED <<ss_memleak_tracking, records, alloc_list, rec_lock, site, size, list_it,
                 flags, exiting, shown>>

LockFree(t) ==
  /\ Goto(t, "free", "uncount")
  /\ Lock(t)
  /\ UNCHANGED <<ss_memleak_tracking, records, alloc_list, block, locals, exiting, shown>>

Uncount(t) ==
  /\ Goto(t, "uncount", "release")
  /\ \E n \in PiggybackSizes(blk[t]) :
       records' = [records EXCEPT ![record[t]] = Uncounted(@, n)]
  /\ Unlock(t)
  /\ UNCHANGED <<ss_memleak_tracking, alloc_list, block, locals, exiting, shown>>

Release(t) ==
  /\ Goto(t, "release", "idle")
  /\ block' = [block EXCEPT ![blk[t]] = Unused]
  /\ Return(t)
  /\ UNCHANGED <<ss_memleak_tracking, records, alloc_list, rec_lock, exiting, shown>>

-----------------------------------------------------------------------------
\* memleak_allocs_at, of a pointer to a live block; -1 for one that is not listed.
AllocsAt(b) == IF Mangled(b) THEN records[block[b].record].cnt ELSE -1

-----------------------------------------------------------------------------
(* memleak_report *)

Report(t) ==
  /\ ~exiting
  /\ Goto(t, "idle", "report")
  /\ UNCHANGED <<ss_memleak_tracking, records, alloc_list, rec_lock, block, locals, exiting,
                 shown>>

\* The flags were given with the call; they decide nothing before this point.
LockReport(t) ==
  /\ Goto(t, "report", "line")
  /\ Lock(t)
  /\ list_it' = [list_it EXCEPT ![t] = 1]
  /\ \E f \in SUBSET {"TIGHT", "SUPPRESS_ZEROS", "ONLY_CHANGED"} :
       flags' = [flags EXCEPT ![t] = f]
  /\ UNCHANGED <<ss_memleak_tracking, records, alloc_list, block, site, size, blk, record,
                 exiting, shown>>

Skipped(t) == \/ "ONLY_CHANGED" \in flags[t] /\ ~Here(t).dirty
              \/ "SUPPRESS_ZEROS" \in flags[t] /\ Here(t).cnt = 0

SkipLine(t) ==
  /\ Goto(t, "line", "line")
  /\ ~AtEnd(t) /\ Skipped(t)
  /\ Next1(t)
  /\ UNCHANGED <<ss_memleak_tracking, records, alloc_list, rec_lock, block, site, size,
                 blk, record, flags, exiting, shown>>

\* What a line says of the record: a tight one, the count alone.
Untold == -1
Line(t) == [cnt |-> Here(t).cnt,
            mem_total |-> IF "TIGHT" \in flags[t] THEN Untold ELSE Here(t).mem_total]

\* Either kind of line clears the mark.
PrintLine(t) ==
  LET r == alloc_list[list_it[t]] IN
  /\ Goto(t, "line", "line")
  /\ ~AtEnd(t) /\ ~Skipped(t)
  /\ shown' = [shown EXCEPT ![r] = Line(t)]
  /\ records' = [records EXCEPT ![r].dirty = FALSE]
  /\ Next1(t)
  /\ UNCHANGED <<ss_memleak_tracking, alloc_list, rec_lock, block, site, size, blk, record,
                 flags, exiting>>

FinishReport(t) ==
  /\ Goto(t, "line", "idle")
  /\ AtEnd(t)
  /\ Unlock(t)
  /\ Return(t)
  /\ UNCHANGED <<ss_memleak_tracking, records, alloc_list, block, exiting, shown>>

-----------------------------------------------------------------------------
(* The end of the application.  It makes no calls while exit runs; those in *)
(* progress go on.                                                          *)

\* main returns, or the application calls exit.
Exit(t) ==
  /\ ~exiting
  /\ Goto(t, "idle", "exit")
  /\ exiting' = TRUE
  /\ UNCHANGED <<ss_memleak_tracking, records, alloc_list, rec_lock, block, locals, shown>>

\* ~RecordExitChecker, run by exit in the thread that called it.
ExitReport(t) ==
  /\ Goto(t, "exit", "exited")
  /\ rec_lock = NoThread
  /\ UNCHANGED <<ss_memleak_tracking, records, alloc_list, rec_lock, block, locals, exiting,
                 shown>>

Init ==
  /\ ss_memleak_tracking = FALSE
  /\ records = <<>> /\ alloc_list = <<>> /\ rec_lock = NoThread
  /\ block = [b \in Blocks |-> Unused]
  /\ pc = [t \in Threads |-> "idle"]
  /\ site = [t \in Threads |-> <<0, 0>>] /\ size = [t \in Threads |-> 0]
  /\ blk = [t \in Threads |-> NoBlock]
  /\ list_it = [t \in Threads |-> 0] /\ record = [t \in Threads |-> 0]
  /\ flags = [t \in Threads |-> {}]
  /\ exiting = FALSE
  /\ shown = <<>>

Call(t) == \/ MallocUntracked(t) \/ Malloc(t) \/ PointRegister(t) \/ FreeUntracked(t)
           \/ Free(t) \/ Report(t) \/ Exit(t)
Step(t) == \/ LockPush(t) \/ Search(t) \/ Found(t) \/ MakeRecord(t) \/ Insert(t)
           \/ RecordFails(t)
           \/ StorePiggyback(t) \/ LockFree(t) \/ Uncount(t) \/ Release(t)
           \/ LockReport(t) \/ SkipLine(t) \/ PrintLine(t) \/ FinishReport(t)
           \/ ExitReport(t)

Next == \/ SetTracking
        \/ \E t \in Threads : Call(t) \/ Step(t)

Spec == Init /\ [][Next]_vars

\* A call in progress goes on, and so does exit.
FairSpec == Spec /\ \A t \in Threads : WF_vars(Step(t))

-----------------------------------------------------------------------------
(* Properties *)

\* The blocks charged to a record: those the application has, and those a call
\* has counted already or not yet uncounted.
Charged(r) ==
  {b \in Blocks : block[b].state = "live" /\ Mangled(b) /\ block[b].record = r}
    \cup {blk[t] : t \in {u \in Threads : pc[u] \in {"store", "free", "uncount"}
                                          /\ record[u] = r}}

\* What the application asked for.
Asked(b) == IF \E t \in Threads : pc[t] = "store" /\ blk[t] = b
            THEN size[CHOOSE t \in Threads : pc[t] = "store" /\ blk[t] = b]
            ELSE block[b].size

\* Every record is in the list once, in order of site, however the searches
\* and insertions of several threads interleave (lines 287-337).
ListSorted ==
  /\ Len(alloc_list) = Len(records)
  /\ \A i, j \in DOMAIN alloc_list : i < j =>
       Before(records[alloc_list[i]].site, records[alloc_list[j]].site)

\* A record counts exactly the blocks charged to it: no count is lost or made
\* twice between two threads (lines 299-313, 324-337, 551-557).
CountIsLive == \A r \in DOMAIN records : records[r].cnt = Cardinality(Charged(r))

\* memleak_allocs_at knows the blocks it has listed from those the system's malloc
\* handed out while tracking was off, and answers for a listed one with at least
\* that one, whatever other threads are counting (lines 441-452).
AllocsAtCounts ==
  \A b \in Blocks : block[b].state = "live" =>
    IF block[b].record = 0 THEN AllocsAt(b) = -1 ELSE AllocsAt(b) > 0

\* Its mem_total is the sum of what was asked for.
MemTotalExact ==
  \A r \in DOMAIN records :
    records[r].mem_total = SizeT(MapThenSumSet(Asked, Charged(r)))

\* MEML_ONLY_CHANGED hides no change of what the reader was last told: a record that is
\* not dirty still has the count of the last line printed of it, and the mem_total too
\* unless that line was a tight one, which gives none (lines 413-415, 421-429).
CleanIsPrinted ==
  \A r \in DOMAIN records : ~records[r].dirty =>
    /\ shown[r].cnt = records[r].cnt
    /\ shown[r].mem_total \in {records[r].mem_total, Untold}

\* An application that exits gets its report (README of memleak, line 35: "Normal
\* application termination prints out memleak report") and ends.  It does not when it is
\* list_push_record that calls exit: rec_lock, for which the report waits, is held by the
\* very thread that waits (lines 319-322, 363).
ExitEnds == exiting ~> \E t \in Threads : pc[t] = "exited"

\* The bookkeeping implements the ledger of live blocks per site.
L == INSTANCE Ledger WITH
       live <- [s \in Sites |-> LET R == {r \in DOMAIN records : records[r].site = s}
                               IN  IF R = {} THEN 0 ELSE records[CHOOSE r \in R : TRUE].cnt]

KeepsLedger == L!Spec
=============================================================================
