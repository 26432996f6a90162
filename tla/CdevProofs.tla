----------------------------- MODULE CdevProofs -----------------------------
(***************************************************************************)
(* Proofs about the character device: how many files can be open at a      *)
(* time, what ends a read, and what the first read of a file shows.        *)
(***************************************************************************)
EXTENDS Cdev, TracePoolProofs, FiniteSetTheorems

Files   == {u \in Users : file[u] # "closed"}
Opened  == {u \in Users : file[u] \in {"counted", "open"}}

\* The counter and the files belong together: that makes the limit inductive.
IInv ==
  /\ file \in [Users -> {"closed", "counted", "refused", "open"}]
  /\ cdev_readers = Cardinality(Files)
  /\ Cardinality(Opened) <= 2

-----------------------------------------------------------------------------
\* The sets of users that have a file are finite, and the open ones among them.
LEMMA FilesFinite ==
  /\ IsFiniteSet(Files) /\ IsFiniteSet(Opened)
  /\ Cardinality(Files) \in Nat /\ Cardinality(Opened) \in Nat
  /\ Cardinality(Opened) <= Cardinality(Files)
<1>1. IsFiniteSet(Users) BY CdevAssumption DEF CdevAssumption
<1>2. Files \subseteq Users /\ Opened \subseteq Files BY DEF Files, Opened
<1>3. IsFiniteSet(Files) BY <1>1, <1>2, FS_Subset
<1>4. IsFiniteSet(Opened) /\ Cardinality(Opened) <= Cardinality(Files)
  BY <1>2, <1>3, FS_Subset
<1> QED BY <1>3, <1>4, FS_CardinalityType

\* No file is open at first.
LEMMA InitIInv == CdevInit => IInv
<1> SUFFICES ASSUME CdevInit PROVE IInv OBVIOUS
<1>1. Files = {} /\ Opened = {} BY DEF CdevInit, Files, Opened
<1>2. Cardinality({}) = 0 BY FS_EmptySet
<1> QED BY <1>1, <1>2 DEF CdevInit, IInv

\* What leaves the counter and the files alone keeps the invariant.
LEMMA OthersKeepIInv ==
  ASSUME IInv, UNCHANGED openVars
  PROVE  IInv'
<1>1. UNCHANGED <<file, cdev_readers>> BY DEF openVars
<1>2. Files' = Files /\ Opened' = Opened BY <1>1 DEF Files, Opened
<1> QED BY <1>1, <1>2 DEF IInv

\* An open that is not refused found at most one file, and there is no other way
\* for one to become open.
LEMMA OpenKeepsIInv ==
  ASSUME IInv, NEW u \in Users, OpenCount(u)
  PROVE  IInv'
<1>1. file[u] = "closed" /\ cdev_readers' = cdev_readers + 1 BY DEF OpenCount
<1>2. u \notin Files /\ u \notin Opened BY <1>1 DEF Files, Opened
<1>3. Files' = Files \cup {u} BY DEF OpenCount, IInv, Files
<1>4. Cardinality(Files \cup {u}) = Cardinality(Files) + 1
  BY <1>2, FilesFinite, FS_AddElement
<1>5. cdev_readers' = Cardinality(Files') BY <1>1, <1>3, <1>4 DEF IInv
<1>6. file' \in [Users -> {"closed", "counted", "refused", "open"}] BY DEF IInv, OpenCount
<1>7. Cardinality(Opened') <= 2
  <2>1. CASE TooMany(cdev_readers)
    <3>1. Opened' = Opened BY <1>1, <2>1 DEF OpenCount, IInv, Opened
    <3> QED BY <3>1 DEF IInv
  <2>2. CASE ~TooMany(cdev_readers)
    <3>1. Opened' = Opened \cup {u} BY <2>2 DEF OpenCount, IInv, Opened
    <3>2. Cardinality(Opened \cup {u}) = Cardinality(Opened) + 1
      BY <1>2, FilesFinite, FS_AddElement
    <3>3. Cardinality(Files) <= 1 BY <2>2, FilesFinite DEF TooMany, IInv
    <3> QED BY <3>1, <3>2, <3>3, FilesFinite
  <2> QED BY <2>1, <2>2
<1> QED BY <1>5, <1>6, <1>7 DEF IInv

\* Each way of closing a file takes it back from the counter, once.
LEMMA CloseKeepsIInv ==
  ASSUME IInv, NEW u \in Users, OpenRefused(u) \/ Release(u)
  PROVE  IInv'
<1>1. /\ file[u] # "closed" /\ file' = [file EXCEPT ![u] = "closed"]
      /\ cdev_readers' = cdev_readers - 1
  BY DEF OpenRefused, Release
<1>2. u \in Files BY <1>1 DEF Files
<1>3. Files' = Files \ {u} /\ Opened' \subseteq Opened BY <1>1 DEF IInv, Files, Opened
<1>4. Cardinality(Files \ {u}) = Cardinality(Files) - 1
  BY <1>2, FilesFinite, FS_RemoveElement
<1>5. IsFiniteSet(Opened') /\ Cardinality(Opened') <= Cardinality(Opened)
  BY <1>3, FilesFinite, FS_Subset
<1>6. Cardinality(Opened') \in Nat BY <1>5, FS_CardinalityType
<1>7. Cardinality(Opened') <= 2 BY <1>5, <1>6, FilesFinite DEF IInv
<1>8. file' \in [Users -> {"closed", "counted", "refused", "open"}] BY <1>1 DEF IInv
<1> QED BY <1>1, <1>3, <1>4, <1>7, <1>8 DEF IInv

\* The second half of an open changes nobody's place.
LEMMA PositionKeepsIInv ==
  ASSUME IInv, NEW u \in Users, OpenPosition(u)
  PROVE  IInv'
<1>1. /\ file[u] = "counted" /\ file' = [file EXCEPT ![u] = "open"]
      /\ UNCHANGED cdev_readers
  BY DEF OpenPosition
<1>2. Files' = Files /\ Opened' = Opened BY <1>1 DEF IInv, Files, Opened
<1> QED BY <1>1, <1>2 DEF IInv

\* Writing, reading, printing and tracing do not open or close.
LEMMA RestUnchanged ==
  ASSUME \/ \E f \in Followers : Read(f) \/ ReadStep(f) \/ Interrupted(f)
         \/ \E t \in Tracers : Trace(t) \/ TraceAndWake(t)
  PROVE  UNCHANGED openVars
  BY DEF Read, ReadStep, SeesNews, SeesEmpty, Again, EndOfFile, Queues, Sleeps, StaysUp,
     CallPrint, PrintOn, Interrupted, Passes, Returns, Trace, TraceAndWake, cdevVars

\* Every step keeps the invariant.
LEMMA NextKeepsIInv == IInv /\ [CdevNext]_<<vars, cdevVars>> => IInv'
<1> SUFFICES ASSUME IInv, [CdevNext]_<<vars, cdevVars>> PROVE IInv' OBVIOUS
<1>1. ASSUME NEW u \in Users, Opening(u) PROVE IInv'
  <2>1. CASE Write(u)
    <3>1. UNCHANGED <<file, cdev_readers>> BY <2>1 DEF Write
    <3>2. Files' = Files /\ Opened' = Opened BY <3>1 DEF Files, Opened
    <3> QED BY <3>1, <3>2 DEF IInv
  <2> QED BY <1>1, <2>1, OpenKeepsIInv, CloseKeepsIInv, PositionKeepsIInv DEF Opening
<1>2. CASE \/ \E f \in Followers : Read(f) \/ ReadStep(f) \/ Interrupted(f)
           \/ \E t \in Tracers : Trace(t) \/ TraceAndWake(t)
  BY <1>2, RestUnchanged, OthersKeepIInv
<1>3. CASE UNCHANGED <<vars, cdevVars>>
  <2>1. UNCHANGED openVars BY <1>3 DEF cdevVars
  <2> QED BY <2>1, OthersKeepIInv
<1> QED BY <1>1, <1>2, <1>3 DEF CdevNext

-----------------------------------------------------------------------------
\* For any number of processes and however their opens, refused opens and releases
\* interleave: the counter counts the files that are open or being opened.
THEOREM CountCorrect == CdevSpec => []ReadersCounted
<1>1. IInv => ReadersCounted BY DEF IInv, ReadersCounted, Files
<1> QED BY <1>1, InitIInv, NextKeepsIInv, PTL DEF CdevSpec

\* For any number of processes, never more than two files are open.
THEOREM TwoAtMost == CdevSpec => []AtMostTwoOpen
<1>1. IInv => AtMostTwoOpen BY DEF IInv, AtMostTwoOpen, Opened
<1> QED BY <1>1, InitIInv, NextKeepsIInv, PTL DEF CdevSpec
-----------------------------------------------------------------------------
(* Where a reader is in cdev_read, and how that fits the file and the call of *)
(* print_trace_stack.                                                         *)

Places  == {"out", "test", "print", "printing", "empty", "queued", "asleep"}
Answers == {"none", "again", "eof", "restart", "error", "bytes"}

ReadType ==
  /\ rd \in [Followers -> Places] /\ answer \in [Followers -> Answers]
  /\ call \in [Followers -> [arg : [dst : BOOLEAN, size : Nat], nonblock : BOOLEAN]]

\* It reads an open file into a buffer, and prints in print_trace_stack alone.
ReadOK(f) ==
  /\ rd[f] = "printing" <=> f \in Printing
  /\ rd[f] # "out" => file[f] = "open" /\ call[f].arg.dst
  /\ f \in Printing => arg[f].dst
  /\ pc[f] = "loop" => arg[f].size >= NeededBuf

ReadInv == ReadType /\ \A f \in Followers : ReadOK(f)

\* Every step of the device is one of the pool, but for the setting of a position.
LEMMA StepOfThePool ==
  [CdevNext]_<<vars, cdevVars>> => [Next]_vars \/ \E u \in Users : OpenPosition(u)
<1> SUFFICES ASSUME [CdevNext]_<<vars, cdevVars>>, \A u \in Users : ~OpenPosition(u)
             PROVE  [Next]_vars
  OBVIOUS
<1>0. Followers \subseteq Threads /\ Tracers \subseteq Threads BY DEF Threads
<1>1. ASSUME NEW u \in Users, Opening(u) PROVE [Next]_vars
  BY <1>1 DEF Opening, OpenCount, OpenRefused, Release, Write
<1>2. ASSUME NEW f \in Followers, Read(f) \/ ReadStep(f) \/ Interrupted(f)
      PROVE  [Next]_vars
  <2>1. CASE CallPrint(f) BY <1>0, <2>1 DEF CallPrint, Next, Call
  <2>2. CASE PrintOn(f) BY <1>0, <2>2 DEF PrintOn, Next
  <2> QED BY <1>2, <2>1, <2>2 DEF Read, ReadStep, Interrupted, SeesNews, SeesEmpty, Again,
      EndOfFile, Queues, Sleeps, StaysUp, Passes, Returns
<1>3. ASSUME NEW t \in Tracers, Trace(t) \/ TraceAndWake(t) PROVE [Next]_vars
  BY <1>0, <1>3 DEF Trace, TraceAndWake, Next, Call
<1> QED BY <1>1, <1>2, <1>3 DEF CdevNext

\* Nobody reads at first.
LEMMA ReadInit == CdevInit => ReadInv
BY DEF CdevInit, Init, ReadInv, ReadType, ReadOK, Places, Answers, Printing, At, Threads

\* Opening and closing touches no file that is being read.
LEMMA OpeningKeepsReads ==
  ASSUME IInv, ReadInv, NEW u \in Users, Opening(u)
  PROVE  ReadInv'
<1>1. UNCHANGED <<pc, arg, rd, call>> /\ ReadType'
  <2>1. CASE OpenPosition(u)
    BY <2>1 DEF OpenPosition, traceVars, printVars, ReadInv, ReadType, Answers
  <2>2. CASE OpenCount(u) \/ OpenRefused(u) \/ Release(u) \/ Write(u)
    BY <2>2 DEF OpenCount, OpenRefused, Release, Write, vars, printVars, readVars, ReadInv,
       ReadType
  <2> QED BY <2>1, <2>2 DEF Opening
<1>2. \A f \in Followers : rd[f] # "out" => file'[f] = file[f]
  <2> SUFFICES ASSUME NEW f \in Followers, rd[f] # "out" PROVE file'[f] = file[f] OBVIOUS
  <2>1. f \in Users /\ file[f] = "open" BY DEF Users, ReadInv, ReadOK
  <2>2. CASE Write(u) BY <2>2 DEF Write
  <2>3. CASE Release(u) BY <2>1, <2>3 DEF Release, IInv
  <2>4. CASE OpenCount(u) \/ OpenRefused(u) \/ OpenPosition(u)
    BY <2>1, <2>4 DEF OpenCount, OpenRefused, OpenPosition, IInv
  <2> QED BY <2>2, <2>3, <2>4 DEF Opening
<1>3. ASSUME NEW f \in Followers PROVE ReadOK(f)'
  BY <1>1, <1>2 DEF ReadInv, ReadOK, Printing, At
<1> QED BY <1>1, <1>3 DEF ReadInv

\* The steps of cdev_read outside print_trace_stack.
LEMMA WaitingKeepsReads ==
  ASSUME ReadInv, NEW g \in Followers,
         \/ Read(g) \/ Interrupted(g)
         \/ SeesNews(g) \/ SeesEmpty(g) \/ Again(g) \/ EndOfFile(g) \/ Queues(g)
         \/ Sleeps(g) \/ StaysUp(g)
  PROVE  ReadInv'
<1> USE DEF Moves, Passes, Returns
<1>1. UNCHANGED <<vars, file>>
  BY DEF Read, Interrupted, SeesNews, SeesEmpty, Again, EndOfFile, Queues, Sleeps, StaysUp,
     openVars
<1>2. UNCHANGED <<pc, arg>> BY <1>1 DEF vars, printVars
<1>3. CASE Read(g)
  <2>1. PICK a \in PrintArgs, n \in BOOLEAN :
          a.dst /\ call' = [call EXCEPT ![g] = [arg |-> a, nonblock |-> n]]
    BY <1>3 DEF Read
  <2>2. a \in [dst : BOOLEAN, size : Nat] BY PoolAssumption DEF PoolAssumption
  <2>3. /\ file[g] = "open" /\ rd[g] = "out" /\ rd' = [rd EXCEPT ![g] = "test"]
        /\ answer' = answer
    BY <1>3 DEF Read
  <2>4. ReadType' BY <2>1, <2>2, <2>3 DEF ReadInv, ReadType, Places
  <2>5. ASSUME NEW f \in Followers PROVE ReadOK(f)'
    BY <1>1, <1>2, <2>1, <2>3 DEF ReadInv, ReadType, ReadOK, Printing, At
  <2> QED BY <2>4, <2>5 DEF ReadInv
<1>4. CASE ~Read(g)
  <2>1. PICK from \in Places \ {"out", "printing"}, to \in Places \ {"printing"} :
          rd[g] = from /\ rd' = [rd EXCEPT ![g] = to]
    BY <1>4 DEF Interrupted, SeesNews, SeesEmpty, Again, EndOfFile, Queues, Sleeps, StaysUp,
       Places
  <2>2. UNCHANGED call /\ answer' \in [Followers -> Answers]
    BY <1>4 DEF Interrupted, SeesNews, SeesEmpty, Again, EndOfFile, Queues, Sleeps, StaysUp,
       ReadInv, ReadType, Answers
  <2>3. ReadType' BY <2>1, <2>2 DEF ReadInv, ReadType, Places
  <2>4. ASSUME NEW f \in Followers PROVE ReadOK(f)'
    BY <1>1, <1>2, <2>1, <2>2 DEF ReadInv, ReadType, ReadOK, Printing, At
  <2> QED BY <2>3, <2>4 DEF ReadInv
<1> QED BY <1>3, <1>4

\* Entering and leaving print_trace_stack.
LEMMA PrintingKeepsReads ==
  ASSUME TypeInv, ReadInv, NEW g \in Followers, CallPrint(g) \/ PrintOn(g)
  PROVE  ReadInv'
<1> USE DEF Moves, Goto
<1>0. /\ pc \in [Threads -> Labels] /\ DOMAIN arg = Threads /\ Followers \subseteq Threads
  BY DEF TypeInv, TypeOK, Labels, Threads
<1>1. UNCHANGED <<file, call>> BY DEF CallPrint, PrintOn, openVars
<1>2. CASE CallPrint(g)
  <2>1. /\ rd[g] = "print" /\ rd' = [rd EXCEPT ![g] = "printing"] /\ answer' = answer
        /\ pc' = [pc EXCEPT ![g] = "prlock"]
        /\ arg'[g] = call[g].arg /\ \A f \in Threads : f # g => arg'[f] = arg[f]
    BY <1>0, <1>2 DEF CallPrint, PrintTrace
  <2>2. ReadType' BY <1>1, <2>1 DEF ReadInv, ReadType, Places
  <2>3. ASSUME NEW f \in Followers PROVE ReadOK(f)'
    BY <1>0, <1>1, <2>1 DEF ReadInv, ReadType, ReadOK, Printing, At
  <2> QED BY <2>2, <2>3 DEF ReadInv
<1>3. CASE PrintOn(g)
  <2> DEFINE labels == {"prlock", "copy", "prunlock", "start", "loop"}
  <2>1. PrintStep(g) BY <1>3 DEF PrintOn
  <2>2. /\ pc[g] \in labels /\ pc'[g] \in labels \cup {"idle"}
        /\ \A f \in Threads : f # g => pc'[f] = pc[f] /\ arg'[f] = arg[f]
        /\ pc'[g] \in labels => arg'[g] = arg[g]
        /\ pc'[g] = "loop" => pc[g] = "loop" \/ arg[g].size >= NeededBuf
        /\ DOMAIN pc' = Threads
    BY <1>0, <2>1 DEF PrintStep, EnterPrint, CopyPool, UnlockPrint, TooSmall, NothingNew,
       StartLoop, SkipBlank, EmitRecord, Advance, Emitting, FinishPrint, Return, printVars
  <2>3. rd[g] = "printing" /\ file[g] = "open" /\ call[g].arg.dst
    BY <1>0, <2>2 DEF ReadInv, ReadOK, Printing, At
  <2>4. /\ DOMAIN rd' = Followers /\ \A f \in Followers : f # g => rd'[f] = rd[f]
        /\ rd'[g] \in Places /\ (rd'[g] = "printing" <=> pc'[g] # "idle")
        /\ answer' \in [Followers -> Answers]
    <3>1. CASE pc'[g] # "idle"
      BY <1>3, <2>3, <3>1 DEF PrintOn, ReadInv, ReadType, Places
    <3>2. CASE pc'[g] = "idle"
      <4>1. AfterPrint(g) BY <1>3, <3>2 DEF PrintOn
      <4>2. PrintResult(g) \in Answers \cup {"nothing"}
        BY DEF PrintResult, Answers
      <4> QED BY <3>2, <4>1, <4>2 DEF AfterPrint, ReadInv, ReadType, Places
    <3> QED BY <3>1, <3>2
  <2>5. rd' \in [Followers -> Places]
    <3>1. rd' = [f \in Followers |-> rd'[f]]
      BY <1>3 DEF PrintOn, AfterPrint, ReadInv, ReadType
    <3> QED BY <2>4, <3>1 DEF ReadInv, ReadType
  <2>6. ReadType' BY <1>1, <2>4, <2>5 DEF ReadInv, ReadType
  <2>7. ASSUME NEW f \in Followers PROVE ReadOK(f)'
    <3>1. ReadOK(f) /\ ReadOK(g) BY DEF ReadInv
    <3>2. f \in Threads BY <1>0
    <3>3. CASE f # g
      BY <1>1, <2>2, <2>4, <3>1, <3>2, <3>3 DEF ReadOK, Printing, At
    <3>4. CASE f = g
      BY <1>1, <2>2, <2>3, <2>4, <3>1, <3>2, <3>4 DEF ReadOK, Printing, At
    <3> QED BY <3>3, <3>4
  <2> QED BY <2>6, <2>7 DEF ReadInv
<1> QED BY <1>2, <1>3

\* Tracers wake readers, no more.
LEMMA TracingKeepsReads ==
  ASSUME TypeInv, ReadInv, NEW t \in Tracers, Trace(t) \/ TraceAndWake(t)
  PROVE  ReadInv'
<1>0. /\ pc \in [Threads -> Labels] /\ Followers \subseteq Threads
  BY DEF TypeInv, TypeOK, Labels, Threads
<1>1. UNCHANGED <<arg, file, call, answer>>
  BY DEF Trace, TraceAndWake, MakeTracept, Tracing, EnterTracept, Claim, WriteSrc, WriteMsg,
     LeaveTracept, cdevVars, openVars, readVars, printVars
<1>2. /\ \A f \in Threads : f \in Printing' <=> f \in Printing
      /\ \A f \in Threads : pc'[f] = "loop" <=> pc[f] = "loop"
  BY <1>0 DEF Trace, TraceAndWake, MakeTracept, Tracing, EnterTracept, Claim, WriteSrc,
     WriteMsg, LeaveTracept, Goto, Printing, At
<1>3. rd' = rd \/ rd' = Awake BY DEF Trace, TraceAndWake, cdevVars, readVars
<1>4. /\ rd' \in [Followers -> Places]
      /\ \A f \in Followers : /\ rd'[f] = "printing" <=> rd[f] = "printing"
                              /\ rd'[f] # "out" <=> rd[f] # "out"
  BY <1>3 DEF Awake, ReadInv, ReadType, Places
<1>5. ASSUME NEW f \in Followers PROVE ReadOK(f)'
  BY <1>0, <1>1, <1>2, <1>4 DEF ReadInv, ReadOK
<1> QED BY <1>1, <1>4, <1>5 DEF ReadInv, ReadType

\* ReadInv is inductive, given the types of the pool and of the files.
LEMMA ReadNext == IInv /\ TypeInv /\ ReadInv /\ [CdevNext]_<<vars, cdevVars>> => ReadInv'
<1> SUFFICES ASSUME IInv, TypeInv, ReadInv, [CdevNext]_<<vars, cdevVars>> PROVE ReadInv'
  OBVIOUS
<1>1. CASE UNCHANGED <<vars, cdevVars>>
  BY <1>1 DEF vars, printVars, cdevVars, openVars, readVars, ReadInv, ReadType, ReadOK,
     Printing, At
<1> QED BY <1>1, OpeningKeepsReads, WaitingKeepsReads, PrintingKeepsReads,
    TracingKeepsReads DEF CdevNext, ReadStep

-----------------------------------------------------------------------------
(* The pool under the device.  What TracePoolProofs finds of the ring and of *)
(* its copy does not depend on the cursor, which here may stand below 0.     *)

PoolInv ==
  /\ TypeInv /\ ExclusionInv /\ SlotInv /\ PrintInv /\ RingInv /\ CopyInv
  /\ allocated

\* The pool is there from the start.
LEMMA PoolInit == CdevInit => PoolInv
BY TypeInit, ExclusionInit, SlotInit, PrintInit, RingInit, CopyInit DEF CdevInit, Init, PoolInv

\* Nothing in the device frees it.
LEMMA StaysAllocated == allocated /\ [CdevNext]_<<vars, cdevVars>> => allocated'
<1> SUFFICES ASSUME allocated, [CdevNext]_<<vars, cdevVars>> PROVE UNCHANGED allocated
  OBVIOUS
<1> USE DEF vars, poolVars
<1>1. ASSUME NEW u \in Users, Opening(u) PROVE UNCHANGED allocated
  BY <1>1 DEF Opening, OpenCount, OpenRefused, OpenPosition, Release, Write, traceVars
<1>2. ASSUME NEW f \in Followers, Read(f) \/ ReadStep(f) \/ Interrupted(f)
      PROVE  UNCHANGED allocated
  BY <1>2 DEF Read, ReadStep, Interrupted, SeesNews, SeesEmpty, Again, EndOfFile, Queues,
     Sleeps, StaysUp, Passes, Returns, CallPrint, PrintTrace, PrintOn, PrintStep, EnterPrint,
     CopyPool, UnlockPrint, TooSmall, NothingNew, Return, StartLoop, SkipBlank, EmitRecord,
     Advance, FinishPrint
<1>3. ASSUME NEW t \in Tracers, Trace(t) \/ TraceAndWake(t) PROVE UNCHANGED allocated
  BY <1>3 DEF Trace, TraceAndWake, MakeTracept, Tracing, EnterTracept, Claim, WriteSrc,
     WriteMsg, LeaveTracept
<1> QED BY <1>1, <1>2, <1>3 DEF CdevNext

\* Setting a position changes nothing else in the pool.
LEMMA PositionKeepsPool ==
  ASSUME PoolInv, NEW u \in Users, OpenPosition(u)
  PROVE  PoolInv'
<1> USE DEF PoolInv
<1>1. /\ UNCHANGED traceVars /\ delivered' \in [Followers -> SUBSET Field]
      /\ priv' \in [Followers -> Ints]
  <2>1. next_tp - tp_pool_size - 1 \in Int
    <3>1. next_tp \in Int /\ tp_pool_size \in Nat \ {0} BY Sizes DEF TypeInv, TypeOK, Tickets
    <3> QED BY <3>1
  <2>2. FirstPosition \in Ints BY <2>1, ToIntRange DEF FirstPosition
  <2> QED BY <2>2 DEF OpenPosition, TypeInv, TypeOK
<1>2. TypeInv'
  BY <1>1 DEF TypeInv, TypeOK, RequestOK, traceVars, poolVars, lockVars, printVars
<1>3. ExclusionInv'
  BY <1>1 DEF ExclusionInv, LockInv, LeakInv, DangleInv, Printing, At, traceVars, lockVars,
     poolVars
<1>4. SlotInv' BY <1>1, SlotFrame DEF traceVars, poolVars, InFlight, At
<1>5. PrintInv' BY <1>1 DEF PrintInv, Printing, Resizing, At, traceVars, poolVars
<1>6. RingInv' BY <1>1, RingFrame DEF traceVars, poolVars, InFlight, At
<1>7. CopyInv' BY <1>1, CopyFrame DEF traceVars, poolVars, printVars, HasCopy
<1> QED BY <1>1, <1>2, <1>3, <1>4, <1>5, <1>6, <1>7 DEF traceVars, poolVars

\* PoolInv is inductive.
LEMMA PoolNext ==
  ASSUME CalledAlone
  PROVE  PoolInv /\ [CdevNext]_<<vars, cdevVars>> => PoolInv'
<1> SUFFICES ASSUME PoolInv, [CdevNext]_<<vars, cdevVars>> PROVE PoolInv' OBVIOUS
<1>1. ~ReconfigureAnyTime BY DEF CalledAlone
<1>2. CASE [Next]_vars
  BY <1>1, <1>2, TypeNext, ExclusionNext, SlotNext, PrintNext, RingNext, CopyNext,
     StaysAllocated DEF PoolInv
<1> QED BY <1>2, StepOfThePool, PositionKeepsPool

-----------------------------------------------------------------------------
(* The first read of a file.  Until it has returned something, nothing that  *)
(* the ring holds lies behind its position, or behind its walk while that    *)
(* has printed nothing.  Raced slots are left out throughout.                *)

\* No tracepoint due in a pool was numbered before n.
Ahead(pool, n) ==
  \A i \in 0 .. tp_pool_size - 1 :
    pool[i].raced \/ (pool[i].due \in Tickets => pool[i].due >= n)

\* A slot is as it was copied, or has been claimed since.
SinceCopy(f) ==
  \A i \in 0 .. tp_pool_size - 1 :
    \/ tp_pool[i].due \in Tickets /\ tp_pool[i].due >= last_tp[f]
    \/ tp_pool[i].due = tp_pool_copy[i].due /\ tp_pool[i].raced = tp_pool_copy[i].raced

FirstOK(f) ==
  /\ priv[f] <= next_tp /\ Ahead(tp_pool, priv[f])
  /\ HasCopy(f) => /\ priv[f] <= last_tp[f] /\ last_tp[f] \in 0 .. next_tp
                   /\ Ahead(tp_pool_copy, priv[f]) /\ SinceCopy(f)
  /\ pc[f] = "loop" /\ printed[f] = 0 =>
       tp_num[f] <= last_tp[f] /\ Ahead(tp_pool_copy, tp_num[f])

FirstInv == \A f \in Followers : answer[f] = "none" => FirstOK(f)

\* The oldest tracepoint a pool can hold.
LEMMA OldestDue ==
  ASSUME TypeInv, NEW r, NEW i, NEW n \in Nat, n < CounterMod, DueOK(r, i, n),
         r.due \in Tickets
  PROVE  r.due >= n - tp_pool_size
<1>1. CounterMod \in Nat \ {0} /\ tp_pool_size \in Nat \ {0} BY Sizes DEF TypeInv, TypeOK
<1>2. r.due # NoTicket BY PoolAssumption DEF PoolAssumption
<1>3. PICK k \in 1 .. tp_pool_size : Congruent(r.due, n - k, CounterMod) BY <1>2 DEF DueOK
<1>4. PICK d \in Nat : d = r.due BY <1>1 DEF Tickets
<1>5. PICK q \in Int : d - (n - k) = q * CounterMod BY <1>3, <1>4 DEF Congruent
<1>6. q >= 0
  <2>1. SUFFICES ASSUME q <= -1 PROVE FALSE BY <1>5
  <2>2. (-q) * CounterMod >= CounterMod BY <1>1, <2>1
  <2>3. (-q) * CounterMod = (n - k) - d
    <3>1. (-q) * CounterMod = -(q * CounterMod) BY <1>1
    <3> QED BY <1>1, <1>5, <3>1
  <2> QED BY <1>1, <2>2, <2>3
<1>7. q * CounterMod >= 0 BY <1>1, <1>6
<1> QED BY <1>1, <1>4, <1>5, <1>7

\* What the counter, the position and the size are for a program in range.
LEMMA ReadRange ==
  ASSUME PoolInv, InRange, NEW f \in Followers
  PROVE  /\ CounterMod \div 2 \in Nat /\ CounterMod = 2 * (CounterMod \div 2)
         /\ tp_pool_size \in Nat \ {0} /\ tp_pool_size < CounterMod \div 2
         /\ next_tp \in Nat /\ next_tp < CounterMod \div 2
         /\ next_tp \in IntValues /\ next_tp < CounterMod
         /\ priv[f] \in Int /\ last_tp[f] \in Int /\ tp_num[f] \in Int
         /\ priv[f] >= -(CounterMod \div 2) /\ tp_num[f] >= -(CounterMod \div 2)
         /\ f \in Threads /\ f \in Printers
<1> USE DEF PoolInv
<1>1. f \in Threads /\ f \in Printers BY DEF Threads, Printers
<1>2. /\ CounterMod \div 2 \in Nat /\ CounterMod = 2 * (CounterMod \div 2)
      /\ tp_pool_size \in Nat \ {0} /\ CounterMod \in Nat \ {0}
  BY Sizes DEF TypeInv, TypeOK
<1>3. tp_pool_size < CounterMod \div 2 BY CdevAssumption DEF CdevAssumption, TypeInv, TypeOK
<1>4. next_tp \in Nat /\ next_tp < CounterMod \div 2
  BY DEF InRange, TypeInv, TypeOK, Tickets
<1>5. next_tp \in IntValues /\ next_tp < CounterMod BY <1>2, <1>4 DEF IntValues
<1>6. priv[f] \in Ints /\ last_tp[f] \in Ints /\ tp_num[f] \in Ints
  BY <1>1 DEF TypeInv, TypeOK
<1> QED BY <1>1, <1>2, <1>3, <1>4, <1>5, <1>6, IntsAreIntegers DEF Ints

\* Steps that leave the ring's owners, the counter and the reader's place alone.
LEMMA FirstFrame ==
  ASSUME NEW f \in Followers, FirstOK(f),
         UNCHANGED <<next_tp, tp_pool_size, tp_pool_copy>>, priv'[f] = priv[f],
         \A i \in 0 .. tp_pool_size - 1 :
           tp_pool'[i].due = tp_pool[i].due /\ tp_pool'[i].raced = tp_pool[i].raced,
         HasCopy(f)' => HasCopy(f) /\ last_tp'[f] = last_tp[f],
         pc'[f] = "loop" => /\ pc[f] = "loop" /\ tp_num'[f] = tp_num[f]
                            /\ printed'[f] = printed[f] /\ last_tp'[f] = last_tp[f]
  PROVE  FirstOK(f)'
<1>1. Ahead(tp_pool, priv[f])' BY DEF FirstOK, Ahead
<1>2. HasCopy(f)' => Ahead(tp_pool_copy, priv[f])' /\ SinceCopy(f)'
  BY DEF FirstOK, Ahead, SinceCopy
<1>3. pc'[f] = "loop" /\ printed'[f] = 0 => Ahead(tp_pool_copy, tp_num[f])'
  BY DEF FirstOK, Ahead
<1> QED BY <1>1, <1>2, <1>3 DEF FirstOK

\* The position of a newly opened file is one before the oldest tracepoint.
LEMMA FirstOpen ==
  ASSUME PoolInv, InRange, ReadInv, FirstInv, NEW u \in Users, OpenPosition(u), IInv
  PROVE  FirstInv'
<1> SUFFICES ASSUME NEW f \in Followers, answer'[f] = "none" PROVE FirstOK(f)'
  BY DEF FirstInv
<1>1. /\ UNCHANGED <<next_tp, tp_pool, tp_pool_size, tp_pool_copy, pc, last_tp, tp_num,
                     printed>>
      /\ file[u] = "counted"
  BY DEF OpenPosition, traceVars, poolVars, printVars
<1>2. CASE f # u
  <2>1. answer'[f] = answer[f] /\ priv'[f] = priv[f] BY <1>2 DEF OpenPosition
  <2>2. HasCopy(f)' = HasCopy(f) BY <1>1 DEF HasCopy
  <2> QED BY <1>1, <2>1, <2>2, FirstFrame DEF FirstInv
<1>3. CASE f = u
  <2>1. f \notin Printing BY <1>1, <1>3 DEF ReadInv, ReadOK
  <2>2. ~HasCopy(f)' /\ pc'[f] # "loop"
    BY <1>1, <2>1, ReadRange DEF HasCopy, Printing, At
  <2>3. next_tp - tp_pool_size - 1 \in IntValues
    BY ReadRange DEF IntValues
  <2>4. priv'[f] = next_tp - tp_pool_size - 1
    <3>1. next_tp - tp_pool_size - 1 \in Int BY ReadRange
    <3> QED BY <1>3, <2>3, <3>1, ToIntCongruent DEF OpenPosition, FirstPosition
  <2>5. priv'[f] <= next_tp BY <2>4, ReadRange
  <2>6. Ahead(tp_pool, priv[f])'
    <3> SUFFICES ASSUME NEW i \in 0 .. tp_pool_size - 1, tp_pool[i].due \in Tickets
                 PROVE  tp_pool[i].due >= next_tp - tp_pool_size - 1
      BY <1>1, <2>4 DEF Ahead
    <3>1. DueOK(tp_pool[i], i, next_tp) BY DEF PoolInv, RingInv
    <3>2. tp_pool[i].due >= next_tp - tp_pool_size BY <3>1, ReadRange, OldestDue DEF PoolInv
    <3> QED BY <3>2, ReadRange DEF Tickets
  <2> QED BY <1>1, <2>2, <2>5, <2>6 DEF FirstOK
<1> QED BY <1>2, <1>3

\* A new tracepoint is ahead of everything.
LEMMA FirstClaim ==
  ASSUME PoolInv, InRange, NEW f \in Followers, FirstOK(f), NEW t \in Threads, Claim(t)
  PROVE  FirstOK(f)'
<1> DEFINE s == Slot(next_tp)
<1>1. next_tp' = next_tp + 1
  <2>1. next_tp + 1 \in 0 .. CounterMod - 1 /\ CounterMod \in Nat \ {0} BY ReadRange
  <2>2. (next_tp + 1) % CounterMod = next_tp + 1 BY <2>1
  <2> QED BY <2>2 DEF Claim
<1>2. /\ UNCHANGED <<tp_pool_size, tp_pool_copy, priv, last_tp, tp_num, printed>>
      /\ pc[t] = "claim" /\ pc' = [pc EXCEPT ![t] = "src"]
  BY DEF Claim, Goto, printVars
<1>3. \A i \in 0 .. tp_pool_size - 1 :
        \/ tp_pool'[i].due = next_tp
        \/ tp_pool'[i].due = tp_pool[i].due /\ tp_pool'[i].raced = tp_pool[i].raced
  BY DEF Claim, RetInc, PoolInv, TypeInv, TypeOK, Record
<1>4. next_tp \in Tickets BY DEF PoolInv, TypeInv, TypeOK
<1>5. /\ HasCopy(f)' => HasCopy(f)
      /\ pc'[f] = "loop" => pc[f] = "loop"
  BY <1>2, ReadRange DEF HasCopy, PoolInv, TypeInv, TypeOK
<1>6. Ahead(tp_pool, priv[f])'
  BY <1>2, <1>3, <1>4, ReadRange DEF FirstOK, Ahead
<1>7. HasCopy(f)' => SinceCopy(f)'
  BY <1>2, <1>3, <1>4, <1>5 DEF FirstOK, SinceCopy
<1>8. /\ HasCopy(f)' => Ahead(tp_pool_copy, priv[f])'
      /\ pc'[f] = "loop" /\ printed'[f] = 0 => Ahead(tp_pool_copy, tp_num[f])'
  BY <1>2, <1>5 DEF FirstOK, Ahead
<1>9. priv[f] <= next_tp' /\ (HasCopy(f) => last_tp[f] \in 0 .. next_tp')
  BY <1>1, ReadRange DEF FirstOK
<1> QED BY <1>2, <1>5, <1>6, <1>7, <1>8, <1>9 DEF FirstOK

\* The walk begins at the position or at the oldest slot, whatever the test for an
\* overrun makes of a position below 0.
LEMMA FirstStart ==
  ASSUME PoolInv, InRange, NEW f \in Followers, FirstOK(f), StartLoop(f)
  PROVE  tp_num'[f] <= last_tp[f] /\ Ahead(tp_pool_copy, tp_num'[f])
<1> DEFINE last == last_tp[f]
<1>1. /\ pc[f] = "start" /\ tp_num'[f] \in {priv[f], Oldest(last)}
  BY ReadRange DEF StartLoop, Goto, PoolInv, TypeInv, TypeOK
<1>2. HasCopy(f) BY <1>1 DEF HasCopy
<1>3. last \in 0 .. next_tp /\ priv[f] <= last /\ Ahead(tp_pool_copy, priv[f])
  BY <1>2 DEF FirstOK
<1>4. Oldest(last) = last - tp_pool_size
  <2>1. last - tp_pool_size \in Int /\ last - tp_pool_size \in IntValues
    BY <1>3, ReadRange DEF IntValues
  <2> QED BY <2>1, ToIntCongruent DEF Oldest
<1>5. Ahead(tp_pool_copy, last - tp_pool_size)
  <2> SUFFICES ASSUME NEW i \in 0 .. tp_pool_size - 1, tp_pool_copy[i].due \in Tickets
               PROVE  tp_pool_copy[i].due >= last - tp_pool_size
    BY DEF Ahead
  <2>1. DueOK(tp_pool_copy[i], i, last) BY <1>2, ReadRange DEF PoolInv, CopyInv
  <2>2. last \in Nat /\ last < CounterMod BY <1>3, ReadRange
  <2> QED BY <2>1, <2>2, OldestDue DEF PoolInv
<1> QED BY <1>1, <1>3, <1>4, <1>5, ReadRange

\* A blank slot holds nothing that is due.
LEMMA FirstSkip ==
  ASSUME PoolInv, InRange, NEW f \in Followers, FirstOK(f), printed[f] = 0, SkipBlank(f)
  PROVE  tp_num'[f] <= last_tp[f] /\ Ahead(tp_pool_copy, tp_num'[f])
<1> DEFINE num == tp_num[f]
<1>1. /\ pc[f] = "loop" /\ num # last_tp[f] /\ tp_num'[f] = ToInt(num + 1)
      /\ tp_pool_copy[Slot(num)].src = NoTicket
  BY ReadRange DEF SkipBlank, Advance, Goto, More, Blank, Current, PoolInv, TypeInv, TypeOK
<1>2. HasCopy(f) BY <1>1 DEF HasCopy
<1>3. last_tp[f] \in 0 .. next_tp /\ num <= last_tp[f] /\ Ahead(tp_pool_copy, num)
  BY <1>1, <1>2 DEF FirstOK
<1>4. tp_num'[f] = num + 1
  <2>1. num + 1 \in Int /\ num + 1 \in IntValues BY <1>1, <1>3, ReadRange DEF IntValues
  <2> QED BY <1>1, <2>1, ToIntCongruent
<1>5. Ahead(tp_pool_copy, num + 1)
  <2> SUFFICES ASSUME NEW i \in 0 .. tp_pool_size - 1, ~tp_pool_copy[i].raced,
                      tp_pool_copy[i].due \in Tickets
               PROVE  tp_pool_copy[i].due >= num + 1
    BY DEF Ahead
  <2>1. PICK d : d = tp_pool_copy[i].due OBVIOUS
  <2>2. d \in Nat /\ num \in Int /\ d >= num
    BY <1>3, <2>1, ReadRange DEF Ahead, Tickets
  <2>3. Whole(tp_pool_copy[i]) /\ DueOK(tp_pool_copy[i], i, last_tp[f])
    BY <1>2, ReadRange DEF PoolInv, CopyInv
  <2>4. d # NoTicket BY <2>1, PoolAssumption DEF PoolAssumption
  <2>5. Slot(d) = i BY <2>1, <2>3, <2>4 DEF DueOK
  <2>6. d # num BY <1>1, <2>1, <2>3, <2>4, <2>5 DEF Whole
  <2> QED BY <2>1, <2>2, <2>6
<1> QED BY <1>1, <1>3, <1>4, <1>5, ReadRange

\* A walk that has come to its end and printed nothing has left nothing behind, in
\* the copy or claimed since.
LEMMA FirstFinish ==
  ASSUME PoolInv, InRange, NEW f \in Followers, FirstOK(f), printed[f] = 0, FinishPrint(f),
         arg[f].size >= NeededBuf
  PROVE  FirstOK(f)'
<1>1. pc[f] = "loop" /\ priv'[f] = tp_num[f] /\ pc'[f] = "idle"
      /\ UNCHANGED <<next_tp, tp_pool, tp_pool_size>>
  BY ReadRange DEF FinishPrint, Return, Goto, PoolInv, TypeInv, TypeOK, poolVars
<1>2. HasCopy(f) BY <1>1 DEF HasCopy
<1>3. /\ last_tp[f] \in 0 .. next_tp /\ tp_num[f] <= last_tp[f]
      /\ Ahead(tp_pool_copy, tp_num[f]) /\ SinceCopy(f)
  BY <1>1, <1>2 DEF FirstOK
<1>4. ~Full(f)
  <2>1. arg[f].size \in Nat BY ReadRange DEF PoolInv, TypeInv, TypeOK
  <2> QED BY <2>1 DEF Full, NeededBuf
<1>5. tp_num[f] = last_tp[f] BY <1>4 DEF FinishPrint, More
<1>6. Ahead(tp_pool, tp_num[f])
  <2> SUFFICES ASSUME NEW i \in 0 .. tp_pool_size - 1, ~tp_pool[i].raced,
                      tp_pool[i].due \in Tickets
               PROVE  tp_pool[i].due >= tp_num[f]
    BY DEF Ahead
  <2> QED BY <1>3, <1>5 DEF SinceCopy, Ahead
<1>7. ~HasCopy(f)' /\ pc'[f] # "loop" BY <1>1 DEF HasCopy
<1>8. tp_num[f] <= next_tp BY <1>3, ReadRange
<1>9. Ahead(tp_pool, priv[f])' BY <1>1, <1>6 DEF Ahead
<1> QED BY <1>1, <1>7, <1>8, <1>9 DEF FirstOK

\* A step of print_trace_stack that does not end the first read.
LEMMA FirstPrint ==
  ASSUME CalledAlone, PoolInv, InRange, ReadInv, FirstInv, NEW g \in Followers, PrintOn(g)
  PROVE  FirstInv'
<1> SUFFICES ASSUME NEW f \in Followers, answer'[f] = "none" PROVE FirstOK(f)'
  BY DEF FirstInv
<1> USE DEF Goto, poolVars, printVars
<1>0. /\ f = g /\ PrintStep(f) BY ReadRange DEF CalledAlone, PrintOn
<1>1. /\ pc \in [Threads -> Labels] /\ f \in Threads /\ f \in Printers
      /\ DOMAIN last_tp = Threads /\ DOMAIN tp_num = Threads /\ DOMAIN printed = Threads
  BY ReadRange DEF PoolInv, TypeInv, TypeOK, Labels
<1>2. answer[f] = "none" /\ (pc'[f] = "idle" => PrintResult(f) = "nothing")
  <2>1. CASE pc'[f] # "idle" BY <1>0, <2>1 DEF PrintOn
  <2>2. CASE pc'[f] = "idle"
    <3>1. AfterPrint(f) BY <1>0, <2>2 DEF PrintOn
    <3>2. PrintResult(f) # "none" BY DEF PrintResult
    <3> QED BY <2>2, <3>1, <3>2 DEF AfterPrint, ReadInv, ReadType
  <2> QED BY <2>1, <2>2
<1>3. FirstOK(f) BY <1>2 DEF FirstInv
<1>4. CASE EnterPrint(f) \/ UnlockPrint(f)
  <2>1. /\ UNCHANGED <<next_tp, tp_pool_size, tp_pool_copy, tp_pool, priv, last_tp>>
        /\ pc'[f] # "loop" /\ (HasCopy(f)' => HasCopy(f))
    BY <1>1, <1>4 DEF EnterPrint, UnlockPrint, HasCopy
  <2> QED BY <1>3, <2>1, FirstFrame
<1>5. CASE CopyPool(f)
  <2>1. /\ UNCHANGED <<next_tp, tp_pool_size, tp_pool, priv>> /\ tp_pool_copy' = tp_pool
        /\ pc'[f] = "prunlock" /\ last_tp'[f] = ToInt(next_tp)
    BY <1>1, <1>5 DEF CopyPool
  <2>2. last_tp'[f] = next_tp BY <2>1, ReadRange, ToIntCongruent
  <2>3. Ahead(tp_pool, priv[f])' /\ Ahead(tp_pool_copy, priv[f])' /\ SinceCopy(f)'
    BY <1>3, <2>1 DEF FirstOK, Ahead, SinceCopy
  <2> QED BY <1>3, <2>1, <2>2, <2>3, ReadRange DEF FirstOK
<1>6. CASE StartLoop(f) \/ SkipBlank(f)
  <2>1. /\ UNCHANGED <<next_tp, tp_pool_size, tp_pool_copy, tp_pool, priv, last_tp>>
        /\ HasCopy(f)
    BY <1>1, <1>6 DEF StartLoop, SkipBlank, Advance, HasCopy
  <2>2. printed'[f] = 0 => tp_num'[f] <= last_tp[f] /\ Ahead(tp_pool_copy, tp_num'[f])
    <3>1. CASE StartLoop(f) BY <1>3, <3>1, FirstStart
    <3>2. CASE SkipBlank(f) BY <1>3, <3>2, FirstSkip DEF SkipBlank
    <3> QED BY <1>6, <3>1, <3>2
  <2>3. /\ Ahead(tp_pool, priv[f])' /\ Ahead(tp_pool_copy, priv[f])' /\ SinceCopy(f)'
        /\ printed'[f] = 0 => Ahead(tp_pool_copy, tp_num[f])'
    BY <1>3, <2>1, <2>2 DEF FirstOK, Ahead, SinceCopy
  <2> QED BY <1>3, <2>1, <2>2, <2>3 DEF FirstOK
<1>7. CASE EmitRecord(f)
  <2>1. /\ UNCHANGED <<next_tp, tp_pool_size, tp_pool_copy, tp_pool, priv, last_tp>>
        /\ HasCopy(f) /\ printed'[f] = printed[f] + 1
    BY <1>1, <1>7 DEF EmitRecord, Advance, HasCopy, Written, Emitting, ReadInv, ReadOK, Printing,
       At
  <2>2. printed'[f] # 0 BY <1>1, <2>1 DEF PoolInv, TypeInv, TypeOK
  <2>3. Ahead(tp_pool, priv[f])' /\ Ahead(tp_pool_copy, priv[f])' /\ SinceCopy(f)'
    BY <1>3, <2>1 DEF FirstOK, Ahead, SinceCopy
  <2> QED BY <1>3, <2>1, <2>2, <2>3 DEF FirstOK
<1>8. CASE TooSmall(f)
  <2>1. pc'[f] = "idle" BY <1>1, <1>8 DEF TooSmall, Return
  <2> QED BY <1>2, <1>8, <2>1 DEF TooSmall, PrintResult
<1>9. CASE NothingNew(f)
  <2>1. /\ UNCHANGED <<next_tp, tp_pool_size, tp_pool_copy, tp_pool, priv>>
        /\ pc'[f] = "idle"
    BY <1>1, <1>9 DEF NothingNew, Return
  <2> QED BY <1>3, <2>1, FirstFrame DEF HasCopy
<1>10. CASE FinishPrint(f)
  <2>1. pc[f] = "loop" /\ pc'[f] = "idle" BY <1>1, <1>10 DEF FinishPrint, Return
  <2>2. printed[f] = 0
    BY <1>1, <1>2, <2>1 DEF PrintResult, PoolInv, TypeInv, TypeOK
  <2>3. arg[f].size >= NeededBuf BY <2>1 DEF ReadInv, ReadOK
  <2> QED BY <1>3, <1>10, <2>2, <2>3, FirstFinish
<1> QED BY <1>0, <1>4, <1>5, <1>6, <1>7, <1>8, <1>9, <1>10 DEF PrintStep

\* FirstInv is inductive while the counter stays within an int.
LEMMA FirstNext ==
  ASSUME CalledAlone
  PROVE  IInv /\ PoolInv /\ InRange /\ ReadInv /\ FirstInv /\ [CdevNext]_<<vars, cdevVars>>
         => FirstInv'
<1> SUFFICES ASSUME IInv, PoolInv, InRange, ReadInv, FirstInv,
                    [CdevNext]_<<vars, cdevVars>>
             PROVE  FirstInv'
  OBVIOUS
<1>1. ASSUME UNCHANGED vars,
             \A f \in Followers : answer'[f] = "none" => answer[f] = "none"
      PROVE  FirstInv'
  <2> SUFFICES ASSUME NEW f \in Followers, answer'[f] = "none" PROVE FirstOK(f)'
    BY DEF FirstInv
  <2>1. FirstOK(f) BY <1>1 DEF FirstInv
  <2>2. UNCHANGED <<next_tp, tp_pool, tp_pool_size, tp_pool_copy, priv, pc, last_tp, tp_num,
                    printed>>
    BY <1>1 DEF vars, poolVars, printVars
  <2> QED BY <2>1, <2>2, FirstFrame DEF HasCopy
<1>2. ASSUME NEW u \in Users, Opening(u) PROVE FirstInv'
  <2>1. CASE OpenPosition(u) BY <2>1, FirstOpen
  <2>2. CASE ~OpenPosition(u)
    <3>1. UNCHANGED <<vars, answer>>
      BY <1>2, <2>2 DEF Opening, OpenCount, OpenRefused, Release, Write, readVars
    <3> QED BY <1>1, <3>1
  <2> QED BY <2>1, <2>2
<1>3. ASSUME NEW g \in Followers, Read(g) \/ ReadStep(g) \/ Interrupted(g) PROVE FirstInv'
  <2>1. CASE PrintOn(g) BY <2>1, FirstPrint
  <2>2. CASE CallPrint(g)
    <3> SUFFICES ASSUME NEW f \in Followers, answer'[f] = "none" PROVE FirstOK(f)'
      BY DEF FirstInv
    <3>1. /\ UNCHANGED <<next_tp, tp_pool, tp_pool_size, tp_pool_copy, priv, last_tp, tp_num,
                         printed, answer>>
          /\ pc' = [pc EXCEPT ![g] = "prlock"] /\ f \in DOMAIN pc
      BY <2>2, ReadRange DEF CallPrint, PrintTrace, Goto, poolVars, PoolInv, TypeInv, TypeOK
    <3>2. FirstOK(f) BY <3>1 DEF FirstInv
    <3>3. (HasCopy(f)' => HasCopy(f)) /\ (pc'[f] = "loop" => pc[f] = "loop")
      BY <3>1 DEF HasCopy
    <3> QED BY <3>1, <3>2, <3>3, FirstFrame
  <2>3. CASE ~PrintOn(g) /\ ~CallPrint(g)
    <3>1. UNCHANGED vars
      BY <1>3, <2>3 DEF Read, ReadStep, Interrupted, SeesNews, SeesEmpty, Again, EndOfFile,
         Queues, Sleeps, StaysUp, Passes, Returns
    <3>2. \A f \in Followers : answer'[f] = "none" => answer[f] = "none"
      BY <1>3, <2>3 DEF Read, ReadStep, Interrupted, SeesNews, SeesEmpty, Again, EndOfFile,
         Queues, Sleeps, StaysUp, Passes, Returns, ReadInv, ReadType
    <3> QED BY <1>1, <3>1, <3>2
  <2> QED BY <2>1, <2>2, <2>3
<1>4. ASSUME NEW t \in Tracers, Trace(t) \/ TraceAndWake(t) PROVE FirstInv'
  <2> SUFFICES ASSUME NEW f \in Followers, answer'[f] = "none" PROVE FirstOK(f)'
    BY DEF FirstInv
  <2>1. t \in Threads /\ answer' = answer
    BY <1>4 DEF Threads, Trace, TraceAndWake, cdevVars, readVars
  <2>2. FirstOK(f) BY <2>1 DEF FirstInv
  <2>3. CASE Claim(t) BY <2>1, <2>2, <2>3, FirstClaim
  <2>4. CASE ~Claim(t)
    <3>1. UNCHANGED <<next_tp, tp_pool_size, tp_pool_copy, priv, last_tp, tp_num, printed>>
      BY <1>4, <2>4 DEF Trace, TraceAndWake, MakeTracept, Tracing, EnterTracept, WriteSrc,
         WriteMsg, LeaveTracept, poolVars, printVars
    <3>2. \A i \in 0 .. tp_pool_size - 1 :
            tp_pool'[i].due = tp_pool[i].due /\ tp_pool'[i].raced = tp_pool[i].raced
      <4>1. tp_pool \in [0 .. tp_pool_size - 1 -> Record] BY DEF PoolInv, TypeInv, TypeOK
      <4>2. CASE WriteSrc(t) BY <4>1, <4>2 DEF WriteSrc, Record
      <4>3. CASE WriteMsg(t) BY <4>1, <4>3 DEF WriteMsg, Record
      <4>4. CASE ~WriteSrc(t) /\ ~WriteMsg(t)
        BY <1>4, <2>4, <4>4 DEF Trace, TraceAndWake, MakeTracept, Tracing, EnterTracept,
           LeaveTracept, poolVars
      <4> QED BY <4>2, <4>3, <4>4
    <3>3. (HasCopy(f)' => HasCopy(f)) /\ (pc'[f] = "loop" => pc[f] = "loop")
      BY <1>4, <2>4, ReadRange DEF Trace, TraceAndWake, MakeTracept, Tracing, EnterTracept,
         WriteSrc, WriteMsg, LeaveTracept, Goto, HasCopy, PoolInv, TypeInv, TypeOK
    <3> QED BY <2>2, <3>1, <3>2, <3>3, FirstFrame
  <2> QED BY <2>3, <2>4
<1>5. CASE UNCHANGED <<vars, cdevVars>> BY <1>1, <1>5 DEF cdevVars, readVars
<1> QED BY <1>2, <1>3, <1>4, <1>5 DEF CdevNext

\* An empty ring, and a position of 0.
LEMMA FirstInit == CdevInit => FirstInv
<1> SUFFICES ASSUME CdevInit, NEW f \in Followers PROVE FirstOK(f) BY DEF FirstInv
<1>1. f \in Threads BY DEF Threads
<1>2. /\ next_tp = 0 /\ priv[f] = 0 /\ pc[f] = "idle"
      /\ \A i \in 0 .. tp_pool_size - 1 : tp_pool[i].due = NoTicket
  BY <1>1 DEF CdevInit, Init, Zeroed, Filled
<1>3. NoTicket \notin Tickets BY PoolAssumption DEF PoolAssumption
<1> QED BY <1>2, <1>3 DEF FirstOK, Ahead, HasCopy

\* The first walk for a newly opened file leaves out no tracepoint that is in the
\* copied ring, raced slots apart: for any number of tracers, every size of the
\* ring and however full it is, as long as there is one reader and the counter
\* stays within an int (lines 590-591 and 502-522).
THEOREM FirstComplete ==
  ASSUME CalledAlone
  PROVE  CdevSpec /\ []InRange => FirstReadMissesNothing
<1>1. IInv /\ PoolInv /\ InRange /\ ReadInv /\ FirstInv /\ [CdevNext]_<<vars, cdevVars>> =>
        [\A f \in Followers : answer[f] = "none" /\ pc[f] = "start" /\ pc'[f] = "loop" =>
           \A i \in DOMAIN tp_pool_copy :
             ~tp_pool_copy[i].raced /\ tp_pool_copy[i].src \in Tickets =>
               tp_pool_copy[i].src >= tp_num'[f]]_<<vars, cdevVars>>
  <2> SUFFICES ASSUME PoolInv, InRange, FirstInv, CdevNext, NEW f \in Followers,
                      answer[f] = "none", pc[f] = "start", pc'[f] = "loop",
                      NEW i \in DOMAIN tp_pool_copy,
                      ~tp_pool_copy[i].raced, tp_pool_copy[i].src \in Tickets
               PROVE  tp_pool_copy[i].src >= tp_num'[f]
    BY DEF vars
  <2>1. f \in Threads /\ f \in Printers BY ReadRange
  <2>2. pc' # pc OBVIOUS
  <2>3. [Next]_vars BY <2>2, StepOfThePool DEF OpenPosition, traceVars
  <2>4. StartLoop(f) BY <2>1, <2>2, <2>3, OnlyStartLoop DEF PoolInv, vars
  <2>5. Ahead(tp_pool_copy, tp_num'[f]) BY <2>4, FirstStart DEF FirstInv
  <2>6. i \in 0 .. tp_pool_size - 1 BY DEF PoolInv, TypeInv, TypeOK
  <2>7. Whole(tp_pool_copy[i]) BY <2>1, <2>6 DEF PoolInv, CopyInv, HasCopy
  <2> QED BY <2>5, <2>6, <2>7 DEF Ahead, Whole
<1> QED BY <1>1, InitIInv, NextKeepsIInv, PoolInit, PoolNext, ReadInit, ReadNext, FirstInit,
    FirstNext, PTL DEF CdevSpec, FirstReadMissesNothing, PoolInv

-----------------------------------------------------------------------------
(* What ends a read, for any number of readers. *)

AnswerType == answer \in [Followers -> Answers]

\* A printout of nothing is no answer, and the end of the file is answered by
\* EndOfFile alone.
LEMMA AnswerNext ==
  ASSUME AnswerType, [CdevNext]_<<vars, cdevVars>>
  PROVE  /\ AnswerType'
         /\ \A f \in Followers :
              answer'[f] = "eof" /\ answer[f] # "eof" => ~cdev_blocking_read
<1> USE DEF AnswerType, Answers
<1>1. ASSUME NEW u \in Users, Opening(u)
      PROVE  answer' \in [Followers -> Answers] /\
             \A f \in Followers : answer'[f] = "eof" => answer[f] = "eof"
  <2>1. CASE OpenPosition(u) BY <2>1 DEF OpenPosition
  <2> QED BY <1>1, <2>1 DEF Opening, OpenCount, OpenRefused, Release, Write, readVars
<1>2. ASSUME NEW g \in Followers, Read(g) \/ ReadStep(g) \/ Interrupted(g)
      PROVE  answer' \in [Followers -> Answers] /\
             \A f \in Followers :
               answer'[f] = "eof" /\ answer[f] # "eof" => ~cdev_blocking_read
  <2>1. CASE PrintOn(g)
    <3>1. PrintResult(g) \in {"error", "bytes", "nothing"} BY DEF PrintResult
    <3>2. \/ answer' = answer
          \/ PrintResult(g) # "nothing" /\ answer' = [answer EXCEPT ![g] = PrintResult(g)]
      BY <2>1 DEF PrintOn, AfterPrint
    <3> QED BY <3>1, <3>2
  <2>2. CASE EndOfFile(g) BY <2>2 DEF EndOfFile, Returns
  <2>3. CASE ~PrintOn(g) /\ ~EndOfFile(g)
    BY <1>2, <2>3 DEF Read, ReadStep, Interrupted, SeesNews, SeesEmpty, Again, Queues, Sleeps,
       StaysUp, Passes, Returns, CallPrint
  <2> QED BY <2>1, <2>2, <2>3
<1>3. ASSUME NEW t \in Tracers, Trace(t) \/ TraceAndWake(t) PROVE UNCHANGED answer
  BY <1>3 DEF Trace, TraceAndWake, cdevVars, readVars
<1>4. CASE UNCHANGED <<vars, cdevVars>> BY <1>4 DEF cdevVars, readVars
<1> QED BY <1>1, <1>2, <1>3, <1>4 DEF CdevNext

\* A read returns 0 only while blocking reads are switched off (lines 634-638 and
\* 645-649).
THEOREM EndIsMeant == CdevSpec => EndOnlyWhenSwitchedOff
<1>1. CdevInit => AnswerType BY DEF CdevInit, AnswerType, Answers
<1>2. AnswerType /\ [CdevNext]_<<vars, cdevVars>> =>
        AnswerType' /\ [\A f \in Followers : answer'[f] = "eof" /\ answer[f] # "eof"
                          => ~cdev_blocking_read]_<<vars, cdevVars>>
  BY AnswerNext
<1> QED BY <1>1, <1>2, PTL DEF CdevSpec, EndOnlyWhenSwitchedOff
=============================================================================
