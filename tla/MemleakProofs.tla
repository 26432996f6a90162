----------------------------- MODULE MemleakProofs -----------------------------
(***************************************************************************)
(* The bookkeeping of memleak, for any number of threads, allocation sites *)
(* and blocks: the proofs behind the invariants of Memleak and behind the  *)
(* ledger it implements.                                                   *)
(***************************************************************************)
EXTENDS Memleak, FiniteSetTheorems, TLAPS

-----------------------------------------------------------------------------
(* Memory and order. *)

Labels == {"idle", "push", "search", "insert", "store", "free", "uncount", "release",
           "report", "line", "exit", "exited"}

AllocRecord == [site : Sites, cnt : Int, mem_total : Nat, dirty : BOOLEAN]
Figures     == [cnt : Int, mem_total : Nat \cup {Untold}]
Memory      == [state : {"unused", "live", "held", "freed"}, shift : {0, PIGGYBACK_SIZE},
                record : Nat, size : Nat]

\* A sum of sizes that wraps is still a size.
LEMMA SizeTType == \A n \in Int : SizeT(n) \in Nat
  <1> TAKE n \in Int
  <1>1. Half \in Nat /\ Half # 0  BY MemleakAssumption DEF MemleakAssumption
  <1> DEFINE m == Half * Half
  <1>2. m \in Nat /\ m # 0  BY <1>1
  <1> HIDE DEF m
  <1>3. n % m \in Nat  BY <1>2
  <1>4. QED  BY <1>3 DEF SizeT, m

\* A site never comes before itself, and what comes before what comes before it
\* comes before it.
LEMMA BeforeOrders ==
  /\ \A a \in Sites : ~Before(a, a)
  /\ \A a, b, c \in Sites : Before(a, b) /\ Before(b, c) => Before(a, c)
  <1>1. \A a \in Sites : a[1] \in Nat /\ a[2] \in Nat
    BY MemleakAssumption DEF MemleakAssumption
  <1>2. QED  BY <1>1 DEF Before

\* Counting keeps a record a record of the same site.
LEMMA CountedType ==
  ASSUME NEW rec \in AllocRecord, NEW n \in Nat
  PROVE  /\ Counted(rec, n) \in AllocRecord /\ Uncounted(rec, n) \in AllocRecord
         /\ Counted(rec, n).site = rec.site /\ Uncounted(rec, n).site = rec.site
         /\ Counted(rec, n).dirty = TRUE /\ Uncounted(rec, n).dirty = TRUE
         /\ Counted(rec, n).cnt = IF n > 0 THEN rec.cnt + 1 ELSE rec.cnt
         /\ Uncounted(rec, n).cnt = rec.cnt - 1
         /\ Counted(rec, n).mem_total = SizeT(rec.mem_total + n)
         /\ Uncounted(rec, n).mem_total = SizeT(rec.mem_total - n)
  <1> DEFINE up   == SizeT(rec.mem_total + n)
             down == SizeT(rec.mem_total - n)
             more == IF n > 0 THEN rec.cnt + 1 ELSE rec.cnt
             less == rec.cnt - 1
  <1>1. up \in Nat /\ down \in Nat  BY SizeTType DEF AllocRecord
  <1>2. more \in Int /\ less \in Int  BY DEF AllocRecord
  <1>3. Counted(rec, n) = [rec EXCEPT !.cnt = more, !.mem_total = up, !.dirty = TRUE]
    BY DEF Counted
  <1>4. Uncounted(rec, n) = [rec EXCEPT !.cnt = less, !.mem_total = down, !.dirty = TRUE]
    BY DEF Uncounted
  <1> HIDE DEF up, down, more, less
  <1>5. /\ Counted(rec, n) \in AllocRecord /\ Counted(rec, n).site = rec.site
        /\ Counted(rec, n).dirty = TRUE /\ Counted(rec, n).cnt = more
        /\ Counted(rec, n).mem_total = up
    BY <1>1, <1>2, <1>3 DEF AllocRecord
  <1>6. /\ Uncounted(rec, n) \in AllocRecord /\ Uncounted(rec, n).site = rec.site
        /\ Uncounted(rec, n).dirty = TRUE /\ Uncounted(rec, n).cnt = less
        /\ Uncounted(rec, n).mem_total = down
    BY <1>1, <1>2, <1>4 DEF AllocRecord
  <1>7. QED  BY <1>5, <1>6 DEF more, less, up, down

\* A pointer is taken for one of memleak's own just if its alignment was mangled.
LEMMA MangledShift ==
  ASSUME NEW b, block[b] \in Memory
  PROVE  Mangled(b) <=> block[b].shift = PIGGYBACK_SIZE
  BY DEF Mangled, Memory, PIGGYBACK_SIZE, ALLOC_ALIGN

\* What a free takes for the block's size is a size.
LEMMA PiggybackSizesType ==
  ASSUME NEW b, block[b] \in Memory
  PROVE  PiggybackSizes(b) \subseteq Nat
  <1>1. Half \in Nat  BY MemleakAssumption DEF MemleakAssumption
  <1>2. \A w \in Nat : Half * w \in Nat  BY <1>1
  <1>3. (IF Overlap THEN 0 .. Half - 1 ELSE {0}) \subseteq Nat  BY <1>1
  <1>4. block[b].size \in Nat  BY DEF Memory
  <1>5. QED  BY <1>2, <1>3, <1>4 DEF PiggybackSizes

\* Where the element with number j of an InsertAt comes from: what stood at the
\* place and behind it moves one place up.
LEMMA InsertAtElement ==
  ASSUME NEW S, NEW s \in Seq(S), NEW i \in 1 .. Len(s) + 1, NEW e \in S,
         NEW j \in 1 .. Len(s) + 1
  PROVE  /\ InsertAt(s, i, e) \in Seq(S)
         /\ Len(InsertAt(s, i, e)) = Len(s) + 1
         /\ InsertAt(s, i, e)[j] = IF j < i THEN s[j] ELSE IF j = i THEN e ELSE s[j - 1]
  <1> DEFINE a == SubSeq(s, 1, i - 1)
             b == a \o <<e>>
             c == SubSeq(s, i, Len(s))
  <1>1. a \in Seq(S) /\ Len(a) = i - 1 /\ (j < i => a[j] = s[j])
    OBVIOUS
  <1>2. c \in Seq(S) /\ Len(c) = Len(s) - i + 1 /\ (j > i => c[j - i] = s[i + (j - i) - 1])
    OBVIOUS
  <1>3. InsertAt(s, i, e) = b \o c  BY DEF InsertAt
  <1> HIDE DEF a, c
  <1>4. b \in Seq(S) /\ Len(b) = i /\ (j < i => b[j] = s[j]) /\ (j = i => b[j] = e)
    BY <1>1
  <1> HIDE DEF b
  <1>5. b \o c \in Seq(S) /\ Len(b \o c) = Len(s) + 1  BY <1>2, <1>4
  <1>6. CASE j <= i
    <2>1. (b \o c)[j] = b[j]  BY <1>2, <1>4, <1>6
    <2>2. QED  BY <1>3, <1>4, <1>5, <1>6, <2>1
  <1>7. CASE j > i
    <2>1. (b \o c)[j] = c[j - i]  BY <1>2, <1>4, <1>7
    <2>2. QED  BY <1>2, <1>3, <1>5, <1>7, <2>1
  <1>8. QED  BY <1>6, <1>7

\* The same of a list of indices.
LEMMA InsertAtIndex ==
  ASSUME NEW s \in Seq(Nat), NEW i \in 1 .. Len(s) + 1, NEW e \in Nat,
         NEW j \in 1 .. Len(s) + 1
  PROVE  /\ InsertAt(s, i, e) \in Seq(Nat)
         /\ Len(InsertAt(s, i, e)) = Len(s) + 1
         /\ InsertAt(s, i, e)[j] = IF j < i THEN s[j] ELSE IF j = i THEN e ELSE s[j - 1]
  <1> DEFINE S == Nat
  <1>1. s \in Seq(S) /\ e \in S  OBVIOUS
  <1> HIDE DEF S
  <1>2. InsertAt(s, i, e) \in Seq(S)  BY <1>1, InsertAtElement
  <1>3. Len(InsertAt(s, i, e)) = Len(s) + 1  BY <1>1, InsertAtElement
  <1>4. InsertAt(s, i, e)[j] = IF j < i THEN s[j] ELSE IF j = i THEN e ELSE s[j - 1]
    BY <1>1, InsertAtElement
  <1>5. QED  BY <1>2, <1>3, <1>4 DEF S

-----------------------------------------------------------------------------
(* Type correctness. *)

TypeInv ==
  /\ ss_memleak_tracking \in BOOLEAN /\ exiting \in BOOLEAN
  /\ records \in Seq(AllocRecord) /\ alloc_list \in Seq(Nat) /\ shown \in Seq(Figures)
  /\ rec_lock \in Threads \cup {NoThread}
  /\ block \in [Blocks -> Memory]
  /\ pc \in [Threads -> Labels]
  /\ site \in [Threads -> Sites \cup {<<0, 0>>}]
  /\ size \in [Threads -> Nat]
  /\ blk \in [Threads -> Blocks \cup {NoBlock}]
  /\ list_it \in [Threads -> Nat] /\ record \in [Threads -> Nat]
  /\ flags \in [Threads -> SUBSET {"TIGHT", "SUPPRESS_ZEROS", "ONLY_CHANGED"}]

\* Where a search or a report stands, it stands in the list, and what the list
\* holds are records, with figures last shown for each.
ListInv ==
  /\ Len(alloc_list) = Len(records) /\ Len(shown) = Len(records)
  /\ \A i \in 1 .. Len(alloc_list) : alloc_list[i] \in 1 .. Len(records)
  /\ \A r \in 1 .. Len(records) : \E i \in 1 .. Len(alloc_list) : alloc_list[i] = r
  /\ \A t \in Threads : pc[t] \in {"search", "insert", "line"} =>
       list_it[t] \in 1 .. Len(alloc_list) + 1

\* What a call in progress knows is what the code told it: a site to count at, a
\* record that exists.
CallInv ==
  \A t \in Threads :
    /\ pc[t] \in {"push", "search", "insert"} =>
         site[t] \in Sites /\ (IF blk[t] = NoBlock THEN size[t] = 0 ELSE size[t] \in Sizes)
    /\ pc[t] \in {"store", "free", "uncount"} =>
         record[t] \in 1 .. Len(records) /\ blk[t] # NoBlock
    /\ pc[t] = "release" => blk[t] # NoBlock
    /\ pc[t] \in {"idle", "report", "line"} => blk[t] = NoBlock

\* A block in the hands of a call is in nobody else's, and a tracked one has a
\* record.
HeapInv ==
  /\ \A t \in Threads : blk[t] # NoBlock => block[blk[t]].state \in {"held", "freed"}
  /\ \A t, u \in Threads : blk[t] # NoBlock /\ blk[t] = blk[u] => t = u
  /\ \A b \in Blocks : block[b].state = "live" =>
       IF Mangled(b) THEN block[b].record \in 1 .. Len(records) ELSE block[b].record = 0

\* Who works on the list holds rec_lock.
LockInv ==
  \A t \in Threads : pc[t] \in {"search", "insert", "uncount", "line"} => rec_lock = t

\* A search has passed only sites that come before its own, and where it found no
\* room among the equals it makes its record there.
SearchInv ==
  \A t \in Threads :
    /\ pc[t] \in {"search", "insert"} =>
         \A i \in 1 .. list_it[t] - 1 : Before(records[alloc_list[i]].site, site[t])
    /\ pc[t] = "insert" => NotFound(t)

IInv == TypeInv /\ ListInv /\ CallInv /\ HeapInv /\ LockInv /\ SearchInv
             /\ ListSorted /\ CleanIsPrinted

\* Nothing is tracked yet.
LEMMA InductiveInit == Init => IInv
  <1> SUFFICES ASSUME Init PROVE IInv  OBVIOUS
  <1> USE DEF Init
  <1>1. TypeInv
    <2>1. Unused \in Memory  BY DEF Unused, Memory
    <2>2. block \in [Blocks -> Memory]  BY <2>1
    <2>3. records \in Seq(AllocRecord) /\ alloc_list \in Seq(Nat) /\ shown \in Seq(Figures)
      OBVIOUS
    <2>4. QED  BY <2>2, <2>3 DEF TypeInv, Labels
  <1>2. ListInv /\ ListSorted /\ CleanIsPrinted  BY DEF ListInv, ListSorted, CleanIsPrinted
  <1>3. CallInv /\ LockInv /\ SearchInv  BY DEF CallInv, LockInv, SearchInv
  <1>4. HeapInv
    <2>1. \A b \in Blocks : block[b].state # "live"  BY DEF Unused
    <2>2. QED  BY <2>1 DEF HeapInv
  <1>5. QED  BY <1>1, <1>2, <1>3, <1>4 DEF IInv

\* A call that returns leaves locals of their types.
LEMMA ReturnType ==
  ASSUME TypeInv, NEW t \in Threads, Return(t)
  PROVE  /\ site' \in [Threads -> Sites \cup {<<0, 0>>}] /\ size' \in [Threads -> Nat]
         /\ blk' \in [Threads -> Blocks \cup {NoBlock}]
         /\ list_it' \in [Threads -> Nat] /\ record' \in [Threads -> Nat]
         /\ flags' \in [Threads -> SUBSET {"TIGHT", "SUPPRESS_ZEROS", "ONLY_CHANGED"}]
  BY DEF Return, TypeInv

\* What list_push_record does as it returns record r.
LEMMA PushReturnsEffect ==
  ASSUME TypeInv, NEW t \in Threads, NEW r \in Nat, PushReturns(t, r),
         pc[t] \in {"search", "insert"}
  PROVE  /\ rec_lock' = NoThread
         /\ pc' = [pc EXCEPT ![t] = IF blk[t] = NoBlock THEN "idle" ELSE "store"]
         /\ pc' \in [Threads -> Labels]
         /\ site' \in [Threads -> Sites \cup {<<0, 0>>}] /\ size' \in [Threads -> Nat]
         /\ list_it' \in [Threads -> Nat] /\ record' \in [Threads -> Nat]
         /\ flags' \in [Threads -> SUBSET {"TIGHT", "SUPPRESS_ZEROS", "ONLY_CHANGED"}]
         /\ blk' = blk
         /\ \A u \in Threads : u # t =>
              /\ site'[u] = site[u] /\ size'[u] = size[u] /\ list_it'[u] = list_it[u]
              /\ record'[u] = record[u]
         /\ blk[t] # NoBlock => record'[t] = r
  <1>1. CASE blk[t] = NoBlock
    <2>1. Return(t) /\ pc' = [pc EXCEPT ![t] = "idle"] /\ rec_lock' = NoThread
      BY <1>1 DEF PushReturns, Goto, Unlock
    <2>2. blk' = blk  BY <1>1, <2>1 DEF Return, TypeInv
    <2>3. QED  BY <1>1, <2>1, <2>2, ReturnType DEF TypeInv, Labels, Return
  <1>2. CASE blk[t] # NoBlock
    <2>1. /\ pc' = [pc EXCEPT ![t] = "store"] /\ rec_lock' = NoThread
          /\ record' = [record EXCEPT ![t] = r] /\ list_it' = [list_it EXCEPT ![t] = 0]
          /\ UNCHANGED <<site, size, blk, flags>>
      BY <1>2 DEF PushReturns, Goto, Unlock
    <2>2. pc' \in [Threads -> Labels]  BY <2>1 DEF TypeInv, Labels
    <2>3. QED  BY <1>2, <2>1, <2>2 DEF TypeInv
  <1>3. QED  BY <1>1, <1>2

\* Whoever is at an element of the list is at a record.
LEMMA ElementIsRecord ==
  ASSUME TypeInv, ListInv, NEW t \in Threads, pc[t] \in {"search", "insert", "line"},
         ~AtEnd(t)
  PROVE  /\ list_it[t] \in 1 .. Len(alloc_list)
         /\ alloc_list[list_it[t]] \in 1 .. Len(records)
         /\ records[alloc_list[list_it[t]]] \in AllocRecord
  <1>1. Len(alloc_list) \in Nat /\ list_it[t] \in 1 .. Len(alloc_list) + 1
    BY DEF TypeInv, ListInv
  <1>2. list_it[t] \in 1 .. Len(alloc_list)  BY <1>1 DEF AtEnd
  <1>3. alloc_list[list_it[t]] \in 1 .. Len(records)  BY <1>2 DEF ListInv
  <1>4. QED  BY <1>2, <1>3 DEF TypeInv

\* A free changes the record of its block by what it takes for the block's size.
LEMMA UncountEffect ==
  ASSUME TypeInv, CallInv, NEW t \in Threads, Uncount(t)
  PROVE  /\ record[t] \in 1 .. Len(records) /\ blk[t] \in Blocks
         /\ records[record[t]] \in AllocRecord
         /\ \E n \in Nat :
              /\ n \in PiggybackSizes(blk[t])
              /\ records' = [records EXCEPT ![record[t]] = Uncounted(records[record[t]], n)]
  <1>1. record[t] \in 1 .. Len(records) /\ blk[t] \in Blocks
    BY DEF Uncount, Goto, CallInv, TypeInv
  <1>2. records[record[t]] \in AllocRecord  BY <1>1 DEF TypeInv
  <1>3. PICK n \in PiggybackSizes(blk[t]) :
          records' = [records EXCEPT ![record[t]] = Uncounted(records[record[t]], n)]
    BY DEF Uncount
  <1>4. n \in Nat  BY <1>1, <1>3, PiggybackSizesType DEF TypeInv
  <1>5. QED  BY <1>1, <1>2, <1>3, <1>4

\* The types, and where the searches stand.
LEMMA TypeNext ==
  ASSUME IInv, [Next]_vars
  PROVE  TypeInv'
  <1> USE DEF IInv, TypeInv, Labels, Goto, locals
  <1>1. CASE SetTracking  BY <1>1 DEF SetTracking
  <1>2. ASSUME NEW t \in Threads, Call(t) PROVE TypeInv'
    <2>0. Unused \in Memory /\ [Unused EXCEPT !.state = "live"] \in Memory
          /\ [Unused EXCEPT !.state = "held"] \in Memory
      BY DEF Unused, Memory
    <2>1. CASE MallocUntracked(t)  BY <2>0, <2>1 DEF MallocUntracked
    <2>2. CASE Malloc(t)
      <3>1. Sizes \subseteq Nat  BY MemleakAssumption DEF MemleakAssumption
      <3>2. QED  BY <2>0, <2>2, <3>1 DEF Malloc
    <2>3. CASE PointRegister(t)    BY <2>3 DEF PointRegister
    <2>4. CASE FreeUntracked(t)    BY <2>0, <2>4 DEF FreeUntracked
    <2>5. CASE Free(t)
      <3>1. \A m \in Memory : [m EXCEPT !.state = "freed"] \in Memory /\ m.record \in Nat
        BY DEF Memory
      <3>2. \A b \in Blocks : block[b] \in Memory  OBVIOUS
      <3>3. \A b \in Blocks : [block[b] EXCEPT !.state = "freed"] \in Memory
                              /\ block[b].record \in Nat
        BY <3>1, <3>2
      <3>4. QED  BY <2>5, <3>3 DEF Free
    <2>6. CASE Report(t)           BY <2>6 DEF Report
    <2>7. CASE Exit(t)             BY <2>7 DEF Exit
    <2>8. QED  BY <1>2, <2>1, <2>2, <2>3, <2>4, <2>5, <2>6, <2>7 DEF Call
  <1>3. ASSUME NEW t \in Threads, Step(t) PROVE TypeInv'
    <2> DEFINE i == list_it[t]
               r == alloc_list[i]
    <2>0. pc[t] \in {"search", "insert", "line"} /\ ~AtEnd(t) =>
            i \in 1 .. Len(alloc_list) /\ r \in 1 .. Len(records) /\ records[r] \in AllocRecord
      BY ElementIsRecord
    <2>1. CASE LockPush(t)  BY <2>1 DEF LockPush, Lock
    <2>2. CASE Search(t)    BY <2>2 DEF Search, Next1
    <2>3. CASE Found(t)
      <3>1. Counted(records[r], size[t]) \in AllocRecord  BY <2>0, <2>3, CountedType DEF Found
      <3>2. records' \in Seq(AllocRecord)  BY <2>0, <2>3, <3>1 DEF Found, Here
      <3>3. PushReturns(t, r) /\ pc[t] = "search" /\ r \in Nat  BY <2>0, <2>3 DEF Found
      <3>4. QED  BY <2>3, <3>2, <3>3, PushReturnsEffect DEF Found
    <2>4. CASE MakeRecord(t)  BY <2>4 DEF MakeRecord
    <2>5. CASE Insert(t)
      <3> DEFINE new == [site |-> site[t], cnt |-> IF size[t] > 0 THEN 1 ELSE 0,
                         mem_total |-> size[t], dirty |-> TRUE]
      <3>1. new \in AllocRecord  BY <2>5 DEF Insert, AllocRecord, CallInv
      <3>2. records' \in Seq(AllocRecord)  BY <2>5, <3>1 DEF Insert
      <3>3. shown' \in Seq(Figures)  BY <2>5 DEF Insert, Figures
      <3>4. alloc_list' \in Seq(Nat)
        <4>1. i \in 1 .. Len(alloc_list) + 1 /\ Len(records) + 1 \in Nat
          BY <2>5 DEF Insert, ListInv
        <4>2. QED  BY <2>5, <4>1, InsertAtElement DEF Insert, Added
      <3>5. PushReturns(t, Len(records) + 1) /\ pc[t] = "insert" /\ Len(records) + 1 \in Nat
        BY <2>5 DEF Insert
      <3>6. QED  BY <2>5, <3>2, <3>3, <3>4, <3>5, PushReturnsEffect DEF Insert
    <2>6. CASE RecordFails(t)  BY <2>6 DEF RecordFails
    <2>7. CASE StorePiggyback(t)
      <3>1. [state |-> "live", shift |-> PIGGYBACK_SIZE, record |-> record[t],
             size |-> size[t]] \in Memory
        BY DEF Memory
      <3>2. block' \in [Blocks -> Memory]  BY <2>7, <3>1 DEF StorePiggyback
      <3>3. QED  BY <2>7, <3>2, ReturnType DEF StorePiggyback
    <2>8. CASE LockFree(t)  BY <2>8 DEF LockFree, Lock
    <2>9. CASE Uncount(t)
      <3>1. /\ record[t] \in 1 .. Len(records)
            /\ records[record[t]] \in AllocRecord
        BY <2>9, UncountEffect
      <3>2. PICK n \in Nat :
              records' = [records EXCEPT ![record[t]] = Uncounted(records[record[t]], n)]
        BY <2>9, UncountEffect
      <3>3. Uncounted(records[record[t]], n) \in AllocRecord  BY <3>1, <3>2, CountedType
      <3>4. records' \in Seq(AllocRecord)  BY <3>1, <3>2, <3>3
      <3>5. QED  BY <2>9, <3>4 DEF Uncount, Unlock
    <2>10. CASE Release(t)
      <3>1. block' \in [Blocks -> Memory]  BY <2>10 DEF Release, Unused, Memory
      <3>2. QED  BY <2>10, <3>1, ReturnType DEF Release
    <2>11. CASE LockReport(t)  BY <2>11 DEF LockReport, Lock
    <2>12. CASE SkipLine(t)    BY <2>12 DEF SkipLine, Next1
    <2>13. CASE PrintLine(t)
      <3>1. records' \in Seq(AllocRecord)
        <4>1. [records[r] EXCEPT !.dirty = FALSE] \in AllocRecord
          BY <2>0, <2>13 DEF PrintLine, AllocRecord
        <4>2. QED  BY <2>0, <2>13, <4>1 DEF PrintLine
      <3>2. shown' \in Seq(Figures)
        <4>1. Line(t) \in Figures
          BY <2>0, <2>13 DEF PrintLine, Line, Here, AllocRecord, Figures
        <4>2. QED  BY <2>0, <2>13, <4>1 DEF PrintLine, ListInv
      <3>3. QED  BY <2>13, <3>1, <3>2 DEF PrintLine, Next1
    <2>14. CASE FinishReport(t)  BY <2>14, ReturnType DEF FinishReport, Unlock
    <2>15. CASE ExitReport(t)    BY <2>15 DEF ExitReport
    <2>16. QED
      BY <1>3, <2>1, <2>2, <2>3, <2>4, <2>5, <2>6, <2>7, <2>8, <2>9, <2>10, <2>11, <2>12,
         <2>13, <2>14, <2>15 DEF Step
  <1>4. CASE UNCHANGED vars  BY <1>4 DEF vars
  <1>5. QED  BY <1>1, <1>2, <1>3, <1>4 DEF Next

-----------------------------------------------------------------------------
(* The list and its lock. *)

\* Only list_push_record adds to the list; every other step leaves the list, the
\* number of records and their sites as they were.
LEMMA ListKept ==
  ASSUME IInv, [Next]_vars, \A t \in Threads : ~Insert(t)
  PROVE  /\ alloc_list' = alloc_list /\ Len(records') = Len(records)
         /\ Len(shown') = Len(shown)
         /\ \A r \in 1 .. Len(records) : records'[r].site = records[r].site
  <1> USE DEF IInv, TypeInv, locals
  <1>1. CASE SetTracking \/ UNCHANGED vars
    BY <1>1 DEF SetTracking, vars
  <1>2. ASSUME NEW t \in Threads, Call(t) PROVE UNCHANGED <<alloc_list, records, shown>>
    BY <1>2 DEF Call, MallocUntracked, Malloc, PointRegister, FreeUntracked, Free, Report, Exit
  <1>3. ASSUME NEW t \in Threads, Step(t), ~Found(t), ~Uncount(t), ~PrintLine(t)
        PROVE  UNCHANGED <<alloc_list, records, shown>>
    BY <1>3 DEF Step, LockPush, Search, MakeRecord, RecordFails, StorePiggyback, LockFree,
                Release, LockReport, SkipLine, FinishReport, ExitReport
  <1>4. ASSUME NEW t \in Threads, Found(t) \/ PrintLine(t)
        PROVE  /\ alloc_list' = alloc_list /\ Len(records') = Len(records)
               /\ Len(shown') = Len(shown)
               /\ \A r \in 1 .. Len(records) : records'[r].site = records[r].site
    <2> DEFINE q == alloc_list[list_it[t]]
    <2>1. q \in 1 .. Len(records) /\ records[q] \in AllocRecord
      BY <1>4, ElementIsRecord DEF Found, PrintLine, Goto
    <2>2. CASE Found(t)
      <3>1. Counted(records[q], size[t]).site = records[q].site  BY <2>1, CountedType
      <3>2. QED  BY <2>1, <2>2, <3>1 DEF Found
    <2>3. CASE PrintLine(t)
      <3>1. [records[q] EXCEPT !.dirty = FALSE].site = records[q].site
        BY <2>1 DEF AllocRecord
      <3>2. QED  BY <2>1, <2>3, <3>1 DEF PrintLine
    <2>4. QED  BY <1>4, <2>2, <2>3
  <1>5. ASSUME NEW t \in Threads, Uncount(t)
        PROVE  /\ alloc_list' = alloc_list /\ Len(records') = Len(records)
               /\ Len(shown') = Len(shown)
               /\ \A r \in 1 .. Len(records) : records'[r].site = records[r].site
    <2>1. record[t] \in 1 .. Len(records) /\ records[record[t]] \in AllocRecord
      BY <1>5, UncountEffect
    <2>2. PICK n \in Nat :
            records' = [records EXCEPT ![record[t]] = Uncounted(records[record[t]], n)]
      BY <1>5, UncountEffect
    <2>3. Uncounted(records[record[t]], n).site = records[record[t]].site
      BY <2>1, <2>2, CountedType
    <2>4. QED  BY <1>5, <2>1, <2>2, <2>3 DEF Uncount
  <1>6. QED  BY <1>1, <1>2, <1>3, <1>4, <1>5 DEF Next, Step

\* Insert puts a record of its own site where the search stopped.
LEMMA ListGrows ==
  ASSUME IInv, NEW t \in Threads, Insert(t)
  PROVE  /\ list_it[t] \in 1 .. Len(alloc_list) + 1
         /\ Len(alloc_list') = Len(alloc_list) + 1 /\ Len(records') = Len(records) + 1
         /\ Len(shown') = Len(shown) + 1
         /\ \A j \in 1 .. Len(alloc_list) + 1 :
              alloc_list'[j] = IF j < list_it[t] THEN alloc_list[j]
                               ELSE IF j = list_it[t] THEN Len(records) + 1
                               ELSE alloc_list[j - 1]
         /\ \A r \in 1 .. Len(records) : records'[r] = records[r] /\ shown'[r] = shown[r]
         /\ records'[Len(records) + 1] =
              [site |-> site[t], cnt |-> IF size[t] > 0 THEN 1 ELSE 0,
               mem_total |-> size[t], dirty |-> TRUE]
         /\ shown'[Len(records) + 1] = [cnt |-> 0, mem_total |-> 0]
  <1> USE DEF IInv, TypeInv
  <1>1. list_it[t] \in 1 .. Len(alloc_list) + 1  BY DEF Insert, ListInv
  <1>2. Len(records) + 1 \in Nat /\ Len(alloc_list) \in Nat  OBVIOUS
  <1> DEFINE p == list_it[t]
             e == Len(records) + 1
             longer == InsertAt(alloc_list, p, e)
  <1>3. alloc_list' = longer  BY DEF Insert, Added
  <1>a. /\ Len(longer) = Len(alloc_list) + 1
        /\ \A j \in 1 .. Len(alloc_list) + 1 :
              longer[j] = IF j < list_it[t] THEN alloc_list[j]
                          ELSE IF j = list_it[t] THEN Len(records) + 1
                          ELSE alloc_list[j - 1]
    <2>1. alloc_list \in Seq(Nat) /\ p \in 1 .. Len(alloc_list) + 1 /\ e \in Nat
      BY <1>1, <1>2
    <2> HIDE DEF p, e
    <2>2. Len(longer) = Len(alloc_list) + 1  BY <2>1, InsertAtIndex
    <2>3. ASSUME NEW j \in 1 .. Len(alloc_list) + 1
          PROVE  longer[j] = IF j < p THEN alloc_list[j] ELSE IF j = p THEN e
                             ELSE alloc_list[j - 1]
      BY <2>1, InsertAtIndex
    <2> HIDE DEF longer
    <2>4. QED  BY <2>2, <2>3 DEF p, e
  <1> HIDE DEF longer
  <1>4. /\ Len(alloc_list') = Len(alloc_list) + 1
        /\ \A j \in 1 .. Len(alloc_list) + 1 :
              alloc_list'[j] = IF j < list_it[t] THEN alloc_list[j]
                               ELSE IF j = list_it[t] THEN Len(records) + 1
                               ELSE alloc_list[j - 1]
    BY <1>3, <1>a
  <1> DEFINE new == [site |-> site[t], cnt |-> IF size[t] > 0 THEN 1 ELSE 0,
                     mem_total |-> size[t], dirty |-> TRUE]
             none == [cnt |-> 0, mem_total |-> 0]
  <1>5. records' = Append(records, new) /\ shown' = Append(shown, none)  BY DEF Insert
  <1> HIDE DEF new, none
  <1>6. /\ Len(records') = Len(records) + 1 /\ records'[Len(records) + 1] = new
        /\ \A r \in 1 .. Len(records) : records'[r] = records[r]
    BY <1>5
  <1>7. /\ Len(shown') = Len(shown) + 1 /\ shown'[Len(shown) + 1] = none
        /\ \A r \in 1 .. Len(shown) : shown'[r] = shown[r]
    BY <1>5
  <1>8. Len(shown) = Len(records)  BY DEF ListInv
  <1>9. QED  BY <1>1, <1>4, <1>6, <1>7, <1>8 DEF new, none

\* The record Insert makes is one of its own site, to be reported.
LEMMA NewRecord ==
  ASSUME IInv, NEW t \in Threads, Insert(t)
  PROVE  /\ records'[Len(records) + 1].site = site[t]
         /\ records'[Len(records) + 1].cnt = IF size[t] > 0 THEN 1 ELSE 0
         /\ records'[Len(records) + 1].mem_total = size[t]
         /\ records'[Len(records) + 1].dirty = TRUE
  <1>1. records'[Len(records) + 1] =
          [site |-> site[t], cnt |-> IF size[t] > 0 THEN 1 ELSE 0,
           mem_total |-> size[t], dirty |-> TRUE]
    BY ListGrows
  <1>2. QED  BY <1>1

\* rec_lock is taken by whoever goes to work on the list and given back after.
LEMMA LockNext ==
  ASSUME IInv, [Next]_vars
  PROVE  LockInv'
  <1> USE DEF IInv, LockInv, Goto, locals
  <1> pc \in [Threads -> Labels]  BY DEF TypeInv
  <1>0. NoThread \notin Threads  BY MemleakAssumption DEF MemleakAssumption
  <1>1. CASE SetTracking \/ UNCHANGED vars
    BY <1>1 DEF SetTracking, vars
  <1>2. ASSUME NEW t \in Threads, Call(t) PROVE LockInv'
    BY <1>2 DEF Call, MallocUntracked, Malloc, PointRegister, FreeUntracked, Free, Report, Exit
  <1>3. ASSUME NEW t \in Threads, Step(t) PROVE LockInv'
    <2>1. CASE LockPush(t) \/ LockFree(t) \/ LockReport(t)
      BY <1>0, <2>1 DEF LockPush, LockFree, LockReport, Lock
    <2>2. CASE Found(t)
      <3>1. pc[t] = "search" /\ PushReturns(t, alloc_list[list_it[t]])
            /\ alloc_list[list_it[t]] \in Nat
        BY <2>2, ElementIsRecord DEF Found
      <3>2. pc' = [pc EXCEPT ![t] = IF blk[t] = NoBlock THEN "idle" ELSE "store"]
        BY <3>1, PushReturnsEffect
      <3>3. QED  BY <3>1, <3>2
    <2>3. CASE Insert(t)
      <3>1. pc[t] = "insert" /\ PushReturns(t, Len(records) + 1) /\ Len(records) + 1 \in Nat
        BY <2>3 DEF Insert, TypeInv
      <3>2. pc' = [pc EXCEPT ![t] = IF blk[t] = NoBlock THEN "idle" ELSE "store"]
        BY <3>1, PushReturnsEffect
      <3>3. QED  BY <3>1, <3>2
    <2>4. CASE Uncount(t) \/ FinishReport(t)
      BY <2>4 DEF Uncount, FinishReport, Unlock
    <2>5. CASE Search(t) \/ MakeRecord(t) \/ RecordFails(t) \/ StorePiggyback(t)
      BY <2>5 DEF Search, MakeRecord, RecordFails, StorePiggyback
    <2>6. CASE Release(t) \/ SkipLine(t) \/ PrintLine(t) \/ ExitReport(t)
      BY <2>6 DEF Release, SkipLine, PrintLine, ExitReport
    <2>7. QED  BY <1>3, <2>1, <2>2, <2>3, <2>4, <2>5, <2>6 DEF Step
  <1>4. QED  BY <1>1, <1>2, <1>3 DEF Next

\* No two threads work on the list.
LEMMA OneWorks ==
  ASSUME IInv, NEW t \in Threads, NEW u \in Threads,
         pc[t] \in {"search", "insert", "uncount", "line"},
         pc[u] \in {"search", "insert", "uncount", "line"}
  PROVE  t = u
  BY DEF IInv, LockInv

\* Searches and reports go along the list one by one.
LEMMA IteratorNext ==
  ASSUME IInv, [Next]_vars, NEW u \in Threads, pc'[u] \in {"search", "insert", "line"}
  PROVE  list_it'[u] \in 1 .. Len(alloc_list) + 1
  <1> USE DEF IInv, Goto, locals
  <1>0. /\ pc \in [Threads -> Labels] /\ list_it \in [Threads -> Nat]
        /\ Len(alloc_list) \in Nat /\ alloc_list \in Seq(Nat)
    BY DEF TypeInv
  <1>a. \A v \in Threads : pc[v] \in {"search", "insert", "line"} =>
          list_it[v] \in 1 .. Len(alloc_list) + 1
    BY DEF ListInv
  <1>1. CASE SetTracking \/ UNCHANGED vars
    BY <1>a, <1>1 DEF SetTracking, vars
  <1>2. ASSUME NEW t \in Threads, Call(t) PROVE pc'[u] = pc[u] /\ list_it' = list_it
    BY <1>a, <1>0, <1>2 DEF Call, MallocUntracked, Malloc, PointRegister, FreeUntracked, Free,
                      Report, Exit
  <1>3. ASSUME NEW t \in Threads, Step(t) PROVE list_it'[u] \in 1 .. Len(alloc_list) + 1
    <2>1. CASE LockPush(t) \/ LockReport(t)
      <3>1. list_it' = [list_it EXCEPT ![t] = 1] /\ \A v \in Threads : v # t => pc'[v] = pc[v]
        BY <1>0, <2>1 DEF LockPush, LockReport
      <3>2. 1 \in 1 .. Len(alloc_list) + 1  BY <1>0
      <3>3. QED  BY <1>0, <1>a, <3>1, <3>2
    <2>2. CASE Search(t) \/ SkipLine(t) \/ PrintLine(t)
      <3>1. list_it[t] \in 1 .. Len(alloc_list)
        BY <2>2, ElementIsRecord DEF Search, SkipLine, PrintLine
      <3>2. list_it' = [list_it EXCEPT ![t] = @ + 1] /\ UNCHANGED pc
        BY <1>a, <1>0, <2>2 DEF Search, SkipLine, PrintLine, Next1
      <3>3. QED  BY <1>a, <1>0, <3>1, <3>2
    <2>3. CASE MakeRecord(t)  BY <1>a, <1>0, <2>3 DEF MakeRecord
    <2>4. CASE Found(t)
      <3>1. pc[t] = "search" /\ PushReturns(t, alloc_list[list_it[t]])
            /\ alloc_list[list_it[t]] \in Nat
        BY <2>4, ElementIsRecord DEF Found
      <3>2. /\ pc' = [pc EXCEPT ![t] = IF blk[t] = NoBlock THEN "idle" ELSE "store"]
            /\ \A v \in Threads : v # t => list_it'[v] = list_it[v]
        BY <3>1, PushReturnsEffect
      <3>3. QED  BY <1>a, <1>0, <3>1, <3>2
    <2>5. CASE Insert(t)
      <3>1. pc[t] = "insert" /\ PushReturns(t, Len(records) + 1) /\ Len(records) + 1 \in Nat
        BY <2>5 DEF Insert, TypeInv
      <3>2. /\ pc' = [pc EXCEPT ![t] = IF blk[t] = NoBlock THEN "idle" ELSE "store"]
            /\ \A v \in Threads : v # t => list_it'[v] = list_it[v]
        BY <3>1, PushReturnsEffect
      <3>3. QED  BY <1>a, <1>0, <3>1, <3>2
    <2>6. CASE StorePiggyback(t) \/ Release(t) \/ FinishReport(t)
      BY <1>a, <1>0, <2>6 DEF StorePiggyback, Release, FinishReport, Return
    <2>7. CASE RecordFails(t) \/ LockFree(t) \/ Uncount(t) \/ ExitReport(t)
      BY <1>a, <1>0, <2>7 DEF RecordFails, LockFree, Uncount, ExitReport
    <2>8. QED  BY <1>a, <1>3, <2>1, <2>2, <2>3, <2>4, <2>5, <2>6, <2>7 DEF Step
  <1>4. QED  BY <1>a, <1>0, <1>1, <1>2, <1>3 DEF Next

\* While a record is inserted nobody else stands in the list.
LEMMA InsertAlone ==
  ASSUME IInv, NEW t \in Threads, Insert(t), NEW u \in Threads
  PROVE  pc'[u] \notin {"search", "insert", "line"}
  <1>1. pc[t] = "insert" /\ PushReturns(t, Len(records) + 1) /\ Len(records) + 1 \in Nat
    BY DEF Insert, IInv, TypeInv
  <1>2. pc' = [pc EXCEPT ![t] = IF blk[t] = NoBlock THEN "idle" ELSE "store"]
    BY <1>1, PushReturnsEffect DEF IInv
  <1>3. u # t => pc[u] \notin {"search", "insert", "line"}  BY <1>1, OneWorks
  <1>4. QED  BY <1>2, <1>3 DEF IInv, TypeInv

\* ListInv is kept.
LEMMA ListNext ==
  ASSUME IInv, [Next]_vars
  PROVE  ListInv'
  <1> USE DEF IInv
  <1>0. Len(alloc_list) \in Nat /\ Len(records) = Len(alloc_list)
    BY DEF TypeInv, ListInv
  <1>1. CASE \A t \in Threads : ~Insert(t)
    BY <1>0, <1>1, ListKept, IteratorNext DEF ListInv
  <1>2. ASSUME NEW t \in Threads, Insert(t) PROVE ListInv'
    <2> DEFINE p == list_it[t]
               n == Len(alloc_list)
    <2>1. p \in 1 .. n + 1 /\ p \in Nat /\ n \in Nat
      <3>1. list_it[t] \in 1 .. Len(alloc_list) + 1  BY <1>2, ListGrows
      <3>2. QED  BY <1>0, <3>1
    <2>2. Len(alloc_list') = n + 1 /\ Len(records') = n + 1 /\ Len(shown') = n + 1
      BY <1>0, <1>2, ListGrows DEF ListInv
    <2>3. \A j \in 1 .. n + 1 :
            alloc_list'[j] = IF j < p THEN alloc_list[j] ELSE IF j = p THEN n + 1
                             ELSE alloc_list[j - 1]
      BY <1>0, <1>2, ListGrows
    <2> HIDE DEF p, n
    <2>4. \A j \in 1 .. n + 1 : alloc_list'[j] \in 1 .. n + 1
      <3>1. \A j \in 1 .. n : alloc_list[j] \in 1 .. n  BY <1>0 DEF ListInv, n
      <3>2. TAKE j \in 1 .. n + 1
      <3>3. j < p => j \in 1 .. n  BY <2>1
      <3>4. j > p => j - 1 \in 1 .. n  BY <2>1
      <3>5. QED  BY <2>1, <2>3, <3>1, <3>3, <3>4
    <2>5. ASSUME NEW r \in 1 .. n + 1 PROVE \E j \in 1 .. n + 1 : alloc_list'[j] = r
      <3>1. CASE r = n + 1  BY <2>1, <2>3, <3>1
      <3>2. CASE r # n + 1
        <4>1. PICK i \in 1 .. n : alloc_list[i] = r
          <5>1. r \in 1 .. Len(records)  BY <1>0, <2>1, <3>2 DEF n
          <5>2. QED  BY <5>1 DEF ListInv, n
        <4>2. CASE i < p   BY <2>1, <2>3, <4>1, <4>2
        <4>3. CASE i >= p
          <5>1. i + 1 \in 1 .. n + 1 /\ i + 1 > p /\ (i + 1) - 1 = i  BY <2>1, <4>1, <4>3
          <5>2. QED  BY <2>3, <4>1, <5>1, <2>1
        <4>4. QED  BY <2>1, <4>2, <4>3
      <3>3. QED  BY <3>1, <3>2
    <2>6. QED  BY <1>2, <2>2, <2>4, <2>5, InsertAlone DEF ListInv
  <1>3. QED  BY <1>1, <1>2

\* No record is ever removed.
LEMMA RecordsStay ==
  ASSUME IInv, [Next]_vars
  PROVE  Len(records) \in Nat /\ Len(records') \in Nat /\ Len(records) <= Len(records')
  <1>1. Len(records) \in Nat  BY DEF IInv, TypeInv
  <1>2. CASE \A t \in Threads : ~Insert(t)  BY <1>1, <1>2, ListKept
  <1>3. CASE \E t \in Threads : Insert(t)
    <2>1. PICK t \in Threads : Insert(t)  BY <1>3
    <2>2. Len(records') = Len(records) + 1  BY <2>1, ListGrows
    <2>3. QED  BY <1>1, <2>2
  <1>4. QED  BY <1>1, <1>2, <1>3

-----------------------------------------------------------------------------
(* The locals of the calls, and the memory. *)

\* CallInv of one thread.
CallOK(t) ==
  /\ pc[t] \in {"push", "search", "insert"} =>
       site[t] \in Sites /\ (IF blk[t] = NoBlock THEN size[t] = 0 ELSE size[t] \in Sizes)
  /\ pc[t] \in {"store", "free", "uncount"} =>
       record[t] \in 1 .. Len(records) /\ blk[t] # NoBlock
  /\ pc[t] = "release" => blk[t] # NoBlock
  /\ pc[t] \in {"idle", "report", "line"} => blk[t] = NoBlock

\* A thread whose locals a step leaves alone.
LEMMA CallFrame ==
  ASSUME IInv, [Next]_vars, NEW u \in Threads,
         pc'[u] = pc[u], site'[u] = site[u], size'[u] = size[u], blk'[u] = blk[u],
         record'[u] = record[u]
  PROVE  CallOK(u)'
  <1>1. Len(records) \in Nat /\ Len(records') \in Nat /\ Len(records) <= Len(records')
    BY RecordsStay
  <1>2. 1 .. Len(records) \subseteq 1 .. Len(records')  BY <1>1
  <1>3. QED  BY <1>2 DEF IInv, CallInv, CallOK

\* What a thread knows stays so until it returns.
LEMMA CallNext ==
  ASSUME IInv, [Next]_vars
  PROVE  CallInv'
  <1> SUFFICES ASSUME NEW u \in Threads PROVE CallOK(u)'  BY DEF CallInv, CallOK
  <1> USE DEF Goto, locals
  <1>0. /\ pc \in [Threads -> Labels] /\ site \in [Threads -> Sites \cup {<<0, 0>>}]
        /\ size \in [Threads -> Nat] /\ blk \in [Threads -> Blocks \cup {NoBlock}]
        /\ list_it \in [Threads -> Nat] /\ record \in [Threads -> Nat]
        /\ block \in [Blocks -> Memory]
    BY DEF IInv, TypeInv
  <1>a. CallOK(u)  BY DEF IInv, CallInv, CallOK
  <1>1. CASE SetTracking \/ UNCHANGED vars
    BY <1>1, CallFrame DEF SetTracking, vars
  <1>2. ASSUME NEW t \in Threads, Call(t), u # t PROVE CallOK(u)'
    <2>1. /\ pc'[u] = pc[u] /\ site'[u] = site[u] /\ size'[u] = size[u] /\ blk'[u] = blk[u]
          /\ record'[u] = record[u]
      BY <1>0, <1>2 DEF Call, MallocUntracked, Malloc, PointRegister, FreeUntracked, Free,
                        Report, Exit
    <2>2. QED  BY <2>1, CallFrame
  <1>3. ASSUME NEW t \in Threads, Call(t), u = t PROVE CallOK(u)'
    <2>1. CASE MallocUntracked(t) \/ FreeUntracked(t)
      BY <1>3, <2>1, CallFrame DEF MallocUntracked, FreeUntracked
    <2>2. CASE Malloc(t)
      <3>1. pc'[t] = "push" /\ blk'[t] \in Blocks /\ site'[t] \in Sites /\ size'[t] \in Sizes
        BY <1>0, <2>2 DEF Malloc
      <3>2. blk'[t] # NoBlock  BY <3>1, MemleakAssumption DEF MemleakAssumption
      <3>3. QED  BY <1>3, <3>1, <3>2 DEF CallOK
    <2>3. CASE PointRegister(t)
      <3>1. pc'[t] = "push" /\ blk'[t] = NoBlock /\ site'[t] \in Sites /\ size'[t] = 0
        BY <1>0, <2>3 DEF PointRegister
      <3>2. QED  BY <1>3, <3>1 DEF CallOK
    <2>4. CASE Free(t)
      <3>1. PICK b \in Blocks : /\ block[b].state = "live" /\ Mangled(b)
                                /\ blk' = [blk EXCEPT ![t] = b]
                                /\ record' = [record EXCEPT ![t] = block[b].record]
        BY <2>4 DEF Free
      <3>2. pc'[t] = "free" /\ records' = records  BY <1>0, <2>4 DEF Free
      <3>3. record'[t] \in 1 .. Len(records)  BY <1>0, <3>1 DEF IInv, HeapInv
      <3>4. blk'[t] # NoBlock  BY <1>0, <3>1, MemleakAssumption DEF MemleakAssumption
      <3>5. QED  BY <1>3, <3>2, <3>3, <3>4 DEF CallOK
    <2>5. CASE Report(t) \/ Exit(t)
      BY <1>0, <1>3, <1>a, <2>5 DEF Report, Exit, CallOK
    <2>6. QED  BY <1>3, <2>1, <2>2, <2>3, <2>4, <2>5 DEF Call
  <1>4. ASSUME NEW t \in Threads, Step(t) PROVE CallOK(u)'
    <2> DEFINE Still == /\ pc'[u] = pc[u] /\ site'[u] = site[u] /\ size'[u] = size[u]
                        /\ blk'[u] = blk[u] /\ record'[u] = record[u]
    <2>1. CASE LockPush(t) \/ Search(t) \/ MakeRecord(t)
      BY <1>0, <1>a, <2>1 DEF LockPush, Search, MakeRecord, Next1, CallOK
    <2>2. CASE RecordFails(t) \/ ExitReport(t) \/ LockFree(t)
      BY <1>0, <1>a, <2>2 DEF RecordFails, ExitReport, LockFree, CallOK
    <2>3. CASE LockReport(t) \/ SkipLine(t)
      BY <1>0, <1>a, <2>3 DEF LockReport, SkipLine, Next1, CallOK
    <2>4. CASE PrintLine(t)
      <3>1. Still  BY <1>0, <2>4 DEF PrintLine, Next1
      <3>2. QED  BY <3>1, CallFrame
    <2>5. CASE StorePiggyback(t) \/ Release(t) \/ FinishReport(t)
      <3>1. /\ pc' = [pc EXCEPT ![t] = "idle"] /\ Return(t) /\ records' = records
        BY <2>5 DEF StorePiggyback, Release, FinishReport
      <3>2. CASE u = t  BY <1>0, <3>1, <3>2 DEF Return, CallOK
      <3>3. CASE u # t
        <4>1. Still  BY <1>0, <3>1, <3>3 DEF Return
        <4>2. QED  BY <4>1, CallFrame
      <3>4. QED  BY <3>2, <3>3
    <2>6. CASE Uncount(t)
      <3>1. CASE u = t
        <4>1. blk'[u] = blk[u] /\ pc[t] = "uncount" /\ pc'[u] = "release"
          BY <1>0, <2>6, <3>1 DEF Uncount
        <4>2. QED  BY <1>a, <3>1, <4>1 DEF CallOK
      <3>2. CASE u # t
        <4>1. Still  BY <1>0, <2>6, <3>2 DEF Uncount
        <4>2. QED  BY <4>1, CallFrame
      <3>3. QED  BY <3>1, <3>2
    <2>7. ASSUME NEW r \in Nat, PushReturns(t, r), pc[t] \in {"search", "insert"},
                 r \in 1 .. Len(records')
          PROVE  CallOK(u)'
      <3>1. /\ pc' = [pc EXCEPT ![t] = IF blk[t] = NoBlock THEN "idle" ELSE "store"]
            /\ blk' = blk /\ (blk[t] # NoBlock => record'[t] = r)
            /\ \A v \in Threads : v # t =>
                 /\ site'[v] = site[v] /\ size'[v] = size[v] /\ record'[v] = record[v]
        BY <2>7, PushReturnsEffect DEF IInv
      <3>2. CASE u = t  BY <1>0, <2>7, <3>1, <3>2 DEF CallOK
      <3>3. CASE u # t
        <4>1. Still  BY <1>0, <3>1, <3>3
        <4>2. QED  BY <4>1, CallFrame
      <3>4. QED  BY <3>2, <3>3
    <2>8. CASE Found(t)
      <3> DEFINE r == alloc_list[list_it[t]]
      <3>1. pc[t] = "search" /\ PushReturns(t, r)  BY <2>8 DEF Found
      <3>2. r \in 1 .. Len(records)  BY <2>8, <3>1, ElementIsRecord DEF Found, IInv
      <3>3. Len(records) \in Nat /\ Len(records') \in Nat /\ Len(records) <= Len(records')
        BY RecordsStay
      <3> HIDE DEF r
      <3>4. QED  BY <2>7, <3>1, <3>2, <3>3
    <2>9. CASE Insert(t)
      <3>1. pc[t] = "insert" /\ PushReturns(t, Len(records) + 1)  BY <2>9 DEF Insert
      <3>2. Len(records') = Len(records) + 1 /\ Len(records) \in Nat
        BY <2>9, ListGrows, RecordsStay
      <3>3. QED  BY <2>7, <3>1, <3>2
    <2>10. QED  BY <1>4, <2>1, <2>2, <2>3, <2>4, <2>5, <2>6, <2>8, <2>9 DEF Step
  <1>5. QED  BY <1>1, <1>2, <1>3, <1>4 DEF Next

\* HeapInv without its second part, of one block.
BlockOK(b) ==
  block[b].state = "live" =>
    IF Mangled(b) THEN block[b].record \in 1 .. Len(records) ELSE block[b].record = 0

\* A block that a step leaves alone.
LEMMA BlockFrame ==
  ASSUME IInv, [Next]_vars, NEW b \in Blocks, BlockOK(b),
         \/ block'[b] = block[b]
         \/ block'[b] \in Memory /\ block'[b].state # "live"
  PROVE  BlockOK(b)'
  <1>1. 1 .. Len(records) \subseteq 1 .. Len(records')  BY RecordsStay
  <1>2. block[b] \in Memory  BY DEF IInv, TypeInv
  <1>3. CASE block'[b] = block[b]  BY <1>1, <1>3 DEF BlockOK, Mangled
  <1>4. CASE block'[b] \in Memory /\ block'[b].state # "live"  BY <1>4 DEF BlockOK
  <1>5. QED  BY <1>3, <1>4

\* What a live block becomes: it stays as it is, or is handed over.
\* Nobody but the caller is concerned.
LEMMA HeapNext ==
  ASSUME IInv, [Next]_vars
  PROVE  HeapInv'
  <1> USE DEF Goto, locals
  <1>0. /\ pc \in [Threads -> Labels] /\ blk \in [Threads -> Blocks \cup {NoBlock}]
        /\ block \in [Blocks -> Memory]
        /\ \A b \in Blocks : BlockOK(b)
        /\ NoBlock \notin Blocks
    BY MemleakAssumption DEF IInv, TypeInv, HeapInv, BlockOK, MemleakAssumption
  <1>a. /\ \A t \in Threads : blk[t] # NoBlock => block[blk[t]].state \in {"held", "freed"}
        /\ \A t, u \in Threads : blk[t] # NoBlock /\ blk[t] = blk[u] => t = u
    BY DEF IInv, HeapInv
  <1>b. ASSUME UNCHANGED <<block, blk>> PROVE HeapInv'
    BY <1>0, <1>a, <1>b, BlockFrame DEF HeapInv, BlockOK
  <1>1. CASE SetTracking \/ UNCHANGED vars  BY <1>1, <1>b DEF SetTracking, vars
  <1>2. ASSUME NEW t \in Threads, Call(t) PROVE HeapInv'
    <2>0. /\ Unused \in Memory /\ [Unused EXCEPT !.state = "held"] \in Memory
          /\ [Unused EXCEPT !.state = "held"].state = "held" /\ Unused.state = "unused"
          /\ [Unused EXCEPT !.state = "live"].state = "live"
          /\ [Unused EXCEPT !.state = "live"].shift = 0
          /\ [Unused EXCEPT !.state = "live"].record = 0
      BY DEF Unused, Memory
    <2>1. CASE MallocUntracked(t)
      <3>1. PICK b \in Blocks : /\ block[b].state = "unused"
                                /\ block' = [block EXCEPT ![b] = [Unused EXCEPT !.state = "live"]]
        BY <2>1 DEF MallocUntracked
      <3>2. blk' = blk  BY <2>1 DEF MallocUntracked
      <3>3. BlockOK(b)'
        BY <1>0, <2>0, <3>1 DEF BlockOK, Mangled, PIGGYBACK_SIZE, ALLOC_ALIGN
      <3>4. \A c \in Blocks : c # b => BlockOK(c)'  BY <1>0, <3>1, BlockFrame
      <3>5. \A u \in Threads : blk[u] # b  BY <1>0, <1>a, <3>1
      <3>6. QED  BY <1>0, <1>a, <3>1, <3>2, <3>3, <3>4, <3>5 DEF HeapInv, BlockOK
    <2>2. CASE Malloc(t)
      <3>1. PICK b \in Blocks : /\ block[b].state = "unused"
                                /\ block' = [block EXCEPT ![b] = [Unused EXCEPT !.state = "held"]]
                                /\ blk' = [blk EXCEPT ![t] = b]
        BY <2>2 DEF Malloc
      <3>2. \A c \in Blocks : BlockOK(c)'  BY <1>0, <2>0, <3>1, BlockFrame
      <3>3. \A u \in Threads : blk[u] # b  BY <1>0, <1>a, <3>1
      <3>4. \A u \in Threads : blk'[u] # NoBlock => block'[blk'[u]].state \in {"held", "freed"}
        BY <1>0, <1>a, <2>0, <3>1, <3>3
      <3>5. QED  BY <1>0, <1>a, <3>1, <3>2, <3>3, <3>4 DEF HeapInv, BlockOK
    <2>3. CASE PointRegister(t)
      <3>1. pc[t] = "idle" /\ block' = block /\ blk' = [blk EXCEPT ![t] = NoBlock]
        BY <2>3 DEF PointRegister
      <3>2. blk' = blk  BY <1>0, <3>1 DEF IInv, CallInv
      <3>3. QED  BY <1>b, <3>1, <3>2
    <2>4. CASE FreeUntracked(t)
      <3>1. PICK b \in Blocks : /\ block[b].state = "live"
                                /\ block' = [block EXCEPT ![b] = Unused]
        BY <2>4 DEF FreeUntracked
      <3>2. blk' = blk  BY <2>4 DEF FreeUntracked
      <3>3. \A c \in Blocks : BlockOK(c)'  BY <1>0, <2>0, <3>1, BlockFrame
      <3>4. \A u \in Threads : blk[u] # b  BY <1>0, <1>a, <3>1
      <3>5. QED  BY <1>0, <1>a, <3>1, <3>2, <3>3, <3>4 DEF HeapInv, BlockOK
    <2>5. CASE Free(t)
      <3>1. PICK b \in Blocks : /\ block[b].state = "live" /\ Mangled(b)
                                /\ block' = [block EXCEPT ![b].state = "freed"]
                                /\ blk' = [blk EXCEPT ![t] = b]
        BY <2>5 DEF Free
      <3>2. [block[b] EXCEPT !.state = "freed"] \in Memory
            /\ [block[b] EXCEPT !.state = "freed"].state = "freed"
        BY <1>0 DEF Memory
      <3>3. \A c \in Blocks : BlockOK(c)'  BY <1>0, <3>1, <3>2, BlockFrame
      <3>4. \A u \in Threads : blk[u] # b  BY <1>0, <1>a, <3>1
      <3>5. \A u \in Threads : blk'[u] # NoBlock => block'[blk'[u]].state \in {"held", "freed"}
        BY <1>0, <1>a, <3>1, <3>2, <3>4
      <3>6. QED  BY <1>0, <1>a, <3>1, <3>3, <3>4, <3>5 DEF HeapInv, BlockOK
    <2>6. CASE Report(t) \/ Exit(t)  BY <1>b, <2>6 DEF Report, Exit
    <2>7. QED  BY <1>2, <2>1, <2>2, <2>3, <2>4, <2>5, <2>6 DEF Call
  <1>3. ASSUME NEW t \in Threads, Step(t) PROVE HeapInv'
    <2>1. CASE LockPush(t) \/ Search(t) \/ MakeRecord(t) \/ RecordFails(t) \/ LockFree(t)
      BY <1>b, <2>1 DEF LockPush, Search, MakeRecord, RecordFails, LockFree
    <2>2. CASE Uncount(t) \/ LockReport(t) \/ SkipLine(t) \/ PrintLine(t) \/ ExitReport(t)
      BY <1>b, <2>2 DEF Uncount, LockReport, SkipLine, PrintLine, ExitReport
    <2>3. CASE Found(t)
      <3> DEFINE r == alloc_list[list_it[t]]
      <3>1. pc[t] = "search" /\ PushReturns(t, r) /\ block' = block  BY <2>3 DEF Found
      <3>2. r \in Nat  BY <2>3, <3>1, ElementIsRecord DEF Found, IInv
      <3> HIDE DEF r
      <3>3. blk' = blk  BY <3>1, <3>2, PushReturnsEffect DEF IInv
      <3>4. QED  BY <1>b, <3>1, <3>3
    <2>4. CASE Insert(t)
      <3>1. pc[t] = "insert" /\ PushReturns(t, Len(records) + 1) /\ block' = block
        BY <2>4 DEF Insert
      <3>2. Len(records) + 1 \in Nat  BY RecordsStay
      <3>3. blk' = blk  BY <3>1, <3>2, PushReturnsEffect DEF IInv
      <3>4. QED  BY <1>b, <3>1, <3>3
    <2>5. CASE StorePiggyback(t)
      <3>1. /\ pc[t] = "store" /\ blk' = [blk EXCEPT ![t] = NoBlock]
            /\ block' = [block EXCEPT ![blk[t]] =
                 [state |-> "live", shift |-> PIGGYBACK_SIZE, record |-> record[t],
                  size |-> size[t]]]
            /\ records' = records
        BY <2>5 DEF StorePiggyback, Return
      <3>2. PICK b \in Blocks : b = blk[t]  BY <1>0, <3>1 DEF IInv, CallInv
      <3>3. record[t] \in 1 .. Len(records)  BY <3>1 DEF IInv, CallInv
      <3>4. BlockOK(b)'
        BY <1>0, <3>1, <3>2, <3>3 DEF BlockOK, Mangled, PIGGYBACK_SIZE, ALLOC_ALIGN
      <3>5. \A c \in Blocks : c # b => BlockOK(c)'  BY <1>0, <3>1, <3>2, BlockFrame
      <3>6. \A u \in Threads : u # t => blk'[u] = blk[u] /\ blk[u] # b
        BY <1>0, <1>a, <3>1, <3>2
      <3>7. \A u \in Threads : blk'[u] # NoBlock => block'[blk'[u]].state \in {"held", "freed"}
        BY <1>0, <1>a, <3>1, <3>2, <3>6
      <3>8. \A u, v \in Threads : blk'[u] # NoBlock /\ blk'[u] = blk'[v] => u = v
        BY <1>0, <1>a, <3>1, <3>6
      <3>9. QED  BY <3>4, <3>5, <3>7, <3>8 DEF HeapInv, BlockOK
    <2>6. CASE Release(t)
      <3>1. /\ pc[t] = "release" /\ blk' = [blk EXCEPT ![t] = NoBlock]
            /\ block' = [block EXCEPT ![blk[t]] = Unused]
        BY <2>6 DEF Release, Return
      <3>2. blk[t] \in Blocks  BY <1>0, <3>1 DEF IInv, CallInv
      <3>3. Unused \in Memory /\ Unused.state = "unused"  BY DEF Unused, Memory
      <3>4. \A c \in Blocks : BlockOK(c)'  BY <1>0, <3>1, <3>3, BlockFrame
      <3>5. \A u \in Threads : u # t => blk'[u] = blk[u] /\ blk[u] # blk[t]
        BY <1>0, <1>a, <3>1, <3>2
      <3>6. QED  BY <1>0, <1>a, <3>1, <3>2, <3>4, <3>5 DEF HeapInv, BlockOK
    <2>7. CASE FinishReport(t)
      <3>1. pc[t] = "line" /\ block' = block /\ blk' = [blk EXCEPT ![t] = NoBlock]
        BY <2>7 DEF FinishReport, Return
      <3>2. blk' = blk  BY <1>0, <3>1 DEF IInv, CallInv
      <3>3. QED  BY <1>b, <3>1, <3>2
    <2>8. QED  BY <1>3, <2>1, <2>2, <2>3, <2>4, <2>5, <2>6, <2>7 DEF Step
  <1>4. QED  BY <1>1, <1>2, <1>3 DEF Next

-----------------------------------------------------------------------------
(* The order of the list, and what was printed. *)

\* The site of the record with number i in the list.
SiteAt(i) == records[alloc_list[i]].site

\* SearchInv of one thread.
SearchOK(t) ==
  /\ pc[t] \in {"search", "insert"} =>
       \A i \in 1 .. list_it[t] - 1 : Before(SiteAt(i), site[t])
  /\ pc[t] = "insert" => NotFound(t)

\* A thread that a step leaves where it was, with what it had.
LEMMA SearchFrame ==
  ASSUME IInv, [Next]_vars, \A t \in Threads : ~Insert(t), NEW u \in Threads,
         pc'[u] = pc[u], list_it'[u] = list_it[u], site'[u] = site[u]
  PROVE  SearchOK(u)'
  <1>1. /\ alloc_list' = alloc_list /\ Len(records') = Len(records)
        /\ \A r \in 1 .. Len(records) : records'[r].site = records[r].site
    BY ListKept
  <1>2. SearchOK(u)  BY DEF IInv, SearchInv, SearchOK, SiteAt
  <1>3. SUFFICES ASSUME pc[u] \in {"search", "insert"} PROVE SearchOK(u)'
    BY DEF SearchOK
  <1>4. list_it[u] \in 1 .. Len(alloc_list) + 1 /\ Len(alloc_list) \in Nat
    BY <1>3 DEF IInv, ListInv, TypeInv
  <1>5. \A i \in 1 .. Len(alloc_list) : SiteAt(i)' = SiteAt(i)
    BY <1>1 DEF SiteAt, IInv, ListInv
  <1>6. \A i \in 1 .. list_it[u] - 1 : i \in 1 .. Len(alloc_list)  BY <1>4
  <1>7. AtEnd(u)' <=> AtEnd(u)  BY <1>1 DEF AtEnd
  <1>8. ~AtEnd(u) => Here(u).site' = Here(u).site
    BY <1>1, <1>4, <1>5 DEF AtEnd, Here, SiteAt
  <1>9. QED  BY <1>2, <1>5, <1>6, <1>7, <1>8 DEF SearchOK, NotFound

\* A search that goes on has passed one more site before its own.
LEMMA SearchNext ==
  ASSUME IInv, [Next]_vars
  PROVE  SearchInv'
  <1> USE DEF Goto, locals
  <1>0. /\ pc \in [Threads -> Labels] /\ site \in [Threads -> Sites \cup {<<0, 0>>}]
        /\ list_it \in [Threads -> Nat]
    BY DEF IInv, TypeInv
  <1>a. CASE \E t \in Threads : Insert(t)  BY <1>a, InsertAlone DEF SearchInv
  <1>b. SUFFICES ASSUME \A t \in Threads : ~Insert(t), NEW u \in Threads
                 PROVE  SearchOK(u)'
    BY <1>a DEF SearchInv, SearchOK, SiteAt
  <1> DEFINE Still == pc'[u] = pc[u] /\ list_it'[u] = list_it[u] /\ site'[u] = site[u]
             Out   == pc'[u] \notin {"search", "insert"}
  <1>c. Still \/ Out => SearchOK(u)'  BY <1>b, SearchFrame DEF SearchOK
  <1>1. CASE SetTracking \/ UNCHANGED vars
    BY <1>1, <1>c DEF SetTracking, vars
  <1>2. ASSUME NEW t \in Threads, Call(t) PROVE SearchOK(u)'
    <2>1. Still \/ Out
      BY <1>0, <1>2 DEF Call, MallocUntracked, Malloc, PointRegister, FreeUntracked, Free,
                        Report, Exit
    <2>2. QED  BY <1>c, <2>1
  <1>3. ASSUME NEW t \in Threads, Step(t) PROVE SearchOK(u)'
    <2>1. CASE LockPush(t)
      <3>1. CASE u = t
        <4>1. list_it'[u] = 1 /\ pc'[u] = "search"  BY <1>0, <2>1, <3>1 DEF LockPush
        <4>2. QED  BY <4>1 DEF SearchOK
      <3>2. CASE u # t  BY <1>0, <1>c, <2>1, <3>2 DEF LockPush
      <3>3. QED  BY <3>1, <3>2
    <2>2. CASE Search(t)
      <3>1. CASE u = t
        <4>1. /\ pc[u] = "search" /\ pc'[u] = "search" /\ ~AtEnd(u)
              /\ Before(SiteAt(list_it[u]), site[u])
              /\ list_it'[u] = list_it[u] + 1 /\ site'[u] = site[u]
              /\ UNCHANGED <<records, alloc_list>>
          BY <1>0, <2>2, <3>1 DEF Search, Here, SiteAt, Next1
        <4>2. list_it[u] \in Nat  BY <1>0
        <4>3. \A i \in 1 .. list_it[u] - 1 : Before(SiteAt(i), site[u])
          BY <4>1 DEF IInv, SearchInv, SiteAt
        <4>4. \A i \in 1 .. list_it'[u] - 1 : Before(SiteAt(i), site[u])
          BY <4>1, <4>2, <4>3
        <4>5. QED  BY <4>1, <4>4 DEF SearchOK, SiteAt
      <3>2. CASE u # t  BY <1>0, <1>c, <2>2, <3>2 DEF Search, Next1
      <3>3. QED  BY <3>1, <3>2
    <2>3. CASE MakeRecord(t)
      <3>1. CASE u = t
        <4>1. /\ pc[u] = "search" /\ pc'[u] = "insert" /\ NotFound(u)
              /\ UNCHANGED <<records, alloc_list, list_it, site>>
          BY <1>0, <2>3, <3>1 DEF MakeRecord
        <4>2. \A i \in 1 .. list_it[u] - 1 : Before(SiteAt(i), site[u])
          BY <4>1 DEF IInv, SearchInv, SiteAt
        <4>3. QED  BY <4>1, <4>2 DEF SearchOK, SiteAt, NotFound, AtEnd, Here
      <3>2. CASE u # t  BY <1>0, <1>c, <2>3, <3>2 DEF MakeRecord
      <3>3. QED  BY <3>1, <3>2
    <2>4. CASE Found(t)
      <3> DEFINE r == alloc_list[list_it[t]]
      <3>1. pc[t] = "search" /\ PushReturns(t, r)  BY <2>4 DEF Found
      <3>2. r \in Nat  BY <2>4, <3>1, ElementIsRecord DEF Found, IInv
      <3> HIDE DEF r
      <3>3. /\ pc' = [pc EXCEPT ![t] = IF blk[t] = NoBlock THEN "idle" ELSE "store"]
            /\ \A v \in Threads : v # t => list_it'[v] = list_it[v] /\ site'[v] = site[v]
        BY <3>1, <3>2, PushReturnsEffect DEF IInv
      <3>4. Still \/ Out  BY <1>0, <3>3
      <3>5. QED  BY <1>c, <3>4
    <2>5. CASE RecordFails(t) \/ StorePiggyback(t) \/ LockFree(t) \/ Uncount(t) \/ Release(t)
      <3>1. Still \/ Out
        BY <1>0, <2>5 DEF RecordFails, StorePiggyback, LockFree, Uncount, Release, Return
      <3>2. QED  BY <1>c, <3>1
    <2>6. CASE LockReport(t) \/ SkipLine(t) \/ PrintLine(t) \/ FinishReport(t) \/ ExitReport(t)
      <3>1. Still \/ Out
        BY <1>0, <2>6 DEF LockReport, SkipLine, PrintLine, FinishReport, ExitReport, Return,
                          Next1
      <3>2. QED  BY <1>c, <3>1
    <2>7. QED  BY <1>3, <1>b, <2>1, <2>2, <2>3, <2>4, <2>5, <2>6 DEF Step
  <1>4. QED  BY <1>1, <1>2, <1>3 DEF Next

\* The new record goes where it belongs (lines 289-337).
LEMMA SortedNext ==
  ASSUME IInv, [Next]_vars
  PROVE  ListSorted'
  <1>0. /\ Len(alloc_list) \in Nat /\ Len(records) = Len(alloc_list)
        /\ \A i \in 1 .. Len(alloc_list) : alloc_list[i] \in 1 .. Len(records)
        /\ records \in Seq(AllocRecord)
        /\ DOMAIN alloc_list = 1 .. Len(alloc_list)
    BY DEF IInv, TypeInv, ListInv
  <1>a. ASSUME NEW i \in 1 .. Len(alloc_list) PROVE SiteAt(i) \in Sites
    <2>1. alloc_list[i] \in 1 .. Len(records)  BY <1>0
    <2>2. records[alloc_list[i]] \in AllocRecord  BY <1>0, <2>1
    <2>3. QED  BY <2>2 DEF SiteAt, AllocRecord
  <1>b. \A i, j \in 1 .. Len(alloc_list) : i < j => Before(SiteAt(i), SiteAt(j))
    BY <1>0 DEF IInv, ListSorted, SiteAt
  <1>1. CASE \A t \in Threads : ~Insert(t)
    <2>1. /\ alloc_list' = alloc_list /\ Len(records') = Len(records)
          /\ \A r \in 1 .. Len(records) : records'[r].site = records[r].site
      BY <1>1, ListKept
    <2>2. QED  BY <1>0, <1>b, <2>1 DEF ListSorted, SiteAt
  <1>2. ASSUME NEW t \in Threads, Insert(t) PROVE ListSorted'
    <2> DEFINE p == list_it[t]
               n == Len(alloc_list)
               new == site[t]
    <2>1. p \in 1 .. n + 1 /\ n \in Nat /\ new \in Sites /\ pc[t] = "insert"
      <3>1. pc[t] = "insert"  BY <1>2 DEF Insert
      <3>2. QED  BY <1>0, <1>2, <3>1, ListGrows DEF IInv, CallInv
    <2>2. /\ Len(alloc_list') = n + 1 /\ Len(records') = n + 1
          /\ DOMAIN alloc_list' = 1 .. n + 1
      <3>1. Len(alloc_list') = n + 1 /\ Len(records') = n + 1  BY <1>0, <1>2, ListGrows
      <3>2. TypeInv'  BY TypeNext
      <3>3. QED  BY <3>1, <3>2 DEF TypeInv
    <2>3. \A j \in 1 .. n + 1 :
            SiteAt(j)' = IF j < p THEN SiteAt(j) ELSE IF j = p THEN new ELSE SiteAt(j - 1)
      <3> TAKE j \in 1 .. n + 1
      <3>1. alloc_list'[j] = IF j < p THEN alloc_list[j] ELSE IF j = p THEN n + 1
                             ELSE alloc_list[j - 1]
        BY <1>0, <1>2, ListGrows
      <3>2. \A r \in 1 .. n : records'[r] = records[r]  BY <1>0, <1>2, ListGrows
      <3>3. records'[n + 1].site = new
        <4>1. records'[Len(records) + 1].site = site[t]  BY <1>2, NewRecord
        <4>2. QED  BY <1>0, <4>1
      <3>4. CASE j < p
        <4>1. j \in 1 .. n  BY <2>1, <3>4
        <4>2. QED  BY <1>0, <3>1, <3>2, <3>4, <4>1 DEF SiteAt
      <3>5. CASE j = p  BY <3>1, <3>3, <3>5 DEF SiteAt
      <3>6. CASE j > p
        <4>1. j - 1 \in 1 .. n  BY <2>1, <3>6
        <4>2. alloc_list'[j] = alloc_list[j - 1]  BY <2>1, <3>1, <3>6
        <4>3. alloc_list[j - 1] \in 1 .. n  BY <1>0, <4>1
        <4>4. SiteAt(j)' = SiteAt(j - 1)  BY <3>2, <4>2, <4>3 DEF SiteAt
        <4>5. QED  BY <2>1, <3>6, <4>4
      <3>7. QED  BY <2>1, <3>4, <3>5, <3>6
    <2>4. \A i \in 1 .. p - 1 : Before(SiteAt(i), new)
      BY <2>1 DEF IInv, SearchInv, SiteAt
    <2>5. \A i \in p .. n : Before(new, SiteAt(i))
      <3> TAKE i \in p .. n
      <3>1. i \in 1 .. n /\ p \in 1 .. n /\ ~AtEnd(t)  BY <2>1 DEF AtEnd
      <3>2. Before(new, SiteAt(p))  BY <2>1, <3>1 DEF IInv, SearchInv, NotFound, Here, SiteAt
      <3>3. i = p \/ Before(SiteAt(p), SiteAt(i))  BY <1>b, <3>1
      <3>4. SiteAt(p) \in Sites /\ SiteAt(i) \in Sites  BY <1>a, <3>1
      <3>5. QED  BY <2>1, <3>2, <3>3, <3>4, BeforeOrders
    <2> HIDE DEF p, n, new
    <2>6. ASSUME NEW i \in 1 .. n + 1, NEW j \in 1 .. n + 1, i < j
          PROVE  Before(SiteAt(i)', SiteAt(j)')
      <3>1. CASE j < p
        <4>1. i \in 1 .. n /\ j \in 1 .. n  BY <2>1, <2>6, <3>1
        <4>2. QED  BY <1>b, <2>1, <2>3, <2>6, <3>1, <4>1 DEF n
      <3>2. CASE j = p
        <4>1. i \in 1 .. p - 1  BY <2>1, <2>6, <3>2
        <4>2. QED  BY <2>1, <2>3, <2>4, <2>6, <3>2, <4>1
      <3>3. CASE j > p
        <4>1. j - 1 \in p .. n /\ j - 1 \in 1 .. n /\ SiteAt(j)' = SiteAt(j - 1)
          BY <2>1, <2>3, <3>3
        <4>2. CASE i < p
          <5>1. i \in 1 .. n /\ i < j - 1 /\ SiteAt(i)' = SiteAt(i)  BY <2>1, <2>3, <3>3, <4>2
          <5>2. QED  BY <1>b, <4>1, <5>1 DEF n
        <4>3. CASE i = p  BY <2>3, <2>5, <4>1, <4>3
        <4>4. CASE i > p
          <5>1. i - 1 \in 1 .. n /\ i - 1 < j - 1 /\ SiteAt(i)' = SiteAt(i - 1)
            BY <2>1, <2>3, <2>6, <4>4
          <5>2. QED  BY <1>b, <4>1, <5>1 DEF n
        <4>5. QED  BY <2>1, <4>2, <4>3, <4>4
      <3>4. QED  BY <2>1, <3>1, <3>2, <3>3
    <2>7. QED  BY <2>2, <2>6 DEF ListSorted, SiteAt
  <1>3. QED  BY <1>1, <1>2

\* What is counted is marked, and what is printed is shown.
LEMMA CleanNext ==
  ASSUME IInv, [Next]_vars
  PROVE  CleanIsPrinted'
  <1> USE DEF Goto, locals
  <1>0. /\ records \in Seq(AllocRecord) /\ shown \in Seq(Figures)
        /\ Len(records) \in Nat /\ Len(shown) = Len(records)
        /\ DOMAIN records = 1 .. Len(records)
    BY DEF IInv, TypeInv, ListInv
  <1>a. \A r \in 1 .. Len(records) : ~records[r].dirty =>
          /\ shown[r].cnt = records[r].cnt
          /\ shown[r].mem_total \in {records[r].mem_total, Untold}
    BY <1>0 DEF IInv, CleanIsPrinted
  <1>b. ASSUME UNCHANGED <<records, shown>> PROVE CleanIsPrinted'
    BY <1>b DEF IInv, CleanIsPrinted
  <1>c. ASSUME NEW q \in 1 .. Len(records), NEW new \in AllocRecord, new.dirty = TRUE,
               records' = [records EXCEPT ![q] = new], shown' = shown
        PROVE  CleanIsPrinted'
    BY <1>0, <1>a, <1>c DEF CleanIsPrinted
  <1>1. CASE SetTracking \/ UNCHANGED vars
    BY <1>1, <1>b DEF SetTracking, vars
  <1>2. ASSUME NEW t \in Threads, Call(t) PROVE CleanIsPrinted'
    BY <1>2, <1>b DEF Call, MallocUntracked, Malloc, PointRegister, FreeUntracked, Free,
                      Report, Exit
  <1>3. ASSUME NEW t \in Threads, Step(t) PROVE CleanIsPrinted'
    <2> DEFINE q == alloc_list[list_it[t]]
    <2>1. CASE Found(t)
      <3>1. q \in 1 .. Len(records) /\ records[q] \in AllocRecord
        BY <2>1, ElementIsRecord DEF Found, IInv
      <3>2. /\ Counted(records[q], size[t]) \in AllocRecord
            /\ Counted(records[q], size[t]).dirty = TRUE
        BY <3>1, CountedType DEF IInv, TypeInv
      <3>3. records' = [records EXCEPT ![q] = Counted(records[q], size[t])] /\ shown' = shown
        BY <2>1 DEF Found
      <3>4. QED  BY <1>c, <3>1, <3>2, <3>3
    <2>2. CASE Uncount(t)
      <3> DEFINE m == record[t]
      <3>1. m \in 1 .. Len(records) /\ records[m] \in AllocRecord
        BY <2>2, UncountEffect DEF IInv
      <3>2. PICK n \in Nat : records' = [records EXCEPT ![m] = Uncounted(records[m], n)]
        BY <2>2, UncountEffect DEF IInv
      <3>3. shown' = shown  BY <2>2 DEF Uncount
      <3> HIDE DEF m
      <3>4. Uncounted(records[m], n) \in AllocRecord /\ Uncounted(records[m], n).dirty = TRUE
        BY <3>1, <3>2, CountedType
      <3>5. QED  BY <1>c, <3>1, <3>2, <3>3, <3>4
    <2>3. CASE PrintLine(t)
      <3>1. q \in 1 .. Len(records) /\ records[q] \in AllocRecord
        BY <2>3, ElementIsRecord DEF PrintLine, IInv
      <3>2. /\ records' = [records EXCEPT ![q].dirty = FALSE]
            /\ shown' = [shown EXCEPT ![q] = Line(t)]
            /\ Line(t).cnt = records[q].cnt
            /\ Line(t).mem_total \in {records[q].mem_total, Untold}
        BY <2>3 DEF PrintLine, Line, Here
      <3> HIDE DEF q
      <3>3. records'[q].cnt = records[q].cnt /\ records'[q].mem_total = records[q].mem_total
        BY <1>0, <3>1, <3>2 DEF AllocRecord
      <3>4. \A r \in 1 .. Len(records) : r # q => records'[r] = records[r] /\ shown'[r] = shown[r]
        BY <1>0, <3>2
      <3>5. DOMAIN records' = 1 .. Len(records)  BY <1>0, <3>2
      <3>6. shown'[q] = Line(t)  BY <1>0, <3>1, <3>2
      <3>7. QED  BY <1>a, <3>2, <3>3, <3>4, <3>5, <3>6 DEF CleanIsPrinted
    <2>4. CASE Insert(t)
      <3>1. /\ Len(records') = Len(records) + 1 /\ Len(shown') = Len(shown) + 1
            /\ \A r \in 1 .. Len(records) : records'[r] = records[r] /\ shown'[r] = shown[r]
            /\ records'[Len(records) + 1].dirty = TRUE
        BY <2>4, ListGrows, NewRecord
      <3>2. DOMAIN records' = 1 .. Len(records) + 1  BY <3>1, TypeNext DEF TypeInv
      <3>3. \A r \in 1 .. Len(records) + 1 : r \in 1 .. Len(records) \/ r = Len(records) + 1
        BY <1>0
      <3>4. SUFFICES ASSUME NEW r \in 1 .. Len(records) + 1, ~records'[r].dirty
                     PROVE  /\ shown'[r].cnt = records'[r].cnt
                            /\ shown'[r].mem_total \in {records'[r].mem_total, Untold}
        BY <3>2 DEF CleanIsPrinted
      <3>5. r \in 1 .. Len(records)  BY <3>1, <3>3, <3>4
      <3>6. records'[r] = records[r] /\ shown'[r] = shown[r]  BY <3>1, <3>5
      <3>7. QED  BY <1>a, <3>4, <3>5, <3>6
    <2>5. CASE LockPush(t) \/ Search(t) \/ MakeRecord(t) \/ RecordFails(t) \/ StorePiggyback(t)
      BY <1>b, <2>5 DEF LockPush, Search, MakeRecord, RecordFails, StorePiggyback
    <2>6. CASE LockFree(t) \/ Release(t) \/ LockReport(t) \/ SkipLine(t) \/ FinishReport(t)
               \/ ExitReport(t)
      BY <1>b, <2>6 DEF LockFree, Release, LockReport, SkipLine, FinishReport, ExitReport
    <2>7. QED  BY <1>3, <2>1, <2>2, <2>3, <2>4, <2>5, <2>6 DEF Step
  <1>4. QED  BY <1>1, <1>2, <1>3 DEF Next

-----------------------------------------------------------------------------
\* IInv is inductive.
LEMMA InductiveNext == IInv /\ [Next]_vars => IInv'
  BY TypeNext, ListNext, CallNext, HeapNext, LockNext, SearchNext, SortedNext, CleanNext
     DEF IInv

\* Whatever threads allocate and register, every record is in the list once and the
\* list stays in the order of sites.
THEOREM SortedAlways == Spec => []ListSorted
  <1>1. IInv => ListSorted  BY DEF IInv
  <1>2. QED  BY InductiveInit, InductiveNext, <1>1, PTL DEF Spec

\* MEML_ONLY_CHANGED never hides a record whose count is not the one last printed for
\* it, nor one whose mem_total is not, unless the last line gave none: a tight line clears
\* the mark too (lines 421-429).
THEOREM NothingHidden == Spec => []CleanIsPrinted
  <1>1. IInv => CleanIsPrinted  BY DEF IInv
  <1>2. QED  BY InductiveInit, InductiveNext, <1>1, PTL DEF Spec

-----------------------------------------------------------------------------
(* The counts.  A point is registered with a size of 0, and so is a block   *)
(* of malloc(0): what follows is of programs that do not ask for 0 bytes.   *)

\* Block b is charged to record r because the application has it, or because
\* thread t is in the middle of a call with it.
Listed(b, r)  == block[b].state = "live" /\ Mangled(b) /\ block[b].record = r
Carries(t, r) == pc[t] \in {"store", "free", "uncount"} /\ record[t] = r

CountInv ==
  \A r \in 1 .. Len(records) :
    IsFiniteSet(Charged(r)) /\ records[r].cnt = Cardinality(Charged(r))

\* Charged, by its elements.
LEMMA ChargedElements ==
  ASSUME NEW r
  PROVE  \A b : b \in Charged(r) <=> \/ b \in Blocks /\ Listed(b, r)
                                     \/ \E t \in Threads : Carries(t, r) /\ blk[t] = b
  BY DEF Charged, Listed, Carries

\* Nothing is charged to a record that is not there yet.
LEMMA NothingBeyond ==
  ASSUME IInv, NEW r, r \notin 1 .. Len(records)
  PROVE  Charged(r) = {}
  BY DEF IInv, HeapInv, CallInv, Charged

\* A block on its way to a record is not charged to any.
LEMMA HeldIsNotCharged ==
  ASSUME IInv, NEW t \in Threads, blk[t] # NoBlock,
         pc[t] \notin {"store", "free", "uncount"}, NEW r
  PROVE  blk[t] \notin Charged(r)
  <1>1. block[blk[t]].state # "live"  BY DEF IInv, HeapInv
  <1>2. ASSUME NEW u \in Threads, Carries(u, r) PROVE blk[u] # blk[t]
    BY <1>2 DEF IInv, HeapInv, Carries
  <1>3. QED  BY <1>1, <1>2, ChargedElements DEF Listed

\* What a step leaves charged.
LEMMA ChargedSame ==
  ASSUME NEW r,
         \A b \in Blocks : Listed(b, r)' <=> Listed(b, r),
         \A t \in Threads : Carries(t, r)' <=> Carries(t, r),
         \A t \in Threads : Carries(t, r) => blk'[t] = blk[t]
  PROVE  Charged(r)' = Charged(r)
  <1>1. \A b : b \in Charged(r)' <=> \/ b \in Blocks /\ Listed(b, r)'
                                     \/ \E t \in Threads : Carries(t, r)' /\ blk'[t] = b
    BY DEF Charged, Listed, Carries
  <1>2. QED  BY <1>1, ChargedElements

\* The steps of the application, and of threads that neither count nor uncount.
LEMMA ChargedCall ==
  ASSUME IInv, NEW t \in Threads, Call(t), NEW r \in 1 .. Len(records)
  PROVE  Charged(r)' = Charged(r)
  <1> USE DEF Goto, locals
  <1>0. /\ pc \in [Threads -> Labels] /\ blk \in [Threads -> Blocks \cup {NoBlock}]
        /\ record \in [Threads -> Nat] /\ block \in [Blocks -> Memory]
    BY DEF IInv, TypeInv
  <1>1. CASE MallocUntracked(t)
    <2>1. PICK b \in Blocks : /\ block[b].state = "unused"
                              /\ block' = [block EXCEPT ![b] = [Unused EXCEPT !.state = "live"]]
      BY <1>1 DEF MallocUntracked
    <2>2. UNCHANGED <<pc, blk, record>>  BY <1>1 DEF MallocUntracked
    <2>3. ~Listed(b, r) /\ ~Listed(b, r)'
      BY <1>0, <2>1 DEF Listed, Mangled, Unused, PIGGYBACK_SIZE, ALLOC_ALIGN
    <2>4. \A c \in Blocks : c # b => block'[c] = block[c]  BY <1>0, <2>1
    <2>5. \A c \in Blocks : Listed(c, r)' <=> Listed(c, r)
      BY <2>3, <2>4 DEF Listed, Mangled
    <2>6. QED  BY <2>2, <2>5, ChargedSame DEF Carries
  <1>2. CASE Malloc(t)
    <2>1. PICK b \in Blocks : /\ block[b].state = "unused"
                              /\ block' = [block EXCEPT ![b] = [Unused EXCEPT !.state = "held"]]
                              /\ blk' = [blk EXCEPT ![t] = b]
      BY <1>2 DEF Malloc
    <2>2. pc[t] = "idle" /\ pc' = [pc EXCEPT ![t] = "push"] /\ record' = record
      BY <1>2 DEF Malloc
    <2>3. ~Listed(b, r) /\ ~Listed(b, r)'
      BY <1>0, <2>1 DEF Listed, Unused
    <2>4. \A c \in Blocks : c # b => block'[c] = block[c]  BY <1>0, <2>1
    <2>5. \A c \in Blocks : Listed(c, r)' <=> Listed(c, r)
      BY <2>3, <2>4 DEF Listed, Mangled
    <2>6. \A u \in Threads : (Carries(u, r)' <=> Carries(u, r))
                             /\ (Carries(u, r) => blk'[u] = blk[u])
      BY <1>0, <2>1, <2>2 DEF Carries
    <2>7. QED  BY <2>5, <2>6, ChargedSame
  <1>3. CASE PointRegister(t) \/ Report(t) \/ Exit(t)
    <2>1. \A u \in Threads : (Carries(u, r)' <=> Carries(u, r))
                             /\ (Carries(u, r) => blk'[u] = blk[u])
      BY <1>0, <1>3 DEF PointRegister, Report, Exit, Carries
    <2>2. block' = block  BY <1>3 DEF PointRegister, Report, Exit
    <2>3. QED  BY <2>1, <2>2, ChargedSame DEF Listed, Mangled
  <1>4. CASE FreeUntracked(t)
    <2>1. PICK b \in Blocks : /\ block[b].state = "live" /\ ~Mangled(b)
                              /\ block' = [block EXCEPT ![b] = Unused]
      BY <1>4 DEF FreeUntracked
    <2>2. UNCHANGED <<pc, blk, record>>  BY <1>4 DEF FreeUntracked
    <2>3. ~Listed(b, r) /\ ~Listed(b, r)'  BY <1>0, <2>1 DEF Listed, Unused
    <2>4. \A c \in Blocks : c # b => block'[c] = block[c]  BY <1>0, <2>1
    <2>5. \A c \in Blocks : Listed(c, r)' <=> Listed(c, r)
      BY <2>3, <2>4 DEF Listed, Mangled
    <2>6. QED  BY <2>2, <2>5, ChargedSame DEF Carries
  <1>5. CASE Free(t)
    <2>1. PICK b \in Blocks : /\ block[b].state = "live" /\ Mangled(b)
                              /\ block' = [block EXCEPT ![b].state = "freed"]
                              /\ blk' = [blk EXCEPT ![t] = b]
                              /\ record' = [record EXCEPT ![t] = block[b].record]
      BY <1>5 DEF Free
    <2>2. pc[t] = "idle" /\ pc' = [pc EXCEPT ![t] = "free"]  BY <1>5 DEF Free
    <2>3. Listed(b, r) <=> block[b].record = r  BY <2>1 DEF Listed
    <2>4. block'[b].state = "freed"  BY <1>0, <2>1 DEF Memory
    <2>5. \A c \in Blocks : c # b => block'[c] = block[c]  BY <1>0, <2>1
    <2>6. \A c \in Blocks : Listed(c, r)' <=> Listed(c, r) /\ c # b
      BY <2>4, <2>5 DEF Listed, Mangled
    <2>7. \A u \in Threads : u # t => (Carries(u, r)' <=> Carries(u, r)) /\ blk'[u] = blk[u]
      BY <1>0, <2>1, <2>2 DEF Carries
    <2>8. ~Carries(t, r) /\ (Carries(t, r)' <=> block[b].record = r) /\ blk'[t] = b
      <3>1. pc'[t] = "free" /\ record'[t] = block[b].record /\ blk'[t] = b
        BY <1>0, <2>1, <2>2
      <3>2. QED  BY <2>2, <3>1 DEF Carries
    <2>9. \A c : c \in Charged(r)' <=> \/ c \in Blocks /\ Listed(c, r)'
                                       \/ \E u \in Threads : Carries(u, r)' /\ blk'[u] = c
      BY DEF Charged, Listed, Carries
    <2>10. \A c : (\E u \in Threads : Carries(u, r)' /\ blk'[u] = c)
                    <=> \/ \E u \in Threads : Carries(u, r) /\ blk[u] = c
                        \/ Listed(b, r) /\ c = b
      BY <2>3, <2>7, <2>8
    <2>11. \A c : c \in Charged(r)' <=> c \in Charged(r)
      BY <2>6, <2>9, <2>10, ChargedElements
    <2>12. QED  BY <2>11
  <1>6. QED  BY <1>1, <1>2, <1>3, <1>4, <1>5 DEF Call

LEMMA ChargedStep ==
  ASSUME IInv, NEW t \in Threads, Step(t), ~Found(t), ~Insert(t), ~Uncount(t),
         NEW r \in 1 .. Len(records)
  PROVE  Charged(r)' = Charged(r)
  <1> USE DEF Goto, locals
  <1>0. /\ pc \in [Threads -> Labels] /\ blk \in [Threads -> Blocks \cup {NoBlock}]
        /\ record \in [Threads -> Nat] /\ block \in [Blocks -> Memory]
    BY DEF IInv, TypeInv
  <1>1. CASE StorePiggyback(t)
    <2> DEFINE stored == [state |-> "live", shift |-> PIGGYBACK_SIZE, record |-> record[t],
                          size |-> size[t]]
    <2>0. PICK b \in Blocks \cup {NoBlock} : b = blk[t]  BY <1>0
    <2>1. /\ pc[t] = "store" /\ pc' = [pc EXCEPT ![t] = "idle"] /\ Return(t)
          /\ block' = [block EXCEPT ![b] = stored]
      BY <1>1, <2>0 DEF StorePiggyback
    <2>2. b \in Blocks /\ block[b].state # "live"
      BY <1>0, <2>0, <2>1 DEF IInv, CallInv, HeapInv
    <2>3. ~Listed(b, r)  BY <2>2 DEF Listed
    <2>4. Listed(b, r)' <=> record[t] = r
      <3>1. block'[b] = stored  BY <1>0, <2>1, <2>2
      <3>2. stored.state = "live" /\ stored.shift = PIGGYBACK_SIZE /\ stored.record = record[t]
        OBVIOUS
      <3> HIDE DEF stored
      <3>3. Listed(b, r)' <=> /\ block'[b].state = "live" /\ block'[b].record = r
                              /\ (block'[b].shift - PIGGYBACK_SIZE) % ALLOC_ALIGN = 0
        BY <3>1 DEF Listed, Mangled
      <3>4. (PIGGYBACK_SIZE - PIGGYBACK_SIZE) % ALLOC_ALIGN = 0
        BY DEF PIGGYBACK_SIZE, ALLOC_ALIGN
      <3>5. QED  BY <3>1, <3>2, <3>3, <3>4
    <2>5. \A c \in Blocks : c # b => block'[c] = block[c]  BY <1>0, <2>1
    <2>6. \A c \in Blocks : c # b => (Listed(c, r)' <=> Listed(c, r))
      BY <2>5 DEF Listed, Mangled
    <2>7. \A u \in Threads : u # t => (Carries(u, r)' <=> Carries(u, r)) /\ blk'[u] = blk[u]
      BY <1>0, <2>1 DEF Carries, Return
    <2>8. ~Carries(t, r)' /\ (Carries(t, r) <=> record[t] = r)
      BY <1>0, <2>1 DEF Carries
    <2>9. \A c : c \in Charged(r)' <=> \/ c \in Blocks /\ Listed(c, r)'
                                       \/ \E u \in Threads : Carries(u, r)' /\ blk'[u] = c
      BY DEF Charged, Listed, Carries
    <2>10. \A c : (\E u \in Threads : Carries(u, r) /\ blk[u] = c)
                    <=> \/ \E u \in Threads : Carries(u, r)' /\ blk'[u] = c
                        \/ record[t] = r /\ c = b
      BY <2>0, <2>7, <2>8
    <2>11. \A c : (c \in Blocks /\ Listed(c, r)')
                    <=> \/ c \in Blocks /\ Listed(c, r)
                        \/ record[t] = r /\ c = b
      BY <2>2, <2>3, <2>4, <2>6
    <2>12. \A c : c \in Charged(r)' <=> c \in Charged(r)
      BY <2>9, <2>10, <2>11, ChargedElements
    <2>13. QED  BY <2>12
  <1>2. CASE Release(t)
    <2> DEFINE b == blk[t]
    <2>1. /\ pc[t] = "release" /\ pc' = [pc EXCEPT ![t] = "idle"] /\ Return(t)
          /\ block' = [block EXCEPT ![b] = Unused]
      BY <1>2 DEF Release
    <2>2. b \in Blocks /\ block[b].state # "live"
      BY <1>0, <2>1 DEF IInv, CallInv, HeapInv
    <2>3. block'[b].state = "unused"  BY <1>0, <2>1, <2>2 DEF Unused
    <2>4. \A c \in Blocks : c # b => block'[c] = block[c]  BY <1>0, <2>1
    <2>5. \A c \in Blocks : Listed(c, r)' <=> Listed(c, r)
      <3> HIDE DEF b
      <3> SUFFICES ASSUME NEW c \in Blocks PROVE Listed(c, r)' <=> Listed(c, r)  OBVIOUS
      <3>1. CASE c = b
        <4>1. block[c].state # "live" /\ block'[c].state # "live"  BY <2>2, <2>3, <3>1
        <4>2. ~Listed(c, r)  BY <4>1 DEF Listed
        <4>3. ~Listed(c, r)'  BY <4>1 DEF Listed
        <4>4. QED  BY <4>2, <4>3
      <3>2. CASE c # b  BY <2>4, <3>2 DEF Listed, Mangled
      <3>3. QED  BY <3>1, <3>2
    <2>6. \A u \in Threads : (Carries(u, r)' <=> Carries(u, r))
                             /\ (Carries(u, r) => blk'[u] = blk[u])
      BY <1>0, <2>1 DEF Carries, Return
    <2>7. QED  BY <2>5, <2>6, ChargedSame
  <1>3. CASE LockPush(t) \/ Search(t) \/ MakeRecord(t) \/ RecordFails(t) \/ LockFree(t)
             \/ LockReport(t) \/ SkipLine(t) \/ PrintLine(t) \/ FinishReport(t) \/ ExitReport(t)
    <2>1. block' = block
      BY <1>3 DEF LockPush, Search, MakeRecord, RecordFails, LockFree, LockReport, SkipLine,
                  PrintLine, FinishReport, ExitReport
    <2>2. CASE LockPush(t) \/ Search(t) \/ MakeRecord(t) \/ RecordFails(t) \/ LockFree(t)
      <3>1. \A u \in Threads : (Carries(u, r)' <=> Carries(u, r)) /\ blk'[u] = blk[u]
        BY <1>0, <2>2 DEF LockPush, Search, MakeRecord, RecordFails, LockFree, Carries
      <3>2. QED  BY <2>1, <3>1, ChargedSame DEF Listed, Mangled
    <2>3. CASE LockReport(t) \/ SkipLine(t) \/ PrintLine(t) \/ ExitReport(t)
      <3>1. \A u \in Threads : (Carries(u, r)' <=> Carries(u, r)) /\ blk'[u] = blk[u]
        BY <1>0, <2>3 DEF LockReport, SkipLine, PrintLine, ExitReport, Carries
      <3>2. QED  BY <2>1, <3>1, ChargedSame DEF Listed, Mangled
    <2>4. CASE FinishReport(t)
      <3>1. \A u \in Threads : (Carries(u, r)' <=> Carries(u, r))
                               /\ (Carries(u, r) => blk'[u] = blk[u])
        BY <1>0, <2>4 DEF FinishReport, Carries, Return
      <3>2. QED  BY <2>1, <3>1, ChargedSame DEF Listed, Mangled
    <2>5. QED  BY <1>3, <2>2, <2>3, <2>4
  <1>4. QED  BY <1>1, <1>2, <1>3 DEF Step

\* A block that is counted is charged to the record it is counted at.
LEMMA ChargedMore ==
  ASSUME IInv, NEW t \in Threads, NEW q \in Nat, PushReturns(t, q),
         pc[t] \in {"search", "insert"}, block' = block, NEW r \in Nat
  PROVE  Charged(r)' = IF r = q /\ blk[t] # NoBlock THEN Charged(r) \cup {blk[t]}
                       ELSE Charged(r)
  <1>0. pc \in [Threads -> Labels] /\ record \in [Threads -> Nat]  BY DEF IInv, TypeInv
  <1>1. /\ pc' = [pc EXCEPT ![t] = IF blk[t] = NoBlock THEN "idle" ELSE "store"]
        /\ blk' = blk /\ (blk[t] # NoBlock => record'[t] = q)
        /\ \A u \in Threads : u # t => record'[u] = record[u]
    BY PushReturnsEffect DEF IInv
  <1>2. \A u \in Threads : u # t => (Carries(u, r)' <=> Carries(u, r))
    BY <1>0, <1>1 DEF Carries
  <1>3. ~Carries(t, r) /\ (Carries(t, r)' <=> r = q /\ blk[t] # NoBlock)
    BY <1>0, <1>1 DEF Carries
  <1>4. \A c \in Blocks : Listed(c, r)' <=> Listed(c, r)  BY DEF Listed, Mangled
  <1>5. \A c : c \in Charged(r)' <=> \/ c \in Blocks /\ Listed(c, r)'
                                     \/ \E u \in Threads : Carries(u, r)' /\ blk'[u] = c
    BY DEF Charged, Listed, Carries
  <1>6. \A c : (\E u \in Threads : Carries(u, r)' /\ blk'[u] = c)
                 <=> \/ \E u \in Threads : Carries(u, r) /\ blk[u] = c
                     \/ r = q /\ blk[t] # NoBlock /\ c = blk[t]
    BY <1>1, <1>2, <1>3
  <1>7. \A c : c \in Charged(r)' <=> \/ c \in Charged(r)
                                     \/ r = q /\ blk[t] # NoBlock /\ c = blk[t]
    BY <1>4, <1>5, <1>6, ChargedElements
  <1>8. QED  BY <1>7

\* A block that is uncounted is charged to nobody any more.
LEMMA ChargedLess ==
  ASSUME IInv, NEW t \in Threads, Uncount(t), NEW r \in Nat
  PROVE  /\ Charged(r)' = IF r = record[t] THEN Charged(r) \ {blk[t]} ELSE Charged(r)
         /\ blk[t] \in Charged(record[t])
  <1>0. pc \in [Threads -> Labels] /\ record \in [Threads -> Nat]
        /\ block \in [Blocks -> Memory] /\ blk \in [Threads -> Blocks \cup {NoBlock}]
    BY DEF IInv, TypeInv
  <1>1. /\ pc[t] = "uncount" /\ pc' = [pc EXCEPT ![t] = "release"]
        /\ UNCHANGED <<block, blk, record>>
    BY DEF Uncount, Goto, locals
  <1>2. \A u \in Threads : u # t => (Carries(u, r)' <=> Carries(u, r))
    BY <1>0, <1>1 DEF Carries
  <1>3. ~Carries(t, r)' /\ (Carries(t, r) <=> r = record[t])
    BY <1>0, <1>1 DEF Carries
  <1>4. \A c \in Blocks : Listed(c, r)' <=> Listed(c, r)  BY <1>1 DEF Listed, Mangled
  <1>5. \A c : c \in Charged(r)' <=> \/ c \in Blocks /\ Listed(c, r)'
                                     \/ \E u \in Threads : Carries(u, r)' /\ blk'[u] = c
    BY DEF Charged, Listed, Carries
  <1>6. ~Listed(blk[t], r) /\ \A u \in Threads : u # t => blk[u] # blk[t]
    <2>1. blk[t] # NoBlock  BY <1>1 DEF IInv, CallInv
    <2>2. block[blk[t]].state # "live"  BY <2>1 DEF IInv, HeapInv
    <2>3. QED  BY <2>1, <2>2 DEF IInv, HeapInv, Listed
  <1>7. \A c : (\E u \in Threads : Carries(u, r)' /\ blk'[u] = c)
                 <=> (\E u \in Threads : Carries(u, r) /\ blk[u] = c)
                     /\ ~(r = record[t] /\ c = blk[t])
    BY <1>1, <1>2, <1>3, <1>6
  <1>8. \A c : c \in Charged(r)' <=> c \in Charged(r) /\ ~(r = record[t] /\ c = blk[t])
    BY <1>4, <1>5, <1>6, <1>7, ChargedElements
  <1>9. blk[t] \in Charged(record[t])  BY <1>1, ChargedElements DEF Carries
  <1>10. QED  BY <1>8, <1>9

\* The steps that are no thread's.
LEMMA ChargedOther ==
  ASSUME IInv, SetTracking \/ UNCHANGED vars, NEW r \in 1 .. Len(records)
  PROVE  Charged(r)' = Charged(r) /\ records' = records
  <1>1. UNCHANGED <<pc, blk, record, records, block>>  BY DEF SetTracking, vars, locals
  <1>2. QED  BY <1>1, ChargedSame DEF Carries, Listed, Mangled

\* Only list_push_record and free_memory change a count or a total.
LEMMA CountKept ==
  ASSUME IInv, [Next]_vars, \A t \in Threads : ~Found(t) /\ ~Insert(t) /\ ~Uncount(t),
         NEW r \in 1 .. Len(records)
  PROVE  /\ Charged(r)' = Charged(r)
         /\ records'[r].cnt = records[r].cnt
         /\ records'[r].mem_total = records[r].mem_total
  <1>1. CASE SetTracking \/ UNCHANGED vars
    BY <1>1, ChargedOther
  <1>2. ASSUME NEW t \in Threads, Call(t)
        PROVE  /\ Charged(r)' = Charged(r)
               /\ records'[r].cnt = records[r].cnt
               /\ records'[r].mem_total = records[r].mem_total
    <2>1. records' = records
      BY <1>2 DEF Call, MallocUntracked, Malloc, PointRegister, FreeUntracked, Free, Report,
                  Exit
    <2>2. QED  BY <1>2, <2>1, ChargedCall
  <1>3. ASSUME NEW t \in Threads, Step(t)
        PROVE  /\ Charged(r)' = Charged(r)
               /\ records'[r].cnt = records[r].cnt
               /\ records'[r].mem_total = records[r].mem_total
    <2>1. Charged(r)' = Charged(r)  BY <1>3, ChargedStep
    <2>2. CASE PrintLine(t)
      <3> DEFINE q == alloc_list[list_it[t]]
      <3>1. q \in 1 .. Len(records) /\ records[q] \in AllocRecord /\ records \in Seq(AllocRecord)
        BY <2>2, ElementIsRecord DEF PrintLine, Goto, IInv, TypeInv
      <3>2. records' = [records EXCEPT ![q].dirty = FALSE]  BY <2>2 DEF PrintLine
      <3> HIDE DEF q
      <3>3. r # q => records'[r] = records[r]  BY <3>1, <3>2
      <3>4. /\ records'[q].cnt = records[q].cnt
            /\ records'[q].mem_total = records[q].mem_total
        BY <3>1, <3>2 DEF AllocRecord
      <3>5. QED  BY <2>1, <3>3, <3>4
    <2>3. CASE ~PrintLine(t)
      <3>1. records' = records
        BY <1>3, <2>3 DEF Step, LockPush, Search, MakeRecord, RecordFails, StorePiggyback,
                          LockFree, Release, LockReport, SkipLine, FinishReport, ExitReport
      <3>2. QED  BY <2>1, <3>1
    <2>4. QED  BY <2>2, <2>3
  <1>4. QED  BY <1>1, <1>2, <1>3 DEF Next

\* An allocation adds one to the count of a record that exists.
LEMMA FoundCounts ==
  ASSUME 0 \notin Sizes, IInv, NEW t \in Threads, Found(t)
  PROVE  \E q \in 1 .. Len(records) :
           /\ PushReturns(t, q) /\ pc[t] = "search" /\ block' = block
           /\ Len(records') = Len(records)
           /\ records[q].site = site[t]
           /\ \A r \in 1 .. Len(records) :
                records'[r].cnt = IF r = q /\ blk[t] # NoBlock THEN records[r].cnt + 1
                                  ELSE records[r].cnt
  <1> DEFINE e == alloc_list[list_it[t]]
  <1>1. PICK q \in 1 .. Len(records) : q = e  BY ElementIsRecord DEF Found, IInv
  <1> HIDE DEF e
  <1>2. records[q] \in AllocRecord /\ records \in Seq(AllocRecord) /\ size[t] \in Nat
    BY <1>1 DEF IInv, TypeInv
  <1>3. /\ records' = [records EXCEPT ![q] = Counted(records[q], size[t])]
        /\ PushReturns(t, q) /\ pc[t] = "search" /\ block' = block /\ records[q].site = site[t]
    BY <1>1 DEF Found, Here, e
  <1>4. Counted(records[q], size[t]).cnt = IF size[t] > 0 THEN records[q].cnt + 1
                                           ELSE records[q].cnt
    BY <1>2, CountedType
  <1>5. size[t] > 0 <=> blk[t] # NoBlock
    <2>1. IF blk[t] = NoBlock THEN size[t] = 0 ELSE size[t] \in Sizes
      BY <1>3 DEF IInv, CallInv
    <2>2. QED  BY <1>2, <2>1
  <1>6. Len(records') = Len(records)  BY <1>2, <1>3
  <1>7. ASSUME NEW r \in 1 .. Len(records)
        PROVE  records'[r].cnt = IF r = q /\ blk[t] # NoBlock THEN records[r].cnt + 1
                                 ELSE records[r].cnt
    <2>1. CASE r = q
      <3>1. records'[r] = Counted(records[q], size[t])  BY <1>2, <1>3, <2>1
      <3>2. QED  BY <1>4, <1>5, <2>1, <3>1
    <2>2. CASE r # q  BY <1>2, <1>3, <2>2
    <2>3. QED  BY <2>1, <2>2
  <1>8. QED  BY <1>3, <1>6, <1>7

\* A free takes one off the count of its block's record.
LEMMA UncountCounts ==
  ASSUME IInv, NEW t \in Threads, Uncount(t)
  PROVE  \E q \in 1 .. Len(records) :
           /\ q = record[t]
           /\ Len(records') = Len(records)
           /\ \A r \in 1 .. Len(records) :
                records'[r].cnt = IF r = q THEN records[r].cnt - 1 ELSE records[r].cnt
  <1>1. PICK q \in 1 .. Len(records) : q = record[t]  BY UncountEffect DEF IInv
  <1>2. PICK n \in Nat :
          records' = [records EXCEPT ![record[t]] = Uncounted(records[record[t]], n)]
    BY UncountEffect DEF IInv
  <1>3. records[q] \in AllocRecord /\ records \in Seq(AllocRecord)  BY DEF IInv, TypeInv
  <1>4. records' = [records EXCEPT ![q] = Uncounted(records[q], n)]  BY <1>1, <1>2
  <1>5. Uncounted(records[q], n).cnt = records[q].cnt - 1  BY <1>3, CountedType
  <1>6. Len(records') = Len(records)  BY <1>3, <1>4
  <1>7. ASSUME NEW r \in 1 .. Len(records)
        PROVE  records'[r].cnt = IF r = q THEN records[r].cnt - 1 ELSE records[r].cnt
    BY <1>3, <1>4, <1>5
  <1>8. QED  BY <1>1, <1>6, <1>7

\* Both leave the sites of the records alone.
LEMMA CountingSites ==
  ASSUME IInv, NEW t \in Threads, Found(t) \/ Uncount(t), NEW r \in 1 .. Len(records)
  PROVE  records'[r].site = records[r].site
  <1>0. records \in Seq(AllocRecord)  BY DEF IInv, TypeInv
  <1>1. CASE Found(t)
    <2>1. PICK q \in 1 .. Len(records) : q = alloc_list[list_it[t]]
      BY <1>1, ElementIsRecord DEF Found, IInv
    <2>2. records' = [records EXCEPT ![q] = Counted(records[q], size[t])]
      BY <1>1, <2>1 DEF Found
    <2>3. Counted(records[q], size[t]).site = records[q].site
      <3>1. records[q] \in AllocRecord /\ size[t] \in Nat  BY <1>0 DEF IInv, TypeInv
      <3>2. QED  BY <3>1, CountedType
    <2>4. QED  BY <1>0, <2>2, <2>3
  <1>2. CASE Uncount(t)
    <2>1. PICK q \in 1 .. Len(records) : q = record[t]
      BY <1>2, UncountEffect DEF IInv
    <2>2. PICK n \in Nat :
            records' = [records EXCEPT ![record[t]] = Uncounted(records[record[t]], n)]
      BY <1>2, UncountEffect DEF IInv
    <2>3. records' = [records EXCEPT ![q] = Uncounted(records[q], n)]  BY <2>1, <2>2
    <2>4. Uncounted(records[q], n).site = records[q].site
      <3>1. records[q] \in AllocRecord  BY <1>0
      <3>2. QED  BY <3>1, CountedType
    <2>5. QED  BY <1>0, <2>3, <2>4
  <1>3. QED  BY <1>1, <1>2

\* One charged, one counted.
LEMMA CountNext ==
  ASSUME 0 \notin Sizes, IInv, CountInv, [Next]_vars
  PROVE  CountInv'
  <1>0. Len(records) \in Nat  BY DEF IInv, TypeInv
  <1>1. CASE \A t \in Threads : ~Found(t) /\ ~Insert(t) /\ ~Uncount(t)
    <2>1. Len(records') = Len(records)  BY <1>1, ListKept
    <2>2. ASSUME NEW r \in 1 .. Len(records)
          PROVE  IsFiniteSet(Charged(r))' /\ (records[r].cnt = Cardinality(Charged(r)))'
      <3>1. Charged(r)' = Charged(r) /\ records'[r].cnt = records[r].cnt  BY <1>1, CountKept
      <3>2. QED  BY <3>1 DEF CountInv
    <2>3. QED  BY <2>1, <2>2 DEF CountInv
  <1>2. ASSUME NEW t \in Threads, Found(t) PROVE CountInv'
    <2>1. PICK q \in 1 .. Len(records) :
            /\ PushReturns(t, q) /\ pc[t] = "search" /\ block' = block
            /\ Len(records') = Len(records)
            /\ \A r \in 1 .. Len(records) :
                 records'[r].cnt = IF r = q /\ blk[t] # NoBlock THEN records[r].cnt + 1
                                   ELSE records[r].cnt
      BY <1>2, FoundCounts
    <2>2. ASSUME NEW r \in 1 .. Len(records)
          PROVE  IsFiniteSet(Charged(r))' /\ (records[r].cnt = Cardinality(Charged(r)))'
      <3>1. Charged(r)' = IF r = q /\ blk[t] # NoBlock THEN Charged(r) \cup {blk[t]}
                          ELSE Charged(r)
        BY <1>0, <2>1, ChargedMore
      <3>2. IsFiniteSet(Charged(r)) /\ records[r].cnt = Cardinality(Charged(r))  BY DEF CountInv
      <3>3. CASE r = q /\ blk[t] # NoBlock
        <4>1. blk[t] \notin Charged(r)  BY <2>1, <3>3, HeldIsNotCharged
        <4>2. /\ IsFiniteSet(Charged(r) \cup {blk[t]})
              /\ Cardinality(Charged(r) \cup {blk[t]}) = Cardinality(Charged(r)) + 1
          BY <3>2, <4>1, FS_AddElement
        <4>3. QED  BY <2>1, <3>1, <3>2, <3>3, <4>2
      <3>4. CASE ~(r = q /\ blk[t] # NoBlock)  BY <2>1, <3>1, <3>2, <3>4
      <3>5. QED  BY <3>3, <3>4
    <2>3. QED  BY <2>1, <2>2 DEF CountInv
  <1>3. ASSUME NEW t \in Threads, Insert(t) PROVE CountInv'
    <2>0. PICK q \in Nat : q = Len(records) + 1  BY <1>0
    <2>1. /\ PushReturns(t, q) /\ pc[t] = "insert" /\ block' = block /\ q \in Nat
          /\ Len(records') = q
          /\ \A r \in 1 .. Len(records) : records'[r] = records[r]
          /\ records'[q].cnt = IF size[t] > 0 THEN 1 ELSE 0
      BY <1>0, <1>3, <2>0, ListGrows, NewRecord DEF Insert
    <2>2. size[t] > 0 <=> blk[t] # NoBlock
      <3>1. IF blk[t] = NoBlock THEN size[t] = 0 ELSE size[t] \in Sizes
        BY <2>1 DEF IInv, CallInv
      <3>2. QED  BY <3>1 DEF IInv, TypeInv
    <2>3. ASSUME NEW r \in 1 .. Len(records)
          PROVE  IsFiniteSet(Charged(r))' /\ (records[r].cnt = Cardinality(Charged(r)))'
      <3>1. r # q /\ r \in Nat  BY <1>0, <2>0
      <3>2. Charged(r)' = Charged(r)  BY <2>1, <3>1, ChargedMore
      <3>3. QED  BY <2>1, <3>2 DEF CountInv
    <2>4. IsFiniteSet(Charged(q)') /\ records'[q].cnt = Cardinality(Charged(q)')
      <3>1. Charged(q) = {}  BY <1>0, <2>0, NothingBeyond
      <3>2. Charged(q)' = IF blk[t] # NoBlock THEN {blk[t]} ELSE {}
        BY <2>1, <3>1, ChargedMore
      <3>3. QED  BY <2>1, <2>2, <3>2, FS_EmptySet, FS_Singleton
    <2>5. QED
      <3> SUFFICES ASSUME NEW r \in 1 .. Len(records')
                   PROVE  IsFiniteSet(Charged(r)') /\ records'[r].cnt = Cardinality(Charged(r)')
        BY DEF CountInv
      <3>1. CASE r = q  BY <2>4, <3>1
      <3>2. CASE r # q
        <4>1. r \in 1 .. Len(records)  BY <1>0, <2>0, <2>1, <3>2
        <4>2. QED  BY <2>3, <4>1
      <3>3. QED  BY <3>1, <3>2
  <1>4. ASSUME NEW t \in Threads, Uncount(t) PROVE CountInv'
    <2>1. PICK q \in 1 .. Len(records) :
            /\ q = record[t] /\ Len(records') = Len(records)
            /\ \A r \in 1 .. Len(records) :
                 records'[r].cnt = IF r = q THEN records[r].cnt - 1 ELSE records[r].cnt
      BY <1>4, UncountCounts
    <2>2. ASSUME NEW r \in 1 .. Len(records)
          PROVE  IsFiniteSet(Charged(r))' /\ (records[r].cnt = Cardinality(Charged(r)))'
      <3>1. Charged(r)' = IF r = q THEN Charged(r) \ {blk[t]} ELSE Charged(r)
        BY <1>0, <1>4, <2>1, ChargedLess
      <3>2. IsFiniteSet(Charged(r)) /\ records[r].cnt = Cardinality(Charged(r))  BY DEF CountInv
      <3>3. CASE r = q
        <4>1. blk[t] \in Charged(r)  BY <1>0, <1>4, <2>1, <3>3, ChargedLess
        <4>2. /\ IsFiniteSet(Charged(r) \ {blk[t]})
              /\ Cardinality(Charged(r) \ {blk[t]}) = Cardinality(Charged(r)) - 1
          BY <3>2, <4>1, FS_RemoveElement
        <4>3. QED  BY <2>1, <3>1, <3>2, <3>3, <4>2
      <3>4. CASE r # q  BY <2>1, <3>1, <3>2, <3>4
      <3>5. QED  BY <3>3, <3>4
    <2>3. QED  BY <2>1, <2>2 DEF CountInv
  <1>5. QED  BY <1>1, <1>2, <1>3, <1>4

\* The counts start with the records.
LEMMA CountInit == Init => CountInv
  BY DEF Init, CountInv

\* The count of a site is the number of its blocks that are out, whatever threads
\* allocate, free and report at the same time.
THEOREM CountsTheLive == ASSUME 0 \notin Sizes PROVE Spec => []CountIsLive
  <1>1. IInv /\ CountInv /\ [Next]_vars => (IInv /\ CountInv)'
    BY InductiveNext, CountNext
  <1>2. IInv /\ CountInv => CountIsLive  BY DEF IInv, TypeInv, CountInv, CountIsLive
  <1>3. QED  BY InductiveInit, CountInit, <1>1, <1>2, PTL DEF Spec

\* memleak_allocs_at answers for the blocks memleak has listed, and for no other.
THEOREM AllocsAtAnswers == ASSUME 0 \notin Sizes PROVE Spec => []AllocsAtCounts
  <1>1. IInv /\ CountInv /\ [Next]_vars => (IInv /\ CountInv)'
    BY InductiveNext, CountNext
  <1>2. ASSUME IInv, CountInv PROVE AllocsAtCounts
    <2> SUFFICES ASSUME NEW b \in Blocks, block[b].state = "live"
                 PROVE  IF block[b].record = 0 THEN AllocsAt(b) = -1 ELSE AllocsAt(b) > 0
      BY DEF AllocsAtCounts
    <2>1. IF Mangled(b) THEN block[b].record \in 1 .. Len(records) ELSE block[b].record = 0
      BY <1>2 DEF IInv, HeapInv
    <2>2. CASE ~Mangled(b)  BY <2>1, <2>2 DEF AllocsAt
    <2>3. CASE Mangled(b)
      <3>1. PICK r \in 1 .. Len(records) : r = block[b].record  BY <2>1, <2>3
      <3>2. b \in Charged(r)  BY <2>3, <3>1 DEF Charged
      <3>3. IsFiniteSet(Charged(r)) /\ records[r].cnt = Cardinality(Charged(r))
        BY <1>2 DEF CountInv
      <3>4. Cardinality(Charged(r)) \in Nat /\ Cardinality(Charged(r)) # 0
        BY <3>2, <3>3, FS_EmptySet, FS_CardinalityType
      <3>5. r # 0  BY <1>2 DEF IInv, TypeInv
      <3>6. QED  BY <2>3, <3>1, <3>3, <3>4, <3>5 DEF AllocsAt
    <2>4. QED  BY <2>2, <2>3
  <1>3. QED  BY InductiveInit, CountInit, <1>1, <1>2, PTL DEF Spec

-----------------------------------------------------------------------------
(* The ledger. *)

\* What the ledger of a site shows, and the whole ledger.
LiveOf(s) == LET R == {r \in DOMAIN records : records[r].site = s}
             IN  IF R = {} THEN 0 ELSE records[CHOOSE r \in R : TRUE].cnt
Live      == [s \in Sites |-> LiveOf(s)]

\* A site has one record or none.
LiveInv ==
  /\ Len(records) \in Nat
  /\ \A r \in 1 .. Len(records) : records[r].site \in Sites /\ records[r].cnt \in Int
  /\ \A q, r \in 1 .. Len(records) : records[q].site = records[r].site => q = r
  /\ \A r \in 1 .. Len(records) : LiveOf(records[r].site) = records[r].cnt
  /\ \A s \in Sites : (\A r \in 1 .. Len(records) : records[r].site # s) => LiveOf(s) = 0

LEMMA LiveRight == IInv => LiveInv
  <1> SUFFICES ASSUME IInv PROVE LiveInv  OBVIOUS
  <1>1. /\ records \in Seq(AllocRecord) /\ Len(records) \in Nat
        /\ DOMAIN records = 1 .. Len(records) /\ DOMAIN alloc_list = 1 .. Len(alloc_list)
        /\ Len(alloc_list) = Len(records)
    BY DEF IInv, TypeInv, ListInv
  <1>2. ASSUME NEW r \in 1 .. Len(records)
        PROVE  records[r].site \in Sites /\ records[r].cnt \in Int
    <2>1. records[r] \in AllocRecord  BY <1>1
    <2>2. QED  BY <2>1 DEF AllocRecord
  <1>3. ASSUME NEW q \in 1 .. Len(records), NEW r \in 1 .. Len(records),
               records[q].site = records[r].site
        PROVE  q = r
    <2>1. PICK i \in 1 .. Len(alloc_list) : alloc_list[i] = q  BY DEF IInv, ListInv
    <2>2. PICK j \in 1 .. Len(alloc_list) : alloc_list[j] = r  BY DEF IInv, ListInv
    <2>3. ~Before(records[q].site, records[r].site) /\ ~Before(records[r].site, records[q].site)
      BY <1>2, <1>3, BeforeOrders
    <2>4. ~(i < j) /\ ~(j < i)  BY <1>1, <2>1, <2>2, <2>3 DEF IInv, ListSorted
    <2>5. QED  BY <2>1, <2>2, <2>4
  <1>4. ASSUME NEW r \in 1 .. Len(records) PROVE LiveOf(records[r].site) = records[r].cnt
    <2>1. {q \in DOMAIN records : records[q].site = records[r].site} = {r}  BY <1>1, <1>3
    <2>2. (CHOOSE q \in {r} : TRUE) = r  OBVIOUS
    <2>3. QED  BY <2>1, <2>2 DEF LiveOf
  <1>5. ASSUME NEW s \in Sites, \A r \in 1 .. Len(records) : records[r].site # s
        PROVE  LiveOf(s) = 0
    BY <1>1, <1>5 DEF LiveOf
  <1>6. QED  BY <1>1, <1>2, <1>3, <1>4, <1>5 DEF LiveInv

\* The ledger of a site whose record keeps its count stays.
LEMMA LiveSame ==
  ASSUME LiveInv, LiveInv', Len(records') = Len(records),
         \A r \in 1 .. Len(records) : records'[r].site = records[r].site,
         NEW s \in Sites,
         \A r \in 1 .. Len(records) : records[r].site = s => records'[r].cnt = records[r].cnt
  PROVE  LiveOf(s)' = LiveOf(s)
  <1>1. CASE \A r \in 1 .. Len(records) : records[r].site # s
    BY <1>1 DEF LiveInv
  <1>2. CASE \E r \in 1 .. Len(records) : records[r].site = s
    <2>1. PICK r \in 1 .. Len(records) : records[r].site = s  BY <1>2
    <2>2. LiveOf(s) = records[r].cnt  BY <2>1 DEF LiveInv
    <2>3. r \in 1 .. Len(records') /\ records'[r].site = s  BY <2>1
    <2>4. LiveOf(s)' = records'[r].cnt  BY <2>3 DEF LiveInv
    <2>5. QED  BY <2>1, <2>2, <2>4
  <1>3. QED  BY <1>1, <1>2

\* An allocation is an Acquire, an uncounting a Release, and nothing else shows.
LEMMA LedgerNext ==
  ASSUME 0 \notin Sizes, IInv, CountInv, LiveInv, LiveInv', [Next]_vars
  PROVE  [L!Next]_Live
  <1>0. Len(records) \in Nat  BY DEF LiveInv
  <1>a. ASSUME \A s \in Sites : LiveOf(s)' = LiveOf(s) PROVE Live' = Live
    BY <1>a DEF Live
  <1>b. ASSUME NEW s \in Sites, LiveOf(s)' = LiveOf(s) + 1,
               \A u \in Sites : u # s => LiveOf(u)' = LiveOf(u)
        PROVE  L!Next
    <2>1. Live' = [Live EXCEPT ![s] = @ + 1]  BY <1>b DEF Live
    <2>2. L!Acquire(s)  BY <2>1 DEF L!Acquire, Live, LiveOf
    <2>3. QED  BY <2>2 DEF L!Next
  <1>c. ASSUME NEW s \in Sites, LiveOf(s) > 0, LiveOf(s)' = LiveOf(s) - 1,
               \A u \in Sites : u # s => LiveOf(u)' = LiveOf(u)
        PROVE  L!Next
    <2>1. Live' = [Live EXCEPT ![s] = @ - 1] /\ Live[s] > 0  BY <1>c DEF Live
    <2>2. L!Release(s)  BY <2>1 DEF L!Release, Live, LiveOf
    <2>3. QED  BY <2>2 DEF L!Next
  <1>1. CASE \A t \in Threads : ~Found(t) /\ ~Insert(t) /\ ~Uncount(t)
    <2>1. /\ Len(records') = Len(records)
          /\ \A r \in 1 .. Len(records) : records'[r].site = records[r].site
      BY <1>1, ListKept
    <2>2. \A r \in 1 .. Len(records) : records'[r].cnt = records[r].cnt  BY <1>1, CountKept
    <2>3. \A s \in Sites : LiveOf(s)' = LiveOf(s)  BY <2>1, <2>2, LiveSame
    <2>4. QED  BY <1>a, <2>3
  <1>2. ASSUME NEW t \in Threads, Found(t) PROVE [L!Next]_Live
    <2>1. PICK q \in 1 .. Len(records) :
            /\ PushReturns(t, q) /\ pc[t] = "search" /\ block' = block
            /\ Len(records') = Len(records) /\ records[q].site = site[t]
            /\ \A r \in 1 .. Len(records) :
                 records'[r].cnt = IF r = q /\ blk[t] # NoBlock THEN records[r].cnt + 1
                                   ELSE records[r].cnt
      BY <1>2, FoundCounts
    <2>2. \A r \in 1 .. Len(records) : records'[r].site = records[r].site
      BY <1>2, CountingSites
    <2>3. PICK s \in Sites : s = records[q].site  BY DEF LiveInv
    <2>4. \A u \in Sites : u # s => LiveOf(u)' = LiveOf(u)
      BY <2>1, <2>2, <2>3, LiveSame
    <2>5. LiveOf(s) = records[q].cnt /\ LiveOf(s)' = records'[q].cnt
      BY <2>1, <2>2, <2>3 DEF LiveInv
    <2>6. CASE blk[t] = NoBlock  BY <1>a, <2>1, <2>4, <2>5, <2>6
    <2>7. CASE blk[t] # NoBlock  BY <1>b, <2>1, <2>4, <2>5, <2>7
    <2>8. QED  BY <2>6, <2>7
  <1>3. ASSUME NEW t \in Threads, Insert(t) PROVE [L!Next]_Live
    <2>0. PICK q \in Nat : q = Len(records) + 1  BY <1>0
    <2>1. /\ Len(records') = q
          /\ \A r \in 1 .. Len(records) : records'[r] = records[r]
          /\ records'[q].cnt = IF size[t] > 0 THEN 1 ELSE 0
          /\ size[t] \in Nat
      BY <1>0, <1>3, <2>0, ListGrows, NewRecord DEF IInv, TypeInv
    <2>2. PICK s \in Sites : s = records'[q].site  BY <2>0, <2>1, <1>0 DEF LiveInv
    <2>3. ASSUME NEW r \in 1 .. Len(records) PROVE records[r].site # s
      <3>1. r \in 1 .. Len(records') /\ q \in 1 .. Len(records') /\ r # q
        BY <1>0, <2>0, <2>1
      <3>2. (\A k, r1 \in 1 .. Len(records) : records[k].site = records[r1].site => k = r1)'
        BY DEF LiveInv
      <3>3. QED  BY <2>1, <2>2, <3>1, <3>2
    <2>4. LiveOf(s) = 0  BY <2>3 DEF LiveInv
    <2>5. LiveOf(s)' = IF size[t] > 0 THEN 1 ELSE 0
      <3>1. q \in 1 .. Len(records')  BY <1>0, <2>0, <2>1
      <3>2. LiveOf(s)' = records'[q].cnt  BY <2>2, <3>1 DEF LiveInv
      <3>3. QED  BY <2>1, <3>2
    <2>6. ASSUME NEW u \in Sites, u # s PROVE LiveOf(u)' = LiveOf(u)
      <3>1. CASE \A r \in 1 .. Len(records) : records[r].site # u
        <4>1. \A r \in 1 .. Len(records') : r \in 1 .. Len(records) \/ r = q
          BY <1>0, <2>0, <2>1
        <4>2. \A r \in 1 .. Len(records') : records'[r].site # u
          BY <2>1, <2>2, <2>6, <3>1, <4>1
        <4>3. LiveOf(u)' = 0  BY <4>2 DEF LiveInv
        <4>4. LiveOf(u) = 0  BY <3>1 DEF LiveInv
        <4>5. QED  BY <4>3, <4>4
      <3>2. CASE \E r \in 1 .. Len(records) : records[r].site = u
        <4>1. PICK r \in 1 .. Len(records) : records[r].site = u  BY <3>2
        <4>2. LiveOf(u) = records[r].cnt  BY <4>1 DEF LiveInv
        <4>3. r \in 1 .. Len(records')  BY <1>0, <2>0, <2>1
        <4>4. records'[r] = records[r]  BY <2>1
        <4>5. LiveOf(u)' = records'[r].cnt  BY <4>1, <4>3, <4>4 DEF LiveInv
        <4>6. QED  BY <4>2, <4>4, <4>5
      <3>3. QED  BY <3>1, <3>2
    <2>7. CASE size[t] = 0  BY <1>a, <2>1, <2>4, <2>5, <2>6, <2>7
    <2>8. CASE size[t] > 0  BY <1>b, <2>1, <2>4, <2>5, <2>6, <2>8
    <2>9. QED  BY <2>1, <2>7, <2>8
  <1>4. ASSUME NEW t \in Threads, Uncount(t) PROVE [L!Next]_Live
    <2>1. PICK q \in 1 .. Len(records) :
            /\ q = record[t] /\ Len(records') = Len(records)
            /\ \A r \in 1 .. Len(records) :
                 records'[r].cnt = IF r = q THEN records[r].cnt - 1 ELSE records[r].cnt
      BY <1>4, UncountCounts
    <2>2. \A r \in 1 .. Len(records) : records'[r].site = records[r].site
      BY <1>4, CountingSites
    <2>3. PICK s \in Sites : s = records[q].site  BY DEF LiveInv
    <2>4. \A u \in Sites : u # s => LiveOf(u)' = LiveOf(u)
      BY <2>1, <2>2, <2>3, LiveSame
    <2>5. LiveOf(s) = records[q].cnt /\ LiveOf(s)' = records'[q].cnt
      BY <2>1, <2>2, <2>3 DEF LiveInv
    <2>6. records[q].cnt > 0
      <3>1. IsFiniteSet(Charged(q)) /\ records[q].cnt = Cardinality(Charged(q))
        BY DEF CountInv
      <3>2. blk[t] \in Charged(q)  BY <1>0, <1>4, <2>1, ChargedLess
      <3>3. QED  BY <3>1, <3>2, FS_EmptySet, FS_CardinalityType
    <2>7. QED  BY <1>c, <2>1, <2>4, <2>5, <2>6
  <1>5. QED  BY <1>1, <1>2, <1>3, <1>4

\* The bookkeeping is a ledger per site: a block is acquired once and released once,
\* at the record of the site that asked for it.
THEOREM LedgerKept == ASSUME 0 \notin Sizes PROVE Spec => KeepsLedger
  <1>1. Init => L!Init
    <2>1. Init => Live = [s \in Sites |-> 0]  BY DEF Init, Live, LiveOf
    <2>2. QED  BY <2>1 DEF L!Init, Live, LiveOf
  <1>2. IInv /\ CountInv /\ [Next]_vars => (IInv /\ CountInv)'
    BY InductiveNext, CountNext
  <1>3. IInv /\ CountInv /\ LiveInv /\ LiveInv' /\ [Next]_vars => [L!Next]_Live
    BY LedgerNext
  <1>4. QED
    BY InductiveInit, CountInit, LiveRight, <1>1, <1>2, <1>3, PTL
       DEF Spec, KeepsLedger, L!Spec, Live, LiveOf
-----------------------------------------------------------------------------
(* Sums over a finite set of blocks.  MapThenSumSet takes the elements away  *)
(* one by one, in an order of its own; what is shown here is that the order  *)
(* makes no difference.                                                      *)

\* The recursion of MapThenSumSet, for the numbers m of the elements of S.
Sums(it, m, S) ==
  it = [s \in SUBSET S |-> IF s = {} THEN 0
                           ELSE m[CHOOSE x \in s : TRUE] + it[s \ {CHOOSE x \in s : TRUE}]]
SumOf(m, S) == (CHOOSE it : Sums(it, m, S))[S]

\* A function from the sets of blocks to their sums, whichever block one takes away.
Additive(it, m, S) ==
  /\ it \in [SUBSET S -> Int] /\ it[{}] = 0
  /\ \A s \in SUBSET S : \A x \in s : it[s] = m[x] + it[s \ {x}]

\* Of the finite sets of which something is true, one has no smaller one in it.
LEMMA LeastSet ==
  ASSUME NEW S, IsFiniteSet(S), NEW F, F \subseteq SUBSET S, F # {}
  PROVE  \E s \in F : \A u \in SUBSET s : u # s => u \notin F
  <1>1. FiniteSubsetsOf(S) = SUBSET S  BY FS_FiniteSubsetsOfFinite
  <1>2. IsWellFoundedOn(StrictSubsetOrdering(S), SUBSET S)
    BY <1>1, FS_StrictSubsetOrderingWellFounded
  <1>3. PICK s \in F : \A u \in F : ~(<<u, s>> \in StrictSubsetOrdering(S))
    BY <1>2, WFMin
  <1>4. ASSUME NEW u \in SUBSET s, u # s, u \in F PROVE FALSE
    <2>1. <<u, s>> \in StrictSubsetOrdering(S)  BY <1>4 DEF StrictSubsetOrdering
    <2>2. QED  BY <1>3, <1>4, <2>1
  <1>5. QED  BY <1>4

\* There is one, by induction over the subsets.
LEMMA AdditiveExists ==
  ASSUME NEW S, IsFiniteSet(S), NEW m, \A x \in S : m[x] \in Int
  PROVE  \E it : Additive(it, m, S)
  <1> DEFINE F == {s \in SUBSET S : ~ \E it : Additive(it, m, s)}
  <1> SUFFICES ASSUME F # {} PROVE FALSE  OBVIOUS
  <1>1. PICK s \in F : \A u \in SUBSET s : u # s => u \notin F
    <2> HIDE DEF F
    <2>1. F \subseteq SUBSET S  BY DEF F
    <2>2. QED  BY <2>1, LeastSet
  <1>2. CASE s = {}
    <2> DEFINE it == [u \in {{}} |-> 0]
    <2>1. it[{}] = 0 /\ SUBSET {} = {{}}  OBVIOUS
    <2>3. it \in [SUBSET {} -> Int]  BY <2>1
    <2>4. Additive(it, m, {})
      <3> HIDE DEF it
      <3>1. QED  BY <2>1, <2>3 DEF Additive
    <2>2. QED  BY <1>1, <1>2, <2>4
  <1>3. CASE s # {}
    <2>1. PICK b \in s : TRUE  BY <1>3
    <2>2. PICK g : Additive(g, m, s \ {b})  BY <1>1, <2>1
    <2> DEFINE it == [u \in SUBSET s |-> IF b \in u THEN m[b] + g[u \ {b}] ELSE g[u]]
    <2>3. \A u \in SUBSET s : u \ {b} \in SUBSET (s \ {b}) /\ (b \notin u => u = u \ {b})
      OBVIOUS
    <2>4. m[b] \in Int /\ \A x \in s : m[x] \in Int  BY <1>1, <2>1
    <2>5. g \in [SUBSET (s \ {b}) -> Int] /\ g[{}] = 0  BY <2>2 DEF Additive
    <2>6. it \in [SUBSET s -> Int]
      <3> SUFFICES ASSUME NEW u \in SUBSET s
                   PROVE  (IF b \in u THEN m[b] + g[u \ {b}] ELSE g[u]) \in Int
        OBVIOUS
      <3>1. g[u \ {b}] \in Int  BY <2>3, <2>5
      <3>2. CASE b \in u
        <4>1. m[b] + g[u \ {b}] \in Int  BY <2>4, <3>1
        <4>2. QED  BY <3>2, <4>1
      <3>3. CASE b \notin u
        <4>1. g[u] \in Int  BY <2>3, <2>5, <3>3
        <4>2. QED  BY <3>3, <4>1
      <3>4. QED  BY <3>2, <3>3
    <2>7. it[{}] = 0
      <3>1. {} \in SUBSET s /\ b \notin {}  OBVIOUS
      <3>2. it[{}] = g[{}]  BY <3>1
      <3>3. QED  BY <2>5, <3>2
    <2>8. ASSUME NEW u \in SUBSET s, NEW x \in u PROVE it[u] = m[x] + it[u \ {x}]
      <3>1. u \ {x} \in SUBSET s  OBVIOUS
      <3>2. CASE x = b
        <4>1. it[u] = m[b] + g[u \ {b}]  BY <3>2
        <4>2. it[u \ {x}] = g[u \ {b}]  BY <3>1, <3>2
        <4>3. QED  BY <3>2, <4>1, <4>2
      <3>3. CASE x # b /\ b \notin u
        <4>1. it[u] = g[u] /\ it[u \ {x}] = g[u \ {x}]  BY <3>1, <3>3
        <4>2. u \in SUBSET (s \ {b})  BY <3>3
        <4>3. g[u] = m[x] + g[u \ {x}]  BY <2>2, <4>2 DEF Additive
        <4>4. QED  BY <4>1, <4>3
      <3>4. CASE x # b /\ b \in u
        <4> DEFINE v == u \ {b}
        <4>1. it[u] = m[b] + g[v]  BY <3>4
        <4>2. it[u \ {x}] = m[b] + g[(u \ {x}) \ {b}]  BY <3>1, <3>4
        <4>3. (u \ {x}) \ {b} = v \ {x} /\ v \in SUBSET (s \ {b}) /\ x \in v
              /\ v \ {x} \in SUBSET (s \ {b})
          BY <3>4
        <4>4. g[v] = m[x] + g[v \ {x}]  BY <2>2, <4>3 DEF Additive
        <4>5. g[v \ {x}] \in Int /\ m[x] \in Int  BY <2>4, <2>5, <4>3
        <4>6. it[u \ {x}] = m[b] + g[v \ {x}]  BY <4>2, <4>3
        <4>7. \A i, j, k \in Int : i + (j + k) = j + (i + k)  OBVIOUS
        <4> HIDE DEF v, it
        <4>8. it[u] = m[b] + (m[x] + g[v \ {x}])  BY <4>1, <4>4
        <4>9. m[b] + (m[x] + g[v \ {x}]) = m[x] + (m[b] + g[v \ {x}])
          BY <2>4, <4>5, <4>7
        <4>10. QED  BY <4>6, <4>8, <4>9
      <3>5. QED  BY <3>2, <3>3, <3>4
    <2>9. Additive(it, m, s)
      <3> HIDE DEF it
      <3>1. QED  BY <2>6, <2>7, <2>8 DEF Additive
    <2>10. QED  BY <1>1, <2>9
  <1>4. QED  BY <1>2, <1>3

\* It satisfies the equation by which MapThenSumSet is defined.
LEMMA AdditiveSums ==
  ASSUME NEW S, NEW m, NEW it, Additive(it, m, S)
  PROVE  Sums(it, m, S)
  <1> DEFINE e(s) == IF s = {} THEN 0
                     ELSE m[CHOOSE x \in s : TRUE] + it[s \ {CHOOSE x \in s : TRUE}]
  <1>1. ASSUME NEW s \in SUBSET S PROVE it[s] = e(s)
    <2>1. CASE s = {}  BY <2>1 DEF Additive
    <2>2. CASE s # {}
      <3>1. PICK x \in s : x = CHOOSE y \in s : TRUE  BY <2>2
      <3>2. it[s] = m[x] + it[s \ {x}]  BY DEF Additive
      <3>3. QED  BY <2>2, <3>1, <3>2
    <2>3. QED  BY <2>1, <2>2
  <1>2. it = [s \in SUBSET S |-> it[s]]  BY DEF Additive
  <1>3. it = [s \in SUBSET S |-> e(s)]
    <2> HIDE DEF e
    <2>1. QED  BY <1>1, <1>2
  <1>4. QED  BY <1>3 DEF Sums

\* That equation has one solution.
LEMMA SumsUnique ==
  ASSUME NEW S, IsFiniteSet(S), NEW m, NEW f, NEW g, Sums(f, m, S), Sums(g, m, S)
  PROVE  f = g
  <1> DEFINE F == {s \in SUBSET S : f[s] # g[s]}
  <1>1. F = {}
    <2> SUFFICES ASSUME F # {} PROVE FALSE  OBVIOUS
    <2>1. PICK s \in F : \A u \in SUBSET s : u # s => u \notin F
      <3>1. F \subseteq SUBSET S  OBVIOUS
      <3> HIDE DEF F
      <3>2. QED  BY <3>1, LeastSet
    <2>2. CASE s = {}
      <3>1. f[s] = 0  BY <2>2 DEF Sums
      <3>2. g[s] = 0  BY <2>2 DEF Sums
      <3>3. QED  BY <2>1, <3>1, <3>2
    <2>3. CASE s # {}
      <3>1. PICK x \in s : x = CHOOSE y \in s : TRUE  BY <2>3
      <3>2. f[s] = m[x] + f[s \ {x}]  BY <2>3, <3>1 DEF Sums
      <3>3. g[s] = m[x] + g[s \ {x}]  BY <2>3, <3>1 DEF Sums
      <3>4. f[s \ {x}] = g[s \ {x}]  BY <2>1, <3>1
      <3>5. QED  BY <2>1, <3>2, <3>3, <3>4
    <2>4. QED  BY <2>2, <2>3
  <1>2. f = [s \in SUBSET S |-> f[s]]  BY DEF Sums
  <1>3. g = [s \in SUBSET S |-> g[s]]  BY DEF Sums
  <1>4. QED  BY <1>1, <1>2, <1>3

\* The solution is additive.
LEMMA SumIsAdditive ==
  ASSUME NEW S, IsFiniteSet(S), NEW m, \A x \in S : m[x] \in Int, NEW f, Sums(f, m, S)
  PROVE  Additive(f, m, S) /\ SumOf(m, S) = f[S]
  <1>1. PICK it : Additive(it, m, S)  BY AdditiveExists
  <1>2. it = f  BY <1>1, AdditiveSums, SumsUnique
  <1> DEFINE c == CHOOSE h : Sums(h, m, S)
  <1>3. Sums(c, m, S)  OBVIOUS
  <1>4. c = f
    <2> HIDE DEF c
    <2>1. QED  BY <1>3, SumsUnique
  <1>5. QED  BY <1>1, <1>2, <1>4 DEF SumOf

\* A part of an additive function is one.
LEMMA AdditiveSum ==
  ASSUME NEW S, IsFiniteSet(S), NEW m, \A x \in S : m[x] \in Int, NEW it, Additive(it, m, S),
         NEW u \in SUBSET S
  PROVE  SumOf(m, u) = it[u]
  <1> DEFINE h == [s \in SUBSET u |-> it[s]]
  <1>1. \A s \in SUBSET u : s \in SUBSET S  OBVIOUS
  <1>2. Additive(h, m, u)
    <2>1. h \in [SUBSET u -> Int] /\ h[{}] = 0  BY <1>1 DEF Additive
    <2>2. ASSUME NEW s \in SUBSET u, NEW x \in s PROVE h[s] = m[x] + h[s \ {x}]
      <3>1. s \ {x} \in SUBSET u  OBVIOUS
      <3>2. it[s] = m[x] + it[s \ {x}]  BY <1>1 DEF Additive
      <3>3. QED  BY <3>1, <3>2
    <2> HIDE DEF h
    <2>3. QED  BY <2>1, <2>2 DEF Additive
  <1>3. IsFiniteSet(u)  BY FS_Subset
  <1>4. h[u] = it[u]  OBVIOUS
  <1> HIDE DEF h
  <1>5. QED  BY <1>2, <1>3, <1>4, AdditiveSums, SumIsAdditive

\* The sum, element by element.
LEMMA SumTakeAway ==
  ASSUME NEW S, IsFiniteSet(S), NEW m, \A x \in S : m[x] \in Int
  PROVE  /\ SumOf(m, S) \in Int
         /\ SumOf(m, {}) = 0
         /\ \A x \in S : SumOf(m, S) = m[x] + SumOf(m, S \ {x})
  <1>1. PICK it : Additive(it, m, S)  BY AdditiveExists
  <1>2. \A u \in SUBSET S : SumOf(m, u) = it[u]  BY <1>1, AdditiveSum
  <1>3. QED  BY <1>1, <1>2 DEF Additive

\* Equal numbers have equal sums.
LEMMA SumSame ==
  ASSUME NEW S, NEW m, NEW n, \A x \in S : m[x] = n[x]
  PROVE  SumOf(m, S) = SumOf(n, S)
  <1>1. \A s \in SUBSET S : s # {} => m[CHOOSE x \in s : TRUE] = n[CHOOSE x \in s : TRUE]
    OBVIOUS
  <1>2. ASSUME NEW it PROVE Sums(it, m, S) <=> Sums(it, n, S)
    <2> DEFINE em(s) == IF s = {} THEN 0
                       ELSE m[CHOOSE x \in s : TRUE] + it[s \ {CHOOSE x \in s : TRUE}]
               en(s) == IF s = {} THEN 0
                       ELSE n[CHOOSE x \in s : TRUE] + it[s \ {CHOOSE x \in s : TRUE}]
    <2>1. \A s \in SUBSET S : em(s) = en(s)  BY <1>1
    <2>2. [s \in SUBSET S |-> em(s)] = [s \in SUBSET S |-> en(s)]
      <3> HIDE DEF em, en
      <3>1. QED  BY <2>1
    <2>3. QED  BY <2>2 DEF Sums
  <1>3. QED  BY <1>2 DEF SumOf

\* The sums of size_t wrap the same whether they wrap at every step or at the end.
LEMMA SizeTSum ==
  ASSUME NEW i \in Int, NEW n \in Int
  PROVE  SizeT(SizeT(i) + n) = SizeT(i + n) /\ SizeT(SizeT(i) - n) = SizeT(i - n)
  <1> DEFINE m == Half * Half
  <1>1. m \in Nat /\ m # 0  BY MemleakAssumption DEF MemleakAssumption
  <1> HIDE DEF m
  <1>2. ASSUME NEW j \in Int, NEW k \in Int PROVE (j + k * m) % m = j % m
    <2> DEFINE p == j \div m
               q == (j + k * m) \div m
               r == j % m
               s == (j + k * m) % m
    <2>1. j + k * m \in Int  BY <1>1
    <2>2. p \in Int /\ r \in 0 .. m - 1 /\ j = p * m + r  BY <1>1
    <2>3. q \in Int /\ s \in 0 .. m - 1 /\ j + k * m = q * m + s  BY <1>1, <2>1
    <2> HIDE DEF p, q, r, s
    <2>4. (q - p - k) * m = r - s  BY <1>1, <2>2, <2>3
    <2>5. \A d \in Int : (d >= 1 => d * m >= m) /\ (d <= -1 => d * m <= -m)  BY <1>1
    <2>6. q - p - k = 0  BY <1>1, <2>2, <2>3, <2>4, <2>5
    <2>7. r = s  BY <1>1, <2>2, <2>3, <2>4, <2>6
    <2>8. QED  BY <2>7 DEF r, s
  <1>3. PICK k \in Int : i % m = i + k * m
    <2>1. i = (i \div m) * m + (i % m) /\ i \div m \in Int /\ i % m \in Int  BY <1>1
    <2>2. PICK d \in Int : i = d * m + (i % m)  BY <2>1
    <2>3. -d \in Int /\ (-d) * m = -(d * m) /\ d * m \in Int  BY <1>1
    <2>4. i % m = i + (-d) * m  BY <2>1, <2>2, <2>3
    <2>5. QED  BY <2>3, <2>4
  <1>4. k * m \in Int  BY <1>1
  <1>5. (i % m) + n = (i + n) + k * m /\ (i % m) - n = (i - n) + k * m  BY <1>3, <1>4
  <1>6. i + n \in Int /\ i - n \in Int  OBVIOUS
  <1>7. ((i % m) + n) % m = (i + n) % m  BY <1>2, <1>5, <1>6
  <1>8. ((i % m) - n) % m = (i - n) % m  BY <1>2, <1>5, <1>6
  <1>9. QED  BY <1>7, <1>8 DEF SizeT, m

\* What is asked for every block.
AskedFor == [b \in Blocks |-> Asked(b)]

\* The sum in MemTotalExact is the sum of what was asked.
LEMMA AskedSum ==
  ASSUME NEW S, S \subseteq Blocks
  PROVE  MapThenSumSet(Asked, S) = SumOf(AskedFor, S)
  <1> DEFINE P(it) == it = [s \in SUBSET S |->
                        IF s = {} THEN 0
                        ELSE Asked(CHOOSE x \in s : TRUE) + it[s \ {CHOOSE x \in s : TRUE}]]
  <1>1. MapThenSumSet(Asked, S) = (CHOOSE it : P(it))[S]
    BY DEF MapThenSumSet, MapThenFoldSet
  <1>2. \A s \in SUBSET S : s # {} =>
          AskedFor[CHOOSE x \in s : TRUE] = Asked(CHOOSE x \in s : TRUE)
    BY DEF AskedFor
  <1>3. ASSUME NEW it PROVE P(it) <=> Sums(it, AskedFor, S)
    <2> DEFINE em(s) == IF s = {} THEN 0
                        ELSE Asked(CHOOSE x \in s : TRUE) + it[s \ {CHOOSE x \in s : TRUE}]
               en(s) == IF s = {} THEN 0
                        ELSE AskedFor[CHOOSE x \in s : TRUE] + it[s \ {CHOOSE x \in s : TRUE}]
    <2>1. \A s \in SUBSET S : em(s) = en(s)  BY <1>2
    <2>2. [s \in SUBSET S |-> em(s)] = [s \in SUBSET S |-> en(s)]
      <3> HIDE DEF em, en
      <3>1. QED  BY <2>1
    <2>3. QED  BY <2>2 DEF Sums
  <1> HIDE DEF P
  <1>4. QED  BY <1>1, <1>3 DEF SumOf

-----------------------------------------------------------------------------
(* What was asked for a block that is charged stays what it is. *)

\* A block that is charged is one of the system's, on its way in or out in the hands
\* of one thread, or listed.
LEMMA ChargedBlock ==
  ASSUME IInv, NEW r, NEW b \in Charged(r)
  PROVE  /\ b \in Blocks
         /\ \/ block[b].state = "live" /\ Mangled(b)
            \/ block[b].state \in {"held", "freed"}
  <1>1. CASE b \in Blocks /\ Listed(b, r)  BY <1>1 DEF Listed
  <1>2. ASSUME NEW t \in Threads, Carries(t, r), blk[t] = b
        PROVE  b \in Blocks /\ block[b].state \in {"held", "freed"}
    <2>1. blk[t] # NoBlock  BY <1>2 DEF Carries, IInv, CallInv
    <2>2. blk[t] \in Blocks \cup {NoBlock}  BY DEF IInv, TypeInv
    <2>3. QED  BY <1>2, <2>1, <2>2 DEF IInv, HeapInv
  <1>3. QED  BY <1>1, <1>2, ChargedElements

\* Thread t is about to write the piggyback data of block b.
Stores(t, b) == pc[t] = "store" /\ blk[t] = b

\* Before its piggyback data are written the size is the one the thread has in hand.
LEMMA AskedIs ==
  ASSUME IInv, NEW b \in Blocks
  PROVE  /\ \A t \in Threads : Stores(t, b) => Asked(b) = size[t]
         /\ (\A t \in Threads : ~Stores(t, b)) => Asked(b) = block[b].size
         /\ Asked(b) \in Nat
  <1>0. b # NoBlock  BY MemleakAssumption DEF MemleakAssumption
  <1>1. ASSUME NEW t \in Threads, Stores(t, b) PROVE Asked(b) = size[t]
    <2>1. \A u \in Threads : Stores(u, b) => u = t
      BY <1>0, <1>1 DEF Stores, IInv, HeapInv
    <2>2. (CHOOSE u \in Threads : pc[u] = "store" /\ blk[u] = b) = t
      BY <1>1, <2>1 DEF Stores
    <2>3. QED  BY <1>1, <2>2 DEF Asked, Stores
  <1>2. ASSUME \A t \in Threads : ~Stores(t, b) PROVE Asked(b) = block[b].size
    BY <1>2 DEF Asked, Stores
  <1>3. block[b].size \in Nat /\ \A t \in Threads : size[t] \in Nat
    BY DEF IInv, TypeInv, Memory
  <1>4. QED  BY <1>1, <1>2, <1>3

\* What a step that does not touch any of it leaves.
LEMMA AskedStays ==
  ASSUME NEW b \in Blocks,
         \A t \in Threads : Stores(t, b)' <=> Stores(t, b),
         \A t \in Threads : Stores(t, b) => size'[t] = size[t],
         block'[b].size = block[b].size
  PROVE  Asked(b)' = Asked(b)
  <1>1. CASE \A t \in Threads : ~Stores(t, b)  BY <1>1 DEF Asked, Stores
  <1>2. CASE \E t \in Threads : Stores(t, b)
    <2> DEFINE c == CHOOSE t \in Threads : pc[t] = "store" /\ blk[t] = b
               d == CHOOSE t \in Threads : pc'[t] = "store" /\ blk'[t] = b
    <2>1. c = d  BY DEF Stores
    <2>2. c \in Threads /\ Stores(c, b)  BY <1>2 DEF Stores
    <2>3. Asked(b) = size[c]  BY <1>2 DEF Asked, Stores
    <2>4. Asked(b)' = size'[d]  BY <1>2 DEF Asked, Stores
    <2> HIDE DEF c, d
    <2>5. QED  BY <2>1, <2>2, <2>3, <2>4
  <1>3. QED  BY <1>1, <1>2

\* list_push_record, for every block but the one it is called with, and for that one.
LEMMA AskedPush ==
  ASSUME IInv, NEW t \in Threads, NEW q \in Nat, PushReturns(t, q),
         pc[t] \in {"search", "insert"}, block' = block, NEW b \in Blocks
  PROVE  Asked(b)' = IF b = blk[t] THEN size[t] ELSE Asked(b)
  <1>0. pc \in [Threads -> Labels]  BY DEF IInv, TypeInv
  <1>1. /\ pc' = [pc EXCEPT ![t] = IF blk[t] = NoBlock THEN "idle" ELSE "store"]
        /\ blk' = blk
        /\ \A u \in Threads : u # t => size'[u] = size[u]
    BY PushReturnsEffect DEF IInv
  <1>2. b # NoBlock  BY MemleakAssumption DEF MemleakAssumption
  <1>3. CASE b # blk[t]
    <2>1. \A u \in Threads : Stores(u, b)' <=> Stores(u, b)
      BY <1>0, <1>1, <1>3 DEF Stores
    <2>2. \A u \in Threads : Stores(u, b) => size'[u] = size[u]
      BY <1>1, <1>3 DEF Stores
    <2>3. QED  BY <1>3, <2>1, <2>2, AskedStays
  <1>4. CASE b = blk[t]
    <2>1. pc'[t] = "store" /\ blk'[t] = b  BY <1>0, <1>1, <1>2, <1>4
    <2>2. \A u \in Threads : blk'[u] = b => u = t  BY <1>1, <1>2, <1>4 DEF IInv, HeapInv
    <2>3. (CHOOSE u \in Threads : pc'[u] = "store" /\ blk'[u] = b) = t  BY <2>1, <2>2
    <2>4. size' = size  BY <1>2, <1>4 DEF PushReturns
    <2>5. Asked(b)' = size'[t]  BY <2>1, <2>3 DEF Asked
    <2>6. QED  BY <1>4, <2>4, <2>5
  <1>5. QED  BY <1>3, <1>4

\* The steps of the application, and of threads in a call.
LEMMA AskedCall ==
  ASSUME IInv, NEW t \in Threads, Call(t), NEW r, NEW b \in Charged(r)
  PROVE  Asked(b)' = Asked(b)
  <1> USE DEF Goto, locals
  <1>0. /\ pc \in [Threads -> Labels] /\ blk \in [Threads -> Blocks \cup {NoBlock}]
        /\ size \in [Threads -> Nat] /\ block \in [Blocks -> Memory]
    BY DEF IInv, TypeInv
  <1>1. b \in Blocks /\ \/ block[b].state = "live" /\ Mangled(b)
                        \/ block[b].state \in {"held", "freed"}
    BY ChargedBlock
  <1>2. CASE MallocUntracked(t) \/ FreeUntracked(t)
    <2>1. block'[b] = block[b]  BY <1>0, <1>1, <1>2 DEF MallocUntracked, FreeUntracked
    <2>2. UNCHANGED <<pc, blk, size>>  BY <1>2 DEF MallocUntracked, FreeUntracked
    <2>3. QED  BY <1>1, <2>1, <2>2, AskedStays DEF Stores
  <1>3. CASE Malloc(t) \/ PointRegister(t)
    <2>1. block'[b] = block[b]  BY <1>0, <1>1, <1>3 DEF Malloc, PointRegister
    <2>2. pc[t] = "idle" /\ pc' = [pc EXCEPT ![t] = "push"]
      BY <1>3 DEF Malloc, PointRegister
    <2>3. \A u \in Threads : u # t => blk'[u] = blk[u] /\ size'[u] = size[u]
      BY <1>0, <1>3 DEF Malloc, PointRegister
    <2>4. \A u \in Threads : (Stores(u, b)' <=> Stores(u, b))
                             /\ (Stores(u, b) => size'[u] = size[u])
      BY <1>0, <2>2, <2>3 DEF Stores
    <2>5. QED  BY <1>1, <2>1, <2>4, AskedStays
  <1>4. CASE Report(t) \/ Exit(t)
    <2>1. UNCHANGED <<block, blk, size>>  BY <1>4 DEF Report, Exit
    <2>2. \A u \in Threads : Stores(u, b)' <=> Stores(u, b)
      BY <1>0, <1>4, <2>1 DEF Report, Exit, Stores
    <2>3. QED  BY <1>1, <2>1, <2>2, AskedStays
  <1>5. CASE Free(t)
    <2>1. PICK c \in Blocks : /\ block' = [block EXCEPT ![c].state = "freed"]
                              /\ blk' = [blk EXCEPT ![t] = c]
      BY <1>5 DEF Free
    <2>2. pc[t] = "idle" /\ pc' = [pc EXCEPT ![t] = "free"] /\ size' = size
      BY <1>5 DEF Free
    <2>3. block'[b].size = block[b].size
      <3>1. CASE b = c  BY <1>0, <2>1, <3>1 DEF Memory
      <3>2. CASE b # c  BY <1>0, <1>1, <2>1, <3>2
      <3>3. QED  BY <3>1, <3>2
    <2>4. \A u \in Threads : Stores(u, b)' <=> Stores(u, b)
      BY <1>0, <2>1, <2>2 DEF Stores
    <2>5. QED  BY <1>1, <2>2, <2>3, <2>4, AskedStays
  <1>6. QED  BY <1>2, <1>3, <1>4, <1>5 DEF Call

LEMMA AskedStep ==
  ASSUME IInv, NEW t \in Threads, Step(t), NEW r \in 1 .. Len(records), NEW b \in Charged(r)
  PROVE  Asked(b)' = Asked(b)
  <1> USE DEF Goto, locals
  <1>0. /\ pc \in [Threads -> Labels] /\ blk \in [Threads -> Blocks \cup {NoBlock}]
        /\ size \in [Threads -> Nat] /\ block \in [Blocks -> Memory]
    BY DEF IInv, TypeInv
  <1>1. b \in Blocks /\ b # NoBlock
    BY ChargedBlock, MemleakAssumption DEF MemleakAssumption
  <1>2. CASE Found(t) \/ Insert(t)
    <2>1. PICK q \in Nat : PushReturns(t, q)
      <3>1. CASE Found(t)
        <4>1. alloc_list[list_it[t]] \in 1 .. Len(records)
          BY <3>1, ElementIsRecord DEF Found, IInv
        <4>2. QED  BY <3>1, <4>1 DEF Found
      <3>2. CASE Insert(t)
        <4>1. Len(records) + 1 \in Nat  BY DEF IInv, TypeInv
        <4>2. QED  BY <3>2, <4>1 DEF Insert
      <3>3. QED  BY <1>2, <3>1, <3>2
    <2>2. pc[t] \in {"search", "insert"} /\ block' = block  BY <1>2 DEF Found, Insert
    <2>3. b # blk[t]  BY <1>1, <2>2, HeldIsNotCharged
    <2>4. QED  BY <1>1, <2>1, <2>2, <2>3, AskedPush
  <1>3. CASE StorePiggyback(t)
    <2>1. PICK c \in Blocks : c = blk[t]
      BY <1>0, <1>3 DEF StorePiggyback, IInv, CallInv
    <2>2. /\ pc[t] = "store" /\ pc' = [pc EXCEPT ![t] = "idle"] /\ Return(t)
          /\ block' = [block EXCEPT ![c] = [state |-> "live", shift |-> PIGGYBACK_SIZE,
                                            record |-> record[t], size |-> size[t]]]
      BY <1>3, <2>1 DEF StorePiggyback
    <2>3. \A u \in Threads : u # t => /\ pc'[u] = pc[u] /\ blk'[u] = blk[u]
                                      /\ size'[u] = size[u]
      BY <1>0, <2>2 DEF Return
    <2>4. ~Stores(t, b)'  BY <1>0, <2>2 DEF Stores
    <2>5. CASE b = c
      <3>1. \A u \in Threads : ~Stores(u, b)'
        BY <1>1, <2>1, <2>3, <2>4, <2>5 DEF Stores, IInv, HeapInv
      <3>2. Asked(b)' = block'[b].size  BY <3>1 DEF Asked, Stores
      <3>3. block'[b].size = size[t]  BY <1>0, <2>2, <2>5
      <3>4. Asked(b) = size[t]  BY <1>1, <2>1, <2>2, <2>5, AskedIs DEF Stores
      <3>5. QED  BY <3>2, <3>3, <3>4
    <2>6. CASE b # c
      <3>1. block'[b] = block[b]  BY <1>0, <1>1, <2>2, <2>6
      <3>2. \A u \in Threads : (Stores(u, b)' <=> Stores(u, b))
                               /\ (Stores(u, b) => size'[u] = size[u])
        BY <2>1, <2>3, <2>4, <2>6 DEF Stores
      <3>3. QED  BY <1>1, <3>1, <3>2, AskedStays
    <2>7. QED  BY <2>5, <2>6
  <1>4. CASE Release(t)
    <2>1. pc[t] = "release" /\ pc' = [pc EXCEPT ![t] = "idle"] /\ Return(t)
          /\ block' = [block EXCEPT ![blk[t]] = Unused]
      BY <1>4 DEF Release
    <2>2. b # blk[t]
      <3>1. blk[t] # NoBlock  BY <2>1 DEF IInv, CallInv
      <3>2. QED  BY <2>1, <3>1, HeldIsNotCharged
    <2>3. block'[b] = block[b]  BY <1>0, <1>1, <2>1, <2>2
    <2>4. \A u \in Threads : (Stores(u, b)' <=> Stores(u, b))
                             /\ (Stores(u, b) => size'[u] = size[u])
      BY <1>0, <2>1 DEF Return, Stores
    <2>5. QED  BY <1>1, <2>3, <2>4, AskedStays
  <1>5. CASE FinishReport(t)
    <2>1. pc[t] = "line" /\ pc' = [pc EXCEPT ![t] = "idle"] /\ Return(t) /\ block' = block
      BY <1>5 DEF FinishReport
    <2>2. \A u \in Threads : (Stores(u, b)' <=> Stores(u, b))
                             /\ (Stores(u, b) => size'[u] = size[u])
      BY <1>0, <2>1 DEF Return, Stores
    <2>3. QED  BY <1>1, <2>1, <2>2, AskedStays
  <1>6. CASE LockPush(t) \/ Search(t) \/ MakeRecord(t) \/ RecordFails(t) \/ LockFree(t)
    <2>1. UNCHANGED <<block, blk, size>>
      BY <1>6 DEF LockPush, Search, MakeRecord, RecordFails, LockFree
    <2>2. \A u \in Threads : Stores(u, b)' <=> Stores(u, b)
      BY <1>0, <1>6, <2>1 DEF LockPush, Search, MakeRecord, RecordFails, LockFree, Stores
    <2>3. QED  BY <1>1, <2>1, <2>2, AskedStays
  <1>7. CASE Uncount(t) \/ LockReport(t) \/ SkipLine(t) \/ PrintLine(t) \/ ExitReport(t)
    <2>1. UNCHANGED <<block, blk, size>>
      BY <1>7 DEF Uncount, LockReport, SkipLine, PrintLine, ExitReport
    <2>2. \A u \in Threads : Stores(u, b)' <=> Stores(u, b)
      BY <1>0, <1>7, <2>1 DEF Uncount, LockReport, SkipLine, PrintLine, ExitReport, Stores
    <2>3. QED  BY <1>1, <2>1, <2>2, AskedStays
  <1>8. QED  BY <1>2, <1>3, <1>4, <1>5, <1>6, <1>7 DEF Step

\* No step changes what was asked for a block that is charged.
LEMMA AskedKept ==
  ASSUME IInv, [Next]_vars, NEW r \in 1 .. Len(records), NEW b \in Charged(r)
  PROVE  Asked(b)' = Asked(b)
  <1>1. CASE SetTracking \/ UNCHANGED vars
    <2>1. UNCHANGED <<pc, blk, size, block>>  BY <1>1 DEF SetTracking, vars, locals
    <2>2. b \in Blocks  BY ChargedBlock
    <2>3. QED  BY <2>1, <2>2, AskedStays DEF Stores
  <1>2. QED  BY <1>1, AskedCall, AskedStep DEF Next

-----------------------------------------------------------------------------
(* The sums of sizes. *)

\* The total of a record is the sum of what was asked for the blocks charged to it,
\* on the way in and on the way out too.
TotalInv ==
  \A r \in 1 .. Len(records) :
    /\ IsFiniteSet(Charged(r))
    /\ records[r].mem_total = SizeT(SumOf(AskedFor, Charged(r)))

\* An allocation adds its size to the total of a record that exists.
LEMMA FoundAdds ==
  ASSUME IInv, NEW t \in Threads, Found(t)
  PROVE  \E q \in 1 .. Len(records) :
           /\ PushReturns(t, q) /\ pc[t] = "search" /\ block' = block
           /\ Len(records') = Len(records)
           /\ \A r \in 1 .. Len(records) :
                records'[r].mem_total = IF r = q THEN SizeT(records[r].mem_total + size[t])
                                        ELSE records[r].mem_total
  <1>1. PICK q \in 1 .. Len(records) : q = alloc_list[list_it[t]]
    BY ElementIsRecord DEF Found, IInv
  <1>2. records[q] \in AllocRecord /\ records \in Seq(AllocRecord) /\ size[t] \in Nat
    BY <1>1 DEF IInv, TypeInv
  <1>3. /\ records' = [records EXCEPT ![q] = Counted(records[q], size[t])]
        /\ PushReturns(t, q) /\ pc[t] = "search" /\ block' = block
    BY <1>1 DEF Found
  <1>4. Counted(records[q], size[t]).mem_total = SizeT(records[q].mem_total + size[t])
    BY <1>2, CountedType
  <1>5. Len(records') = Len(records) /\ records'[q] = Counted(records[q], size[t])
        /\ \A r \in 1 .. Len(records) : r # q => records'[r] = records[r]
    BY <1>2, <1>3
  <1>6. QED  BY <1>3, <1>4, <1>5

\* A free takes off what was asked for its block.
LEMMA UncountTakes ==
  ASSUME ~Overlap, IInv, NEW t \in Threads, Uncount(t)
  PROVE  \E q \in 1 .. Len(records) :
           /\ q = record[t] /\ Len(records') = Len(records)
           /\ \A r \in 1 .. Len(records) :
                records'[r].mem_total = IF r = q THEN SizeT(records[r].mem_total - Asked(blk[t]))
                                        ELSE records[r].mem_total
  <1>0. pc[t] = "uncount" /\ blk[t] \in Blocks
    BY DEF Uncount, Goto, IInv, CallInv, TypeInv
  <1>1. PICK q \in 1 .. Len(records) : q = record[t]  BY <1>0 DEF IInv, CallInv
  <1>2. block[blk[t]].size = Asked(blk[t]) /\ Asked(blk[t]) \in Nat
    <2>1. blk[t] # NoBlock  BY <1>0, MemleakAssumption DEF MemleakAssumption
    <2>2. \A u \in Threads : ~Stores(u, blk[t])
      BY <1>0, <2>1 DEF Stores, IInv, HeapInv
    <2>3. QED  BY <1>0, <2>2, AskedIs
  <1>3. PICK n \in Nat : /\ n = Asked(blk[t])
                          /\ records' = [records EXCEPT ![record[t]] =
                                           Uncounted(records[record[t]], n)]
    <2>1. PICK n \in Nat : /\ n \in PiggybackSizes(blk[t])
                            /\ records' = [records EXCEPT ![record[t]] =
                                             Uncounted(records[record[t]], n)]
      BY UncountEffect DEF IInv
    <2>2. n = block[blk[t]].size
      <3>1. Half * 0 = 0  BY MemleakAssumption DEF MemleakAssumption
      <3>2. PiggybackSizes(blk[t]) = {block[blk[t]].size + 0}
        BY <3>1 DEF PiggybackSizes
      <3>3. QED  BY <1>2, <2>1, <3>2
    <2>3. QED  BY <1>2, <2>1, <2>2
  <1>4. records[q] \in AllocRecord /\ records \in Seq(AllocRecord)
    BY DEF IInv, TypeInv
  <1>5. records' = [records EXCEPT ![q] = Uncounted(records[q], n)]
    BY <1>1, <1>3
  <1>6. Uncounted(records[q], n).mem_total = SizeT(records[q].mem_total - n)
    BY <1>4, CountedType
  <1>7. Len(records') = Len(records) /\ records'[q] = Uncounted(records[q], n)
        /\ \A r \in 1 .. Len(records) : r # q => records'[r] = records[r]
    BY <1>4, <1>5
  <1>8. QED  BY <1>1, <1>3, <1>6, <1>7

\* What is asked for the blocks of a record is a number.
LEMMA AskedNumbers ==
  ASSUME IInv, NEW r
  PROVE  /\ Charged(r) \subseteq Blocks
         /\ \A b \in Charged(r) : AskedFor[b] = Asked(b) /\ AskedFor[b] \in Int
  <1>1. Charged(r) \subseteq Blocks  BY ChargedBlock
  <1>2. QED  BY <1>1, AskedIs DEF AskedFor

\* The sum over the blocks of a record when they, and what was asked for them, stay.
LEMMA SumKept ==
  ASSUME IInv, [Next]_vars, NEW r \in 1 .. Len(records)
  PROVE  SumOf(AskedFor', Charged(r)) = SumOf(AskedFor, Charged(r))
  <1>1. \A b \in Charged(r) : AskedFor'[b] = AskedFor[b]
    BY AskedKept, AskedNumbers DEF AskedFor
  <1>2. QED  BY <1>1, SumSame

\* The sum when a thread has counted its block.
LEMMA SumMore ==
  ASSUME IInv, NEW t \in Threads, NEW q \in Nat, PushReturns(t, q),
         pc[t] \in {"search", "insert"}, block' = block, blk[t] # NoBlock,
         NEW S, S \subseteq Blocks, IsFiniteSet(S), blk[t] \notin S
  PROVE  /\ SumOf(AskedFor, S) \in Int
         /\ SumOf(AskedFor', S \cup {blk[t]}) = SumOf(AskedFor, S) + size[t]
  <1>1. blk[t] \in Blocks /\ size[t] \in Nat  BY DEF IInv, TypeInv
  <1>2. \A b \in Blocks : AskedFor'[b] = IF b = blk[t] THEN size[t] ELSE AskedFor[b]
    BY AskedPush DEF AskedFor
  <1>3. \A b \in Blocks : AskedFor[b] \in Int  BY AskedIs DEF AskedFor
  <1> DEFINE T == S \cup {blk[t]}
  <1>4. IsFiniteSet(T)  BY FS_AddElement
  <1>5. \A b \in T : AskedFor'[b] \in Int  BY <1>1, <1>2, <1>3
  <1>6. T \ {blk[t]} = S /\ blk[t] \in T  OBVIOUS
  <1> HIDE DEF T
  <1>7. SumOf(AskedFor', T) = AskedFor'[blk[t]] + SumOf(AskedFor', S)
    BY <1>4, <1>5, <1>6, SumTakeAway
  <1>8. SumOf(AskedFor', S) = SumOf(AskedFor, S)  BY <1>2, SumSame
  <1>9. SumOf(AskedFor, S) \in Int  BY <1>3, SumTakeAway
  <1>10. QED  BY <1>1, <1>2, <1>7, <1>8, <1>9 DEF T

\* One charged, one added; one uncharged, one taken off.
LEMMA TotalNext ==
  ASSUME ~Overlap, IInv, TotalInv, [Next]_vars
  PROVE  TotalInv'
  <1>0. Len(records) \in Nat  BY DEF IInv, TypeInv
  <1> DEFINE Right(r) == /\ IsFiniteSet(Charged(r)')
                         /\ records'[r].mem_total = SizeT(SumOf(AskedFor', Charged(r)'))
  <1>a. ASSUME \A r \in 1 .. Len(records') : Right(r) PROVE TotalInv'
    BY <1>a DEF TotalInv
  <1>b. ASSUME NEW r \in 1 .. Len(records), Charged(r)' = Charged(r),
               records'[r].mem_total = records[r].mem_total
        PROVE  Right(r)
    BY <1>b, SumKept DEF TotalInv
  <1> HIDE DEF Right
  <1>1. CASE \A t \in Threads : ~Found(t) /\ ~Insert(t) /\ ~Uncount(t)
    <2>1. Len(records') = Len(records)  BY <1>1, ListKept
    <2>2. \A r \in 1 .. Len(records) : Right(r)  BY <1>1, <1>b, CountKept
    <2>3. QED  BY <1>a, <2>1, <2>2
  <1>2. ASSUME NEW t \in Threads, Found(t) PROVE TotalInv'
    <2>1. PICK q \in 1 .. Len(records) :
            /\ PushReturns(t, q) /\ pc[t] = "search" /\ block' = block
            /\ Len(records') = Len(records)
            /\ \A r \in 1 .. Len(records) :
                 records'[r].mem_total = IF r = q THEN SizeT(records[r].mem_total + size[t])
                                         ELSE records[r].mem_total
      BY <1>2, FoundAdds
    <2>2. ASSUME NEW r \in 1 .. Len(records) PROVE Right(r)
      <3>1. Charged(r)' = IF r = q /\ blk[t] # NoBlock THEN Charged(r) \cup {blk[t]}
                          ELSE Charged(r)
        BY <1>0, <2>1, ChargedMore
      <3>2. /\ IsFiniteSet(Charged(r)) /\ records[r].mem_total = SizeT(SumOf(AskedFor, Charged(r)))
            /\ Charged(r) \subseteq Blocks /\ \A b \in Charged(r) : AskedFor[b] \in Int
        BY AskedNumbers DEF TotalInv
      <3>3. PICK i \in Int : i = SumOf(AskedFor, Charged(r))  BY <3>2, SumTakeAway
      <3>4. CASE r # q  BY <1>b, <2>1, <3>1, <3>4
      <3>5. CASE r = q /\ blk[t] # NoBlock
        <4>1. blk[t] \notin Charged(r)  BY <2>1, <3>5, HeldIsNotCharged
        <4>2. SumOf(AskedFor', Charged(r) \cup {blk[t]}) = i + size[t]
          BY <1>0, <2>1, <3>2, <3>3, <3>5, <4>1, SumMore
        <4>3. size[t] \in Nat  BY DEF IInv, TypeInv
        <4>4. records'[r].mem_total = SizeT(i + size[t])
          <5>1. PICK n \in Int : n = size[t]  BY <4>3
          <5>2. SizeT(SizeT(i) + n) = SizeT(i + n)  BY SizeTSum
          <5>3. QED  BY <2>1, <3>2, <3>3, <3>5, <5>1, <5>2
        <4>5. IsFiniteSet(Charged(r) \cup {blk[t]})  BY <3>2, FS_AddElement
        <4>6. QED  BY <3>1, <3>5, <4>2, <4>4, <4>5 DEF Right
      <3>6. CASE r = q /\ blk[t] = NoBlock
        <4>1. size[t] = 0  BY <2>1, <3>6 DEF IInv, CallInv
        <4>2. records'[r].mem_total = SizeT(SizeT(i) + 0)  BY <2>1, <3>2, <3>3, <3>6, <4>1
        <4>3. SizeT(SizeT(i) + 0) = SizeT(i + 0)  BY SizeTSum
        <4>4. i + 0 = i  OBVIOUS
        <4>5. records'[r].mem_total = records[r].mem_total  BY <3>2, <3>3, <4>2, <4>3, <4>4
        <4>6. QED  BY <1>b, <3>1, <3>6, <4>5
      <3>7. QED  BY <3>4, <3>5, <3>6
    <2>3. QED  BY <1>a, <2>1, <2>2
  <1>3. ASSUME NEW t \in Threads, Insert(t) PROVE TotalInv'
    <2>0. PICK q \in Nat : q = Len(records) + 1  BY <1>0
    <2>1. /\ PushReturns(t, q) /\ pc[t] = "insert" /\ block' = block
          /\ Len(records') = q
          /\ \A r \in 1 .. Len(records) : records'[r] = records[r]
          /\ records'[q].mem_total = size[t]
      BY <1>0, <1>3, <2>0, ListGrows, NewRecord DEF Insert
    <2>2. ASSUME NEW r \in 1 .. Len(records) PROVE Right(r)
      <3>1. r # q /\ r \in Nat  BY <1>0, <2>0
      <3>2. Charged(r)' = Charged(r)  BY <2>1, <3>1, ChargedMore
      <3>3. QED  BY <1>b, <2>1, <3>2
    <2>3. Charged(q) = {}  BY <1>0, <2>0, NothingBeyond
    <2>4. Charged(q)' = IF blk[t] # NoBlock THEN {} \cup {blk[t]} ELSE {}
      BY <2>1, <2>3, ChargedMore
    <2>5. size[t] \in Nat /\ (blk[t] = NoBlock => size[t] = 0) /\ SizeT(size[t]) = size[t]
      <3>1. /\ size[t] \in Nat
            /\ IF blk[t] = NoBlock THEN size[t] = 0 ELSE size[t] \in Sizes
        BY <2>1 DEF IInv, CallInv, TypeInv
      <3>2. /\ Half \in Nat /\ Half > 0 /\ (size[t] = 0 \/ size[t] \in 0 .. Half - 1)
        BY <3>1, MemleakAssumption DEF MemleakAssumption
      <3>3. Half * Half \in Nat /\ Half * Half >= Half  BY <3>2
      <3>4. size[t] % (Half * Half) = size[t]
        <4> DEFINE m == Half * Half
        <4>1. m \in Nat /\ m > 0 /\ size[t] < m  BY <3>1, <3>2, <3>3
        <4> HIDE DEF m
        <4>2. size[t] % m = size[t]  BY <3>1, <4>1
        <4>3. QED  BY <4>2 DEF m
      <3>5. QED  BY <3>1, <3>4 DEF SizeT
    <2>6. Right(q)
      <3>1. CASE blk[t] # NoBlock
        <4>1. SumOf(AskedFor, {}) = 0  BY FS_EmptySet, SumTakeAway
        <4>2. SumOf(AskedFor', {} \cup {blk[t]}) = 0 + size[t]
          BY <2>1, <3>1, <4>1, FS_EmptySet, SumMore
        <4>3. IsFiniteSet({} \cup {blk[t]})  BY FS_EmptySet, FS_AddElement
        <4>4. 0 + size[t] = size[t]  BY <2>5
        <4>5. QED  BY <2>1, <2>4, <2>5, <3>1, <4>2, <4>3, <4>4 DEF Right
      <3>2. CASE blk[t] = NoBlock
        <4>1. SumOf(AskedFor', {}) = 0  BY FS_EmptySet, SumTakeAway
        <4>2. QED  BY <2>1, <2>4, <2>5, <3>2, <4>1, FS_EmptySet DEF Right
      <3>3. QED  BY <3>1, <3>2
    <2>7. \A r \in 1 .. Len(records') : r \in 1 .. Len(records) \/ r = q
      BY <1>0, <2>0, <2>1
    <2>8. QED  BY <1>a, <2>2, <2>6, <2>7
  <1>4. ASSUME NEW t \in Threads, Uncount(t) PROVE TotalInv'
    <2>1. PICK q \in 1 .. Len(records) :
            /\ q = record[t] /\ Len(records') = Len(records)
            /\ \A r \in 1 .. Len(records) :
                 records'[r].mem_total = IF r = q THEN SizeT(records[r].mem_total - Asked(blk[t]))
                                         ELSE records[r].mem_total
      BY <1>4, UncountTakes
    <2>2. ASSUME NEW r \in 1 .. Len(records) PROVE Right(r)
      <3>1. Charged(r)' = IF r = q THEN Charged(r) \ {blk[t]} ELSE Charged(r)
        BY <1>0, <1>4, <2>1, ChargedLess
      <3>2. /\ IsFiniteSet(Charged(r)) /\ records[r].mem_total = SizeT(SumOf(AskedFor, Charged(r)))
            /\ \A b \in Charged(r) : AskedFor[b] = Asked(b) /\ AskedFor[b] \in Int
        BY AskedNumbers DEF TotalInv
      <3>3. CASE r # q  BY <1>b, <2>1, <3>1, <3>3
      <3>4. CASE r = q
        <4> DEFINE rest == Charged(r) \ {blk[t]}
        <4>1. blk[t] \in Charged(r)  BY <1>0, <1>4, <2>1, <3>4, ChargedLess
        <4>2. IsFiniteSet(rest)  BY <3>2, FS_RemoveElement
        <4>3. PICK i \in Int : i = SumOf(AskedFor, rest)
          <5>1. \A b \in rest : AskedFor[b] \in Int  BY <3>2
          <5> HIDE DEF rest
          <5>2. QED  BY <4>2, <5>1, SumTakeAway
        <4>4. SumOf(AskedFor, Charged(r)) = Asked(blk[t]) + i
          BY <3>2, <4>1, <4>3, SumTakeAway
        <4>5. \A b \in rest : AskedFor'[b] = AskedFor[b]
          BY AskedKept, AskedNumbers DEF AskedFor
        <4> HIDE DEF rest
        <4>6. SumOf(AskedFor', rest) = i  BY <4>3, <4>5, SumSame
        <4>7. PICK n \in Int : n = Asked(blk[t])  BY <3>2, <4>1
        <4>8. SizeT(SizeT(n + i) - n) = SizeT((n + i) - n)  BY SizeTSum
        <4>9. (n + i) - n = i  OBVIOUS
        <4>10. records'[r].mem_total = SizeT(i)
          BY <2>1, <3>2, <3>4, <4>4, <4>7, <4>8, <4>9
        <4>11. Charged(r)' = rest  BY <3>1, <3>4 DEF rest
        <4>12. QED  BY <4>2, <4>6, <4>10, <4>11 DEF Right
      <3>5. QED  BY <3>3, <3>4
    <2>3. QED  BY <1>a, <2>1, <2>2
  <1>5. QED  BY <1>1, <1>2, <1>3, <1>4

\* The totals start with the records.
LEMMA TotalInit == Init => TotalInv
  BY DEF Init, TotalInv

\* The total of a site is the sum of the sizes asked for its blocks that are out,
\* whatever threads allocate and free at the same time, on a machine whose piggyback
\* area has room for the size (elsewhere the application overwrites its upper half).
THEOREM TotalsExact == ASSUME ~Overlap PROVE Spec => []MemTotalExact
  <1>1. IInv /\ TotalInv /\ [Next]_vars => (IInv /\ TotalInv)'
    BY InductiveNext, TotalNext
  <1>2. ASSUME IInv, TotalInv PROVE MemTotalExact
    <2>1. DOMAIN records = 1 .. Len(records)  BY <1>2 DEF IInv, TypeInv
    <2>2. ASSUME NEW r \in 1 .. Len(records)
          PROVE  records[r].mem_total = SizeT(MapThenSumSet(Asked, Charged(r)))
      <3>1. MapThenSumSet(Asked, Charged(r)) = SumOf(AskedFor, Charged(r))
        BY <1>2, AskedNumbers, AskedSum
      <3>2. QED  BY <1>2, <3>1 DEF TotalInv
    <2>3. QED  BY <2>1, <2>2 DEF MemTotalExact
  <1>3. QED  BY InductiveInit, TotalInit, <1>1, <1>2, PTL DEF Spec
=============================================================================
