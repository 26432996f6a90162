------------------------- MODULE VsprintBuffersProofs -------------------------
(***************************************************************************)
(* Proofs about the formatting buffers, for any number of threads and of   *)
(* containers.  The last theorem is a counting argument: a walk leaves a   *)
(* container behind only because somebody else owns it and stays there, so *)
(* of n - i threads at or past container i one never moves on, and with no *)
(* more calls than containers nobody walks off the end of the ring.        *)
(***************************************************************************)
EXTENDS VsprintBuffers, FiniteSetTheorems, TLAPS

\* A ring has at least one container.
LEMMA EffectivePositive ==
  ASSUME NEW n \in Counts PROVE Effective(n) \in Nat \ {0}
  BY BufferAssumption DEF BufferAssumption, Effective

\* The flags of a ring just built: false but for the one the memset hits.
LEMMA FreshOwn ==
  ASSUME NEW n \in Nat \ {0}
  PROVE  /\ FreshFlags(n) \in [0 .. n - 1 -> BOOLEAN]
         /\ \A c \in 0 .. n - 1 : FreshFlags(n)[c] => c \in Poisoned(n)
         /\ \A c \in Poisoned(n) : FreshFlags(n)[c]
  <1>1. FreshFlags(n) = [c \in 0 .. n - 1 |-> c \in Poisoned(n)]  BY DEF FreshFlags
  <1>2. Poisoned(n) \subseteq 0 .. n - 1  BY DEF Poisoned
  <1>3. \A c \in 0 .. n - 1 : FreshFlags(n)[c] = (c \in Poisoned(n))  BY <1>1, Zenon
  <1>4. FreshFlags(n) \in [0 .. n - 1 -> BOOLEAN]
    <2>1. \A c \in 0 .. n - 1 : (c \in Poisoned(n)) \in BOOLEAN  OBVIOUS
    <2>2. QED  BY <1>1, <2>1, Zenon
  <1>5. QED  BY <1>2, <1>3, <1>4, Zenon

\* The first ring has the types of TypeOK.
LEMMA TypeInit == Init => TypeOK
  <1> SUFFICES ASSUME Init PROVE TypeOK  OBVIOUS
  <1>1. max_threads \in Nat \ {0}  BY EffectivePositive DEF Init
  <1>2. in_use \in [0 .. max_threads - 1 -> BOOLEAN]  BY <1>1, FreshOwn DEF Init
  <1>3. QED  BY <1>1, <1>2 DEF Init, TypeOK, FreshTexts

\* TypeOK is inductive.
LEMMA TypeNext == TypeOK /\ [Next]_vars => TypeOK'
  <1> SUFFICES ASSUME TypeOK, [Next]_vars PROVE TypeOK'  OBVIOUS
  <1> USE DEF TypeOK, Goto
  <1>1. ASSUME NEW t \in Threads, Call(t) PROVE TypeOK'
    BY <1>1 DEF Call
  <1>2. ASSUME NEW t \in Threads, Step(t) PROVE TypeOK'
    <2>1. CASE Grab(t)          BY <2>1 DEF Grab
    <2>2. CASE Skip(t)          BY <2>2 DEF Skip, Following
    <2>3. CASE Vsnprintf(t)     BY <2>3 DEF Vsnprintf
    <2>4. CASE EnterTracept(t)  BY <2>4 DEF EnterTracept
    <2>5. CASE LeaveTracept(t)  BY <2>5 DEF LeaveTracept
    <2>6. CASE Clear(t)         BY <2>6 DEF Clear
    <2>7. QED  BY <1>2, <2>1, <2>2, <2>3, <2>4, <2>5, <2>6 DEF Step
  <1>3. ASSUME NEW n \in Counts, RefuseCount(n) PROVE TypeOK'
    BY <1>3 DEF RefuseCount
  <1>4. ASSUME NEW n \in Counts, Reconfigure(n) PROVE TypeOK'
    BY <1>4, EffectivePositive, FreshOwn DEF Reconfigure, FreshTexts, Busy
  <1>5. CASE UNCHANGED vars  BY <1>5 DEF vars
  <1>6. QED  BY <1>1, <1>2, <1>3, <1>4, <1>5 DEF Next, Dead

\* Every variable keeps its type.
THEOREM TypeCorrect == Spec => []TypeOK
  BY TypeInit, TypeNext, PTL DEF Spec

-----------------------------------------------------------------------------
(* Ownership.  Every flag that is set belongs to one caller, or to nobody   *)
(* because runtrace_reconfigure overwrote it.                               *)

OwnInv ==
  /\ \A t \in Threads : container[t] < max_threads /\ (pc[t] = "idle" => container[t] = 0)
  /\ \A t \in Holders : in_use[container[t]] /\ container[t] \notin Poisoned(max_threads)
  /\ \A t, u \in Holders : container[t] = container[u] => t = u
  /\ \A t \in Threads : pc[t] \in {"trace", "locked"} => buf[container[t]] = t
  /\ \A c \in Poisoned(max_threads) : in_use[c]
  /\ \A c \in 0 .. max_threads - 1 :
       in_use[c] => c \in Poisoned(max_threads) \/ \E t \in Holders : container[t] = c

\* At first nobody owns a container.
LEMMA OwnInit == Init => OwnInv
  <1> SUFFICES ASSUME Init PROVE OwnInv  OBVIOUS
  <1>1. max_threads \in Nat \ {0}  BY TypeInit DEF TypeOK
  <1>2. Holders = {}  BY DEF Init, Holders
  <1>3. QED  BY <1>1, <1>2, FreshOwn DEF Init, OwnInv

\* The steps of tpprintf preserve ownership.
LEMMA OwnStep ==
  ASSUME TypeOK, OwnInv, NEW t \in Threads, Step(t)
  PROVE  OwnInv'
  <1> USE DEF TypeOK, OwnInv, Goto, Holders
  <1>1. CASE Grab(t)  BY <1>1 DEF Grab
  <1>2. CASE Skip(t)          BY <1>2 DEF Skip, Following
  <1>3. CASE Vsnprintf(t)     BY <1>3 DEF Vsnprintf
  <1>4. CASE EnterTracept(t)  BY <1>4 DEF EnterTracept
  <1>5. CASE LeaveTracept(t)  BY <1>5 DEF LeaveTracept
  <1>6. CASE Clear(t)         BY <1>6 DEF Clear
  <1>7. QED  BY <1>1, <1>2, <1>3, <1>4, <1>5, <1>6 DEF Step

\* OwnInv is inductive when reconfigurations are kept apart.
LEMMA OwnNext ==
  ASSUME ~ReconfigureAnyTime
  PROVE  TypeOK /\ OwnInv /\ [Next]_vars => OwnInv'
  <1> SUFFICES ASSUME TypeOK, OwnInv, [Next]_vars PROVE OwnInv'  OBVIOUS
  <1> USE DEF TypeOK, Goto
  <1>1. ASSUME NEW t \in Threads, Call(t) PROVE OwnInv'
    <2>1. Holders' = Holders /\ t \notin Holders  BY <1>1 DEF Call, Holders
    <2>2. /\ UNCHANGED <<in_use, buf, max_threads>>
          /\ container' = [container EXCEPT ![t] = 0]
          /\ pc' = [pc EXCEPT ![t] = "grab"]
      BY <1>1 DEF Call
    <2>3. \A u \in Holders : u \in Threads /\ container'[u] = container[u]
      BY <2>1, <2>2 DEF Holders
    <2>4. \A u \in Threads : container'[u] < max_threads
      BY <2>2 DEF OwnInv
    <2>5. QED  BY <2>1, <2>2, <2>3, <2>4 DEF OwnInv
  <1>2. ASSUME NEW n \in Counts, RefuseCount(n) PROVE OwnInv'
    BY <1>2 DEF RefuseCount, OwnInv, Holders
  <1>3. ASSUME NEW n \in Counts, Reconfigure(n) PROVE OwnInv'
    <2>1. max_threads' \in Nat \ {0}  BY <1>3, EffectivePositive DEF Reconfigure
    <2>2. \A t \in Threads : pc'[t] = "idle"  BY <1>3 DEF Reconfigure, Busy
    <2>3. Holders' = {} /\ \A t \in Threads : container'[t] = 0
      BY <1>3, <2>2 DEF Reconfigure, Holders, OwnInv
    <2>4. QED  BY <1>3, <2>1, <2>2, <2>3, FreshOwn DEF Reconfigure, OwnInv
  <1>4. CASE UNCHANGED vars  BY <1>4 DEF vars, OwnInv, Holders
  <1>5. QED  BY OwnStep, <1>1, <1>2, <1>3, <1>4 DEF Next, Dead

\* A caller's text is its own until make_tracept has copied it, as long as
\* runtrace_reconfigure is kept apart from tpprintf.
THEOREM TextSafe ==
  ASSUME ~ReconfigureAnyTime
  PROVE  Spec => []TextIsOwn
  <1>1. OwnInv => TextIsOwn  BY DEF OwnInv, TextIsOwn
  <1>2. QED  BY TypeInit, TypeNext, OwnInit, OwnNext, <1>1, PTL DEF Spec

-----------------------------------------------------------------------------
(* Counting.  AtOrPast(i) is everyone who may still want one of the last    *)
(* containers, from the i-th on: callers standing there, and the phantom    *)
(* that owns the overwritten flag.                                          *)

AtOrPast(i) ==
  {t \in Busy : container[t] >= i}
    \cup {x \in {Nobody} : \E c \in Poisoned(max_threads) : c >= i}

CountInv ==
  ~crowded => /\ ~vspb_underrun_notice
              /\ \A i \in 0 .. max_threads : Cardinality(AtOrPast(i)) + i <= max_threads

\* The callers counted are finitely many.
LEMMA AtOrPastFinite ==
  ASSUME NEW i
  PROVE  IsFiniteSet(AtOrPast(i)) /\ Cardinality(AtOrPast(i)) \in Nat
  <1>1. AtOrPast(i) \subseteq Threads \cup {Nobody}  BY DEF AtOrPast, Busy
  <1>2. IsFiniteSet(Threads \cup {Nobody})
    BY BufferAssumption, FS_AddElement DEF BufferAssumption
  <1>3. QED  BY <1>1, <1>2, FS_Subset, FS_CardinalityType

\* With nobody calling, the phantom alone never fills the ring.
LEMMA QuietCount ==
  ASSUME NEW n \in Nat \ {0}, NEW i \in 0 .. n
  PROVE  Cardinality({x \in {Nobody} : \E c \in Poisoned(n) : c >= i}) + i <= n
  <1> DEFINE P == {x \in {Nobody} : \E c \in Poisoned(n) : c >= i}
  <1>1. CASE n >= 3 /\ i <= 2
    <2>1. P = {Nobody}  BY <1>1 DEF Poisoned
    <2>2. Cardinality(P) = 1  BY <2>1, FS_Singleton
    <2>3. QED  BY <1>1, <2>2
  <1>2. CASE ~(n >= 3 /\ i <= 2)
    <2>1. P = {}  BY <1>2 DEF Poisoned
    <2>2. Cardinality(P) = 0  BY <2>1, FS_EmptySet
    <2>3. QED  BY <2>2
  <1>3. QED  BY <1>1, <1>2

\* Nobody walks the first ring.
LEMMA CountInit == Init => CountInv
  <1> SUFFICES ASSUME Init PROVE CountInv  OBVIOUS
  <1>1. max_threads \in Nat \ {0}  BY TypeInit DEF TypeOK
  <1>2. Busy = {}  BY DEF Init, Busy
  <1>3. \A i : AtOrPast(i) = {x \in {Nobody} : \E c \in Poisoned(max_threads) : c >= i}
    BY <1>2 DEF AtOrPast
  <1>4. QED  BY <1>1, <1>3, QuietCount DEF Init, CountInv

\* A step after which at most the same callers are at or past each container.
LEMMA CountFrame ==
  ASSUME TypeOK, CountInv, UNCHANGED <<max_threads, vspb_underrun_notice, crowded>>,
         \A i \in 0 .. max_threads : AtOrPast(i)' \subseteq AtOrPast(i)
  PROVE  CountInv'
  <1>1. ASSUME NEW i \in 0 .. max_threads
        PROVE  Cardinality(AtOrPast(i)') <= Cardinality(AtOrPast(i))
               /\ Cardinality(AtOrPast(i)') \in Nat
    BY AtOrPastFinite, FS_Subset, FS_CardinalityType
  <1>2. QED  BY <1>1, AtOrPastFinite DEF CountInv, TypeOK

\* Somebody other than a walk that finds a container taken owns that container.
LEMMA OwnerThere ==
  ASSUME TypeOK, OwnInv, NEW t \in Threads, Skip(t)
  PROVE  \E h \in AtOrPast(container[t]) :
           h # t /\ h \notin {u \in Threads : container[u] > container[t]}
             /\ (h = Nobody => container[t] \in Poisoned(max_threads))
  <1> DEFINE c == container[t]
  <1>1. c \in 0 .. max_threads - 1 /\ in_use[c] /\ pc[t] = "grab"
    BY DEF Skip, Goto, OwnInv, TypeOK
  <1>2. CASE c \in Poisoned(max_threads)
    <2>1. Nobody \in AtOrPast(c)  BY <1>1, <1>2 DEF AtOrPast
    <2>2. QED  BY <1>2, <2>1, BufferAssumption DEF BufferAssumption
  <1>3. CASE \E h \in Holders : container[h] = c
    <2>1. PICK h \in Holders : container[h] = c  BY <1>3
    <2>2. h \in Busy /\ h # t /\ h # Nobody
      BY <1>1, <2>1, BufferAssumption DEF Holders, Busy, BufferAssumption
    <2>3. h \in AtOrPast(c)  BY <1>1, <2>1, <2>2 DEF AtOrPast
    <2>4. QED  BY <1>1, <2>1, <2>2, <2>3
  <1>4. QED  BY <1>1, <1>2, <1>3 DEF OwnInv

\* The step that matters: a walk passes a container that somebody owns, so there
\* is one more caller behind it than it had counted on.
LEMMA CountSkip ==
  ASSUME TypeOK, OwnInv, CountInv, NEW t \in Threads, Skip(t)
  PROVE  CountInv'
  <1> DEFINE c == container[t]
  <1>1. c \in 0 .. max_threads - 1 /\ pc[t] = "grab"
    BY DEF Skip, Goto, OwnInv, TypeOK
  <1>2. SUFFICES ASSUME ~crowded PROVE CountInv'  BY DEF CountInv, Skip
  <1>3. PICK h \in AtOrPast(c) :
          h # t /\ h \notin {u \in Threads : container[u] > c}
            /\ (h = Nobody => c \in Poisoned(max_threads))
    BY OwnerThere
  <1>4. t \in AtOrPast(c)  BY <1>1 DEF AtOrPast, Busy
  <1>5. Cardinality(AtOrPast(c)) + c <= max_threads  BY <1>1, <1>2 DEF CountInv, TypeOK
  <1>6. c + 1 < max_threads
    <2>1. Cardinality(AtOrPast(c)) >= 2
      <3>1. Cardinality({t, h}) = 2
        <4>1. IsFiniteSet({t}) /\ Cardinality({t}) = 1  BY FS_Singleton
        <4>2. {t, h} = {t} \cup {h}  OBVIOUS
        <4>3. QED  BY <1>3, <4>1, <4>2, FS_AddElement
      <3>2. {t, h} \subseteq AtOrPast(c)  BY <1>3, <1>4
      <3>3. QED  BY <3>1, <3>2, AtOrPastFinite, FS_Subset
    <2>2. QED  BY <1>1, <1>5, <2>1, AtOrPastFinite DEF TypeOK
  <1>7. /\ container' = [container EXCEPT ![t] = c + 1]
        /\ UNCHANGED <<max_threads, vspb_underrun_notice, crowded>>
        /\ Busy' = Busy
    <2>1. Following(c) = c + 1 /\ Following(c) # 0
      BY <1>1, <1>6 DEF Following, TypeOK
    <2>2. vspb_underrun_notice' = vspb_underrun_notice
      BY <2>1 DEF Skip, TypeOK
    <2>3. Busy' = Busy  BY <1>1 DEF Skip, Goto, Busy, TypeOK
    <2>4. QED  BY <2>1, <2>2, <2>3 DEF Skip
  <1>8. SUFFICES ASSUME NEW i \in 0 .. max_threads
                 PROVE  Cardinality(AtOrPast(i)') + i <= max_threads
    BY <1>2, <1>7 DEF CountInv
  <1>9. CASE i # c + 1
    <2>1. AtOrPast(i)' = AtOrPast(i)
      BY <1>1, <1>7, <1>9 DEF AtOrPast, TypeOK, Busy
    <2>2. QED  BY <1>2, <2>1 DEF CountInv
  <1>10. CASE i = c + 1
    <2>1. AtOrPast(i)' \subseteq AtOrPast(c) \ {h}
      <3>1. ASSUME NEW u \in Threads, u \in AtOrPast(i)'
            PROVE  u \in AtOrPast(c) \ {h}
        <4>1. u \in Busy /\ (u = t \/ container[u] >= c + 1)
          BY <1>7, <1>10, <3>1, BufferAssumption DEF AtOrPast, Busy, TypeOK, BufferAssumption
        <4>2. u # h  BY <1>1, <1>3, <4>1 DEF TypeOK
        <4>3. QED  BY <1>1, <1>4, <4>1, <4>2 DEF AtOrPast, TypeOK
      <3>2. ASSUME Nobody \in AtOrPast(i)'
            PROVE  Nobody \in AtOrPast(c) \ {h}
        <4>1. \E d \in Poisoned(max_threads) : d >= c + 1
          BY <1>7, <1>10, <3>2, BufferAssumption DEF AtOrPast, Busy, BufferAssumption
        <4>2. c \notin Poisoned(max_threads) /\ \E d \in Poisoned(max_threads) : d >= c
          BY <1>1, <4>1 DEF Poisoned
        <4>3. QED  BY <1>3, <4>2 DEF AtOrPast
      <3>3. AtOrPast(i)' \subseteq Threads \cup {Nobody}  BY <1>7 DEF AtOrPast, Busy
      <3>4. QED  BY <3>1, <3>2, <3>3
    <2>2. Cardinality(AtOrPast(c) \ {h}) = Cardinality(AtOrPast(c)) - 1
          /\ IsFiniteSet(AtOrPast(c) \ {h})
      BY <1>3, AtOrPastFinite, FS_RemoveElement
    <2>3. Cardinality(AtOrPast(i)') <= Cardinality(AtOrPast(c)) - 1
          /\ Cardinality(AtOrPast(i)') \in Nat
      BY <2>1, <2>2, FS_Subset, FS_CardinalityType
    <2>4. QED  BY <1>1, <1>5, <1>10, <2>3, AtOrPastFinite DEF TypeOK
  <1>11. QED  BY <1>9, <1>10

\* A new call starts at the first container.
LEMMA CountCall ==
  ASSUME TypeOK, OwnInv, CountInv, NEW t \in Threads, Call(t)
  PROVE  CountInv'
  <1>1. SUFFICES ASSUME ~crowded' PROVE CountInv'  BY DEF CountInv
  <1>2. /\ ~crowded /\ Cardinality(Busy) + 1 <= Usable(max_threads)
        /\ UNCHANGED <<max_threads, vspb_underrun_notice>>
    <2>1. ~crowded /\ ~(Cardinality(Busy) + 1 > Usable(max_threads))  BY <1>1 DEF Call
    <2>2. Cardinality(Busy) \in Nat /\ Usable(max_threads) \in Int
      <3>1. IsFiniteSet(Busy)  BY BufferAssumption, FS_Subset DEF BufferAssumption, Busy
      <3>2. Cardinality(Poisoned(max_threads)) \in Nat
        BY FS_EmptySet, FS_Singleton DEF Poisoned
      <3>3. QED  BY <3>1, <3>2, FS_CardinalityType DEF Usable, TypeOK
    <2>3. QED  BY <2>1, <2>2 DEF Call
  <1>3. Busy' = Busy \cup {t} /\ t \notin Busy /\ container' = [container EXCEPT ![t] = 0]
    BY DEF Call, Goto, Busy, TypeOK
  <1>4. SUFFICES ASSUME NEW i \in 0 .. max_threads
                 PROVE  Cardinality(AtOrPast(i)') + i <= max_threads
    BY <1>1, <1>2 DEF CountInv
  <1>5. CASE i > 0
    <2>1. AtOrPast(i)' = AtOrPast(i)
      BY <1>2, <1>3, <1>5 DEF AtOrPast, TypeOK, Busy
    <2>2. QED  BY <1>2, <2>1 DEF CountInv
  <1>6. CASE i = 0
    <2> DEFINE P == {x \in {Nobody} : \E c \in Poisoned(max_threads) : c >= 0}
    <2>1. AtOrPast(i)' \subseteq (Busy \cup {t}) \cup P
      BY <1>2, <1>3, <1>6 DEF AtOrPast, Busy
    <2>2. IsFiniteSet(Busy \cup {t}) /\ Cardinality(Busy \cup {t}) <= Usable(max_threads)
          /\ Cardinality(Busy \cup {t}) \in Nat
      <3>1. IsFiniteSet(Busy)  BY BufferAssumption, FS_Subset DEF BufferAssumption, Busy
      <3>2. IsFiniteSet(Busy \cup {t}) /\ Cardinality(Busy \cup {t}) = Cardinality(Busy) + 1
        BY <1>3, <3>1, FS_AddElement
      <3>3. Cardinality(Busy \cup {t}) \in Nat  BY <3>2, FS_CardinalityType
      <3>4. QED  BY <1>2, <3>2, <3>3
    <2>3. Cardinality((Busy \cup {t}) \cup P) <= max_threads
          /\ IsFiniteSet((Busy \cup {t}) \cup P)
      <3>1. CASE max_threads >= 3
        <4>1. P = {Nobody} /\ Poisoned(max_threads) = {2}  BY <3>1 DEF Poisoned
        <4>2. Usable(max_threads) = max_threads - 1  BY <4>1, FS_Singleton DEF Usable
        <4>3. Nobody \notin Busy \cup {t}
          BY BufferAssumption DEF BufferAssumption, Busy
        <4>4. IsFiniteSet((Busy \cup {t}) \cup P)
              /\ Cardinality((Busy \cup {t}) \cup P) = Cardinality(Busy \cup {t}) + 1
          <5> HIDE DEF P
          <5>1. QED  BY <2>2, <4>1, <4>3, FS_AddElement
        <4>5. QED  BY <2>2, <4>2, <4>4 DEF TypeOK
      <3>2. CASE ~(max_threads >= 3)
        <4>1. P = {} /\ Poisoned(max_threads) = {}  BY <3>2 DEF Poisoned
        <4>2. Usable(max_threads) = max_threads  BY <4>1, FS_EmptySet DEF Usable, TypeOK
        <4>3. (Busy \cup {t}) \cup P = Busy \cup {t}  BY <4>1
        <4>4. QED  BY <2>2, <4>2, <4>3
      <3>3. QED  BY <3>1, <3>2
    <2>4. Cardinality(AtOrPast(i)') <= Cardinality((Busy \cup {t}) \cup P)
          /\ Cardinality(AtOrPast(i)') \in Nat /\ Cardinality((Busy \cup {t}) \cup P) \in Nat
      BY <2>1, <2>3, FS_Subset, FS_CardinalityType
    <2>5. QED  BY <1>6, <2>3, <2>4 DEF TypeOK
  <1>7. QED  BY <1>5, <1>6

\* The other steps of tpprintf move nobody back.
LEMMA CountStep ==
  ASSUME TypeOK, OwnInv, CountInv, NEW t \in Threads, Step(t)
  PROVE  CountInv'
  <1> USE DEF Goto
  <1>1. CASE Grab(t) \/ Vsnprintf(t) \/ EnterTracept(t) \/ LeaveTracept(t)
    <2>1. /\ UNCHANGED <<max_threads, vspb_underrun_notice, crowded, container>>
          /\ Busy' = Busy
      BY <1>1 DEF Grab, Vsnprintf, EnterTracept, LeaveTracept, Busy, TypeOK
    <2>2. \A i : AtOrPast(i)' = AtOrPast(i)  BY <2>1 DEF AtOrPast
    <2>3. QED  BY <2>1, <2>2, CountFrame
  <1>2. CASE Skip(t)  BY <1>2, CountSkip
  <1>3. CASE Clear(t)
    <2>1. /\ UNCHANGED <<max_threads, vspb_underrun_notice, crowded>>
          /\ Busy' = Busy \ {t}
          /\ \A u \in Busy' : container'[u] = container[u]
      BY <1>3 DEF Clear, Busy, TypeOK
    <2>2. \A i : AtOrPast(i)' \subseteq AtOrPast(i)  BY <2>1 DEF AtOrPast
    <2>3. QED  BY <2>1, <2>2, CountFrame
  <1>4. QED  BY <1>1, <1>2, <1>3 DEF Step

\* CountInv is inductive.
LEMMA CountNext ==
  ASSUME ~ReconfigureAnyTime
  PROVE  TypeOK /\ OwnInv /\ CountInv /\ [Next]_vars => CountInv'
  <1> SUFFICES ASSUME TypeOK, OwnInv, CountInv, [Next]_vars PROVE CountInv'  OBVIOUS
  <1>1. ASSUME NEW n \in Counts, RefuseCount(n) PROVE CountInv'
    <2>1. UNCHANGED <<max_threads, vspb_underrun_notice, crowded, container, pc>>
      BY <1>1 DEF RefuseCount
    <2>2. \A i : AtOrPast(i)' = AtOrPast(i)  BY <2>1 DEF AtOrPast, Busy
    <2>3. QED  BY <2>1, <2>2, CountFrame
  <1>2. ASSUME NEW n \in Counts, Reconfigure(n) PROVE CountInv'
    <2>1. max_threads' \in Nat \ {0}  BY <1>2, EffectivePositive DEF Reconfigure
    <2>2. Busy' = {}  BY <1>2 DEF Reconfigure, Busy
    <2>3. \A i : AtOrPast(i)' = {x \in {Nobody} : \E c \in Poisoned(max_threads') : c >= i}
      BY <2>2 DEF AtOrPast, Poisoned
    <2>4. UNCHANGED <<vspb_underrun_notice, crowded>>  BY <1>2 DEF Reconfigure
    <2>5. QED  BY <2>1, <2>3, <2>4, QuietCount DEF CountInv
  <1>3. CASE UNCHANGED vars
    <2>1. UNCHANGED <<max_threads, vspb_underrun_notice, crowded, container, pc>>
      BY <1>3 DEF vars
    <2>2. \A i : AtOrPast(i)' = AtOrPast(i)  BY <2>1 DEF AtOrPast, Busy
    <2>3. QED  BY <2>1, <2>2, CountFrame
  <1>4. QED  BY CountCall, CountStep, <1>1, <1>2, <1>3 DEF Next, Dead

\* The underrun notice is never raised while there was a usable container for
\* every call, however containers are freed and taken behind a walk.
THEOREM NoticeIsFair ==
  ASSUME ~ReconfigureAnyTime
  PROVE  Spec => []NoticeNeedsCrowd
  <1>1. CountInv => NoticeNeedsCrowd  BY DEF CountInv, NoticeNeedsCrowd
  <1>2. QED
    BY TypeInit, TypeNext, OwnInit, OwnNext, CountInit, CountNext, <1>1, PTL DEF Spec
=============================================================================
