---------------------------- MODULE VsprintBuffers ----------------------------
(***************************************************************************)
(* The formatting buffers of runtrace (struct vspb_container and tpprintf  *)
(* in runtrace/runtrace.c).  Every tpprintf walks the ring of max_threads  *)
(* containers from the first one, takes the first whose in_use flag it     *)
(* sets, formats its text there, has make_tracept copy the text under the  *)
(* read lock, and clears the flag.  runtrace_reconfigure frees the ring    *)
(* and builds another one under the write lock.                            *)
(*                                                                         *)
(* A text is the thread that formatted it.  A call with fmt = NULL takes   *)
(* no container and is left out.                                           *)
(***************************************************************************)
EXTENDS Integers, FiniteSets

CONSTANTS
  Threads,            \* threads that call tpprintf
  Counts,             \* the nr_of_threads given to runtrace_reconfigure
  Kernel,             \* TRUE: the __KERNEL__ build, FALSE: the user space one
  ReconfigureAnyTime, \* FALSE: the caller keeps it apart from tpprintf
  Nobody              \* the owner of a text that was never formatted

ASSUME BufferAssumption ==
  /\ IsFiniteSet(Threads)
  /\ Counts \subseteq Nat
  /\ Kernel \in BOOLEAN /\ ReconfigureAnyTime \in BOOLEAN
  /\ Nobody \notin Threads

VARIABLES
  max_threads,
  in_use, buf,           \* of vsprint_buffer[0 .. max_threads - 1]
  vspb_underrun_notice,
  pc, container,         \* where each thread is; its index into the ring
  aborted,               \* the process has called abort()
  crowded, exceeded,     \* history: more calls at once than usable containers,
                         \* and than max_threads
  dangling               \* history: threads whose container was freed

vars == <<max_threads, in_use, buf, vspb_underrun_notice, pc, container, aborted,
          crowded, exceeded, dangling>>

-----------------------------------------------------------------------------
\* nr_of_threads < 1 becomes 1, after an error that ends a user space process.
Effective(n) == IF n < 1 THEN 1 ELSE n

\* The reset of runtrace_reconfigure clears every in_use flag, then its last
\* memset writes 0xed over the flag of vsprint_buffer[2], if there is one.
\* Here as in the C++11 and kernel builds: the other one clears a bit of a flag of
\* which it tests all.
Poisoned(n) == IF n >= 3 THEN {2} ELSE {}
Usable(n)   == n - Cardinality(Poisoned(n))
FreshFlags(n) == [c \in 0 .. n - 1 |-> c \in Poisoned(n)]
FreshTexts(n) == [c \in 0 .. n - 1 |-> Nobody]

\* The last container's next pointer wraps to the first one.
Following(c) == IF c + 1 = max_threads THEN 0 ELSE c + 1

Busy    == {t \in Threads : pc[t] # "idle"}
Holders == {t \in Threads : pc[t] \in {"print", "trace", "locked", "clear"}}

Goto(t, from, to) == /\ ~aborted
                     /\ pc[t] = from
                     /\ pc' = [pc EXCEPT ![t] = to]

-----------------------------------------------------------------------------
(* tpprintf *)

Call(t) ==
  /\ Goto(t, "idle", "grab")
  /\ container' = [container EXCEPT ![t] = 0]
  /\ crowded'  = (crowded  \/ Cardinality(Busy) + 1 > Usable(max_threads))
  /\ exceeded' = (exceeded \/ Cardinality(Busy) + 1 > max_threads)
  /\ UNCHANGED <<max_threads, in_use, buf, vspb_underrun_notice, aborted, dangling>>

\* ATOMIC_TEST_AND_SET found the container free,
Grab(t) ==
  /\ Goto(t, "grab", "print")
  /\ ~in_use[container[t]]
  /\ in_use' = [in_use EXCEPT ![container[t]] = TRUE]
  /\ UNCHANGED <<max_threads, buf, vspb_underrun_notice, container, aborted, crowded,
                 exceeded, dangling>>

\* Mutant: every step of the walk notes an underrun.
SkipNoting(t) ==
  /\ Goto(t, "grab", "grab")
  /\ in_use[container[t]]
  /\ container' = [container EXCEPT ![t] = Following(@)]
  /\ vspb_underrun_notice' = TRUE
  /\ UNCHANGED <<max_threads, in_use, buf, aborted, crowded, exceeded, dangling>>

\* or in use: on to the next one, noting when the walk is back at the first.
Skip(t) ==
  /\ Goto(t, "grab", "grab")
  /\ in_use[container[t]]
  /\ container' = [container EXCEPT ![t] = Following(@)]
  /\ vspb_underrun_notice' = (vspb_underrun_notice \/ Following(container[t]) = 0)
  /\ UNCHANGED <<max_threads, in_use, buf, aborted, crowded, exceeded, dangling>>

\* Mutant: the container is given back before make_tracept has copied the text.
VsnprintfAndClear(t) ==
  /\ Goto(t, "print", "trace")
  /\ buf' = [buf EXCEPT ![container[t]] = t]
  /\ in_use' = [in_use EXCEPT ![container[t]] = FALSE]
  /\ UNCHANGED <<max_threads, vspb_underrun_notice, container, aborted, crowded,
                 exceeded, dangling>>

Vsnprintf(t) ==
  /\ Goto(t, "print", "trace")
  /\ buf' = [buf EXCEPT ![container[t]] = t]
  /\ UNCHANGED <<max_threads, in_use, vspb_underrun_notice, container, aborted, crowded,
                 exceeded, dangling>>

\* make_tracept copies the text between RDLOCK and RDUNLOCK.
EnterTracept(t) ==
  /\ Goto(t, "trace", "locked")
  /\ UNCHANGED <<max_threads, in_use, buf, vspb_underrun_notice, container, aborted,
                 crowded, exceeded, dangling>>

LeaveTracept(t) ==
  /\ Goto(t, "locked", "clear")
  /\ UNCHANGED <<max_threads, in_use, buf, vspb_underrun_notice, container, aborted,
                 crowded, exceeded, dangling>>

\* Mutant: the container is kept.
ClearNothing(t) ==
  /\ Goto(t, "clear", "idle")
  /\ container' = [container EXCEPT ![t] = 0]
  /\ dangling' = dangling \ {t}
  /\ UNCHANGED <<max_threads, in_use, buf, vspb_underrun_notice, aborted, crowded,
                 exceeded>>

Clear(t) ==
  /\ Goto(t, "clear", "idle")
  /\ in_use' = [in_use EXCEPT ![container[t]] = FALSE]
  /\ container' = [container EXCEPT ![t] = 0]
  /\ dangling' = dangling \ {t}
  /\ UNCHANGED <<max_threads, buf, vspb_underrun_notice, aborted, crowded, exceeded>>

-----------------------------------------------------------------------------
(* runtrace_reconfigure, its write lock held from end to end. *)

RefuseCount(n) ==
  /\ n < 1 /\ ~Kernel /\ ~aborted
  /\ aborted' = TRUE
  /\ UNCHANGED <<max_threads, in_use, buf, vspb_underrun_notice, pc, container, crowded,
                 exceeded, dangling>>

\* Mutant: the flags are cleared for the old number of containers.
ReconfigureOldFlags(n) ==
  /\ n >= 1 \/ Kernel
  /\ ~aborted
  /\ \A t \in Threads : pc[t] # "locked"
  /\ ReconfigureAnyTime \/ Busy = {}
  /\ max_threads' = Effective(n)
  /\ in_use' = FreshFlags(max_threads)
  /\ buf' = FreshTexts(Effective(n))
  /\ dangling' = Busy
  /\ UNCHANGED <<vspb_underrun_notice, pc, container, aborted, crowded, exceeded>>

Reconfigure(n) ==
  /\ n >= 1 \/ Kernel
  /\ ~aborted
  /\ \A t \in Threads : pc[t] # "locked"
  /\ ReconfigureAnyTime \/ Busy = {}
  /\ max_threads' = Effective(n)
  /\ in_use' = FreshFlags(Effective(n))
  /\ buf' = FreshTexts(Effective(n))
  /\ dangling' = Busy
  /\ UNCHANGED <<vspb_underrun_notice, pc, container, aborted, crowded, exceeded>>

-----------------------------------------------------------------------------
Init ==
  /\ max_threads \in {Effective(n) : n \in {m \in Counts : m >= 1 \/ Kernel}}
  /\ in_use = FreshFlags(max_threads)
  /\ buf = FreshTexts(max_threads)
  /\ vspb_underrun_notice = FALSE
  /\ pc = [t \in Threads |-> "idle"]
  /\ container = [t \in Threads |-> 0]
  /\ aborted = FALSE /\ crowded = FALSE /\ exceeded = FALSE
  /\ dangling = {}

Step(t) == \/ Grab(t) \/ Skip(t) \/ Vsnprintf(t) \/ EnterTracept(t) \/ LeaveTracept(t)
           \/ Clear(t)

\* After abort() the process is gone.
Dead == aborted /\ UNCHANGED vars

Next == \/ \E t \in Threads : Call(t) \/ Step(t)
        \/ \E n \in Counts : RefuseCount(n) \/ Reconfigure(n)
        \/ Dead

Spec == Init /\ [][Next]_vars

\* A tpprintf in progress goes on.
FairSpec == Spec /\ \A t \in Threads : WF_vars(Step(t))

-----------------------------------------------------------------------------
(* Properties *)

\* The type of every variable.
TypeOK ==
  /\ max_threads \in Nat \ {0}
  /\ in_use \in [0 .. max_threads - 1 -> BOOLEAN]
  /\ buf \in [0 .. max_threads - 1 -> Threads \cup {Nobody}]
  /\ vspb_underrun_notice \in BOOLEAN
  /\ pc \in [Threads -> {"idle", "grab", "print", "trace", "locked", "clear"}]
  /\ container \in [Threads -> Nat]
  /\ aborted \in BOOLEAN /\ crowded \in BOOLEAN /\ exceeded \in BOOLEAN
  /\ dangling \subseteq Threads

\* The text that make_tracept copies is the one its caller formatted: nobody
\* else was given the container meanwhile (lines 1043-1066).
TextIsOwn == \A t \in Threads : pc[t] = "locked" => buf[container[t]] = t

\* The notice tells the truth about the containers: a walk comes back to the
\* first one only if at some time more calls ran at once than there are usable
\* containers (lines 1046-1058).  A container may be freed behind a walk and
\* taken by a later call, so this says more than that all were in use.
NoticeNeedsCrowd == vspb_underrun_notice => crowded

\* With enough usable containers no tpprintf spins for ever, whatever the other
\* threads take before its eyes (lines 1043-1060), unless the process aborts.
CallReturns ==
  \A t \in Threads : pc[t] = "grab" ~> (pc[t] = "idle" \/ crowded \/ aborted)

\* "Parallel calls exceeded the number of threads at some point"
\* (runtrace.c:278): the configured number, that is.
NoticeMeansExceeded == vspb_underrun_notice => exceeded
=============================================================================
