------------------------------- MODULE TraceLog -------------------------------
(***************************************************************************)
(* What the tracepoint pool promises to whoever follows the trace: a log   *)
(* that keeps the last `size' tracepoints, numbered as they are made, and  *)
(* that is read in order from a copy.  A follower is shown every           *)
(* tracepoint of the copy from its cursor on, once, and passes over those  *)
(* only that the copy no longer has.  A tracepoint is spoiled when another *)
(* tracer was still writing in its place; then it may be that other one    *)
(* that is shown, but never one that was shown before.                     *)
(***************************************************************************)
EXTENDS Integers

CONSTANTS Followers, Sizes
VARIABLES made, size, log, copy, cursor, shown

Init == /\ made = 0 /\ size \in Sizes
        /\ log = {} /\ copy = {}
        /\ cursor = [f \in Followers |-> 0]
        /\ shown = [f \in Followers |-> {}]

Make == /\ made' = made + 1
        /\ \E s \in BOOLEAN : log' = {e \in log : e.num > made - size}
                                       \cup {[num |-> made, spoiled |-> s]}
        /\ UNCHANGED <<size, copy, cursor, shown>>

\* Another size, with everything lost but the count.
Resize == /\ size' \in Sizes
          /\ log' = {} /\ copy' = {}
          /\ UNCHANGED <<made, cursor, shown>>

\* There is no memory for another size: the log is gone.
Lose == /\ size' \in Sizes
        /\ made' = 0 /\ log' = {} /\ copy' = {}
        /\ UNCHANGED <<cursor, shown>>

Copy == copy' = log /\ UNCHANGED <<made, size, log, cursor, shown>>

Show(f) == \E e \in copy :
  /\ e.num = cursor[f]
  /\ \E n \in (IF e.spoiled THEN 0 .. e.num ELSE {e.num}) \ shown[f] :
       shown' = [shown EXCEPT ![f] = @ \cup {n}]
  /\ cursor' = [cursor EXCEPT ![f] = @ + 1]
  /\ UNCHANGED <<made, size, log, copy>>

Skip(f) == \E p \in cursor[f] + 1 .. made :
  /\ \A e \in copy : e.num \notin cursor[f] .. p - 1
  /\ cursor' = [cursor EXCEPT ![f] = p]
  /\ UNCHANGED <<made, size, log, copy, shown>>

Next == Make \/ Resize \/ Lose \/ Copy \/ \E f \in Followers : Show(f) \/ Skip(f)

Spec == Init /\ [][Next]_<<made, size, log, copy, cursor, shown>>
=============================================================================
