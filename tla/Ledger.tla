-------------------------------- MODULE Ledger --------------------------------
(***************************************************************************)
(* What the bookkeeping of memleak promises: for every allocation site the *)
(* number of its blocks that are still out.  Acquiring and releasing are   *)
(* atomic, and nothing is released that was not acquired.                  *)
(***************************************************************************)
EXTENDS Naturals

CONSTANT Sites
VARIABLE live

Init == live = [s \in Sites |-> 0]

Acquire(s) == live' = [live EXCEPT ![s] = @ + 1]

Release(s) == live[s] > 0 /\ live' = [live EXCEPT ![s] = @ - 1]

Next == \E s \in Sites : Acquire(s) \/ Release(s)

Spec == Init /\ [][Next]_live
=============================================================================
