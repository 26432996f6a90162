------------------------------ MODULE MCMemleak ------------------------------
(* Instances of Memleak for TLC. *)
EXTENDS Memleak

CONSTANTS t1, t2, b1, b2

\* The order of the files is not the order of the lines.
TwoSites == {<<1, 20>>, <<2, 10>>}
OneSite    == {<<1, 10>>}

Symmetry == Permutations({b1, b2}) \cup Permutations({t1, t2})
=============================================================================
