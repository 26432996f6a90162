---------------------------- MODULE MCObscureStr ----------------------------
(* Instances of ObscureStr for TLC. *)
EXTENDS ObscureStr

\* 00:00:00, 00:00:01, 01:00:00, 11:05:10, 23:59:59.
SomeSeeds == {0, 1, 3600, 39910, 86399}

\* Less than a key, a key and more, two keys and more; the last byte is nul.
Text(n)   == [k \in 0 .. n |-> IF k = n THEN {} ELSE {k % 8, 7}]
SomeTexts == {Text(0), Text(2), Text(5), Text(9)}
=============================================================================
