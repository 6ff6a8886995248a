------------------------------- MODULE MCADFS -------------------------------
(* A volume of a few blocks; all names are in one bucket, the longest chain. *)
EXTENDS ADFS

CONSTANTS n1, n2, n3, short, long

OneBucket == [n \in Names |-> 1]
Lengths == [f \in Contents |-> IF f = short THEN 0 ELSE 2]
Symmetry == Permutations({n2, n3})
=============================================================================
