------------------------------ MODULE Joining ------------------------------
(* Sequences joined: the rows of a file, whose row groups hold them.        *)
EXTENDS Integers, Sequences

(* For each g, the elements of the first g sequences; and of all of them.   *)
Joined(groups) ==
    LET upto[g \in 0..Len(groups)] == IF g = 0 THEN <<>> ELSE upto[g - 1] \o groups[g]
    IN  upto
Flat(groups) == Joined(groups)[Len(groups)]
=============================================================================
