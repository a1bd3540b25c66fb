-------------------------- MODULE MCSlidingCommit --------------------------
(* Instances of SlidingCommit for TLC. *)
EXTENDS SlidingCommit

\* Row counts that tell every set of at most four row groups apart.
MCRowCount == [o \in 0 .. TaskCount - 1 |-> 2 ^ o]
=============================================================================
