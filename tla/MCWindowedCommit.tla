-------------------------- MODULE MCWindowedCommit --------------------------
(* Instances of WindowedCommit for TLC. *)
EXTENDS WindowedCommit

\* Row counts that tell every set of row groups apart.
MCRowCount == [o \in 0 .. TaskCount - 1 |-> 2 ^ o]
=============================================================================
