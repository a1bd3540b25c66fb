---------------------------- MODULE OrderedVisit ----------------------------
(***************************************************************************)
(* What an ordered row-group execution promises, as if one thread did it:  *)
(* row groups are visited in plan order, the visitor may stop or fail, and *)
(* a failing row group ends the execution with the EARLIEST failure, seen  *)
(* when the batch that holds it starts (Batch = 1: when it is its turn).   *)
(* No queue, no worker, no channel: the outcome depends on the plan, on    *)
(* what each row group yields and on the visitor alone.                    *)
(***************************************************************************)
EXTENDS Integers

CONSTANTS Count, Batch, Fates

VARIABLES fate, visited, status, failedAt

vars == <<fate, visited, status, failedAt>>

NoOrdinal == -1
Plan == 0 .. Count - 1
BatchStart(o) == o - (o % Batch)
BatchOf(o) == {p \in Plan : BatchStart(p) = BatchStart(o)}
Good(o) == fate[o] = "ok"

Init ==
    /\ fate \in [Plan -> Fates]
    /\ visited = 0 /\ status = "none" /\ failedAt = NoOrdinal

\* The visitor may be called: its whole batch was prepared without failure.
MayVisit == visited \in Plan /\ \A o \in BatchOf(visited) : Good(o)

Visit ==
    /\ MayVisit
    /\ visited' = visited + 1
    /\ status' \in {"none", "stopped"}
    /\ UNCHANGED failedAt

VisitorFails ==
    /\ MayVisit
    /\ status' \in {"commit_err", "panicked"}
    /\ failedAt' = visited
    /\ UNCHANGED visited

RowGroupFails ==
    /\ \E e \in Plan :
          /\ ~Good(e) /\ \A o \in Plan : o < e => Good(o)
          /\ visited = BatchStart(e)
          /\ failedAt' = e
    /\ status' = "prepare_err"
    /\ UNCHANGED visited

Complete ==
    /\ visited = Count
    /\ status' = "completed"
    /\ UNCHANGED <<visited, failedAt>>

\* Rejected options, or no thread to run on: nothing is visited.
NeverStarts ==
    /\ visited = 0
    /\ status' \in {"invalid_input", "panicked"}
    /\ UNCHANGED <<visited, failedAt>>

Next ==
    /\ status = "none"
    /\ Visit \/ VisitorFails \/ RowGroupFails \/ Complete \/ NeverStarts
    /\ UNCHANGED fate

Spec == Init /\ [][Next]_vars
=============================================================================
