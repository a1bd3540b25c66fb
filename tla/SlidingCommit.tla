---------------------------- MODULE SlidingCommit ----------------------------
(***************************************************************************)
(* coordinate_sliding_ordered_commit: the coordinator keeps up to          *)
(* MaxInFlight row groups launched, commits whenever the result at the     *)
(* frontier is there, and stops launching at the first failed result.      *)
(* Used by parallel_prepare.                                               *)
(***************************************************************************)
EXTENDS BoundedOrdered

VARIABLE stopLaunching    \* an error has been received

vars == <<poolVars, stopLaunching>>

\* Fault: one row group too many is admitted.
CanQueueOneMore ==
    /\ ~stopLaunching
    /\ queued < TaskCount
    /\ queued - committed <= MaxInFlight

\* can_queue
CanQueue ==
    /\ ~stopLaunching
    /\ queued < TaskCount
    /\ queued - committed < MaxInFlight

\* The inner loop: the frontier is in the reorder map.
CommitNext ==
    /\ cpc = "loop" /\ committed \in pending /\ fate[committed] = "ok"
    /\ CommitFrontier("loop")
    /\ UNCHANGED stopLaunching

\* Fault: the first failure to arrive wins, wherever it is in the plan.
FailFirstReceived ==
    /\ cpc = "loop"
    /\ \E o \in pending : fate[o] # "ok" /\ FailAt(o)
    /\ UNCHANGED stopLaunching

FailNext ==
    /\ cpc = "loop" /\ committed \in pending /\ fate[committed] # "ok"
    /\ FailAt(committed)
    /\ UNCHANGED stopLaunching

LoopDone ==
    /\ cpc = "loop" /\ committed = TaskCount
    /\ EndWith("completed", NoTask)
    /\ UNCHANGED <<queueVars, snap, cancelled, workerVars, channelVars, gauge,
                   commitVars, stopLaunching>>

\* The frontier is missing: launch another row group if the window allows it
\* (the snapshot precedes try_push), otherwise wait for a result.
ChooseNext ==
    /\ cpc = "loop" /\ committed < TaskCount /\ committed \notin pending
    /\ IF CanQueue THEN cpc' = "push" /\ snap' = ProgressSnapshot(Coordinator)
       ELSE cpc' = "recv" /\ UNCHANGED snap
    /\ UNCHANGED <<queueVars, cancelled, workerVars, channelVars, gauge, endVars,
                   commitVars, stopLaunching>>

LaunchNext ==
    /\ TryPush(IF queued + 1 = TaskCount THEN "close" ELSE "loop")
    /\ UNCHANGED stopLaunching

\* The last task was pushed: workers may leave once the queue is drained.
CloseAfterLast ==
    /\ cpc = "close"
    /\ CloseQueue
    /\ cpc' = "loop"
    /\ UNCHANGED <<cancelled, channelVars, gauge, endVars, commitVars, stopLaunching>>

\* stop_launching |= message.prepared.is_err()
NoteError ==
    stopLaunching' = (stopLaunching \/ (chan # <<>> /\ fate[Head(chan)] # "ok"))

AwaitResult == cpc = "recv" /\ Recv("loop") /\ NoteError

PollResult == TryRecv /\ NoteError

WaitForRoom == WaitProgress /\ UNCHANGED stopLaunching

CoordinatorStep ==
    \/ CommitNext \/ FailNext \/ LoopDone \/ ChooseNext \/ LaunchNext
    \/ CloseAfterLast \/ AwaitResult \/ PollResult \/ WaitForRoom
    \/ EntryAndExit /\ UNCHANGED stopLaunching

Init == PoolInit(TRUE) /\ stopLaunching = FALSE

Next ==
    /\ \/ CoordinatorStep
       \/ \E w \in Workers : WorkerStep(w) /\ UNCHANGED stopLaunching
    /\ UNCHANGED fate

\* A runnable thread runs, and read, prepare and callback return.  Nothing is
\* assumed of spurious wakeups or of noticing `cancelled' while blocked.
Fairness ==
    /\ WF_vars(CoordinatorStep /\ UNCHANGED fate)
    /\ \A w \in Workers :
          WF_vars(WorkerProgress(w)
                  /\ UNCHANGED <<fate, cpc, endVars, commitVars, stopLaunching>>)

Spec == Init /\ [][Next]_vars /\ Fairness

-----------------------------------------------------------------------------

\* The sliding coordinator's state has the types of the Rust locals.
TypeOK == PoolTypeOK /\ stopLaunching \in BOOLEAN

Sequential == INSTANCE OrderedVisit
    WITH Count <- TaskCount, Batch <- 1, Fates <- Prepared,
         visited <- committed, status <- outcome

\* The concurrent execution does what one thread would do: commits advance
\* one by one, and if a row group fails the caller gets the error of the
\* earliest failing ordinal after exactly the ordinals before it.
ImplementsSequentialVisit == Sequential!Spec
=============================================================================
