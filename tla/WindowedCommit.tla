--------------------------- MODULE WindowedCommit ---------------------------
(***************************************************************************)
(* coordinate_windowed_ordered_commit: whole windows of MaxInFlight row    *)
(* groups are launched, gathered completely, scanned for the earliest      *)
(* failure and only then committed in order.  Used by the visitors and the *)
(* owned reads.  While the queues can hold a window, progress              *)
(* notifications stay off and a window is pushed under one lock.           *)
(***************************************************************************)
EXTENDS BoundedOrdered

VARIABLE windowStart

vars == <<poolVars, windowStart>>

\* Fault: windows are one row group too long.
WindowEndPlusOne == Lesser(windowStart + MaxInFlight + 1, TaskCount)

\* One past the last ordinal of the current window.
WindowEnd == Lesser(windowStart + MaxInFlight, TaskCount)
Window == windowStart .. WindowEnd - 1

\* progress_notifications_required, for OrderedCommitMode::Windowed.
ProgressRequired ==
    LET window == Lesser(MaxInFlight, TaskCount)
    IN  TaskQueueCapacity < window \/ ResultQueueCapacity < window

\* Head of a window's fill with notifications off.
FastPath == queued = windowStart /\ ~progressOn

\* TaskQueue::try_push_window, or notifications on when there is no room.
PushWindow ==
    /\ cpc = "loop" /\ queued < WindowEnd /\ FastPath
    /\ IF closed
       THEN /\ EndWith("disconnected", NoTask)
            /\ UNCHANGED <<taskq, progressOn, wpc, queued>>
       ELSE IF WindowEnd - windowStart > TaskQueueCapacity - Len(taskq)
       THEN progressOn' = TRUE /\ UNCHANGED <<taskq, wpc, queued, cpc, endVars>>
       ELSE /\ taskq' = taskq \o [i \in 1 .. WindowEnd - windowStart |-> windowStart + i - 1]
            /\ wpc' = WakeAll
            /\ queued' = WindowEnd
            /\ UNCHANGED <<progressOn, cpc, endVars>>
    /\ UNCHANGED <<closed, snap, cancelled, wtask, completed, channelVars, gauge,
                   committed, pending, calls, windowStart>>

FillNext ==
    /\ cpc = "loop" /\ queued < WindowEnd /\ ~FastPath
    /\ cpc' = "push" /\ snap' = ProgressSnapshot(Coordinator)
    /\ UNCHANGED <<queueVars, cancelled, workerVars, channelVars, gauge, endVars,
                   commitVars, windowStart>>

LaunchNext == TryPush("loop") /\ UNCHANGED windowStart

PollResult == TryRecv /\ UNCHANGED windowStart

WaitForRoom == WaitProgress /\ UNCHANGED windowStart

\* The window is launched; the last one closes the queue.
FillDone ==
    /\ cpc = "loop" /\ windowStart < TaskCount /\ queued = WindowEnd
    /\ IF WindowEnd = TaskCount THEN CloseQueue
       ELSE UNCHANGED <<queueVars, snap, workerVars>>
    /\ cpc' = "recv"
    /\ UNCHANGED <<cancelled, channelVars, gauge, endVars, commitVars, windowStart>>

\* pending holds a result for every ordinal of the window.
Gathered == Cardinality(pending) >= WindowEnd - windowStart

Gather == cpc = "recv" /\ ~Gathered /\ Recv("recv") /\ UNCHANGED windowStart

\* Fault: failures are left to the commit loop.
ScanNothing ==
    /\ cpc = "recv" /\ Gathered
    /\ cpc' = "commit"
    /\ UNCHANGED <<queueVars, snap, cancelled, workerVars, channelVars, gauge,
                   endVars, commitVars, windowStart>>

\* No callback runs for a window that holds a failure.
ScanWindow ==
    /\ cpc = "recv" /\ Gathered
    /\ \/ \E e \in Window : /\ e \in pending /\ fate[e] # "ok"
                            /\ \A o \in Window : o < e => ~(o \in pending /\ fate[o] # "ok")
                            /\ FailAt(e)
       \/ /\ \A o \in Window : ~(o \in pending /\ fate[o] # "ok")
          /\ cpc' = "commit"
          /\ UNCHANGED <<queueVars, snap, cancelled, workerVars, channelVars, gauge,
                         endVars, commitVars>>
    /\ UNCHANGED windowStart

\* The commit loop; a missing or failed result would end it with an error.
CommitNext ==
    /\ cpc = "commit"
    /\ IF committed \in pending /\ fate[committed] = "ok"
       THEN /\ CommitFrontier(IF committed + 1 = WindowEnd THEN "loop" ELSE "commit")
            /\ windowStart' = IF cpc' = "loop" THEN WindowEnd ELSE windowStart
       ELSE /\ IF committed \in pending THEN EndWith("prepare_err", committed)
               ELSE EndWith("disconnected", NoTask)
            /\ pending' = pending \ {committed}
            /\ UNCHANGED <<queueVars, snap, cancelled, workerVars, channelVars, gauge,
                           queued, committed, calls, windowStart>>

LoopDone ==
    /\ cpc = "loop" /\ windowStart = TaskCount
    /\ EndWith("completed", NoTask)
    /\ UNCHANGED <<queueVars, snap, cancelled, workerVars, channelVars, gauge,
                   commitVars, windowStart>>

CoordinatorStep ==
    \/ PushWindow \/ FillNext \/ LaunchNext \/ PollResult \/ WaitForRoom \/ FillDone
    \/ Gather \/ ScanWindow \/ CommitNext \/ LoopDone
    \/ EntryAndExit /\ UNCHANGED windowStart

Init == PoolInit(ProgressRequired) /\ windowStart = 0

Next ==
    /\ \/ CoordinatorStep
       \/ \E w \in Workers : WorkerStep(w) /\ UNCHANGED windowStart
    /\ UNCHANGED fate

\* As for SlidingCommit: runnable threads run, closures return.
Fairness ==
    /\ WF_vars(CoordinatorStep /\ UNCHANGED fate)
    /\ \A w \in Workers :
          WF_vars(WorkerProgress(w)
                  /\ UNCHANGED <<fate, cpc, endVars, commitVars, windowStart>>)

Spec == Init /\ [][Next]_vars /\ Fairness

-----------------------------------------------------------------------------

Sequential == INSTANCE OrderedVisit
    WITH Count <- TaskCount, Batch <- IF MaxInFlight = 0 THEN 1 ELSE MaxInFlight,
         Fates <- Prepared, visited <- committed, status <- outcome

\* The concurrent execution does what one thread preparing window by window
\* would do: a window with a failure commits nothing and reports its earliest
\* failing ordinal, a clean window commits all its ordinals in order.
ImplementsBatchedVisit == Sequential!Spec

\* Queues that hold a window are never seen full, whatever the interleaving of
\* one window's stragglers with the next push: notifications stay off.
FastPathNeverFull == ~ProgressRequired => ~progressOn

\* The reusable buffer a row group is read into (visit_execution_plan_into).
Slot(o) == o % MaxInFlight

\* A buffer of the pool is refilled only after the batch it held went through
\* the visitor: while a worker reads into a slot, no other row group of that
\* slot is being read, waits in the result channel or waits for its callback,
\* whatever the workers and the coordinator interleave.
BuffersNotShared ==
    \A w \in Workers : wpc[w] = "running" =>
        \A o \in Ordinals \ {wtask[w]} :
            Slot(o) = Slot(wtask[w]) =>
                /\ \A v \in Workers : wtask[v] # o
                /\ \A i \in DOMAIN chan : chan[i] # o
                /\ o \notin pending
=============================================================================
