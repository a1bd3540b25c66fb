--------------------------- MODULE BoundedOrdered ---------------------------
(***************************************************************************)
(* The bounded, ordered row-group executor of                              *)
(* crates/arcadia-tio-ocb-core/src/parallel_prepare.rs: a fixed pool of    *)
(* scoped worker threads, a bounded task queue, a bounded result channel   *)
(* and one coordinator (the calling thread) that releases prepared results *)
(* to the caller's ordered_commit callback.                                *)
(*                                                                         *)
(* This module holds what the two commit modes share: the state, the       *)
(* worker loop, the queue and channel operations, the callback and the     *)
(* entry and exit of execute_bounded_ordered_with_runtime.  SlidingCommit  *)
(* and WindowedCommit extend it with their coordinator loops.              *)
(*                                                                         *)
(* A row group is its selected ordinal.  What reading and preparing it     *)
(* yields is an input of the execution: `fate' is chosen once and never    *)
(* changes, so a message is its ordinal.  A progress generation is only    *)
(* whether it moved since a thread's snapshot (ProgressSignal.tla has the  *)
(* counter itself).                                                        *)
(*                                                                         *)
(* Definitions marked "Fault" are seeded bugs: each is a wrong variant of  *)
(* the definition below it, used to show that a property can fail.         *)
(***************************************************************************)
EXTENDS Integers, Sequences, FiniteSets, Functions

CONSTANTS
    TaskCount,            \* tasks.len()
    SelectedRowGroups,    \* base_report.selected_row_groups
    EffectiveThreads,     \* base_report.effective_threads
    MaxInFlight,          \* options.max_in_flight_row_groups
    TaskQueueCapacity,    \* runtime.task_queue_capacity
    ResultQueueCapacity,  \* runtime.result_queue_capacity
    RowCount,             \* row_count of each selected row group
    PanicMode             \* OrderedCommitPanicMode

Ordinals == 0 .. TaskCount - 1

ASSUME CountAssumption ==
    /\ TaskCount \in Nat /\ SelectedRowGroups \in Nat /\ MaxInFlight \in Nat
    /\ EffectiveThreads \in Nat \ {0}
ASSUME CapacityAssumption ==
    /\ TaskQueueCapacity \in Nat \ {0}
    /\ ResultQueueCapacity \in Nat \ {0}
ASSUME RowCountAssumption == RowCount \in [Ordinals -> Nat]
ASSUME PanicModeAssumption == PanicMode \in {"convert", "propagate"}

Lesser(a, b) == IF a <= b THEN a ELSE b

\* The fixed pool size: never more workers than threads, slots or tasks.
StartedWorkers == Lesser(Lesser(EffectiveThreads, MaxInFlight), TaskCount)

Workers == 1 .. StartedWorkers
Coordinator == 0
Threads == {Coordinator} \cup Workers

NoTask == -1

\* What a worker's read and prepare stages can produce (panics are caught and
\* become errors of the stage that panicked).
Prepared == {"ok", "read_err", "prepare_err"}

Outcomes == {"none", "completed", "stopped", "prepare_err", "commit_err",
             "disconnected", "duplicate", "invalid_input", "panicked"}

WorkerPcs == {"unspawned", "pop", "asleep", "popped", "running", "publish",
              "sending", "blocked", "exited"}

VARIABLES
    fate,         \* per ordinal: what its read and prepare stages produce
    taskq,        \* TaskQueueState.tasks
    closed,       \* TaskQueueState.closed
    progressOn,   \* TaskQueue.progress_notifications
    snap,         \* per thread: last progress_snapshot, "none", "fresh" or "moved"
    cancelled,    \* the shared cancellation flag
    wpc,          \* per worker: where worker_loop is
    wtask,        \* per worker: ordinal of the task or message it holds
    chan,         \* the bounded result channel
    receiverOpen, \* result_receiver not yet dropped
    completed,    \* row_groups_completed, summed over the worker reports
    gauge,        \* SharedObservations: pending results and pending rows
    cpc,          \* where the calling thread is
    outcome,      \* how the call ends
    failedAt,     \* ordinal named by an error, or NoTask
    queued,       \* row_groups_queued (= next_to_queue)
    committed,    \* row_groups_ordered_committed (= next_to_commit)
    pending,      \* keys of the reorder map of received results
    calls         \* history: ordinals handed to the ordered_commit callback

queueVars == <<taskq, closed, progressOn>>
workerVars == <<wpc, wtask, completed>>
channelVars == <<chan, receiverOpen>>
commitVars == <<queued, committed, pending, calls>>
endVars == <<outcome, failedAt>>
poolVars == <<fate, queueVars, snap, cancelled, workerVars, channelVars, gauge, cpc,
              endVars, commitVars>>

-----------------------------------------------------------------------------
(* Progress notifications (an event count) and the task queue.             *)

\* Fault: the generation is never advanced.
NotifyNothing(s) == s

\* TaskQueue::notify_progress: a new generation, but only when enabled.
NotifyProgress(s) ==
    IF progressOn
    THEN [t \in Threads |-> IF s[t] = "none" THEN "none" ELSE "moved"]
    ELSE s

\* TaskQueue::progress_snapshot: None while notifications are disabled.
ProgressSnapshot(t) ==
    [snap EXCEPT ![t] = IF progressOn THEN "fresh" ELSE "none"]

\* available.notify_all(): every worker waiting in pop re-examines the queue.
WakeAll == [w \in Workers |-> IF wpc[w] = "asleep" THEN "pop" ELSE wpc[w]]

\* available.notify_one(): some one waiting worker, if there is one.
WakeOne ==
    LET sleeping == {w \in Workers : wpc[w] = "asleep"}
    IN  IF sleeping = {} THEN {wpc}
        ELSE {[wpc EXCEPT ![w] = "pop"] : w \in sleeping}

\* Fault: closing forgets the workers that wait in pop.
CloseSilently ==
    /\ closed' = TRUE
    /\ snap' = NotifyProgress(snap)
    /\ UNCHANGED <<taskq, progressOn, wpc, wtask, completed>>

\* TaskQueue::close.
CloseQueue ==
    /\ closed' = TRUE
    /\ wpc' = WakeAll
    /\ snap' = NotifyProgress(snap)
    /\ UNCHANGED <<taskq, progressOn, wtask, completed>>

-----------------------------------------------------------------------------
(* Workers: worker_loop and TaskQueue::pop.                                *)

Leave(w) ==
    /\ wpc' = [wpc EXCEPT ![w] = "exited"]
    /\ wtask' = [wtask EXCEPT ![w] = NoTask]
    /\ snap' = [snap EXCEPT ![w] = "none"]

Goto(w, label) == wpc' = [wpc EXCEPT ![w] = label]

\* pop returns None: cancelled is tested first, a closed queue is drained first.
PopNone(w) ==
    /\ wpc[w] = "pop"
    /\ cancelled \/ (taskq = <<>> /\ closed)
    /\ Leave(w)
    /\ UNCHANGED <<queueVars, cancelled, completed, channelVars, gauge>>

\* pop returns the oldest task.
PopTask(w) ==
    /\ wpc[w] = "pop" /\ ~cancelled /\ taskq # <<>>
    /\ wtask' = [wtask EXCEPT ![w] = Head(taskq)]
    /\ taskq' = Tail(taskq)
    /\ Goto(w, "popped")
    /\ snap' = NotifyProgress(snap)
    /\ UNCHANGED <<closed, progressOn, cancelled, completed, channelVars, gauge>>

PopWait(w) ==
    /\ wpc[w] = "pop" /\ ~cancelled /\ taskq = <<>> /\ ~closed
    /\ Goto(w, "asleep")
    /\ UNCHANGED <<queueVars, snap, cancelled, wtask, completed, channelVars, gauge>>

\* A condition variable may wake a waiter without a notification.
SpuriousWake(w) ==
    /\ wpc[w] = "asleep"
    /\ Goto(w, "pop")
    /\ UNCHANGED <<queueVars, snap, cancelled, wtask, completed, channelVars, gauge>>

\* The second cancellation test, between pop and the read.
StartTask(w) ==
    /\ wpc[w] = "popped"
    /\ IF cancelled THEN Leave(w)
       ELSE Goto(w, "running") /\ UNCHANGED <<wtask, snap>>
    /\ UNCHANGED <<queueVars, cancelled, completed, channelVars, gauge>>

\* Rows decoded before the caller's preparation: none if the read failed.
DecodedRows(o) == IF fate[o] = "read_err" THEN 0 ELSE RowCount[o]

\* read, prepare, and SharedObservations::result_completed.
RunTask(w) ==
    /\ wpc[w] = "running"
    /\ gauge' = [results |-> gauge.results + 1,
                 rows |-> gauge.rows + DecodedRows(wtask[w])]
    /\ completed' = completed + 1
    /\ Goto(w, "publish")
    /\ UNCHANGED <<queueVars, snap, cancelled, wtask, channelVars>>

\* Head of the publication loop: test cancelled, then take the snapshot.
PublishOrQuit(w) ==
    /\ wpc[w] = "publish"
    /\ IF cancelled THEN Leave(w)
       ELSE /\ snap' = ProgressSnapshot(w)
            /\ Goto(w, "sending")
            /\ UNCHANGED wtask
    /\ UNCHANGED <<queueVars, cancelled, completed, channelVars, gauge>>

SendDisconnected(w) ==
    /\ wpc[w] = "sending" /\ ~receiverOpen
    /\ Leave(w)
    /\ UNCHANGED <<queueVars, cancelled, completed, channelVars, gauge>>

SendOk(w) ==
    /\ wpc[w] = "sending" /\ receiverOpen /\ Len(chan) < ResultQueueCapacity
    /\ chan' = Append(chan, wtask[w])
    /\ wtask' = [wtask EXCEPT ![w] = NoTask]
    /\ Goto(w, "pop")
    /\ snap' = NotifyProgress([snap EXCEPT ![w] = "none"])
    /\ UNCHANGED <<queueVars, cancelled, completed, receiverOpen, gauge>>

\* Fault: the message a full channel hands back is dropped.
SendFullDropsMessage(w) ==
    /\ wpc[w] = "sending" /\ receiverOpen /\ Len(chan) >= ResultQueueCapacity
    /\ wtask' = [wtask EXCEPT ![w] = NoTask]
    /\ Goto(w, "pop")
    /\ UNCHANGED <<queueVars, snap, cancelled, completed, channelVars, gauge>>

\* Channel full: wait for progress, or enable notifications and try again.
SendFull(w) ==
    /\ wpc[w] = "sending" /\ receiverOpen /\ Len(chan) >= ResultQueueCapacity
    /\ progressOn' = (progressOn \/ snap[w] = "none")
    /\ Goto(w, IF snap[w] = "none" THEN "publish" ELSE "blocked")
    /\ UNCHANGED <<taskq, closed, snap, cancelled, wtask, completed, channelVars, gauge>>

\* wait_for_progress returns because the generation moved.
WakeMoved(w) ==
    /\ wpc[w] = "blocked" /\ snap[w] = "moved"
    /\ IF cancelled THEN Leave(w)
       ELSE Goto(w, "publish") /\ UNCHANGED <<wtask, snap>>
    /\ UNCHANGED <<queueVars, cancelled, completed, channelVars, gauge>>

\* wait_for_progress returns because it happens to see cancelled.
WakeCancelled(w) ==
    /\ wpc[w] = "blocked" /\ cancelled
    /\ Leave(w)
    /\ UNCHANGED <<queueVars, cancelled, completed, channelVars, gauge>>

\* The steps a running worker thread cannot put off for ever.
WorkerProgress(w) ==
    \/ PopNone(w) \/ PopTask(w) \/ PopWait(w)
    \/ StartTask(w) \/ RunTask(w) \/ PublishOrQuit(w)
    \/ SendDisconnected(w) \/ SendOk(w) \/ SendFull(w) \/ WakeMoved(w)

WorkerStep(w) ==
    /\ WorkerProgress(w) \/ SpuriousWake(w) \/ WakeCancelled(w)
    /\ UNCHANGED <<cpc, endVars, commitVars>>

\* Every sender dropped: no worker is left that could still send.
SendersGone == \A w \in Workers : wpc[w] \in {"unspawned", "exited"}

-----------------------------------------------------------------------------
(* The calling thread: operations shared by both coordinator loops.        *)

EndWith(o, at) ==
    /\ outcome' = o
    /\ failedAt' = at
    /\ cpc' = "finish"

\* TaskQueue::try_push, and the bookkeeping of a pushed task.
TryPush(onPushed) ==
    /\ cpc = "push"
    /\ IF closed
       THEN EndWith("disconnected", NoTask) /\ UNCHANGED <<taskq, wpc, queued>>
       ELSE IF Len(taskq) >= TaskQueueCapacity
       THEN cpc' = "try_recv" /\ UNCHANGED <<taskq, wpc, queued, endVars>>
       ELSE /\ taskq' = Append(taskq, queued)
            /\ wpc' \in WakeOne
            /\ queued' = queued + 1
            /\ cpc' = onPushed
            /\ UNCHANGED endVars
    /\ UNCHANGED <<closed, progressOn, snap, cancelled, wtask, completed,
                   channelVars, gauge, committed, pending, calls>>

\* A received message: notify_progress, then insert_pending with its
\* duplicate-ordinal test.
TakeResult(next) ==
    LET o == Head(chan)
    IN  /\ chan' = Tail(chan)
        /\ snap' = NotifyProgress(snap)
        /\ pending' = pending \cup {o}
        /\ IF o \in pending THEN EndWith("duplicate", o)
           ELSE cpc' = next /\ UNCHANGED endVars

\* result_receiver.recv(): blocks until there is a message or no sender.
Recv(next) ==
    /\ chan # <<>> \/ SendersGone
    /\ IF chan # <<>> THEN TakeResult(next)
       ELSE EndWith("disconnected", NoTask) /\ UNCHANGED <<chan, snap, pending>>
    /\ UNCHANGED <<queueVars, cancelled, workerVars, receiverOpen, gauge,
                   queued, committed, calls>>

\* Task queue full: take a result, or wait for progress, or enable it.
TryRecv ==
    /\ cpc = "try_recv"
    /\ \/ Recv("loop")
       \/ /\ chan = <<>> /\ ~SendersGone
          /\ progressOn' = (progressOn \/ snap[Coordinator] = "none")
          /\ cpc' = IF snap[Coordinator] = "none" THEN "loop" ELSE "wait"
          /\ UNCHANGED <<taskq, closed, snap, cancelled, workerVars, channelVars,
                         gauge, endVars, commitVars>>

WaitProgress ==
    /\ cpc = "wait" /\ snap[Coordinator] = "moved"
    /\ cpc' = "loop"
    /\ UNCHANGED <<queueVars, snap, cancelled, workerVars, channelVars, gauge,
                   endVars, commitVars>>

\* result_committed: the delivered result leaves the pending gauges.
Retire(o) ==
    gauge' = [results |-> gauge.results - 1, rows |-> gauge.rows - RowCount[o]]

\* invoke_ordered_commit on the ordinal at the frontier, which has left the
\* reorder map; `next' is where the loop goes on after Continue.
CommitFrontier(next) ==
    /\ pending' = pending \ {committed}
    /\ calls' = Append(calls, committed)
    /\ \/ /\ cpc' = next /\ UNCHANGED <<endVars, cancelled>>     \* Continue
          /\ committed' = committed + 1 /\ Retire(committed)
       \/ /\ EndWith("stopped", NoTask) /\ cancelled' = TRUE      \* Stop
          /\ committed' = committed + 1 /\ Retire(committed)
       \/ /\ EndWith("commit_err", committed)                     \* Err
          /\ UNCHANGED <<committed, gauge, cancelled>>
       \/ /\ EndWith(IF PanicMode = "convert" THEN "commit_err"   \* panic
                      ELSE "panicked", committed)
          /\ UNCHANGED <<committed, gauge, cancelled>>
    /\ UNCHANGED <<queueVars, snap, workerVars, channelVars, queued>>

\* The earliest failed ordinal is reported and cancels the pool.
FailAt(o) ==
    /\ cancelled' = TRUE
    /\ pending' = pending \ {o}
    /\ EndWith("prepare_err", o)
    /\ UNCHANGED <<queueVars, snap, workerVars, channelVars, gauge, queued,
                   committed, calls>>

-----------------------------------------------------------------------------
(* execute_bounded_ordered_with_runtime: entry, spawning, shutdown, join.  *)

PoolInit(progressRequired) ==
    /\ fate \in [Ordinals -> Prepared]
    /\ taskq = <<>> /\ closed = FALSE /\ progressOn = progressRequired
    /\ snap = [t \in Threads |-> "none"]
    /\ cancelled = FALSE
    /\ wpc = [w \in Workers |-> "unspawned"]
    /\ wtask = [w \in Workers |-> NoTask]
    /\ chan = <<>> /\ receiverOpen = TRUE
    /\ completed = 0
    /\ gauge = [results |-> 0, rows |-> 0]
    /\ cpc = "enter" /\ outcome = "none" /\ failedAt = NoTask
    /\ queued = 0 /\ committed = 0
    /\ pending = {}
    /\ calls = <<>>

\* Option checks and the empty selection return before any thread exists.
Enter ==
    /\ cpc = "enter"
    /\ IF MaxInFlight = 0 \/ TaskCount # SelectedRowGroups
       THEN outcome' = "invalid_input" /\ cpc' = "returned"
       ELSE IF TaskCount = 0
       THEN outcome' = "completed" /\ cpc' = "returned"
       ELSE outcome' = outcome /\ cpc' = "spawn"
    /\ UNCHANGED <<failedAt, queueVars, snap, cancelled, workerVars, channelVars,
                   gauge, commitVars>>

\* scope.spawn for the next worker slot; it panics when the OS has no thread.
Spawn(w) ==
    /\ cpc = "spawn" /\ wpc[w] = "unspawned"
    /\ \A v \in Workers : v < w => wpc[v] # "unspawned"
    /\ \/ /\ Goto(w, "pop")
          /\ cpc' = IF w = StartedWorkers THEN "loop" ELSE "spawn"
          /\ UNCHANGED endVars
       \/ /\ EndWith("panicked", NoTask)
          /\ UNCHANGED wpc
    /\ UNCHANGED <<queueVars, snap, cancelled, wtask, completed, channelVars,
                   gauge, commitVars>>

\* After the loop (or while unwinding, WorkerPoolCleanup): cancel unless it
\* ended without error and without Stop.
Cancel ==
    /\ cpc = "finish"
    /\ cancelled' = (cancelled \/ outcome # "completed")
    /\ cpc' = "closing"
    /\ UNCHANGED <<queueVars, snap, workerVars, channelVars, gauge, endVars, commitVars>>

CloseAtEnd ==
    /\ cpc = "closing"
    /\ CloseQueue
    /\ cpc' = "dropping"
    /\ UNCHANGED <<cancelled, channelVars, gauge, endVars, commitVars>>

DropReceiver ==
    /\ cpc = "dropping"
    /\ receiverOpen' = FALSE /\ chan' = <<>>
    /\ cpc' = "join"
    /\ UNCHANGED <<queueVars, snap, cancelled, workerVars, gauge, endVars, commitVars>>

\* Every handle joined; leaving the scope runs WorkerPoolCleanup once more.
JoinAll ==
    /\ cpc = "join" /\ SendersGone
    /\ cancelled' = TRUE
    /\ cpc' = "returned"
    /\ UNCHANGED <<queueVars, snap, workerVars, channelVars, gauge,
                   endVars, commitVars>>

EntryAndExit == Enter \/ (\E w \in Workers : Spawn(w)) \/ Cancel \/ CloseAtEnd
                \/ DropReceiver \/ JoinAll

\* The report's ordered_terminal_completed.
OrderedTerminalCompleted == outcome = "completed" /\ committed = TaskCount

-----------------------------------------------------------------------------
(* Properties shared by both commit modes.                                 *)

CoordinatorPcs == {"enter", "spawn", "loop", "push", "try_recv", "wait", "close",
                   "recv", "scan", "commit", "finish", "closing", "dropping",
                   "join", "returned"}

\* The state of the executor has the types of the Rust fields it stands for.
PoolTypeOK ==
    /\ fate \in [Ordinals -> Prepared]
    /\ taskq \in Seq(Ordinals)
    /\ closed \in BOOLEAN /\ progressOn \in BOOLEAN /\ cancelled \in BOOLEAN
    /\ snap \in [Threads -> {"none", "fresh", "moved"}]
    /\ wpc \in [Workers -> WorkerPcs]
    /\ wtask \in [Workers -> Ordinals \cup {NoTask}]
    /\ chan \in Seq(Ordinals) /\ receiverOpen \in BOOLEAN
    /\ completed \in Nat
    /\ gauge \in [results : Int, rows : Int]
    /\ cpc \in CoordinatorPcs
    /\ outcome \in Outcomes
    /\ failedAt \in Ordinals \cup {NoTask}
    /\ queued \in 0 .. TaskCount /\ committed \in 0 .. TaskCount
    /\ pending \in SUBSET Ordinals
    /\ calls \in Seq(Ordinals)

\* The callback sees row groups in plan order, each once, without a gap and
\* only with a successfully prepared value, however the workers interleave;
\* at most the last call is not counted as committed.
CallbacksInPlanOrder ==
    /\ \A i \in 1 .. Len(calls) : calls[i] = i - 1 /\ fate[calls[i]] = "ok"
    /\ Len(calls) \in {committed, committed + 1}

\* One admission window: row groups queued, active, published and waiting in
\* the reorder map together never exceed max_in_flight_row_groups.
InFlightBounded == queued - committed <= MaxInFlight

Publishing(w) == wpc[w] \in {"publish", "sending", "blocked"}

Holders(o) ==
    Cardinality({i \in DOMAIN taskq : taskq[i] = o})
    + Cardinality({w \in Workers : wtask[w] = o})
    + Cardinality({i \in DOMAIN chan : chan[i] = o})
    + (IF o \in pending THEN 1 ELSE 0)

\* While the coordinator runs, a launched and uncommitted row group is in
\* exactly one place (task queue, worker, result channel, reorder map) and
\* any other row group in none: nothing is lost, duplicated or redone.
EachTaskInOnePlace ==
    outcome = "none" =>
        \A o \in Ordinals : Holders(o) = IF o \in committed .. queued - 1 THEN 1 ELSE 0

\* The errors the code keeps for broken internal protocol (disconnected
\* workers, a duplicate ordinal) never reach the caller.
NoInternalError == outcome \notin {"disconnected", "duplicate"}

SumRows(S) == SumFunctionOnSet([o \in Ordinals |-> DecodedRows(o)], S)

Unretired == {wtask[w] : w \in {v \in Workers : Publishing(v)}}
             \cup {chan[i] : i \in DOMAIN chan} \cup pending

\* SharedObservations' pending gauges count exactly the finished results (and
\* their decoded rows) not yet committed, and never exceed the window, so the
\* unsigned counters cannot wrap and the reported maxima are bounded by it.
GaugesExact ==
    /\ outcome = "none" => /\ gauge.results = Cardinality(Unretired)
                           /\ gauge.rows = SumRows(Unretired)
    /\ gauge.results \in 0 .. MaxInFlight /\ gauge.rows >= 0

\* The counters of a returned report agree with one another: a terminal
\* report accounts for every task, an early one never claims more commits
\* than completions or more completions than launches.
ReportConsistent ==
    cpc = "returned" =>
        /\ committed <= completed /\ completed <= queued
        /\ outcome = "completed" /\ TaskCount = SelectedRowGroups =>
              OrderedTerminalCompleted /\ completed = TaskCount /\ gauge.results = 0
        /\ OrderedTerminalCompleted => taskq = <<>> /\ pending = {}

\* The books balance at every step: each launched row group is in one place, the
\* gauges count what is finished and not yet delivered, and the counters of the
\* report that is returned agree with one another.
BooksBalance == PoolTypeOK /\ EachTaskInOnePlace /\ GaugesExact /\ ReportConsistent

\* Every execution returns: no worker sleeps or blocks for ever and the join
\* at the end of the scope terminates.
Termination == <>(cpc = "returned")
=============================================================================
