------------------------- MODULE SlidingCommitProofs -------------------------
(***************************************************************************)
(* Proofs about the sliding coordinator, for any number of row groups,     *)
(* workers and queue slots: callbacks in plan order, the admission window, *)
(* no internal error, and that the pool implements a sequential visit.     *)
(***************************************************************************)
EXTENDS SlidingCommit, BoundedOrderedProofs

\* What the sliding loop knows at each of its labels.
Loop ==
    /\ stopLaunching \in BOOLEAN
    /\ cpc \in {"push", "try_recv"} => CanQueue
    /\ cpc = "wait" => queued < TaskCount
    /\ cpc = "close" => queued = TaskCount
    /\ cpc = "recv" => committed < TaskCount /\ committed \notin pending

IInv == PoolInv /\ Loop /\ InFlightBounded

-----------------------------------------------------------------------------
(* Steps.                                                                  *)

\* The coordinator never waits on a channel that no worker can fill: an exited
\* worker means a closed, drained queue, and then the frontier is covered.
LEMMA NeverDisconnected ==
    ASSUME IInv, cpc \in {"recv", "try_recv"}, chan = <<>>
    PROVE  ~SendersGone
<1> SUFFICES ASSUME SendersGone PROVE FALSE
  OBVIOUS
<1> USE DEF IInv, PoolInv
<1>1. outcome = "none" /\ MaxInFlight > 0 /\ TaskCount > 0
  BY DEF Lifecycle, Running, Looping
<1>2. 1 \in Workers /\ \A w \in Workers : wpc[w] = "exited"
  BY <1>1, PoolSize DEF SendersGone, Lifecycle, Running, Looping
<1>3. closed /\ taskq = <<>> /\ queued = TaskCount
  BY <1>1, <1>2 DEF Lifecycle
<1>4. cpc = "recv" /\ committed < TaskCount /\ committed \notin pending
  BY <1>3, Numbers DEF Loop, CanQueue
<1>5. committed \in committed .. Popped - 1
  BY <1>3, <1>4, Numbers DEF Popped
<1>6. \A w \in Workers : wtask[w] = NoTask
  BY <1>2 DEF Place, WorkersHold, Holding
<1>7. committed # NoTask /\ Len(chan) = 0
  BY Numbers DEF NoTask
<1> QED
  BY <1>1, <1>4, <1>5, <1>6, <1>7 DEF Place, Covered

\* Receiving a result, wherever the loop does it.
LEMMA ReceiveNext ==
    ASSUME IInv, cpc \in {"recv", "try_recv"}, Recv("loop"), NoteError, UNCHANGED fate
    PROVE  IInv' /\ UNCHANGED <<outcome, failedAt, committed>>
<1>1. chan # <<>>
  BY NeverDisconnected DEF Recv
<1>2. /\ PoolInv' /\ cpc' = "loop"
      /\ UNCHANGED <<endVars, queueVars, queued, committed>>
  BY <1>1, ReceiveStep DEF IInv, Looping
<1>3. stopLaunching' \in BOOLEAN
  BY DEF IInv, Loop, NoteError
<1> QED
  BY <1>2, <1>3 DEF IInv, Loop, InFlightBounded, endVars

\* Every step of the coordinator keeps the invariant.
LEMMA CoordinatorKeepsIInv ==
    ASSUME IInv, CoordinatorStep, UNCHANGED fate
    PROVE  IInv'
<1> USE DEF IInv
<1>n. queued \in Int /\ committed \in Int /\ MaxInFlight \in Nat
  BY Numbers DEF PoolInv
<1>1. CASE CommitNext
  <2>1. PoolInv' /\ committed' \in {committed, committed + 1}
    BY <1>1, CommitStep DEF CommitNext, Looping
  <2>2. cpc' \in {"loop", "finish"} /\ queued' = queued /\ stopLaunching' = stopLaunching
    BY <1>1 DEF CommitNext, CommitFrontier, EndWith
  <2>3. Loop'
    BY <2>2 DEF Loop
  <2>4. InFlightBounded'
    <3>1. CASE committed' = committed
      BY <2>2, <3>1 DEF InFlightBounded
    <3>2. CASE committed' = committed + 1
      BY <1>n, <2>2, <3>2 DEF InFlightBounded
    <3> QED
      BY <2>1, <3>1, <3>2
  <2> QED
    BY <2>1, <2>3, <2>4
<1>2. CASE FailNext
  <2>1. committed \in Ordinals
    BY <1>2 DEF FailNext, PoolInv, PoolTypeOK
  <2>2. PoolInv'
    BY <1>2, <2>1, EndStep DEF FailNext, FailAt, Looping, Outcomes
  <2> QED
    BY <1>2, <2>2 DEF FailNext, FailAt, EndWith, Loop, InFlightBounded
<1>3. CASE LoopDone
  <2>1. PoolInv'
    BY <1>3, EndStep DEF LoopDone, Looping, Outcomes, commitVars, PoolInv, PoolTypeOK
  <2> QED
    BY <1>3, <2>1 DEF LoopDone, EndWith, commitVars, Loop, InFlightBounded
<1>4. CASE ChooseNext
  <2>1. snap' \in [Threads -> {"none", "fresh", "moved"}]
    BY <1>4, SnapTypes DEF ChooseNext, PoolInv, PoolTypeOK, Threads
  <2>2. PoolInv'
    BY <1>4, <2>1, LabelStep DEF ChooseNext, Looping, queueVars, PoolInv, PoolTypeOK
  <2> QED
    BY <1>4, <2>2 DEF ChooseNext, CanQueue, commitVars, Loop, InFlightBounded
<1>5. CASE LaunchNext
  <2> DEFINE next == IF queued + 1 = TaskCount THEN "close" ELSE "loop"
  <2>0. next \in Looping /\ cpc = "push" /\ TryPush(next)
    BY <1>5 DEF LaunchNext, TryPush, Looping
  <2>1. CanQueue
    BY <2>0 DEF Loop
  <2>2. /\ PoolInv' /\ committed' = committed
        /\ IF Len(taskq) >= TaskQueueCapacity THEN cpc' = "try_recv" /\ queued' = queued
           ELSE cpc' = next /\ queued' = queued + 1
    <3> HIDE DEF next
    <3> QED BY <2>0, <2>1, LaunchStep DEF CanQueue
  <2>3. stopLaunching' = stopLaunching
    BY <1>5 DEF LaunchNext
  <2> QED
    BY <1>n, <2>1, <2>2, <2>3 DEF Loop, InFlightBounded, CanQueue
<1>6. CASE CloseAfterLast
  <2>1. PoolInv'
    BY <1>6, CloseStep DEF CloseAfterLast, Loop, Looping
  <2> QED
    BY <1>6, <2>1 DEF CloseAfterLast, commitVars, Loop, InFlightBounded
<1>7. CASE AwaitResult
  BY <1>7, ReceiveNext DEF AwaitResult
<1>8. CASE PollResult
  <2>1. CASE Recv("loop")
    BY <1>8, <2>1, ReceiveNext DEF PollResult, TryRecv
  <2>2. CASE ~Recv("loop")
    <3>1. progressOn' \in BOOLEAN /\ stopLaunching' \in BOOLEAN
      BY <1>8, <2>2 DEF PollResult, TryRecv, NoteError, Loop, PoolInv, PoolTypeOK
    <3>2. cpc = "try_recv" /\ cpc' \in {"loop", "wait"}
      BY <1>8, <2>2 DEF PollResult, TryRecv
    <3>3. UNCHANGED <<taskq, closed, snap, cancelled, workerVars, channelVars, gauge, endVars,
                      commitVars>>
      BY <1>8, <2>2 DEF PollResult, TryRecv
    <3>4. PoolInv'
      BY <3>1, <3>2, <3>3, LabelStep DEF Looping, PoolInv, PoolTypeOK
    <3>5. UNCHANGED <<queued, committed, pending>>
      BY <3>3 DEF commitVars
    <3> QED
      BY <3>1, <3>2, <3>4, <3>5 DEF Loop, InFlightBounded, CanQueue
  <2> QED BY <2>1, <2>2
<1>9. CASE WaitForRoom
  <2>1. PoolInv'
    BY <1>9, LabelStep DEF WaitForRoom, WaitProgress, Looping, queueVars, PoolInv, PoolTypeOK
  <2> QED
    BY <1>9, <2>1 DEF WaitForRoom, WaitProgress, commitVars, Loop, InFlightBounded
<1>10. CASE EntryAndExit /\ UNCHANGED stopLaunching
  <2>1. PoolInv'
    BY <1>10, EntryAndExitStep
  <2>2. UNCHANGED <<queued, committed, pending>>
    BY <1>10 DEF EntryAndExit, Enter, Spawn, Cancel, CloseAtEnd, CloseQueue, DropReceiver, JoinAll,
       commitVars
  <2>3. cpc' \notin {"push", "try_recv", "wait", "close", "recv"}
    BY <1>10 DEF EntryAndExit, Enter, Spawn, EndWith, Cancel, CloseAtEnd, DropReceiver, JoinAll
  <2> QED
    BY <1>10, <2>1, <2>2, <2>3 DEF Loop, InFlightBounded
<1> QED
  BY <1>1, <1>2, <1>3, <1>4, <1>5, <1>6, <1>7, <1>8, <1>9, <1>10 DEF CoordinatorStep

\* Every step of the sliding coordinator, a worker or the exit keeps the invariant.
LEMMA StepKeepsIInv == IInv /\ [Next]_vars => IInv'
<1> SUFFICES ASSUME IInv, [Next]_vars PROVE IInv'
  OBVIOUS
<1>1. CASE CoordinatorStep /\ UNCHANGED fate
  BY <1>1, CoordinatorKeepsIInv
<1>2. ASSUME NEW w \in Workers, WorkerStep(w), UNCHANGED <<stopLaunching, fate>> PROVE IInv'
  <2>1. PoolInv'
    BY <1>2, WorkerKeepsPool DEF IInv
  <2>2. UNCHANGED <<cpc, queued, committed, pending, stopLaunching>>
    BY <1>2 DEF WorkerStep, commitVars
  <2> QED
    BY <2>1, <2>2 DEF IInv, Loop, InFlightBounded, CanQueue
<1>3. CASE UNCHANGED vars
  <2>1. PoolInv'
    BY <1>3, PoolStutter DEF IInv, vars
  <2> QED
    BY <1>3, <2>1 DEF IInv, Loop, InFlightBounded, CanQueue, vars, poolVars, commitVars
<1> QED
  BY <1>1, <1>2, <1>3 DEF Next

\* The inductive invariant holds in every reachable state.
THEOREM SlidingInvariant == Spec => []IInv
<1>1. Init => IInv
  <2> SUFFICES ASSUME Init PROVE IInv
    OBVIOUS
  <2>1. PoolInv
    BY InitPool DEF Init
  <2>2. Loop
    BY Zenon DEF Init, PoolInit, Loop
  <2> QED
    BY <2>1, <2>2, CountAssumption DEF Init, PoolInit, IInv, InFlightBounded
<1> QED
  BY <1>1, StepKeepsIInv, PTL DEF Spec

\* The executor's state keeps the types of the Rust fields and locals.
THEOREM SlidingTypes == Spec => []TypeOK
<1>1. IInv => TypeOK
  BY DEF IInv, PoolInv, Loop, TypeOK
<1> QED
  BY <1>1, SlidingInvariant, PTL

\* However workers interleave, the callback sees the plan in order, without
\* gaps or repeats, and only successfully prepared row groups.
THEOREM SlidingCallbacksInPlanOrder == Spec => []CallbacksInPlanOrder
BY SlidingInvariant, PTL DEF IInv, PoolInv, Commits

\* The admission window is never exceeded.
THEOREM SlidingInFlightBounded == Spec => []InFlightBounded
BY SlidingInvariant, PTL DEF IInv

\* Neither internal-protocol error can reach the caller.
THEOREM SlidingNoInternalError == Spec => []NoInternalError
BY SlidingInvariant, PTL DEF IInv, PoolInv, Commits

-----------------------------------------------------------------------------
(* The books.                                                              *)

\* Every step keeps gauges and counters together.
LEMMA StepKeepsBooks ==
    ASSUME IInv, Books, [Next]_vars
    PROVE  Books'
<1> USE DEF IInv
<1>1. CASE CommitNext /\ UNCHANGED fate
  BY <1>1, CommitKeepsBooks DEF CommitNext, Looping
<1>2. CASE FailNext /\ UNCHANGED fate
  <2>1. outcome' = "prepare_err" /\ UNCHANGED <<gauge, workerVars, chan, taskq, queued, committed>>
    BY <1>2 DEF FailNext, FailAt, EndWith, queueVars, channelVars
  <2> QED
    BY <1>2, <2>1, LoopKeepsBooks
<1>3. CASE LoopDone /\ UNCHANGED fate
  <2>1. /\ outcome' = "completed" /\ committed = TaskCount
        /\ UNCHANGED <<gauge, workerVars, chan, taskq, queued, committed>>
    BY <1>3 DEF LoopDone, EndWith, queueVars, channelVars, commitVars
  <2> QED
    BY <1>3, <2>1, LoopKeepsBooks
<1>4. CASE (ChooseNext \/ WaitForRoom) /\ UNCHANGED fate
  <2>1. UNCHANGED <<gauge, workerVars, chan, taskq, queued, committed, pending, outcome>>
    BY <1>4 DEF ChooseNext, WaitForRoom, WaitProgress, queueVars, channelVars, commitVars, endVars
  <2> QED
    BY <1>4, <2>1, LoopKeepsBooks
<1>5. CASE LaunchNext /\ UNCHANGED fate
  <2> DEFINE next == IF queued + 1 = TaskCount THEN "close" ELSE "loop"
  <2>0. next \in Looping /\ TryPush(next)
    BY <1>5 DEF LaunchNext, Looping
  <2> HIDE DEF next
  <2>1. ~closed
    BY <2>0, Numbers DEF TryPush, PoolInv, Lifecycle, Running, Looping, Loop, CanQueue
  <2> QED
    BY <1>5, <2>0, <2>1, PushKeepsBooks
<1>6. CASE CloseAfterLast /\ UNCHANGED fate
  BY <1>6, CloseKeepsBooks DEF CloseAfterLast, channelVars, endVars, commitVars
<1>7. CASE (AwaitResult \/ PollResult) /\ UNCHANGED fate
  <2>1. CASE cpc \in {"recv", "try_recv"} /\ Recv("loop")
    <3>1. chan # <<>>
      BY <2>1, NeverDisconnected DEF Recv
    <3> QED
      BY <1>7, <2>1, <3>1, ReceiveKeepsBooks DEF Looping
  <2>2. CASE ~(cpc \in {"recv", "try_recv"} /\ Recv("loop"))
    <3>1. UNCHANGED <<gauge, workerVars, chan, taskq, queued, committed, pending, outcome>>
      BY <1>7, <2>2 DEF AwaitResult, PollResult, TryRecv, channelVars, commitVars, endVars
    <3> QED
      BY <1>7, <3>1, LoopKeepsBooks
  <2> QED
    BY <2>1, <2>2
<1>8. CASE EntryAndExit /\ UNCHANGED fate
  BY <1>8, EntryAndExitKeepsBooks
<1>9. ASSUME NEW w \in Workers, WorkerStep(w), UNCHANGED fate PROVE Books'
  BY <1>9, WorkerKeepsBooks
<1>10. CASE UNCHANGED vars
  BY <1>10, BooksStutter DEF vars
<1> QED
  BY <1>1, <1>2, <1>3, <1>4, <1>5, <1>6, <1>7, <1>8, <1>9, <1>10 DEF Next, CoordinatorStep

\* At every step each launched row group is in one place, the gauges count what is
\* finished and not yet delivered, and never wrap or exceed the window, and the
\* counters of the report that is returned agree with one another.
THEOREM SlidingBooksBalance == Spec => []BooksBalance
<1>1. Init => Books
  BY InitBooks DEF Init
<1>2. IInv /\ Books /\ [Next]_vars => Books'
  BY StepKeepsBooks
<1>3. IInv /\ Books => BooksBalance
  BY BooksDoBalance DEF IInv
<1> QED
  BY <1>1, <1>2, <1>3, SlidingInvariant, PTL DEF Spec

-----------------------------------------------------------------------------
(* Implementation of the sequential visit.                                 *)

\* With one row group per batch, an ordinal is its own batch.
LEMMA BatchOfOne ==
    /\ \A o \in Ordinals : Sequential!BatchStart(o) = o
    /\ \A o \in Ordinals : Sequential!BatchOf(o) = {o}
<1>1. \A o \in Ordinals : Sequential!BatchStart(o) = o
  BY CountAssumption DEF Ordinals, Sequential!BatchStart
<1> QED
  BY <1>1 DEF Sequential!BatchOf, Sequential!Plan, Ordinals

\* Every step of the pool is a step of the sequential visit or leaves its
\* state alone.
LEMMA StepRefines ==
    ASSUME IInv, [Next]_vars
    PROVE  [Sequential!Next]_(Sequential!vars)
<1> USE DEF Sequential!vars, IInv, PoolInv, endVars, commitVars, EndWith
<1>1. CASE CommitNext /\ UNCHANGED fate
  <2>1. outcome = "none" /\ committed \in Ordinals /\ fate[committed] = "ok"
    BY <1>1 DEF CommitNext, Lifecycle, Running, Looping, PoolTypeOK
  <2>2. Sequential!MayVisit
    BY <2>1, BatchOfOne DEF Sequential!MayVisit, Sequential!Plan, Ordinals, Sequential!Good
  <2>3. Sequential!Visit \/ Sequential!VisitorFails
    BY <1>1, <2>1, <2>2, PanicModeAssumption
       DEF CommitNext, CommitFrontier, Lifecycle, NoTask, Sequential!Visit, Sequential!VisitorFails
  <2> QED
    BY <1>1, <2>1, <2>3 DEF Sequential!Next
<1>2. CASE FailNext /\ UNCHANGED fate
  <2>1. outcome = "none" /\ committed \in Ordinals /\ fate[committed] # "ok"
    BY <1>2 DEF FailNext, Lifecycle, Running, Looping, PoolTypeOK
  <2>2. \A o \in Ordinals : o < committed => fate[o] = "ok"
    BY Numbers DEF Commits, History, Ordinals
  <2>3. Sequential!RowGroupFails
    BY <1>2, <2>1, <2>2, BatchOfOne
       DEF FailNext, FailAt, Sequential!RowGroupFails, Sequential!Plan, Ordinals, Sequential!Good
  <2> QED
    BY <1>2, <2>1, <2>3 DEF Sequential!Next
<1>3. CASE LoopDone /\ UNCHANGED fate
  BY <1>3 DEF LoopDone, Lifecycle, Running, Looping, Sequential!Next, Sequential!Complete, NoTask
<1>4. CASE Enter /\ UNCHANGED fate
  BY <1>4 DEF Enter, Lifecycle, Running, Looping, Sequential!Next, Sequential!Complete, Sequential!NeverStarts
<1>5. ASSUME NEW w \in Workers, Spawn(w), UNCHANGED fate
      PROVE  [Sequential!Next]_(Sequential!vars)
  BY <1>5 DEF Spawn, Lifecycle, Running, Looping, Sequential!Next, Sequential!NeverStarts, NoTask
<1>6. CASE /\ ChooseNext \/ CloseAfterLast \/ WaitForRoom
           /\ UNCHANGED fate
  BY <1>6 DEF ChooseNext, CloseAfterLast, WaitForRoom, WaitProgress
<1>7. CASE LaunchNext /\ UNCHANGED fate
  <2>1. ~closed
    BY <1>7, Numbers DEF LaunchNext, TryPush, Lifecycle, Running, Looping, Loop, CanQueue
  <2> QED
    BY <1>7, <2>1 DEF LaunchNext, TryPush
<1>8. CASE (AwaitResult \/ PollResult) /\ UNCHANGED fate
  <2>1. CASE cpc \in {"recv", "try_recv"} /\ Recv("loop")
    <3>1. NoteError
      BY <1>8 DEF AwaitResult, PollResult
    <3> QED
      BY <1>8, <2>1, <3>1, ReceiveNext
  <2>2. CASE ~(cpc \in {"recv", "try_recv"} /\ Recv("loop"))
    BY <1>8, <2>2 DEF AwaitResult, PollResult, TryRecv
  <2> QED
    BY <2>1, <2>2
<1>9. CASE (Cancel \/ CloseAtEnd \/ DropReceiver \/ JoinAll) /\ UNCHANGED fate
  BY <1>9 DEF Cancel, CloseAtEnd, DropReceiver, JoinAll
<1>10. ASSUME NEW w \in Workers, WorkerStep(w), UNCHANGED fate
       PROVE  [Sequential!Next]_(Sequential!vars)
  BY <1>10 DEF WorkerStep
<1>11. CASE UNCHANGED vars
  BY <1>11 DEF vars, poolVars
<1> QED
  BY <1>1, <1>2, <1>3, <1>4, <1>5, <1>6, <1>7, <1>8, <1>9, <1>10, <1>11
     DEF Next, CoordinatorStep, EntryAndExit

\* The concurrent execution implements the one-thread visit: same commits,
\* same outcome, and the earliest failing row group decides.
THEOREM SlidingImplementsSequentialVisit == Spec => ImplementsSequentialVisit
<1>1. Init => Sequential!Init
  BY DEF Init, PoolInit, Sequential!Init, Sequential!Plan, Ordinals, NoTask, Sequential!NoOrdinal
<1>2. IInv /\ [Next]_vars => [Sequential!Next]_(Sequential!vars)
  BY StepRefines
<1> QED
  BY <1>1, <1>2, SlidingInvariant, PTL DEF Spec, ImplementsSequentialVisit, Sequential!Spec
=============================================================================
