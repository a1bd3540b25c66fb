------------------------ MODULE BoundedOrderedProofs ------------------------
(***************************************************************************)
(* What both commit modes of the executor keep, whatever their coordinator *)
(* loop decides: where every launched row group is, how the phases of the  *)
(* call go together, and the callback history.  One lemma per operation of *)
(* BoundedOrdered; SlidingCommitProofs and WindowedCommitProofs cite them  *)
(* and add what their own loop maintains.  The last part is about the      *)
(* signal that the coordinator and the workers wait on.                    *)
(***************************************************************************)
EXTENDS BoundedOrdered, ProgressSignal, SumTheorems, TLAPS

Holding == {"popped", "running", "publish", "sending", "blocked"}

\* The calling thread is inside the coordinator loop.
Looping == {"loop", "push", "try_recv", "wait", "close", "recv", "commit"}
Running == {"enter", "spawn"} \cup Looping

\* Ordinals that some worker has popped.
Popped == queued - Len(taskq)

\* The queue holds the most recently launched ordinals, in order.
QueueShape ==
    /\ committed <= Popped
    /\ \A i \in 1 .. Len(taskq) : taskq[i] = Popped + i - 1

\* A popped ordinal is held by at most one worker, channel slot or map entry.
WorkersHold ==
    \A w \in Workers :
        /\ wpc[w] \in Holding => /\ wtask[w] \in committed .. Popped - 1
                                 /\ wtask[w] \notin pending
        /\ wpc[w] \notin Holding => wtask[w] = NoTask
WorkersApart ==
    \A v, w \in Workers : v # w /\ wtask[v] # NoTask => wtask[v] # wtask[w]
ChannelHolds ==
    \A i \in 1 .. Len(chan) :
        /\ chan[i] \in committed .. Popped - 1
        /\ chan[i] \notin pending
        /\ \A w \in Workers : wtask[w] # chan[i]
ChannelApart ==
    \A i, j \in 1 .. Len(chan) : i # j => chan[i] # chan[j]
PendingHolds == pending \subseteq committed .. Popped - 1

\* Nothing popped and uncommitted is lost while the coordinator runs.
Covered ==
    outcome = "none" =>
        \A o \in committed .. Popped - 1 :
            \/ o \in pending
            \/ \E w \in Workers : wtask[w] = o
            \/ \E i \in 1 .. Len(chan) : chan[i] = o

\* How the coordinator's place, the outcome and the flags go together.
Lifecycle ==
    /\ outcome = "none" <=> cpc \in Running
    /\ outcome = "none" => ~cancelled /\ receiverOpen /\ failedAt = NoTask
    /\ cpc \in {"enter", "spawn"} => committed = 0 /\ queued = 0
    /\ cpc \notin {"enter", "returned"} => MaxInFlight > 0 /\ TaskCount > 0
    /\ cpc \in Looping => \A w \in Workers : wpc[w] # "unspawned"
    /\ outcome = "none" /\ closed => queued = TaskCount
    /\ outcome = "none" => \A w \in Workers : wpc[w] = "exited" => closed /\ taskq = <<>>

\* The callback history matches the frontier, and the frontier is error free.
History ==
    /\ outcome = "none" => Len(calls) = committed
    /\ \A o \in 0 .. committed - 1 : fate[o] = "ok"

Place == /\ QueueShape /\ WorkersHold /\ WorkersApart /\ ChannelHolds
         /\ ChannelApart /\ PendingHolds /\ Covered
Commits == History /\ CallbacksInPlanOrder /\ NoInternalError

PoolInv == PoolTypeOK /\ Place /\ Lifecycle /\ Commits

-----------------------------------------------------------------------------
(* Facts about the constants and the helpers.                              *)

\* The pool has at least one worker whenever it has something to do.
LEMMA PoolSize ==
    /\ StartedWorkers \in Nat
    /\ MaxInFlight > 0 /\ TaskCount > 0 => 1 \in Workers
    /\ Coordinator \notin Workers
BY CountAssumption DEF StartedWorkers, Lesser, Workers, Coordinator

\* Notifying progress or taking a snapshot keeps the snapshots' type.
LEMMA SnapTypes ==
    ASSUME PoolTypeOK
    PROVE  /\ \A s \in [Threads -> {"none", "fresh", "moved"}] :
                 NotifyProgress(s) \in [Threads -> {"none", "fresh", "moved"}]
           /\ \A t \in Threads :
                 ProgressSnapshot(t) \in [Threads -> {"none", "fresh", "moved"}]
BY DEF PoolTypeOK, NotifyProgress, ProgressSnapshot

\* Waking waiting workers neither gives nor takes a task.
LEMMA Waking ==
    ASSUME PoolTypeOK
    PROVE  /\ WakeAll \in [Workers -> WorkerPcs]
           /\ WakeOne \subseteq [Workers -> WorkerPcs]
           /\ \A f \in WakeOne \cup {WakeAll}, w \in Workers :
                 f[w] = wpc[w] \/ (wpc[w] = "asleep" /\ f[w] = "pop")
BY DEF PoolTypeOK, WakeAll, WakeOne, WorkerPcs

\* Taking the head of a sequence shifts the others down by one.
LEMMA TailIndices ==
    ASSUME NEW S, NEW q \in Seq(S), q # <<>>
    PROVE  /\ Head(q) = q[1] /\ Head(q) \in S /\ Len(q) \in Nat \ {0}
           /\ Tail(q) \in Seq(S) /\ Len(Tail(q)) = Len(q) - 1
           /\ \A i \in 1 .. Len(q) - 1 : Tail(q)[i] = q[i + 1]
OBVIOUS

\* Appending keeps the old indices and adds one.
LEMMA AppendIndices ==
    ASSUME NEW S, NEW q \in Seq(S), NEW e \in S
    PROVE  /\ Append(q, e) \in Seq(S) /\ Len(Append(q, e)) = Len(q) + 1
           /\ Len(q) \in Nat
           /\ \A i \in 1 .. Len(q) : Append(q, e)[i] = q[i]
           /\ Append(q, e)[Len(q) + 1] = e
OBVIOUS

\* The counters are numbers within the plan.
LEMMA Numbers ==
    ASSUME PoolTypeOK
    PROVE  /\ TaskCount \in Nat /\ MaxInFlight \in Nat
           /\ queued \in Nat /\ committed \in Nat
           /\ queued <= TaskCount /\ committed <= TaskCount
           /\ Len(taskq) \in Nat /\ Len(chan) \in Nat /\ Len(calls) \in Nat
           /\ Popped \in Int
BY CountAssumption DEF PoolTypeOK, Popped

-----------------------------------------------------------------------------
(* Initially nothing is launched.                                          *)

\* execute_bounded_ordered_with_runtime starts with an empty pool.
LEMMA InitPool ==
    ASSUME NEW b \in BOOLEAN, PoolInit(b)
    PROVE  PoolInv
<1> USE CountAssumption DEF PoolInit
<1>1. PoolTypeOK
  <2>1. /\ fate \in [Ordinals -> Prepared] /\ taskq \in Seq(Ordinals)
        /\ chan \in Seq(Ordinals) /\ calls \in Seq(Ordinals) /\ pending \in SUBSET Ordinals
        /\ snap \in [Threads -> {"none", "fresh", "moved"}]
        /\ queued \in 0 .. TaskCount /\ committed \in 0 .. TaskCount
    OBVIOUS
  <2>2. /\ wpc \in [Workers -> WorkerPcs] /\ wtask \in [Workers -> Ordinals \cup {NoTask}]
        /\ cpc \in CoordinatorPcs /\ outcome \in Outcomes
        /\ failedAt \in Ordinals \cup {NoTask}
    BY DEF WorkerPcs, CoordinatorPcs, Outcomes
  <2>3. /\ closed \in BOOLEAN /\ progressOn \in BOOLEAN /\ cancelled \in BOOLEAN
        /\ receiverOpen \in BOOLEAN
    BY Zenon
  <2>4. completed \in Nat /\ gauge \in [results : Int, rows : Int]
    BY SMT
  <2> QED
    BY <2>1, <2>2, <2>3, <2>4, Zenon DEF PoolTypeOK
<1>2. Place
  BY DEF Place, QueueShape, WorkersHold, WorkersApart, ChannelHolds, ChannelApart,
     PendingHolds, Covered, Popped, Holding
<1>3. Lifecycle
  BY DEF Lifecycle, Running, Looping
<1>4. Commits
  BY DEF Commits, History, CallbacksInPlanOrder, NoInternalError
<1> QED
  BY <1>1, <1>2, <1>3, <1>4 DEF PoolInv

-----------------------------------------------------------------------------
(* Worker steps.                                                           *)

\* What every worker step leaves alone keeps the commit history.
LEMMA CommitsKept ==
    ASSUME Commits, UNCHANGED <<endVars, commitVars, fate>>
    PROVE  Commits'
BY DEF Commits, History, CallbacksInPlanOrder, NoInternalError,
   endVars, commitVars

\* A worker that changes its label but not what it holds keeps every ordinal
\* where it was.
LEMMA PlaceKept ==
    ASSUME PoolTypeOK, Place,
           UNCHANGED <<taskq, wtask, chan, queued, committed, pending>>,
           outcome' = "none" => outcome = "none",
           \A w \in Workers : wpc'[w] \in Holding <=> wpc[w] \in Holding
    PROVE  Place'
BY DEF Place, QueueShape, WorkersHold, WorkersApart, ChannelHolds, ChannelApart,
   PendingHolds, Covered, Popped

\* Leaving the loop drops what the worker holds; the coordinator no longer
\* needs it, or the worker held nothing.
LEMMA LeaveStep ==
    ASSUME PoolInv, NEW w \in Workers, Leave(w),
           UNCHANGED <<queueVars, cancelled, completed, channelVars, gauge, cpc,
                       endVars, commitVars, fate>>,
           cancelled \/ (closed /\ taskq = <<>> /\ wtask[w] = NoTask) \/ outcome # "none"
    PROVE  PoolInv'
<1> USE DEF PoolInv, queueVars, channelVars, endVars, commitVars, Leave
<1>1. PoolTypeOK'
  BY DEF PoolTypeOK, WorkerPcs, Threads
<1>2. outcome # "none" \/ (closed /\ taskq = <<>> /\ wtask[w] = NoTask)
  BY DEF Lifecycle
<1>3. Place'
  <2>0. /\ \A v \in Workers : wtask'[v] = IF v = w THEN NoTask ELSE wtask[v]
        /\ \A v \in Workers : wpc'[v] = IF v = w THEN "exited" ELSE wpc[v]
        /\ Popped' = Popped
    BY DEF PoolTypeOK, Popped
  <2>1. (QueueShape /\ ChannelApart /\ PendingHolds)'
    BY <2>0 DEF Place, QueueShape, ChannelApart, PendingHolds
  <2>2. (WorkersHold /\ WorkersApart)'
    BY <2>0 DEF Place, WorkersHold, WorkersApart, Holding
  <2>3. ChannelHolds'
    BY <2>0 DEF Place, ChannelHolds, PoolTypeOK, Ordinals, NoTask
  <2>4. Covered'
    BY <1>2, <2>0 DEF Place, Covered
  <2> QED
    BY <2>1, <2>2, <2>3, <2>4 DEF Place
<1>4. Lifecycle'
  BY <1>2 DEF PoolTypeOK, Lifecycle, Running, Looping
<1> QED
  BY <1>1, <1>3, <1>4, CommitsKept

\* Every worker step keeps the invariant.
LEMMA WorkerKeepsPool ==
    ASSUME PoolInv, NEW w \in Workers, WorkerStep(w), UNCHANGED fate
    PROVE  PoolInv'
<1> DEFINE Same == UNCHANGED <<cpc, endVars, commitVars, fate>>
<1>0. Same
  BY DEF WorkerStep
<1> USE DEF PoolInv, queueVars, channelVars, endVars, commitVars
<1>t. w \in Threads
  BY DEF Threads
<1>1. CASE PopNone(w)
  BY <1>0, <1>1, LeaveStep DEF PopNone, Place, WorkersHold, Holding
<1>2. CASE PopTask(w)
  <2> USE <1>0, <1>2 DEF PopTask, Goto
  <2>1. /\ Head(taskq) = taskq[1] /\ Head(taskq) \in Ordinals /\ Len(taskq) \in Nat \ {0}
        /\ taskq' \in Seq(Ordinals) /\ Len(taskq') = Len(taskq) - 1
        /\ \A i \in 1 .. Len(taskq') : taskq'[i] = taskq[i + 1]
    BY TailIndices DEF PoolTypeOK
  <2>2. PoolTypeOK'
    <3>1. snap' \in [Threads -> {"none", "fresh", "moved"}]
      BY SnapTypes DEF PoolTypeOK
    <3> QED
      BY <2>1, <3>1 DEF PoolTypeOK, WorkerPcs
  <2>3. wtask'[w] = Popped /\ Popped' = Popped + 1
    BY <2>1 DEF PoolTypeOK, Popped, Place, QueueShape
  <2>4. QueueShape'
    BY <2>1, <2>3 DEF PoolTypeOK, Popped, Place, QueueShape
  <2>5. (WorkersHold /\ WorkersApart)'
    <3>1. Popped \in Int /\ committed <= Popped /\ Popped \notin pending
      BY <2>1 DEF PoolTypeOK, Place, PendingHolds, Popped, QueueShape
    <3>2. \A v \in Workers : wtask[v] # Popped
      <4>1. committed \in Nat
        BY DEF PoolTypeOK
      <4> QED
        BY <3>1, <4>1 DEF Place, WorkersHold, NoTask
    <3>3. WorkersHold'
      BY <2>3, <3>1 DEF PoolTypeOK, Place, WorkersHold, Holding
    <3>4. WorkersApart'
      BY <2>3, <3>2 DEF PoolTypeOK, Place, WorkersApart
    <3> QED BY <3>3, <3>4
  <2>6. (ChannelHolds /\ ChannelApart /\ PendingHolds)'
    <3>1. UNCHANGED <<chan, pending, committed, queued>>
      OBVIOUS
    <3>2. Popped \in Int /\ committed \in Nat
      BY <2>1 DEF PoolTypeOK, Popped
    <3>3. ChannelHolds'
      BY <2>3, <3>1, <3>2 DEF PoolTypeOK, Place, ChannelHolds
    <3>4. ChannelApart'
      BY <3>1 DEF Place, ChannelApart
    <3>5. PendingHolds'
      BY <2>3, <3>1, <3>2 DEF PoolTypeOK, Place, PendingHolds
    <3> QED
      BY <3>3, <3>4, <3>5
  <2>7. Covered'
    <3> SUFFICES ASSUME outcome = "none", NEW o \in committed .. Popped' - 1
                 PROVE  \/ o \in pending \/ \E v \in Workers : wtask'[v] = o
                        \/ \E i \in 1 .. Len(chan) : chan[i] = o
      BY DEF Covered
    <3>1. CASE o = Popped
      BY <2>3, <3>1
    <3>2. CASE o # Popped
      <4>1. o \in committed .. Popped - 1
        <5>1. committed \in Nat /\ Popped \in Int
          BY <2>1 DEF PoolTypeOK, Popped
        <5> QED
          BY <3>2, <2>3, <5>1
      <4>2. wtask[w] = NoTask /\ o # NoTask
        <5>1. wtask[w] = NoTask
          BY DEF Place, WorkersHold, Holding
        <5>2. o \in Int /\ o >= 0
          <6>1. committed \in Nat
            BY Numbers
          <6> QED
            BY <4>1, <6>1
        <5> QED
          BY <5>1, <5>2 DEF NoTask
      <4> QED
        BY <4>1, <4>2 DEF Place, Covered, PoolTypeOK
    <3> QED
      BY <3>1, <3>2
  <2>8. Lifecycle'
    BY <2>1 DEF PoolTypeOK, Lifecycle, Running, Looping
  <2> QED
    BY <2>2, <2>4, <2>5, <2>6, <2>7, <2>8, CommitsKept DEF Place
<1>3. CASE PopWait(w) \/ SpuriousWake(w)
  <2>1. PoolTypeOK'
    BY <1>0, <1>3 DEF PopWait, SpuriousWake, Goto, PoolTypeOK, WorkerPcs
  <2>2. Place'
    BY <1>0, <1>3, PlaceKept DEF PopWait, SpuriousWake, Goto, Holding, PoolTypeOK
  <2>3. Lifecycle'
    BY <1>0, <1>3 DEF PopWait, SpuriousWake, Goto, Lifecycle, Running, Looping,
       PoolTypeOK
  <2> QED
    BY <1>0, <2>1, <2>2, <2>3, CommitsKept
<1>4. CASE StartTask(w)
  <2>1. CASE cancelled
    BY <1>0, <1>4, <2>1, LeaveStep DEF StartTask
  <2>2. CASE ~cancelled
    <3> USE <1>0, <1>4, <2>2 DEF StartTask, Goto
    <3>1. PoolTypeOK' BY DEF PoolTypeOK, WorkerPcs
    <3>2. Place' BY PlaceKept DEF Holding, PoolTypeOK
    <3>3. Lifecycle' BY DEF Lifecycle, Running, Looping, PoolTypeOK
    <3> QED BY <3>1, <3>2, <3>3, CommitsKept
  <2> QED BY <2>1, <2>2
<1>5. CASE RunTask(w)
  <2> USE <1>0, <1>5 DEF RunTask, Goto
  <2>0. wtask[w] \in Ordinals
    BY DEF Place, WorkersHold, Holding, PoolTypeOK, NoTask
  <2>1. DecodedRows(wtask[w]) \in Nat
    BY <2>0, RowCountAssumption DEF DecodedRows
  <2>2. PoolTypeOK' BY <2>1 DEF PoolTypeOK, WorkerPcs
  <2>3. Place' BY PlaceKept DEF Holding, PoolTypeOK
  <2>4. Lifecycle' BY DEF Lifecycle, Running, Looping, PoolTypeOK
  <2> QED BY <2>2, <2>3, <2>4, CommitsKept
<1>6. CASE PublishOrQuit(w)
  <2>1. CASE cancelled
    BY <1>0, <1>6, <2>1, LeaveStep DEF PublishOrQuit
  <2>2. CASE ~cancelled
    <3> USE <1>0, <1>6, <2>2 DEF PublishOrQuit, Goto
    <3>0. snap' \in [Threads -> {"none", "fresh", "moved"}]
      BY <1>t, SnapTypes DEF PoolTypeOK
    <3>1. PoolTypeOK' BY <3>0 DEF PoolTypeOK, WorkerPcs
    <3>2. Place' BY PlaceKept DEF Holding, PoolTypeOK
    <3>3. Lifecycle' BY DEF Lifecycle, Running, Looping, PoolTypeOK
    <3> QED BY <3>1, <3>2, <3>3, CommitsKept
  <2> QED BY <2>1, <2>2
<1>7. CASE SendDisconnected(w)
  BY <1>0, <1>7, LeaveStep DEF SendDisconnected, Lifecycle
<1>8. CASE SendOk(w)
  <2> USE <1>0, <1>8 DEF SendOk, Goto
  <2>1. /\ wtask[w] \in committed .. Popped - 1 /\ wtask[w] \notin pending
        /\ wtask[w] \in Ordinals /\ wtask[w] # NoTask
    BY DEF Place, WorkersHold, Holding, PoolTypeOK, Ordinals, NoTask
  <2>2. /\ chan' \in Seq(Ordinals) /\ Len(chan') = Len(chan) + 1 /\ Len(chan) \in Nat
        /\ \A i \in 1 .. Len(chan) : chan'[i] = chan[i]
        /\ chan'[Len(chan) + 1] = wtask[w]
    BY <2>1, AppendIndices DEF PoolTypeOK
  <2>3. PoolTypeOK'
    <3>1. [snap EXCEPT ![w] = "none"] \in [Threads -> {"none", "fresh", "moved"}]
      BY <1>t DEF PoolTypeOK
    <3>2. snap' \in [Threads -> {"none", "fresh", "moved"}]
      BY <3>1, SnapTypes DEF PoolTypeOK
    <3> QED
      BY <2>2, <3>2 DEF PoolTypeOK, WorkerPcs
  <2>4. (QueueShape /\ PendingHolds)'
    BY DEF Place, QueueShape, PendingHolds, Popped
  <2>5. (WorkersHold /\ WorkersApart)'
    BY DEF Place, WorkersHold, WorkersApart, Holding, Popped, PoolTypeOK
  <2>6. ChannelHolds'
    <3>1. /\ \A v \in Workers : wtask'[v] = IF v = w THEN NoTask ELSE wtask[v]
          /\ Popped' = Popped /\ pending' = pending /\ committed' = committed
      BY DEF PoolTypeOK, Popped
    <3>2. \A i \in 1 .. Len(chan') : i \in 1 .. Len(chan) \/ i = Len(chan) + 1
      BY <2>2
    <3>3. \A i \in 1 .. Len(chan) : chan[i] # NoTask
      BY Numbers DEF Place, ChannelHolds, NoTask
    <3> QED
      BY <2>1, <2>2, <3>1, <3>2, <3>3 DEF Place, ChannelHolds, WorkersApart
  <2>7. ChannelApart'
    BY <2>1, <2>2 DEF Place, ChannelHolds, ChannelApart
  <2>8. Covered'
    <3> SUFFICES ASSUME outcome = "none", NEW o \in committed .. Popped - 1
                 PROVE  \/ o \in pending \/ \E v \in Workers : wtask'[v] = o
                        \/ \E i \in 1 .. Len(chan') : chan'[i] = o
      BY DEF Covered, Popped
    <3>1. CASE o = wtask[w]
      BY <3>1, <2>2
    <3>2. CASE o # wtask[w]
      BY <3>2, <2>2 DEF Place, Covered, PoolTypeOK
    <3> QED BY <3>1, <3>2
  <2>9. Lifecycle'
    BY DEF Lifecycle, Running, Looping, PoolTypeOK
  <2> QED
    BY <2>3, <2>4, <2>5, <2>6, <2>7, <2>8, <2>9, CommitsKept DEF Place
<1>9. CASE SendFull(w)
  <2> USE <1>0, <1>9 DEF SendFull, Goto
  <2>1. progressOn' \in BOOLEAN BY DEF PoolTypeOK
  <2>2. PoolTypeOK' BY <2>1 DEF PoolTypeOK, WorkerPcs
  <2>3. Place' BY PlaceKept DEF Holding, PoolTypeOK
  <2>4. Lifecycle' BY DEF Lifecycle, Running, Looping, PoolTypeOK
  <2> QED BY <2>2, <2>3, <2>4, CommitsKept
<1>10. CASE WakeMoved(w)
  <2>1. CASE cancelled
    BY <1>0, <1>10, <2>1, LeaveStep DEF WakeMoved
  <2>2. CASE ~cancelled
    <3> USE <1>0, <1>10, <2>2 DEF WakeMoved, Goto
    <3>1. PoolTypeOK' BY DEF PoolTypeOK, WorkerPcs
    <3>2. Place' BY PlaceKept DEF Holding, PoolTypeOK
    <3>3. Lifecycle' BY DEF Lifecycle, Running, Looping, PoolTypeOK
    <3> QED BY <3>1, <3>2, <3>3, CommitsKept
  <2> QED BY <2>1, <2>2
<1>11. CASE WakeCancelled(w)
  BY <1>0, <1>11, LeaveStep DEF WakeCancelled
<1> QED
  BY <1>1, <1>2, <1>3, <1>4, <1>5, <1>6, <1>7, <1>8, <1>9, <1>10, <1>11
     DEF WorkerStep, WorkerProgress

-----------------------------------------------------------------------------
(* The calling thread's operations.                                        *)

\* Moving on within the loop, with a new snapshot or notifications turned on,
\* moves no ordinal.
LEMMA LabelStep ==
    ASSUME PoolInv, cpc \in Looping, cpc' \in Looping,
           snap' \in [Threads -> {"none", "fresh", "moved"}], progressOn' \in BOOLEAN,
           UNCHANGED <<taskq, closed, cancelled, workerVars, channelVars, gauge, endVars,
                       commitVars, fate>>
    PROVE  PoolInv'
<1> USE DEF PoolInv, workerVars, channelVars, endVars, commitVars
<1>1. PoolTypeOK' BY DEF PoolTypeOK, CoordinatorPcs, Looping
<1>2. Place' BY PlaceKept
<1>3. Lifecycle' BY DEF Lifecycle, Running, Looping
<1> QED BY <1>1, <1>2, <1>3, CommitsKept

\* Ending the loop with a reported outcome keeps what is already committed.
LEMMA EndStep ==
    ASSUME PoolInv, cpc \in Looping,
           NEW o \in Outcomes \ {"none", "disconnected", "duplicate"},
           NEW at \in Ordinals \cup {NoTask}, EndWith(o, at),
           pending' \subseteq pending, cancelled' \in BOOLEAN,
           UNCHANGED <<queueVars, snap, workerVars, channelVars, gauge, queued, committed,
                       calls, fate>>
    PROVE  PoolInv'
<1> USE DEF PoolInv, queueVars, workerVars, channelVars, EndWith
<1>1. PoolTypeOK' BY DEF PoolTypeOK, CoordinatorPcs
<1>2. Place'
  BY DEF Place, QueueShape, WorkersHold, WorkersApart, ChannelHolds, ChannelApart,
     PendingHolds, Covered, Popped
<1>3. Lifecycle' BY DEF Lifecycle, Running, Looping
<1>4. Commits' BY DEF Commits, History, CallbacksInPlanOrder, NoInternalError
<1> QED BY <1>1, <1>2, <1>3, <1>4

\* Closing the queue once everything is launched.
LEMMA CloseStep ==
    ASSUME PoolInv, cpc \in Looping, cpc' \in Looping, queued = TaskCount, CloseQueue,
           UNCHANGED <<cancelled, channelVars, gauge, endVars, commitVars, fate>>
    PROVE  PoolInv'
<1> USE DEF PoolInv, CloseQueue, channelVars, endVars, commitVars
<1>1. /\ wpc' \in [Workers -> WorkerPcs]
      /\ \A w \in Workers : wpc'[w] = wpc[w] \/ (wpc[w] = "asleep" /\ wpc'[w] = "pop")
  BY Waking
<1>2. snap' \in [Threads -> {"none", "fresh", "moved"}]
  BY SnapTypes DEF PoolTypeOK
<1>3. PoolTypeOK' BY <1>1, <1>2 DEF PoolTypeOK, CoordinatorPcs, Looping
<1>4. Place' BY <1>1, PlaceKept DEF Holding
<1>5. Lifecycle' BY <1>1 DEF Lifecycle, Running, Looping
<1> QED BY <1>3, <1>4, <1>5, CommitsKept

\* The delivered ordinal leaves the reorder map and the frontier moves past
\* it, or the execution ends.
LEMMA CommitStep ==
    ASSUME PoolInv, cpc \in Looping, committed \in pending, fate[committed] = "ok",
           NEW next \in Looping, CommitFrontier(next), UNCHANGED fate
    PROVE  /\ PoolInv' /\ committed \in Ordinals
           /\ committed' \in {committed, committed + 1}
           /\ (outcome' = "none" => committed' = committed + 1 /\ cpc' = next)
<1> USE DEF PoolInv, CommitFrontier, EndWith, queueVars, workerVars,
        channelVars, endVars
<1>1. /\ committed \in Ordinals /\ committed \in Nat /\ committed + 1 \in 0 .. TaskCount
      /\ committed < Popped /\ Popped \in Int
  <2>1. committed \in Ordinals
    BY DEF PoolTypeOK
  <2>2. committed \in committed .. Popped - 1
    BY DEF Place, PendingHolds
  <2> QED
    BY <2>1, <2>2, Numbers DEF Ordinals
<1>2. /\ calls' \in Seq(Ordinals) /\ Len(calls') = Len(calls) + 1 /\ Len(calls) = committed
      /\ \A i \in 1 .. Len(calls) : calls'[i] = calls[i]
      /\ calls'[Len(calls) + 1] = committed
  BY <1>1, AppendIndices DEF PoolTypeOK, Lifecycle, Running, Looping, Commits, History
<1>3. committed' \in {committed, committed + 1} /\ (outcome' = "none" => committed' = committed + 1 /\ cpc' = next)
  BY DEF Outcomes
<1>4. PoolTypeOK'
  <2>1. gauge' \in [results : Int, rows : Int]
    <3>1. gauge \in [results : Int, rows : Int] /\ RowCount[committed] \in Int
      BY <1>1, RowCountAssumption DEF PoolTypeOK
    <3>2. gauge' = gauge
          \/ gauge' = [results |-> gauge.results - 1,
                       rows |-> gauge.rows - RowCount[committed]]
      BY DEF Retire
    <3> QED
      BY <3>1, <3>2
  <2>2. cancelled' \in BOOLEAN /\ outcome' \in Outcomes /\ cpc' \in CoordinatorPcs
    BY Zenon DEF PoolTypeOK, Outcomes, CoordinatorPcs, Looping
  <2>3. failedAt' \in Ordinals \cup {NoTask} /\ committed' \in 0 .. TaskCount
    BY <1>1 DEF PoolTypeOK
  <2> QED
    BY <1>2, <2>1, <2>2, <2>3 DEF PoolTypeOK
<1>5. Popped' = Popped
  BY DEF Popped
<1>6. Place'
  <2>1. QueueShape' /\ PendingHolds'
    BY <1>1, <1>3, <1>5 DEF Place, QueueShape, PendingHolds
  <2>2. WorkersHold' /\ WorkersApart'
    BY <1>1, <1>3, <1>5 DEF Place, WorkersHold, WorkersApart
  <2>3. ChannelHolds' /\ ChannelApart'
    BY <1>1, <1>3, <1>5 DEF Place, ChannelHolds, ChannelApart
  <2>4. Covered'
    BY <1>1, <1>3, <1>5 DEF Place, Covered, Lifecycle, Running, Looping
  <2> QED
    BY <2>1, <2>2, <2>3, <2>4 DEF Place
<1>7. Lifecycle'
  BY <1>1 DEF Lifecycle, Running, Looping
<1>8. Commits'
  <2>0. fate' = fate /\ fate[committed] = "ok"
    OBVIOUS
  <2>2. History'
    <3> HIDE DEF CommitFrontier
    <3>1. \A o \in 0 .. committed' - 1 : o \in 0 .. committed - 1 \/ o = committed
      <4>1. CASE committed' = committed BY <4>1
      <4>2. CASE committed' = committed + 1
        <5> SUFFICES ASSUME NEW o \in 0 .. committed PROVE o \in 0 .. committed - 1 \/ o = committed
          BY <1>1, <4>2
        <5> QED BY <1>1
      <4> QED BY <1>3, <4>1, <4>2
    <3> QED
      BY <1>1, <1>2, <1>3, <2>0, <3>1 DEF Commits, History
  <2>3. CallbacksInPlanOrder'
    <3> HIDE DEF CommitFrontier
    <3>1. \A i \in 1 .. Len(calls') : i \in 1 .. Len(calls) \/ i = Len(calls) + 1
      BY <1>1, <1>2
    <3>2. \A i \in 1 .. Len(calls') : calls'[i] = i - 1 /\ fate'[calls'[i]] = "ok"
      BY <1>1, <1>2, <2>0, <3>1 DEF Commits, CallbacksInPlanOrder
    <3> QED
      BY <1>1, <1>2, <1>3, <3>2 DEF CallbacksInPlanOrder
  <2>4. NoInternalError'
    BY DEF Commits, NoInternalError
  <2> QED
    BY <2>2, <2>3, <2>4 DEF Commits
<1> QED
  BY <1>1, <1>3, <1>4, <1>6, <1>7, <1>8

\* Launching appends the next ordinal to the queue, within the window.
LEMMA LaunchStep ==
    ASSUME PoolInv, queued < TaskCount, NEW next \in Looping, TryPush(next), UNCHANGED fate
    PROVE  /\ PoolInv' /\ ~closed
           /\ UNCHANGED <<endVars, committed, pending, progressOn>>
           /\ IF Len(taskq) >= TaskQueueCapacity THEN cpc' = "try_recv" /\ queued' = queued
              ELSE cpc' = next /\ queued' = queued + 1
<1> USE DEF PoolInv, channelVars, endVars
<1>1. cpc = "push" /\ cpc \in Looping /\ outcome = "none"
  BY DEF TryPush, Lifecycle, Running, Looping
<1>2. ~closed /\ queued \in Ordinals /\ queued \in Nat /\ queued + 1 \in 0 .. TaskCount
  BY <1>1, Numbers DEF Lifecycle, Ordinals
<1>3. UNCHANGED <<closed, progressOn, snap, cancelled, wtask, completed, chan, receiverOpen,
                  gauge, committed, pending, calls, outcome, failedAt>>
  BY <1>2 DEF TryPush
<1>4. CASE Len(taskq) >= TaskQueueCapacity
  <2>1. cpc' = "try_recv" /\ UNCHANGED <<taskq, wpc, queued>>
    BY <1>2, <1>4 DEF TryPush
  <2>2. PoolInv'
    BY <1>1, <1>3, <2>1, LabelStep DEF Looping, workerVars, commitVars, PoolTypeOK
  <2> QED
    BY <1>2, <1>3, <1>4, <2>1, <2>2
<1>5. CASE ~(Len(taskq) >= TaskQueueCapacity)
  <2>0. taskq' = Append(taskq, queued) /\ wpc' \in WakeOne /\ queued' = queued + 1 /\ cpc' = next
    BY <1>2, <1>5 DEF TryPush
  <2>1. /\ taskq' \in Seq(Ordinals) /\ Len(taskq') = Len(taskq) + 1 /\ Len(taskq) \in Nat
        /\ \A i \in 1 .. Len(taskq) : taskq'[i] = taskq[i]
        /\ taskq'[Len(taskq) + 1] = queued
    BY <1>2, <2>0, AppendIndices DEF PoolTypeOK
  <2>2. Popped' = Popped /\ Popped \in Int /\ Popped = queued - Len(taskq)
    BY <1>2, <2>0, <2>1 DEF Popped
  <2>3. /\ wpc' \in [Workers -> WorkerPcs]
        /\ \A w \in Workers : wpc'[w] = wpc[w] \/ (wpc[w] = "asleep" /\ wpc'[w] = "pop")
    BY <2>0, Waking
  <2>4. PoolTypeOK'
    BY <1>2, <1>3, <2>0, <2>1, <2>3 DEF PoolTypeOK, CoordinatorPcs, Looping
  <2>5. Place'
    <3>1. QueueShape'
      <4>1. \A i \in 1 .. Len(taskq') : i \in 1 .. Len(taskq) \/ i = Len(taskq) + 1
        BY <2>1
      <4>2. taskq'[Len(taskq) + 1] = Popped + (Len(taskq) + 1) - 1
        BY <1>2, <2>1, <2>2
      <4>3. \A i \in 1 .. Len(taskq') : taskq'[i] = Popped + i - 1
        BY <2>1, <4>1, <4>2 DEF Place, QueueShape
      <4> QED
        BY <1>3, <2>2, <4>3 DEF Place, QueueShape
    <3>2. WorkersHold' /\ WorkersApart'
      BY <1>3, <2>2, <2>3 DEF Place, WorkersHold, WorkersApart, Holding
    <3>3. ChannelHolds' /\ ChannelApart' /\ Covered' /\ PendingHolds'
      BY <1>3, <2>2 DEF Place, ChannelHolds, ChannelApart, Covered, PendingHolds
    <3> QED
      BY <3>1, <3>2, <3>3 DEF Place
  <2>6. Lifecycle'
    BY <1>1, <1>2, <1>3, <2>0, <2>1, <2>3 DEF Lifecycle, Running, Looping
  <2>7. Commits'
    BY <1>3 DEF Commits, History, CallbacksInPlanOrder, NoInternalError
  <2>8. PoolInv'
    BY <2>4, <2>5, <2>6, <2>7
  <2> QED
    BY <1>2, <1>3, <1>5, <2>0, <2>8
<1> QED
  BY <1>4, <1>5

\* A received ordinal moves from the channel to the reorder map.
LEMMA ReceiveStep ==
    ASSUME PoolInv, cpc \in Looping, chan # <<>>, NEW next \in Looping, Recv(next),
           UNCHANGED fate
    PROVE  /\ PoolInv'
           /\ cpc' = next /\ pending' = pending \cup {Head(chan)} /\ Head(chan) \in Ordinals
           /\ UNCHANGED <<endVars, queueVars, queued, committed>>
<1> USE DEF PoolInv
<1>2. /\ Head(chan) = chan[1] /\ Head(chan) \in Ordinals /\ Len(chan) \in Nat \ {0}
      /\ Tail(chan) \in Seq(Ordinals) /\ Len(Tail(chan)) = Len(chan) - 1
      /\ \A i \in 1 .. Len(chan) - 1 : Tail(chan)[i] = chan[i + 1]
  BY TailIndices DEF PoolTypeOK
<1>3. /\ Head(chan) \in committed .. Popped - 1 /\ Head(chan) \notin pending
      /\ \A w \in Workers : wtask[w] # Head(chan)
  BY <1>2 DEF Place, ChannelHolds
<1>4. /\ chan' = Tail(chan) /\ snap' = NotifyProgress(snap)
      /\ pending' = pending \cup {Head(chan)} /\ cpc' = next
      /\ UNCHANGED <<endVars, queueVars, cancelled, workerVars, receiverOpen, gauge,
                     queued, committed, calls>>
  BY <1>3 DEF Recv, TakeResult
<1> USE <1>4 DEF endVars, queueVars, workerVars
<1>6. PoolTypeOK'
  <2>1. snap' \in [Threads -> {"none", "fresh", "moved"}]
    BY SnapTypes DEF PoolTypeOK
  <2> QED
    BY <1>2, <2>1 DEF PoolTypeOK, CoordinatorPcs, Looping
<1>7. Popped' = Popped
  BY DEF Popped
<1>8. Place'
  <2>1. QueueShape' /\ PendingHolds'
    BY <1>3, <1>7 DEF Place, QueueShape, PendingHolds
  <2>2. WorkersHold' /\ WorkersApart'
    BY <1>3, <1>7 DEF Place, WorkersHold, WorkersApart
  <2>3. ChannelHolds' /\ ChannelApart'
    <3>1. \A i \in 1 .. Len(chan') : i + 1 \in 1 .. Len(chan) /\ i + 1 # 1 /\ chan'[i] = chan[i + 1]
      BY <1>2
    <3>2. \A i \in 1 .. Len(chan') : chan'[i] # Head(chan)
      BY <1>2, <3>1 DEF Place, ChannelApart
    <3>3. ChannelHolds'
      BY <1>7, <3>1, <3>2 DEF Place, ChannelHolds
    <3>4. \A i, j \in 1 .. Len(chan') : i # j => i + 1 # j + 1
      BY <1>2
    <3> QED
      BY <3>1, <3>3, <3>4 DEF Place, ChannelApart
  <2>4. Covered'
    <3> SUFFICES ASSUME outcome = "none", NEW o \in committed .. Popped - 1
                 PROVE  \/ o \in pending' \/ \E w \in Workers : wtask[w] = o
                        \/ \E i \in 1 .. Len(chan') : chan'[i] = o
      BY <1>7 DEF Covered
    <3>1. CASE \E i \in 1 .. Len(chan) : chan[i] = o
      <4>1. PICK i \in 1 .. Len(chan) : chan[i] = o
        BY <3>1
      <4>2. CASE i = 1 BY <4>1, <4>2, <1>2
      <4>3. CASE i # 1
        <5>1. i - 1 \in 1 .. Len(chan') /\ chan'[i - 1] = o
          BY <4>1, <4>3, <1>2
        <5> QED BY <5>1
      <4> QED BY <4>2, <4>3
    <3>2. CASE ~\E i \in 1 .. Len(chan) : chan[i] = o
      BY <3>2 DEF Place, Covered
    <3> QED BY <3>1, <3>2
  <2> QED
    BY <2>1, <2>2, <2>3, <2>4 DEF Place
<1>9. Lifecycle'
  BY DEF Lifecycle, Running, Looping
<1>10. Commits'
  BY DEF Commits, History, CallbacksInPlanOrder, NoInternalError
<1> QED
  BY <1>2, <1>6, <1>8, <1>9, <1>10

\* Entering, spawning and shutting the pool down move no ordinal either.
LEMMA EntryAndExitStep ==
    ASSUME PoolInv, EntryAndExit, UNCHANGED fate
    PROVE  PoolInv'
<1> USE DEF PoolInv, queueVars, workerVars, channelVars, endVars, commitVars, EndWith
<1>1. CASE Enter
  <2> USE <1>1 DEF Enter
  <2>1. PoolTypeOK' BY DEF PoolTypeOK, CoordinatorPcs, Outcomes
  <2>2. Place' BY PlaceKept DEF Lifecycle, Running, Looping
  <2>3. Lifecycle' BY CountAssumption DEF Lifecycle, Running, Looping
  <2>4. Commits' BY DEF Commits, History, CallbacksInPlanOrder, NoInternalError,
           Lifecycle, Running, Looping
  <2> QED BY <2>1, <2>2, <2>3, <2>4
<1>2. ASSUME NEW w \in Workers, Spawn(w) PROVE PoolInv'
  <2> USE <1>2 DEF Spawn, Goto
  <2>1. PoolTypeOK' BY DEF PoolTypeOK, CoordinatorPcs, Outcomes, WorkerPcs
  <2>2. Place' BY PlaceKept DEF Lifecycle, Running, Looping, Holding, PoolTypeOK
  <2>3. Lifecycle'
    <3>1. cpc' = "loop" => \A v \in Workers : wpc'[v] # "unspawned"
      BY PoolSize DEF Workers, PoolTypeOK
    <3> QED
      BY <3>1 DEF Lifecycle, Running, Looping, PoolTypeOK
  <2>4. Commits' BY DEF Commits, History, CallbacksInPlanOrder, NoInternalError,
           Lifecycle, Running, Looping
  <2> QED BY <2>1, <2>2, <2>3, <2>4
<1>3. CASE Cancel
  <2> USE <1>3 DEF Cancel
  <2>0. cancelled' \in BOOLEAN BY DEF PoolTypeOK
  <2>1. PoolTypeOK' BY <2>0 DEF PoolTypeOK, CoordinatorPcs
  <2>2. Place' BY PlaceKept
  <2>3. Lifecycle' BY DEF Lifecycle, Running, Looping
  <2> QED BY <2>1, <2>2, <2>3, CommitsKept
<1>4. CASE CloseAtEnd
  <2> USE <1>4 DEF CloseAtEnd, CloseQueue
  <2>0. /\ wpc' \in [Workers -> WorkerPcs]
        /\ \A w \in Workers : wpc'[w] = wpc[w] \/ (wpc[w] = "asleep" /\ wpc'[w] = "pop")
    BY Waking
  <2>1. PoolTypeOK'
    <3>1. snap' \in [Threads -> {"none", "fresh", "moved"}]
      BY SnapTypes DEF PoolTypeOK
    <3> QED BY <2>0, <3>1 DEF PoolTypeOK, CoordinatorPcs
  <2>2. Place' BY <2>0, PlaceKept DEF Holding
  <2>3. Lifecycle' BY <2>0 DEF Lifecycle, Running, Looping
  <2> QED BY <2>1, <2>2, <2>3, CommitsKept
<1>5. CASE DropReceiver
  <2> USE <1>5 DEF DropReceiver
  <2>0. receiverOpen' \in BOOLEAN /\ chan' \in Seq(Ordinals)
    <3>1. receiverOpen' \in BOOLEAN BY Zenon
    <3>2. chan' \in Seq(Ordinals) BY SMT
    <3> QED BY <3>1, <3>2
  <2>1. PoolTypeOK' BY <2>0 DEF PoolTypeOK, CoordinatorPcs
  <2>2. Place' BY DEF Place, QueueShape, WorkersHold, WorkersApart, ChannelHolds, ChannelApart,
           PendingHolds, Covered, Popped, Lifecycle, Running, Looping
  <2>3. Lifecycle' BY DEF Lifecycle, Running, Looping
  <2> QED BY <2>1, <2>2, <2>3, CommitsKept
<1>6. CASE JoinAll
  <2> USE <1>6 DEF JoinAll
  <2>1. PoolTypeOK' BY DEF PoolTypeOK, CoordinatorPcs
  <2>2. Place' BY PlaceKept
  <2>3. Lifecycle' BY DEF Lifecycle, Running, Looping
  <2> QED BY <2>1, <2>2, <2>3, CommitsKept
<1> QED
  BY <1>1, <1>2, <1>3, <1>4, <1>5, <1>6 DEF EntryAndExit

\* Doing nothing changes nothing.
LEMMA PoolStutter ==
    ASSUME PoolInv, UNCHANGED poolVars
    PROVE  PoolInv'
<1> USE DEF PoolInv, poolVars, queueVars, workerVars, channelVars, endVars, commitVars
<1>1. PoolTypeOK' BY Zenon DEF PoolTypeOK
<1>2. Place' BY PlaceKept
<1>3. Lifecycle' BY DEF Lifecycle
<1> QED BY <1>1, <1>2, <1>3, CommitsKept

-----------------------------------------------------------------------------
(* The books: gauges and counters.                                         *)

\* A worker whose row group is not finished yet.
Unfinished == {"popped", "running"}

\* The gauges count the row groups of S: while the coordinator runs, exactly those
\* that wait for their callback; later S may keep some that nobody waits for.
Counted(S) ==
    /\ S \subseteq committed .. Popped - 1
    /\ gauge.results = Cardinality(S) /\ gauge.rows = SumRows(S)
    /\ \A w \in Workers : wpc[w] \in Unfinished => wtask[w] \notin S
    /\ outcome = "none" => S = Unretired
Books == /\ \E S \in SUBSET Ordinals : Counted(S)
         /\ completed = committed + gauge.results
         /\ outcome = "completed" => committed = TaskCount

\* Row groups are finitely many, and each has a number of rows.
LEMMA RowsAreNumbers ==
    ASSUME fate \in [Ordinals -> Prepared]
    PROVE  /\ IsFiniteSet(Ordinals)
           /\ \A o \in Ordinals : [p \in Ordinals |-> DecodedRows(p)][o] \in Nat
           /\ \A S \in SUBSET Ordinals : /\ IsFiniteSet(S) /\ Cardinality(S) \in Nat
                                         /\ SumRows(S) \in Nat
<1>1. IsFiniteSet(Ordinals)
  <2>1. 0 \in Int /\ TaskCount - 1 \in Int
    BY CountAssumption
  <2> QED
    BY <2>1, FS_Interval DEF Ordinals
<1>2. \A o \in Ordinals : [p \in Ordinals |-> DecodedRows(p)][o] \in Nat
  BY RowCountAssumption DEF DecodedRows
<1>3. ASSUME NEW S \in SUBSET Ordinals
      PROVE  IsFiniteSet(S) /\ Cardinality(S) \in Nat /\ SumRows(S) \in Nat
  <2> DEFINE rows == [p \in Ordinals |-> DecodedRows(p)]
  <2>1. IsFiniteSet(S) /\ Cardinality(S) \in Nat
    BY <1>1, SubsetsAreFinite
  <2>2. \A o \in S : rows[o] \in Nat
    BY <1>2
  <2> HIDE DEF rows
  <2>3. SumFunctionOnSet(rows, S) \in Nat
    BY <2>1, <2>2, SumIsNatural
  <2> QED
    BY <2>1, <2>3 DEF SumRows, rows
<1> QED
  BY <1>1, <1>2, <1>3

\* One row group more in the books, or one less.
LEMMA OneRowGroupMore ==
    ASSUME fate \in [Ordinals -> Prepared], NEW S \in SUBSET Ordinals, NEW o \in Ordinals \ S
    PROVE  /\ Cardinality(S \cup {o}) = Cardinality(S) + 1
           /\ SumRows(S \cup {o}) = SumRows(S) + DecodedRows(o)
<1> DEFINE rows == [p \in Ordinals |-> DecodedRows(p)]
<1>1. /\ IsFiniteSet(S) /\ \A p \in Ordinals : rows[p] \in Nat
  BY RowsAreNumbers
<1>2. rows[o] = DecodedRows(o) /\ SumRows(S) \in Nat
  BY RowsAreNumbers
<1> HIDE DEF rows
<1>3. SumFunctionOnSet(rows, S \cup {o}) = rows[o] + SumFunctionOnSet(rows, S)
  <2>1. \A x \in S \cup {o} : rows[x] \in Int
    BY <1>1
  <2> QED
    BY <1>1, <2>1, SumAdd
<1>4. rows[o] + SumRows(S) = SumRows(S) + DecodedRows(o)
  <2>1. rows[o] \in Int
    BY <1>1
  <2> QED
    BY <1>2, <2>1
<1>5. Cardinality(S \cup {o}) = Cardinality(S) + 1
  BY <1>1, FS_AddElement
<1> QED
  BY <1>3, <1>4, <1>5 DEF SumRows, rows

\* A step that finishes and delivers nothing keeps the books.
LEMMA BooksKept ==
    ASSUME PoolInv, Books, UNCHANGED <<fate, gauge, completed, committed>>,
           committed .. Popped - 1 \subseteq committed .. Popped' - 1,
           \A w \in Workers : wpc'[w] \in Unfinished =>
              \/ wpc[w] \in Unfinished /\ wtask'[w] = wtask[w]
              \/ wtask'[w] \notin committed .. Popped - 1,
           outcome' = "none" => outcome = "none" /\ Unretired' = Unretired,
           outcome' = "completed" => outcome = "completed" \/ committed = TaskCount
    PROVE  Books'
<1>1. PICK S \in SUBSET Ordinals : Counted(S)
  BY DEF Books
<1>2. SumRows(S)' = SumRows(S)
  BY DEF SumRows, DecodedRows
<1>3. Counted(S)'
  BY <1>1, <1>2 DEF Counted
<1> QED
  BY <1>3 DEF Books

\* A worker that leaves finishes nothing, and only leaves a running call when it
\* holds nothing.
LEMMA LeaveKeepsBooks ==
    ASSUME PoolInv, Books, NEW w \in Workers, Leave(w),
           UNCHANGED <<fate, gauge, completed, taskq, queued, committed, pending, chan, outcome>>,
           outcome = "none" => ~Publishing(w)
    PROVE  Books'
<1>1. /\ wpc \in [Workers -> WorkerPcs] /\ wtask \in [Workers -> Ordinals \cup {NoTask}]
  BY DEF PoolInv, PoolTypeOK
<1>2. /\ \A v \in Workers : v # w => wpc'[v] = wpc[v] /\ wtask'[v] = wtask[v]
      /\ wpc'[w] = "exited"
  BY <1>1 DEF Leave
<1>3. Popped' = Popped
  BY DEF Popped
<1>4. outcome = "none" => Unretired' = Unretired
  BY <1>2 DEF Unretired, Publishing
<1>5. \A v \in Workers : wpc'[v] \in Unfinished => wpc[v] \in Unfinished /\ wtask'[v] = wtask[v]
  BY <1>2 DEF Unfinished
<1> QED
  BY <1>3, <1>4, <1>5, BooksKept

\* A worker that moves on without finishing, publishing or taking a task.
LEMMA MoveKeepsBooks ==
    ASSUME PoolInv, Books, NEW w \in Workers, NEW label, Goto(w, label),
           UNCHANGED <<fate, gauge, completed, taskq, queued, committed, pending, chan, outcome,
                       wtask>>,
           label \in Unfinished => wpc[w] \in Unfinished,
           label \in {"publish", "sending", "blocked"} <=> Publishing(w)
    PROVE  Books'
<1>1. /\ \A v \in Workers : v # w => wpc'[v] = wpc[v]
      /\ wpc'[w] = label
  BY DEF Goto, PoolInv, PoolTypeOK
<1>2. Popped' = Popped
  BY DEF Popped
<1>3. Unretired' = Unretired
  <2>1. \A v \in Workers : Publishing(v)' <=> Publishing(v)
    BY <1>1 DEF Publishing
  <2> QED
    BY <2>1 DEF Unretired
<1>4. \A v \in Workers : wpc'[v] \in Unfinished => wpc[v] \in Unfinished /\ wtask'[v] = wtask[v]
  BY <1>1
<1> QED
  BY <1>2, <1>3, <1>4, BooksKept

\* A worker takes the oldest task, which no book knows yet.
LEMMA PopKeepsBooks ==
    ASSUME PoolInv, Books, NEW w \in Workers, PopTask(w), UNCHANGED <<cpc, endVars, commitVars, fate>>
    PROVE  Books'
<1> USE DEF PopTask, Goto, endVars, commitVars, channelVars
<1>0. /\ wpc \in [Workers -> WorkerPcs] /\ wtask \in [Workers -> Ordinals \cup {NoTask}]
      /\ committed \in Nat /\ Popped \in Int /\ Len(taskq) \in Nat \ {0}
      /\ Head(taskq) = taskq[1] /\ Len(taskq') = Len(taskq) - 1 /\ queued \in Nat
  BY Numbers, TailIndices DEF PoolInv, PoolTypeOK
<1>1. wtask'[w] = Popped /\ Popped' = Popped + 1
  BY <1>0 DEF Popped, PoolInv, Place, QueueShape
<1>2. /\ \A v \in Workers : v # w => wpc'[v] = wpc[v] /\ wtask'[v] = wtask[v]
      /\ wpc'[w] = "popped" /\ wpc[w] = "pop"
  BY <1>0
<1>3. Unretired' = Unretired
  BY <1>2 DEF Unretired, Publishing
<1>4. wtask'[w] \notin committed .. Popped - 1
  BY <1>0, <1>1
<1>5. committed .. Popped - 1 \subseteq committed .. Popped' - 1
  BY <1>0, <1>1
<1>6. UNCHANGED <<fate, gauge, completed, committed, outcome>>
  OBVIOUS
<1> QED
  BY <1>2, <1>3, <1>4, <1>5, <1>6, BooksKept

\* A finished row group is entered into the gauges and the worker's counter.
LEMMA RunKeepsBooks ==
    ASSUME PoolInv, Books, NEW w \in Workers, RunTask(w), UNCHANGED <<cpc, endVars, commitVars, fate>>
    PROVE  Books'
<1> USE DEF RunTask, Goto, endVars, commitVars, channelVars, queueVars
<1> DEFINE o == wtask[w]
<1>0. /\ wpc \in [Workers -> WorkerPcs] /\ wtask \in [Workers -> Ordinals \cup {NoTask}]
      /\ fate \in [Ordinals -> Prepared] /\ committed \in Nat /\ Popped' = Popped
      /\ gauge \in [results : Int, rows : Int] /\ completed \in Nat
  BY DEF PoolInv, PoolTypeOK, Popped
<1>1. PICK S \in SUBSET Ordinals : Counted(S)
  BY DEF Books
<1>2. o \in committed .. Popped - 1 /\ o \in Ordinals /\ o \notin S /\ o # NoTask
  <2>1. wpc[w] = "running" /\ o \in committed .. Popped - 1
    BY DEF PoolInv, Place, WorkersHold, Holding
  <2>2. o # NoTask
    BY <1>0, <2>1 DEF NoTask
  <2> QED
    BY <1>0, <1>1, <2>1, <2>2 DEF Counted, Unfinished
<1>3. /\ \A v \in Workers : v # w => wpc'[v] = wpc[v]
      /\ wpc'[w] = "publish" /\ wtask' = wtask
  BY <1>0
<1>4. /\ Cardinality(S \cup {o}) = Cardinality(S) + 1
      /\ SumRows(S \cup {o}) = SumRows(S) + DecodedRows(o)
  BY <1>0, <1>2, OneRowGroupMore
<1>5. SumRows(S \cup {o})' = SumRows(S \cup {o})
  BY DEF SumRows, DecodedRows
<1>6. gauge'.results = gauge.results + 1 /\ gauge'.rows = gauge.rows + DecodedRows(o)
  OBVIOUS
<1>7. outcome' = "none" => S \cup {o} = Unretired'
  <2> SUFFICES ASSUME outcome = "none" PROVE S \cup {o} = Unretired'
    OBVIOUS
  <2>1. S = Unretired
    BY <1>1 DEF Counted
  <2>2. \A v \in Workers : Publishing(v)' <=> Publishing(v) \/ v = w
    BY <1>3 DEF Publishing
  <2> QED
    BY <1>3, <2>1, <2>2 DEF Unretired
<1>8. \A v \in Workers : wpc'[v] \in Unfinished => wtask'[v] \notin S \cup {o}
  <2> SUFFICES ASSUME NEW v \in Workers, wpc'[v] \in Unfinished PROVE wtask[v] \notin S \cup {o}
    OBVIOUS
  <2>1. v # w /\ wpc[v] \in Unfinished
    BY <1>3 DEF Unfinished
  <2>2. wtask[v] # o
    BY <1>2, <2>1 DEF PoolInv, Place, WorkersApart
  <2> QED
    BY <1>1, <2>1, <2>2 DEF Counted
<1>9. Counted(S \cup {o})'
  <2>1. S \cup {o} \subseteq committed' .. Popped' - 1
    BY <1>0, <1>1, <1>2 DEF Counted
  <2>2. gauge'.results = Cardinality(S \cup {o}) /\ gauge'.rows = SumRows(S \cup {o})'
    BY <1>1, <1>4, <1>5, <1>6 DEF Counted
  <2> QED
    BY <1>7, <1>8, <2>1, <2>2 DEF Counted
<1>10. completed' = committed' + gauge'.results
  <2>1. completed = committed + gauge.results /\ gauge.results \in Int
    BY <1>0 DEF Books
  <2> QED
    BY <1>0, <1>6, <2>1
<1>11. outcome' = "completed" => committed' = TaskCount
  BY DEF Books
<1> QED
  BY <1>2, <1>9, <1>10, <1>11 DEF Books

\* A result in the channel is as unretired as one that its worker still holds.
LEMMA SendKeepsBooks ==
    ASSUME PoolInv, Books, NEW w \in Workers, SendOk(w), UNCHANGED <<cpc, endVars, commitVars, fate>>
    PROVE  Books'
<1> USE DEF SendOk, Goto, endVars, commitVars, queueVars
<1>0. /\ wpc \in [Workers -> WorkerPcs] /\ wtask \in [Workers -> Ordinals \cup {NoTask}]
      /\ Popped' = Popped /\ chan \in Seq(Ordinals)
  BY DEF PoolInv, PoolTypeOK, Popped
<1>1. wtask[w] \in Ordinals
  BY <1>0 DEF PoolInv, Place, WorkersHold, Holding, NoTask, PoolTypeOK
<1>2. /\ chan' \in Seq(Ordinals) /\ Len(chan') = Len(chan) + 1 /\ Len(chan) \in Nat
      /\ \A i \in 1 .. Len(chan) : chan'[i] = chan[i]
      /\ chan'[Len(chan) + 1] = wtask[w]
      /\ DOMAIN chan = 1 .. Len(chan) /\ DOMAIN chan' = 1 .. Len(chan) + 1
  BY <1>0, <1>1, AppendIndices
<1>3. /\ \A v \in Workers : v # w => wpc'[v] = wpc[v] /\ wtask'[v] = wtask[v]
      /\ wpc'[w] = "pop" /\ wpc[w] = "sending"
  BY <1>0
<1>4. {chan'[i] : i \in DOMAIN chan'} = {chan[i] : i \in DOMAIN chan} \cup {wtask[w]}
  <2>1. \A i \in DOMAIN chan' : i \in DOMAIN chan \/ i = Len(chan) + 1
    BY <1>2
  <2>2. DOMAIN chan \subseteq DOMAIN chan' /\ Len(chan) + 1 \in DOMAIN chan'
    BY <1>2
  <2> QED
    BY <1>2, <2>1, <2>2
<1>5. Unretired' = Unretired
  <2>1. \A v \in Workers : Publishing(v) <=> Publishing(v)' \/ v = w
    BY <1>3 DEF Publishing
  <2>2. ~Publishing(w)'
    BY <1>3 DEF Publishing
  <2> QED
    BY <1>3, <1>4, <2>1, <2>2 DEF Unretired
<1>6. \A v \in Workers : wpc'[v] \in Unfinished => wpc[v] \in Unfinished /\ wtask'[v] = wtask[v]
  BY <1>3 DEF Unfinished
<1>7. UNCHANGED <<fate, gauge, completed, committed, outcome>>
  OBVIOUS
<1> QED
  BY <1>0, <1>5, <1>6, <1>7, BooksKept

\* Every worker step keeps the books.
LEMMA WorkerKeepsBooks ==
    ASSUME PoolInv, Books, NEW w \in Workers, WorkerStep(w), UNCHANGED fate
    PROVE  Books'
<1>0. UNCHANGED <<cpc, endVars, commitVars, fate>> /\ UNCHANGED <<queued, committed, pending, outcome>>
  BY DEF WorkerStep, endVars, commitVars
<1> USE DEF queueVars, channelVars, Unfinished, Publishing
<1>1. outcome = "none" => ~cancelled /\ receiverOpen
  BY DEF PoolInv, Lifecycle
<1>2. CASE PopTask(w)
  BY <1>0, <1>2, PopKeepsBooks
<1>3. CASE RunTask(w)
  BY <1>0, <1>3, RunKeepsBooks
<1>4. CASE SendOk(w)
  BY <1>0, <1>4, SendKeepsBooks
<1>5. CASE PopNone(w) \/ SendDisconnected(w) \/ WakeCancelled(w)
  BY <1>0, <1>1, <1>5, LeaveKeepsBooks DEF PopNone, SendDisconnected, WakeCancelled
<1>6. CASE PopWait(w) \/ SpuriousWake(w)
  BY <1>0, <1>6, MoveKeepsBooks DEF PopWait, SpuriousWake
<1>7. CASE StartTask(w)
  <2>1. CASE cancelled
    BY <1>0, <1>1, <1>7, <2>1, LeaveKeepsBooks DEF StartTask
  <2>2. CASE ~cancelled
    BY <1>0, <1>7, <2>2, MoveKeepsBooks DEF StartTask
  <2> QED
    BY <2>1, <2>2
<1>8. CASE PublishOrQuit(w)
  <2>1. CASE cancelled
    BY <1>0, <1>1, <1>8, <2>1, LeaveKeepsBooks DEF PublishOrQuit
  <2>2. CASE ~cancelled
    BY <1>0, <1>8, <2>2, MoveKeepsBooks DEF PublishOrQuit
  <2> QED
    BY <2>1, <2>2
<1>9. CASE SendFull(w)
  <2>1. CASE snap[w] = "none"
    BY <1>0, <1>9, <2>1, MoveKeepsBooks DEF SendFull
  <2>2. CASE snap[w] # "none"
    BY <1>0, <1>9, <2>2, MoveKeepsBooks DEF SendFull
  <2> QED
    BY <2>1, <2>2
<1>10. CASE WakeMoved(w)
  <2>1. CASE cancelled
    BY <1>0, <1>1, <1>10, <2>1, LeaveKeepsBooks DEF WakeMoved
  <2>2. CASE ~cancelled
    BY <1>0, <1>10, <2>2, MoveKeepsBooks DEF WakeMoved
  <2> QED
    BY <2>1, <2>2
<1> QED
  BY <1>2, <1>3, <1>4, <1>5, <1>6, <1>7, <1>8, <1>9, <1>10 DEF WorkerStep, WorkerProgress

\* The calling thread moves on, or ends the call, with nothing delivered.
LEMMA LoopKeepsBooks ==
    ASSUME PoolInv, Books,
           UNCHANGED <<fate, gauge, workerVars, chan, taskq, queued, committed>>,
           outcome' = "none" => outcome = "none" /\ pending' = pending,
           outcome' = "completed" => outcome = "completed" \/ committed = TaskCount
    PROVE  Books'
<1>1. Popped' = Popped
  BY DEF Popped
<1>2. outcome' = "none" => Unretired' = Unretired
  BY DEF Unretired, Publishing, workerVars
<1>3. UNCHANGED <<wpc, wtask, completed>>
  BY DEF workerVars
<1> QED
  BY <1>1, <1>2, <1>3, BooksKept

\* Waking workers and launching row groups finishes none.
LEMMA LaunchKeepsBooks ==
    ASSUME PoolInv, Books,
           UNCHANGED <<fate, gauge, completed, wtask, chan, committed, pending, outcome>>,
           \A w \in Workers : wpc'[w] = wpc[w] \/ (wpc[w] \in {"asleep", "unspawned"} /\ wpc'[w] = "pop"),
           committed .. Popped - 1 \subseteq committed .. Popped' - 1
    PROVE  Books'
<1>1. \A w \in Workers : wpc'[w] \in Unfinished => wpc[w] \in Unfinished /\ wtask'[w] = wtask[w]
  BY DEF Unfinished
<1>2. Unretired' = Unretired
  <2>1. \A w \in Workers : Publishing(w)' <=> Publishing(w)
    BY DEF Publishing
  <2> QED
    BY <2>1 DEF Unretired
<1> QED
  BY <1>1, <1>2, BooksKept

\* try_push launches a row group at most.
LEMMA PushKeepsBooks ==
    ASSUME PoolInv, Books, ~closed, NEW next, TryPush(next), UNCHANGED fate
    PROVE  Books'
<1>1. UNCHANGED <<gauge, completed, wtask, chan, committed, pending, outcome>>
  BY DEF TryPush, channelVars, endVars
<1>2. CASE UNCHANGED <<taskq, wpc, queued>>
  BY <1>1, <1>2, LoopKeepsBooks DEF workerVars
<1>3. CASE taskq' = Append(taskq, queued) /\ wpc' \in WakeOne /\ queued' = queued + 1
  <2>1. \A w \in Workers : wpc'[w] = wpc[w] \/ (wpc[w] \in {"asleep", "unspawned"} /\ wpc'[w] = "pop")
    BY <1>3, Waking DEF PoolInv
  <2>2. Popped' = Popped
    <3>1. Len(taskq') = Len(taskq) + 1 /\ Len(taskq) \in Nat /\ queued \in Nat
      BY <1>3, Numbers DEF PoolInv, PoolTypeOK
    <3> QED
      BY <1>3, <3>1 DEF Popped
  <2> QED
    BY <1>1, <2>1, <2>2, LaunchKeepsBooks
<1> QED
  BY <1>2, <1>3 DEF TryPush

\* Closing the queue wakes workers.
LEMMA CloseKeepsBooks ==
    ASSUME PoolInv, Books, CloseQueue,
           UNCHANGED <<fate, gauge, chan, queued, committed, pending, outcome>>
    PROVE  Books'
<1>1. \A w \in Workers : wpc'[w] = wpc[w] \/ (wpc[w] \in {"asleep", "unspawned"} /\ wpc'[w] = "pop")
  BY Waking DEF CloseQueue, PoolInv
<1>2. Popped' = Popped /\ UNCHANGED <<completed, wtask>>
  BY DEF CloseQueue, Popped
<1> QED
  BY <1>1, <1>2, LaunchKeepsBooks

\* A received result waits in the reorder map instead of the channel.
LEMMA ReceiveKeepsBooks ==
    ASSUME PoolInv, Books, cpc \in Looping, chan # <<>>, NEW next \in Looping, Recv(next),
           UNCHANGED fate
    PROVE  Books'
<1>1. /\ Head(chan) = chan[1] /\ Len(chan) \in Nat \ {0} /\ chan \in Seq(Ordinals)
      /\ Tail(chan) \in Seq(Ordinals) /\ Len(Tail(chan)) = Len(chan) - 1
      /\ \A i \in 1 .. Len(chan) - 1 : Tail(chan)[i] = chan[i + 1]
  BY TailIndices DEF PoolInv, PoolTypeOK
<1>2. /\ chan' = Tail(chan) /\ pending' = pending \cup {Head(chan)}
      /\ UNCHANGED <<queueVars, workerVars, gauge, queued, committed, fate>>
  BY DEF Recv, TakeResult
<1>3. UNCHANGED endVars
  BY ReceiveStep
<1>4. {chan[i] : i \in DOMAIN chan} = {chan'[i] : i \in DOMAIN chan'} \cup {Head(chan)}
  <2>1. DOMAIN chan = 1 .. Len(chan) /\ DOMAIN chan' = 1 .. Len(chan) - 1
    BY <1>1, <1>2
  <2>2. \A i \in DOMAIN chan : i = 1 \/ (i - 1 \in DOMAIN chan' /\ chan[i] = chan'[i - 1])
    <3> SUFFICES ASSUME NEW i \in 1 .. Len(chan), i # 1
                 PROVE  i - 1 \in 1 .. Len(chan) - 1 /\ chan[i] = Tail(chan)[i - 1]
      BY <1>2, <2>1
    <3>1. i - 1 \in 1 .. Len(chan) - 1 /\ (i - 1) + 1 = i
      BY <1>1
    <3> QED
      BY <1>1, <3>1
  <2>3. \A i \in DOMAIN chan' : i + 1 \in DOMAIN chan /\ chan'[i] = chan[i + 1]
    BY <1>1, <1>2, <2>1
  <2>4. 1 \in DOMAIN chan
    BY <1>1, <2>1
  <2> QED
    BY <1>1, <2>2, <2>3, <2>4
<1>5. Unretired' = Unretired
  BY <1>2, <1>4 DEF Unretired, Publishing, workerVars
<1>6. Popped' = Popped
  BY <1>2 DEF Popped, queueVars
<1>7. UNCHANGED <<fate, gauge, completed, committed, outcome, wpc, wtask>>
  BY <1>2, <1>3 DEF endVars, workerVars
<1> QED
  BY <1>5, <1>6, <1>7, BooksKept

\* What is delivered leaves the gauges; a delivery that fails leaves them as they
\* are, and the call with them.
LEMMA CommitKeepsBooks ==
    ASSUME PoolInv, Books, cpc \in Looping, committed \in pending, fate[committed] = "ok",
           NEW next \in Looping, CommitFrontier(next), UNCHANGED fate
    PROVE  Books'
<1> USE DEF EndWith, queueVars, workerVars, channelVars, endVars
<1> DEFINE o == committed
<1>0. /\ outcome = "none" /\ committed \in Ordinals /\ committed \in Nat /\ Popped \in Int
      /\ fate \in [Ordinals -> Prepared] /\ gauge \in [results : Int, rows : Int]
      /\ completed \in Nat /\ Popped' = Popped /\ committed < Popped
  <2>1. outcome = "none" /\ committed \in Ordinals
    BY DEF PoolInv, PoolTypeOK, Lifecycle, Running
  <2>2. committed \in committed .. Popped - 1
    BY DEF PoolInv, Place, PendingHolds
  <2> QED
    BY <2>1, <2>2, Numbers DEF PoolInv, PoolTypeOK, CommitFrontier, Popped
<1>1. /\ pending' = pending \ {o} /\ UNCHANGED <<wpc, wtask, completed, chan, fate>>
  BY DEF CommitFrontier
<1>2. PICK S \in SUBSET Ordinals : Counted(S)
  BY DEF Books
<1>3. S = Unretired /\ o \in S
  BY <1>0, <1>2 DEF Counted, Unretired
<1>4. CASE outcome' # "none" /\ UNCHANGED <<committed, gauge>>
  <2>1. outcome' # "completed"
    BY <1>0, <1>4, PanicModeAssumption DEF CommitFrontier
  <2>2. \A w \in Workers : wpc'[w] \in Unfinished => wpc[w] \in Unfinished /\ wtask'[w] = wtask[w]
    BY <1>1
  <2> QED
    BY <1>0, <1>1, <1>4, <2>1, <2>2, BooksKept
<1>5. CASE committed' = committed + 1 /\ Retire(committed) /\ outcome' \in {"none", "stopped"}
  <2>r. PICK R \in SUBSET Ordinals : R = S \ {o}
    OBVIOUS
  <2>0. o \in Ordinals \ R /\ R \in SUBSET Ordinals /\ R \cup {o} = S
    BY <1>0, <1>3, <2>r
  <2>1. Cardinality(S) = Cardinality(R) + 1 /\ SumRows(S) = SumRows(R) + RowCount[o]
    <3>1. DecodedRows(o) = RowCount[o]
      BY DEF DecodedRows
    <3> QED
      BY <1>0, <2>0, <3>1, OneRowGroupMore
  <2>2. Cardinality(R) \in Nat /\ SumRows(R) \in Nat /\ RowCount[o] \in Nat
    BY <1>0, <2>0, RowsAreNumbers, RowCountAssumption
  <2>3. SumRows(R)' = SumRows(R)
    BY <1>1 DEF SumRows, DecodedRows
  <2>4. gauge'.results = gauge.results - 1 /\ gauge'.rows = gauge.rows - RowCount[o]
    BY <1>5 DEF Retire
  <2>5. gauge'.results = Cardinality(R) /\ gauge'.rows = SumRows(R)'
    <3>1. gauge.results = Cardinality(R) + 1 /\ gauge.rows = SumRows(R) + RowCount[o]
      BY <1>2, <2>1 DEF Counted
    <3> QED
      BY <2>2, <2>3, <2>4, <3>1
  <2>6. outcome' = "none" => R = Unretired'
    <3>1. \A w \in Workers : wtask[w] # o
      BY <1>0 DEF PoolInv, Place, WorkersHold, NoTask
    <3>2. \A i \in DOMAIN chan : chan[i] # o
      <4>1. DOMAIN chan = 1 .. Len(chan)
        BY DEF PoolInv, PoolTypeOK
      <4> QED
        BY <4>1 DEF PoolInv, Place, ChannelHolds
    <3>3. \A w \in Workers : Publishing(w)' <=> Publishing(w)
      BY <1>1 DEF Publishing
    <3> QED
      BY <1>1, <1>3, <2>r, <3>1, <3>2, <3>3 DEF Unretired
  <2>7. R \subseteq committed' .. Popped' - 1
    <3> SUFFICES ASSUME NEW r \in S, r # o PROVE r \in committed' .. Popped' - 1
      BY <2>r
    <3>1. r \in committed .. Popped - 1
      BY <1>2 DEF Counted
    <3> QED
      BY <1>0, <1>5, <3>1
  <2>8. Counted(R)'
    <3>1. \A w \in Workers : wpc'[w] \in Unfinished => wtask'[w] \notin R
      BY <1>1, <1>2, <2>r DEF Counted
    <3> QED
      BY <2>5, <2>6, <2>7, <3>1 DEF Counted
  <2>9. completed' = committed' + gauge'.results
    <3>1. completed = committed + gauge.results /\ gauge.results \in Int
      BY <1>0 DEF Books
    <3> QED
      BY <1>0, <1>1, <1>5, <2>4, <3>1
  <2> QED
    BY <1>5, <2>0, <2>8, <2>9 DEF Books
<1> QED
  BY <1>0, <1>4, <1>5, PanicModeAssumption DEF CommitFrontier

\* Entering, spawning and shutting the pool down deliver nothing.
LEMMA EntryAndExitKeepsBooks ==
    ASSUME PoolInv, Books, EntryAndExit, UNCHANGED fate
    PROVE  Books'
<1> USE DEF queueVars, workerVars, channelVars, endVars, commitVars, EndWith
<1>0. committed \in Nat /\ Popped \in Int
  BY Numbers DEF PoolInv
<1>1. CASE Enter
  <2>1. outcome' = "none" => outcome = "none"
    BY <1>1 DEF Enter
  <2>2. outcome' = "completed" => outcome = "completed" \/ committed = TaskCount
    BY <1>1 DEF Enter, PoolInv, Lifecycle
  <2> QED
    BY <1>1, <2>1, <2>2, LoopKeepsBooks DEF Enter
<1>2. ASSUME NEW w \in Workers, Spawn(w) PROVE Books'
  <2>1. CASE outcome' = "panicked"
    <3>1. UNCHANGED <<gauge, workerVars, chan, taskq, queued, committed>>
      BY <1>2, <2>1 DEF Spawn, Goto, PoolInv, Lifecycle, Running
    <3> QED
      BY <2>1, <3>1, LoopKeepsBooks
  <2>2. CASE outcome' # "panicked"
    <3>1. Goto(w, "pop") /\ wpc[w] = "unspawned" /\ UNCHANGED endVars
      BY <1>2, <2>2 DEF Spawn
    <3>2. \A v \in Workers : wpc'[v] = wpc[v] \/ (wpc[v] \in {"asleep", "unspawned"} /\ wpc'[v] = "pop")
      BY <3>1 DEF Goto, PoolInv, PoolTypeOK
    <3>3. Popped' = Popped
      BY <1>2 DEF Spawn, Popped
    <3> QED
      BY <1>2, <3>1, <3>2, <3>3, LaunchKeepsBooks DEF Spawn
  <2> QED
    BY <2>1, <2>2
<1>3. CASE Cancel
  BY <1>3, LoopKeepsBooks DEF Cancel
<1>4. CASE CloseAtEnd
  <2>1. \A w \in Workers : wpc'[w] = wpc[w] \/ (wpc[w] \in {"asleep", "unspawned"} /\ wpc'[w] = "pop")
    BY <1>4, Waking DEF CloseAtEnd, CloseQueue, PoolInv
  <2>2. Popped' = Popped
    BY <1>4 DEF CloseAtEnd, CloseQueue, Popped
  <2> QED
    BY <1>4, <2>1, <2>2, LaunchKeepsBooks DEF CloseAtEnd, CloseQueue
<1>5. CASE DropReceiver
  <2>1. outcome # "none" /\ outcome' = outcome
    BY <1>5 DEF DropReceiver, PoolInv, Lifecycle, Running, Looping
  <2>2. Popped' = Popped /\ UNCHANGED <<gauge, completed, committed, wpc, wtask>>
    BY <1>5 DEF DropReceiver, Popped
  <2>3. \A w \in Workers : wpc'[w] \in Unfinished => wpc[w] \in Unfinished /\ wtask'[w] = wtask[w]
    BY <2>2
  <2> QED
    BY <2>1, <2>2, <2>3, BooksKept
<1>6. CASE JoinAll
  BY <1>6, LoopKeepsBooks DEF JoinAll
<1> QED
  BY <1>1, <1>2, <1>3, <1>4, <1>5, <1>6 DEF EntryAndExit

\* An empty pool owes nothing.
LEMMA InitBooks ==
    ASSUME NEW b \in BOOLEAN, PoolInit(b)
    PROVE  Books
<1>1. /\ outcome = "none" /\ completed = 0 /\ committed = 0 /\ gauge.results = 0 /\ gauge.rows = 0
      /\ chan = <<>> /\ pending = {} /\ \A w \in Workers : wpc[w] = "unspawned"
  BY DEF PoolInit
<1>2. Unretired = {}
  BY <1>1 DEF Unretired, Publishing
<1>3. Cardinality({}) = 0 /\ SumRows({}) = 0
  BY FS_EmptySet, SumOfNothing DEF SumRows
<1>4. Counted({})
  BY <1>1, <1>2, <1>3 DEF Counted
<1> QED
  BY <1>1, <1>4 DEF Books

\* Doing nothing changes nothing.
LEMMA BooksStutter ==
    ASSUME PoolInv, Books, UNCHANGED poolVars
    PROVE  Books'
BY LoopKeepsBooks DEF poolVars, queueVars, workerVars, channelVars, endVars, commitVars

-----------------------------------------------------------------------------
(* What the books and the places say.                                      *)

\* A set without two different elements has none or one.
LEMMA AtMostOne ==
    ASSUME NEW A, \A p, q \in A : p = q
    PROVE  Cardinality(A) = IF A = {} THEN 0 ELSE 1
<1>1. CASE A = {}
  BY <1>1, FS_EmptySet
<1>2. CASE A # {}
  <2>1. PICK p : p \in A
    BY <1>2
  <2>2. A = {p}
    BY <2>1
  <2> QED
    BY <1>2, <2>2, FS_Singleton
<1> QED
  BY <1>1, <1>2

\* While the coordinator runs, a launched and uncommitted row group is in exactly
\* one place and any other in none.
LEMMA TasksInPlace ==
    ASSUME PoolInv
    PROVE  EachTaskInOnePlace
<1> USE DEF PoolInv, Place
<1> SUFFICES ASSUME outcome = "none", NEW o \in Ordinals
             PROVE  Holders(o) = IF o \in committed .. queued - 1 THEN 1 ELSE 0
  BY DEF EachTaskInOnePlace
<1> DEFINE Q == {i \in DOMAIN taskq : taskq[i] = o}
           W == {w \in Workers : wtask[w] = o}
           C == {i \in DOMAIN chan : chan[i] = o}
<1>0. /\ committed \in Nat /\ queued \in Nat /\ Popped \in Int /\ o \in Nat /\ o # NoTask
      /\ DOMAIN taskq = 1 .. Len(taskq) /\ DOMAIN chan = 1 .. Len(chan)
      /\ Len(taskq) \in Nat /\ Popped = queued - Len(taskq) /\ committed <= Popped
  BY Numbers DEF PoolTypeOK, Popped, Ordinals, NoTask, QueueShape
<1>1. (\A i, j \in Q : i = j) /\ (Q # {} <=> o \in Popped .. queued - 1)
  <2>1. \A i \in DOMAIN taskq : taskq[i] = Popped + i - 1
    BY <1>0 DEF QueueShape
  <2>2. \A i, j \in Q : i = j
    BY <1>0, <2>1
  <2>3. ASSUME NEW i \in Q PROVE o \in Popped .. queued - 1
    BY <1>0, <2>1
  <2>4. ASSUME o \in Popped .. queued - 1 PROVE Q # {}
    <3>1. o - Popped + 1 \in 1 .. Len(taskq) /\ Popped + (o - Popped + 1) - 1 = o
      BY <1>0, <2>4
    <3>2. taskq[o - Popped + 1] = o
      BY <1>0, <2>1, <3>1
    <3> QED
      BY <1>0, <3>1, <3>2
  <2> QED
    BY <2>2, <2>3, <2>4
<1>2. (\A v, w \in W : v = w) /\ (W # {} => o \in committed .. Popped - 1 /\ o \notin pending)
  BY <1>0 DEF WorkersApart, WorkersHold
<1>3. (\A i, j \in C : i = j) /\ (C # {} => o \in committed .. Popped - 1 /\ o \notin pending /\ W = {})
  BY <1>0 DEF ChannelApart, ChannelHolds
<1>4. o \in pending => o \in committed .. Popped - 1
  BY DEF PendingHolds
<1>5. o \in committed .. Popped - 1 => o \in pending \/ W # {} \/ C # {}
  BY <1>0 DEF Covered
<1>6. Holders(o) = Cardinality(Q) + Cardinality(W) + Cardinality(C) + (IF o \in pending THEN 1 ELSE 0)
  BY DEF Holders
<1> HIDE DEF Q, W, C, PoolInv, Place
<1>7. /\ Cardinality(Q) = IF Q = {} THEN 0 ELSE 1
      /\ Cardinality(W) = IF W = {} THEN 0 ELSE 1
      /\ Cardinality(C) = IF C = {} THEN 0 ELSE 1
  BY <1>1, <1>2, <1>3, AtMostOne
<1>8. o \in committed .. queued - 1 <=> o \in committed .. Popped - 1 \/ o \in Popped .. queued - 1
  BY <1>0
<1>9. ~(o \in committed .. Popped - 1 /\ o \in Popped .. queued - 1)
  BY <1>0
<1> QED
  BY <1>1, <1>2, <1>3, <1>4, <1>5, <1>6, <1>7, <1>8, <1>9

\* The books balance whenever the window is not exceeded.
LEMMA BooksDoBalance ==
    ASSUME PoolInv, Books, InFlightBounded
    PROVE  BooksBalance
<1> USE DEF PoolInv
<1>1. PICK S \in SUBSET Ordinals : Counted(S)
  BY DEF Books
<1>0. /\ committed \in Nat /\ queued \in Nat /\ Popped \in Int /\ Len(taskq) \in Nat
      /\ Popped = queued - Len(taskq) /\ committed <= Popped /\ queued <= TaskCount
      /\ TaskCount \in Nat /\ MaxInFlight \in Nat
  BY Numbers DEF Popped, Place, QueueShape
<1>2. /\ gauge.results = Cardinality(S) /\ gauge.rows = SumRows(S)
      /\ S \subseteq committed .. Popped - 1
      /\ outcome = "none" => S = Unretired
  BY <1>1 DEF Counted
<1>3. Cardinality(S) \in Nat /\ SumRows(S) \in Nat
  BY RowsAreNumbers DEF PoolTypeOK
<1>4. Cardinality(S) <= Popped - committed
  <2>1. committed \in Int /\ Popped - 1 \in Int
    BY <1>0
  <2>2. /\ IsFiniteSet(committed .. (Popped - 1))
        /\ Cardinality(committed .. (Popped - 1)) =
              IF committed > Popped - 1 THEN 0 ELSE (Popped - 1) - committed + 1
    BY <2>1, FS_Interval
  <2>3. Cardinality(S) <= Cardinality(committed .. (Popped - 1))
    BY <1>2, <2>2, FS_Subset
  <2> QED
    BY <1>0, <2>2, <2>3
<1>5. gauge.results \in 0 .. MaxInFlight /\ gauge.rows >= 0
  BY <1>0, <1>2, <1>3, <1>4 DEF InFlightBounded
<1>6. GaugesExact
  BY <1>2, <1>5 DEF GaugesExact
<1>7. committed <= completed /\ completed <= queued
  BY <1>0, <1>2, <1>3, <1>4 DEF Books
<1>8. outcome = "completed" => /\ OrderedTerminalCompleted /\ completed = TaskCount
                               /\ gauge.results = 0
  BY <1>0, <1>2, <1>3, <1>4 DEF Books, OrderedTerminalCompleted
<1>9. OrderedTerminalCompleted => taskq = <<>> /\ pending = {}
  <2> SUFFICES ASSUME OrderedTerminalCompleted PROVE taskq = <<>> /\ pending = {}
    OBVIOUS
  <2>1. committed = TaskCount
    BY DEF OrderedTerminalCompleted
  <2>2. Len(taskq) = 0 /\ Popped = committed
    BY <1>0, <2>1
  <2>3. taskq = <<>>
    BY <2>2 DEF PoolTypeOK
  <2>4. pending \subseteq committed .. Popped - 1
    BY DEF Place, PendingHolds
  <2>5. committed .. Popped - 1 = {}
    BY <1>0, <2>2
  <2> QED
    BY <2>3, <2>4, <2>5
<1>10. ReportConsistent
  BY <1>7, <1>8, <1>9 DEF ReportConsistent
<1> QED
  BY <1>6, <1>10, TasksInPlace DEF BooksBalance

-----------------------------------------------------------------------------
(***************************************************************************)
(* The signal the pool waits on, for any set of waiters and notifiers: the *)
(* waiter count is exact, no wakeup is lost and no wait returns early.     *)
(***************************************************************************)

\* Labels at which a waiter owns wait_lock.
Locked == {"retest_generation", "retest_cancelled", "sleep", "unlock"}

\* wait_lock has the owner the program counters say it has.
LockOwner ==
    /\ \A t \in Waiters : waiterPc[t] \in Locked => holder = t
    /\ \A n \in Notifiers : notifierPc[n] = "notify" => holder = n

\* A snapshot is never ahead of the counter.
SnapshotsPast == \A t \in Waiters : observed[t] <= generation

\* From the moment a waiter passed its locked test until it sleeps, whoever
\* changes what it tested has not yet been able to take wait_lock; once it
\* sleeps, that notifier is still on its way.
WakeupOnItsWay ==
    \A t \in Waiters :
        /\ waiterPc[t] \in {"retest_cancelled", "sleep"} /\ generation # observed[t] =>
              \E n \in Notifiers : notifierPc[n] \in {"load", "lock"}
        /\ waiterPc[t] = "sleep" /\ cancelFlag =>
              \E n \in Notifiers : notifierPc[n] \in {"bump", "load", "lock"}
        /\ waiterPc[t] = "asleep" /\ generation # observed[t] =>
              \E n \in Notifiers : notifierPc[n] \in {"load", "lock", "notify"}
        /\ waiterPc[t] = "asleep" /\ cancelFlag =>
              \E n \in Notifiers : notifierPc[n] \in {"bump", "load", "lock", "notify"}

SignalIInv == /\ SignalTypeOK /\ WaitersExact /\ LockOwner /\ SnapshotsPast
              /\ WakeupOnItsWay /\ NoEarlyReturn

-----------------------------------------------------------------------------

\* The count of registered waiters is a natural number, positive as soon as
\* one waiter is registered.
LEMMA RegisteredCount ==
    ASSUME SignalTypeOK
    PROVE  /\ IsFiniteSet(Registered)
           /\ Cardinality(Registered) \in Nat
           /\ \A t \in Waiters : t \in Registered => Cardinality(Registered) # 0
<1>1. Registered \subseteq Waiters
  BY DEF Registered
<1>2. IsFiniteSet(Registered)
  BY <1>1, FS_Subset, RolesAssumption
<1>3. Cardinality(Registered) \in Nat
  BY <1>2, FS_CardinalityType
<1>4. Cardinality(Registered) = 0 <=> Registered = {}
  BY <1>2, FS_EmptySet
<1> QED
  BY <1>2, <1>3, <1>4

\* Initially nobody waits and the lock is free.
LEMMA SignalInitSound == SignalInit => SignalIInv
<1> SUFFICES ASSUME SignalInit PROVE SignalIInv
  OBVIOUS
<1>1. SignalTypeOK /\ LockOwner /\ SnapshotsPast /\ WakeupOnItsWay /\ NoEarlyReturn
  <2>1. SignalTypeOK
    BY DEF SignalInit, SignalTypeOK, WaiterPcs, NotifierPcs
  <2>2. LockOwner /\ SnapshotsPast
    BY DEF SignalInit, LockOwner, Locked, SnapshotsPast
  <2>3. WakeupOnItsWay /\ NoEarlyReturn
    BY DEF SignalInit, WakeupOnItsWay, NoEarlyReturn
  <2> QED
    BY <2>1, <2>2, <2>3
<1>2. Registered = {}
  BY DEF SignalInit, Registered
<1>3. WaitersExact
  BY <1>2, FS_EmptySet DEF SignalInit, WaitersExact
<1> QED
  BY <1>1, <1>3 DEF SignalIInv

\* Registering and unregistering move the count with the set.
LEMMA WaitersExactStep ==
    ASSUME SignalIInv, [SignalNext]_signalVars
    PROVE  SignalTypeOK' /\ WaitersExact'
<1> USE DEF SignalIInv, SignalTypeOK, WaiterGoes, NotifierGoes
<1>0. /\ IsFiniteSet(Registered) /\ Cardinality(Registered) \in Nat
      /\ \A t \in Waiters : t \in Registered => Cardinality(Registered) # 0
  BY RegisteredCount
<1>1. ASSUME NEW t \in Waiters, Register(t) PROVE SignalTypeOK' /\ WaitersExact'
  <2>1. t \notin Registered /\ Registered' = Registered \cup {t}
    BY <1>1 DEF Register, Registered
  <2>2. Cardinality(Registered') = Cardinality(Registered) + 1
    BY <2>1, <1>0, FS_AddElement
  <2> QED
    BY <1>1, <2>2 DEF Register, WaitersExact, WaiterPcs
<1>2. ASSUME NEW t \in Waiters, Unregister(t) PROVE SignalTypeOK' /\ WaitersExact'
  <2>1. t \in Registered /\ Registered' = Registered \ {t}
    BY <1>2 DEF Unregister, Registered
  <2>2. Cardinality(Registered') = Cardinality(Registered) - 1
    BY <2>1, <1>0, FS_RemoveElement
  <2> QED
    BY <1>0, <1>2, <2>1, <2>2 DEF Unregister, WaitersExact, WaiterPcs
<1>3. ASSUME NEW t \in Waiters,
             \/ Snapshot(t) \/ TestGeneration(t) \/ TestCancelled(t) \/ LockWait(t)
             \/ RetestGeneration(t) \/ RetestCancelled(t) \/ Sleep(t)
             \/ WakeSpuriously(t) \/ Unlock(t)
      PROVE  SignalTypeOK' /\ WaitersExact'
  <2>1. SignalTypeOK' /\ waiters' = waiters
    BY <1>3 DEF Snapshot, TestGeneration, TestCancelled, LockWait, RetestGeneration,
       RetestCancelled, Sleep, WakeSpuriously, Unlock, WaiterPcs
  <2>2. Registered' = Registered
    BY <1>3 DEF Snapshot, TestGeneration, TestCancelled, LockWait, RetestGeneration,
       RetestCancelled, Sleep, WakeSpuriously, Unlock, WaiterPcs, Registered
  <2> QED
    BY <2>1, <2>2 DEF WaitersExact
<1>4. ASSUME NEW n \in Notifiers, Begin(n) \/ Bump(n) \/ LoadWaiters(n) \/ LockNotify(n)
      PROVE  SignalTypeOK' /\ WaitersExact'
  <2>0. cancelFlag' \in BOOLEAN
    BY <1>4, Zenon DEF Begin, Bump, LoadWaiters, LockNotify
  <2>1. SignalTypeOK' /\ waiters' = waiters /\ waiterPc' = waiterPc
    BY <1>4, <2>0 DEF Begin, Bump, LoadWaiters, LockNotify, NotifierPcs
  <2> QED
    BY <2>1 DEF WaitersExact, Registered
<1>5. ASSUME NEW n \in Notifiers, NotifyAll(n) PROVE SignalTypeOK' /\ WaitersExact'
  <2>1. SignalTypeOK' /\ waiters' = waiters
    BY <1>5 DEF NotifyAll, NotifierPcs, WaiterPcs
  <2>2. Registered' = Registered
    BY <1>5 DEF NotifyAll, Registered
  <2> QED
    BY <2>1, <2>2 DEF WaitersExact
<1>6. CASE UNCHANGED signalVars
  BY <1>6 DEF signalVars, WaitersExact, Registered
<1> QED
  BY <1>1, <1>2, <1>3, <1>4, <1>5, <1>6
     DEF SignalNext, WaiterStep, Waiting, Notifying

\* Every step keeps the rest of the inductive invariant.
LEMMA WakeupStep ==
    ASSUME SignalIInv, [SignalNext]_signalVars
    PROVE  (LockOwner /\ SnapshotsPast /\ WakeupOnItsWay /\ NoEarlyReturn)'
<1> DEFINE Rest == LockOwner /\ SnapshotsPast /\ WakeupOnItsWay /\ NoEarlyReturn
<1> USE RolesAssumption DEF SignalIInv, SignalTypeOK, WaiterGoes, NotifierGoes, Locked, Changed,
        LockOwner, SnapshotsPast, WakeupOnItsWay, NoEarlyReturn
<1>1. ASSUME NEW t \in Waiters, WaiterStep(t) PROVE Rest'
  <2>1. CASE Snapshot(t) BY <2>1 DEF Snapshot
  <2>2. CASE Register(t) BY <2>2 DEF Register
  <2>3. CASE TestGeneration(t) BY <2>3 DEF TestGeneration
  <2>4. CASE TestCancelled(t) BY <2>4 DEF TestCancelled
  <2>5. CASE LockWait(t) BY <2>5 DEF LockWait
  <2>6. CASE RetestGeneration(t) BY <2>6 DEF RetestGeneration
  <2>7. CASE RetestCancelled(t) BY <2>7 DEF RetestCancelled
  <2>8. CASE Sleep(t) BY <2>8 DEF Sleep
  <2>9. CASE WakeSpuriously(t) BY <2>9 DEF WakeSpuriously
  <2>10. CASE Unlock(t) BY <2>10 DEF Unlock
  <2>11. CASE Unregister(t) BY <2>11 DEF Unregister
  <2> QED
    BY <1>1, <2>1, <2>2, <2>3, <2>4, <2>5, <2>6, <2>7, <2>8, <2>9, <2>10, <2>11
       DEF WaiterStep, Waiting
<1>2. ASSUME NEW n \in Notifiers, Begin(n) \/ Notifying(n) PROVE Rest'
  <2>1. CASE Begin(n) BY <2>1 DEF Begin
  <2>2. CASE Bump(n) BY <2>2 DEF Bump
  <2>3. CASE LoadWaiters(n)
    \* A sleeper is registered, so the count it reads is not zero.
    <3>1. \A t \in Waiters : waiterPc[t] \in {"retest_cancelled", "sleep", "asleep"} => waiters # 0
      BY RegisteredCount DEF WaitersExact, Registered
    <3> QED
      BY <2>3, <3>1 DEF LoadWaiters
  <2>4. CASE LockNotify(n) BY <2>4 DEF LockNotify
  <2>5. CASE NotifyAll(n) BY <2>5 DEF NotifyAll
  <2> QED
    BY <1>2, <2>1, <2>2, <2>3, <2>4, <2>5 DEF Notifying
<1>3. CASE UNCHANGED signalVars
  BY <1>3 DEF signalVars
<1> QED
  BY <1>1, <1>2, <1>3 DEF SignalNext

\* The inductive invariant holds in every reachable state.
THEOREM SignalInvariant == SignalSpec => []SignalIInv
<1>1. SignalInit => SignalIInv
  BY SignalInitSound
<1>2. SignalIInv /\ [SignalNext]_signalVars => SignalIInv'
  BY WaitersExactStep, WakeupStep DEF SignalIInv
<1> QED
  BY <1>1, <1>2, PTL DEF SignalSpec

\* ProgressSignal's fields keep their types: the waiter count never underflows.
THEOREM SignalTypes == SignalSpec => []SignalTypeOK
BY SignalInvariant, PTL DEF SignalIInv

\* The waiter count is the number of waiters inside wait_for_change.
THEOREM SignalCountExact == SignalSpec => []WaitersExact
BY SignalInvariant, PTL DEF SignalIInv

\* No wakeup is lost, although notify() skips the lock when it sees no waiter.
THEOREM SignalNoLostWakeup == SignalSpec => []NoLostWakeup
<1>1. SignalIInv => NoLostWakeup
  BY DEF SignalIInv, WakeupOnItsWay, NoLostWakeup, Changed, Announcing
<1> QED
  BY <1>1, SignalInvariant, PTL

\* wait_for_change returns only after a change or a cancellation.
THEOREM SignalNoEarlyReturn == SignalSpec => []NoEarlyReturn
BY SignalInvariant, PTL DEF SignalIInv
=============================================================================
