------------------------ MODULE WindowedCommitProofs ------------------------
(***************************************************************************)
(* Proofs about the windowed coordinator, for any number of row groups,    *)
(* workers and queue slots: it implements the batched sequential visit,    *)
(* queues that hold a window are never seen full, and no two row groups    *)
(* that are in flight share a reusable buffer.                             *)
(***************************************************************************)
EXTENDS WindowedCommit, BoundedOrderedProofs, FiniteSetTheorems

\* Everything in flight belongs to one window, which starts at a multiple of
\* the window length.
Windows ==
    /\ windowStart \in 0 .. TaskCount
    /\ windowStart <= committed /\ queued <= WindowEnd
    /\ MaxInFlight > 0 => windowStart % MaxInFlight = 0 \/ windowStart = TaskCount

\* What the windowed loop knows at each of its labels.
Loop ==
    /\ cpc \in {"enter", "spawn"} => windowStart = 0
    /\ cpc \in {"push", "try_recv", "wait"} => queued < WindowEnd
    /\ cpc \in {"loop", "push", "try_recv", "wait", "recv"} => committed = windowStart
    /\ cpc = "recv" => queued = WindowEnd /\ windowStart < TaskCount
    /\ cpc = "commit" => /\ queued = WindowEnd /\ committed < WindowEnd
                         /\ committed .. WindowEnd - 1 \subseteq pending
                         /\ \A o \in Window : fate[o] = "ok"

\* With queues that hold a window, a window is launched in one piece and the
\* slow path is never entered.
Quiet ==
    ~ProgressRequired => /\ ~progressOn /\ queued \in {windowStart, WindowEnd}
                         /\ cpc \notin {"push", "try_recv", "wait"}

IInv == PoolInv /\ Windows /\ Loop /\ Quiet

-----------------------------------------------------------------------------
(* Arithmetic of windows.                                                  *)

\* The multiple after a multiple of m.
LEMMA NextMultiple ==
    ASSUME NEW m \in Nat \ {0}, NEW a \in Nat, a % m = 0
    PROVE  (a + m) % m = 0
<1> DEFINE q == a \div m
           p == (a + m) \div m
           r == (a + m) % m
           d == q + 1 - p
<1>1. q \in Int /\ p \in Int /\ r \in 0 .. m - 1 /\ d \in Int
  OBVIOUS
<1>2. a = m * q
  OBVIOUS
<1>3. a + m = m * p + r
  OBVIOUS
<1> HIDE DEF q, p, r
<1>4. m * d = r
  BY <1>1, <1>2, <1>3
<1> HIDE DEF d
<1>5. d < 1
  BY <1>1, <1>4
<1>6. d > -1
  BY <1>1, <1>4
<1>7. d = 0
  BY <1>1, <1>5, <1>6
<1> QED
  BY <1>1, <1>4, <1>7 DEF r

\* Within a window that starts at a multiple, the remainder is the offset.
LEMMA OffsetInWindow ==
    ASSUME NEW m \in Nat \ {0}, NEW a \in Nat, a % m = 0, NEW o \in a .. a + m - 1
    PROVE  o % m = o - a
<1>1. \A r \in 0 .. m - 1 : (a + r) % m = r
  OBVIOUS
<1>2. o - a \in 0 .. m - 1 /\ a + (o - a) = o
  OBVIOUS
<1> QED
  BY <1>1, <1>2

\* A window lies within the plan and is no longer than the shorter of the
\* plan and MaxInFlight.
LEMMA WindowBounds ==
    ASSUME windowStart \in 0 .. TaskCount
    PROVE  /\ TaskCount \in Nat /\ MaxInFlight \in Nat /\ windowStart \in Nat
           /\ WindowEnd \in Nat /\ windowStart <= WindowEnd /\ WindowEnd <= TaskCount
           /\ WindowEnd <= windowStart + MaxInFlight
           /\ WindowEnd - windowStart <= Lesser(MaxInFlight, TaskCount)
           /\ Lesser(MaxInFlight, TaskCount) \in Nat
           /\ windowStart < TaskCount /\ MaxInFlight > 0 => windowStart < WindowEnd
           /\ WindowEnd < TaskCount => WindowEnd = windowStart + MaxInFlight
BY CountAssumption DEF WindowEnd, Lesser

\* A window has as many ordinals as it is long, and the reorder map is a part
\* of it.
LEMMA WindowSize ==
    ASSUME IInv
    PROVE  /\ IsFiniteSet(Window) /\ Cardinality(Window) = WindowEnd - windowStart
           /\ pending \subseteq Window /\ IsFiniteSet(pending)
           /\ Gathered <=> pending = Window
<1> USE DEF IInv, Windows
<1>0. /\ windowStart \in Nat /\ WindowEnd \in Nat /\ windowStart <= WindowEnd
      /\ committed \in Nat /\ Popped \in Int /\ Popped <= queued /\ queued \in Nat
      /\ windowStart <= committed /\ queued <= WindowEnd
  BY WindowBounds, Numbers DEF PoolInv, Popped
<1>1. IsFiniteSet(Window) /\ Cardinality(Window) = WindowEnd - windowStart
  <2>1. /\ IsFiniteSet(windowStart .. (WindowEnd - 1))
        /\ Cardinality(windowStart .. (WindowEnd - 1)) =
              IF windowStart > WindowEnd - 1 THEN 0 ELSE (WindowEnd - 1) - windowStart + 1
    BY <1>0, FS_Interval
  <2> QED
    BY <1>0, <2>1 DEF Window
<1>2. pending \subseteq Window
  <2>1. pending \subseteq committed .. Popped - 1
    BY DEF PoolInv, Place, PendingHolds
  <2>2. \A o \in committed .. Popped - 1 : o \in windowStart .. WindowEnd - 1
    BY <1>0
  <2> QED
    BY <2>1, <2>2 DEF Window
<1>3. /\ IsFiniteSet(pending) /\ Cardinality(pending) <= Cardinality(Window)
      /\ Cardinality(Window) = Cardinality(pending) => Window = pending
  BY <1>1, <1>2, FS_Subset
<1>4. Cardinality(pending) \in Nat
  BY <1>3, FS_CardinalityType
<1> QED
  BY <1>0, <1>1, <1>2, <1>3, <1>4 DEF Gathered

-----------------------------------------------------------------------------
(* The result channel holds less than a window.                            *)

\* A worker that is about to publish finds room for its result whenever the
\* channel holds a window: the queued results are different row groups of the
\* window, and its own is not among them.
LEMMA RoomToPublish ==
    ASSUME IInv, NEW w \in Workers, wpc[w] = "sending"
    PROVE  Len(chan) < WindowEnd - windowStart
<1> USE DEF IInv
<1>0. /\ windowStart \in Nat /\ WindowEnd \in Nat /\ windowStart <= WindowEnd
      /\ committed \in Nat /\ Popped \in Int /\ Popped <= queued /\ queued \in Nat
      /\ windowStart <= committed /\ queued <= WindowEnd /\ Len(chan) \in Nat
  BY WindowBounds, Numbers DEF PoolInv, Popped, Windows
<1> DEFINE mine == wtask[w]
           T == Window \ {mine}
<1>1. mine \in Window
  BY <1>0 DEF PoolInv, Place, WorkersHold, Holding, Window
<1>2. IsFiniteSet(T) /\ Cardinality(T) = WindowEnd - windowStart - 1
  BY <1>1, WindowSize, FS_RemoveElement
<1>3. chan \in Injection(1 .. Len(chan), T)
  <2>1. \A i \in 1 .. Len(chan) : chan[i] \in T
    <3> SUFFICES ASSUME NEW i \in 1 .. Len(chan) PROVE chan[i] \in T
      OBVIOUS
    <3>1. chan[i] \in committed .. Popped - 1 /\ chan[i] # mine
      BY DEF PoolInv, Place, ChannelHolds
    <3> QED
      BY <1>0, <3>1 DEF Window
  <2>2. DOMAIN chan = 1 .. Len(chan) /\ chan \in [1 .. Len(chan) -> Ordinals]
    BY DEF PoolInv, PoolTypeOK
  <2>3. chan \in [1 .. Len(chan) -> T]
    <3> HIDE DEF T
    <3> QED BY <2>1, <2>2
  <2>4. \A i, j \in 1 .. Len(chan) : chan[i] = chan[j] => i = j
    BY DEF PoolInv, Place, ChannelApart
  <2> HIDE DEF T
  <2> QED
    BY <2>2, <2>3, <2>4 DEF Injection, IsInjective
<1>4. Cardinality(1 .. Len(chan)) <= Cardinality(T)
  <2> HIDE DEF T
  <2> QED BY <1>2, <1>3, FS_Injection
<1>5. Cardinality(1 .. Len(chan)) = Len(chan)
  <2>1. Cardinality(1 .. Len(chan)) = IF 1 > Len(chan) THEN 0 ELSE Len(chan) - 1 + 1
    <3>1. 1 \in Int /\ Len(chan) \in Int
      BY <1>0
    <3> QED BY <3>1, FS_Interval
  <2> QED
    BY <1>0, <2>1
<1> QED
  BY <1>0, <1>2, <1>4, <1>5

-----------------------------------------------------------------------------
(* Steps.                                                                  *)

\* try_push_window on an empty queue: the window's ordinals, in order.
LEMMA PushWindowStep ==
    ASSUME IInv, PushWindow, UNCHANGED fate
    PROVE  IInv' /\ UNCHANGED <<outcome, failedAt, committed>>
<1> USE DEF IInv
<1>0. /\ windowStart \in Nat /\ WindowEnd \in Nat /\ WindowEnd <= TaskCount /\ TaskCount \in Nat
      /\ committed \in Nat /\ queued \in Nat /\ Len(taskq) \in Nat
      /\ WindowEnd - windowStart <= Lesser(MaxInFlight, TaskCount)
      /\ Lesser(MaxInFlight, TaskCount) \in Nat
  BY WindowBounds, Numbers DEF PoolInv, Windows
<1>1. cpc = "loop" /\ queued < WindowEnd /\ queued = windowStart /\ committed = windowStart
  BY DEF PushWindow, FastPath, Loop
<1>2. ~closed /\ outcome = "none"
  BY <1>0, <1>1 DEF PoolInv, Lifecycle, Running, Looping
<1>3. Len(taskq) = 0 /\ taskq = <<>> /\ Popped = windowStart
  <2>1. committed <= Popped
    BY DEF PoolInv, Place, QueueShape
  <2>2. Len(taskq) = 0
    BY <1>0, <1>1, <2>1 DEF Popped
  <2> QED
    BY <1>0, <1>1, <2>2 DEF Popped, PoolInv, PoolTypeOK
<1>4. /\ UNCHANGED <<closed, snap, cancelled, wtask, completed, chan, receiverOpen, gauge, committed,
                     pending, calls, windowStart, cpc, outcome, failedAt>>
      /\ WindowEnd' = WindowEnd
  BY <1>2 DEF PushWindow, channelVars, endVars, WindowEnd
<1>5. CASE WindowEnd - windowStart > TaskQueueCapacity - Len(taskq)
  <2>1. progressOn' = TRUE /\ UNCHANGED <<taskq, wpc, queued>>
    BY <1>2, <1>5 DEF PushWindow
  <2>2. progressOn' \in BOOLEAN
    BY <2>1
  <2>3. PoolInv'
    BY <1>1, <1>4, <2>1, <2>2, LabelStep
       DEF Looping, workerVars, channelVars, endVars, commitVars, PoolInv, PoolTypeOK
  <2>4. Windows' /\ Loop'
    BY <1>1, <1>4, <2>1 DEF Windows, Loop
  <2>5. ProgressRequired
    BY <1>0, <1>3, <1>5, CapacityAssumption DEF ProgressRequired
  <2> QED
    BY <1>4, <2>3, <2>4, <2>5 DEF Quiet, ProgressRequired
<1>6. CASE ~(WindowEnd - windowStart > TaskQueueCapacity - Len(taskq))
  <2> DEFINE tasks == [i \in 1 .. WindowEnd - windowStart |-> windowStart + i - 1]
  <2>1. taskq' = taskq \o tasks /\ wpc' = WakeAll /\ queued' = WindowEnd /\ progressOn' = progressOn
    BY <1>2, <1>6 DEF PushWindow
  <2>2. tasks \in Seq(Ordinals) /\ Len(tasks) = WindowEnd - windowStart
    <3>1. WindowEnd - windowStart \in Nat
      BY <1>0, <1>1
    <3>2. \A i \in 1 .. WindowEnd - windowStart : windowStart + i - 1 \in Ordinals
      BY <1>0, <1>1 DEF Ordinals
    <3> QED
      BY <3>1, <3>2
  <2>3. taskq' = tasks /\ taskq' \in Seq(Ordinals) /\ Len(taskq') = WindowEnd - windowStart
    <3> HIDE DEF tasks
    <3> QED BY <1>3, <2>1, <2>2
  <2>4. Popped' = Popped
    <3>1. Popped' = WindowEnd - Len(taskq')
      BY <2>1 DEF Popped
    <3> HIDE DEF tasks
    <3> QED BY <1>0, <1>3, <2>3, <3>1
  <2>5. /\ wpc' \in [Workers -> WorkerPcs]
        /\ \A w \in Workers : wpc'[w] = wpc[w] \/ (wpc[w] = "asleep" /\ wpc'[w] = "pop")
    BY <2>1, Waking DEF PoolInv
  <2>6. PoolTypeOK'
    <3>1. queued' \in 0 .. TaskCount /\ taskq' \in Seq(Ordinals)
      BY <1>0, <2>1, <2>3
    <3> HIDE DEF tasks
    <3> QED
      BY <1>4, <2>1, <2>5, <3>1 DEF PoolInv, PoolTypeOK
  <2>7. Place'
    <3>1. QueueShape'
      BY <1>1, <1>3, <1>4, <2>2, <2>3, <2>4 DEF PoolInv, Place, QueueShape
    <3> HIDE DEF tasks
    <3>2. WorkersHold' /\ WorkersApart'
      BY <1>4, <2>4, <2>5 DEF PoolInv, Place, WorkersHold, WorkersApart, Holding
    <3>3. ChannelHolds' /\ ChannelApart' /\ Covered' /\ PendingHolds'
      BY <1>4, <2>4 DEF PoolInv, Place, ChannelHolds, ChannelApart, Covered, PendingHolds
    <3> QED
      BY <3>1, <3>2, <3>3 DEF Place
  <2>8. Lifecycle'
    BY <1>1, <1>2, <1>4, <1>3, <2>5 DEF PoolInv, Lifecycle, Running, Looping
  <2>9. Commits'
    BY <1>4 DEF PoolInv, Commits, History, CallbacksInPlanOrder, NoInternalError
  <2>10. Windows' /\ Loop'
    BY <1>0, <1>1, <1>4, <2>1 DEF Windows, Loop
  <2>11. Quiet'
    BY <1>1, <1>4, <2>1 DEF Quiet, ProgressRequired
  <2> QED
    BY <1>4, <2>6, <2>7, <2>8, <2>9, <2>10, <2>11 DEF PoolInv
<1> QED
  BY <1>5, <1>6

\* recv never finds the workers gone: while the window is not gathered, one of
\* its row groups is still with a worker, in the task queue or in the channel.
LEMMA NeverDisconnected ==
    ASSUME IInv, chan = <<>>, cpc = "try_recv" \/ (cpc = "recv" /\ ~Gathered)
    PROVE  ~SendersGone
<1> SUFFICES ASSUME SendersGone PROVE FALSE
  OBVIOUS
<1> USE DEF IInv, PoolInv
<1>0. /\ windowStart \in Nat /\ WindowEnd \in Nat /\ WindowEnd <= TaskCount /\ TaskCount \in Nat
      /\ queued \in Nat
  BY WindowBounds, Numbers DEF Windows
<1>1. outcome = "none" /\ MaxInFlight > 0 /\ TaskCount > 0
  BY DEF Lifecycle, Running, Looping
<1>2. 1 \in Workers /\ \A w \in Workers : wpc[w] = "exited"
  BY <1>1, PoolSize DEF SendersGone, Lifecycle, Running, Looping
<1>3. closed /\ taskq = <<>> /\ queued = TaskCount
  BY <1>1, <1>2 DEF Lifecycle
<1>4. cpc = "recv" /\ ~Gathered /\ queued = WindowEnd /\ committed = windowStart
  BY <1>0, <1>3 DEF Loop
<1>5. PICK o \in Window : o \notin pending
  BY <1>4, WindowSize
<1>6. o \in committed .. Popped - 1
  BY <1>0, <1>3, <1>4 DEF Popped, Window
<1>7. \A w \in Workers : wtask[w] = NoTask
  BY <1>2 DEF Place, WorkersHold, Holding
<1>8. o # NoTask /\ Len(chan) = 0
  BY <1>0 DEF Window, NoTask
<1> QED
  BY <1>1, <1>5, <1>6, <1>7, <1>8 DEF Place, Covered

\* Receiving a result, wherever the loop does it.
LEMMA ReceiveNext ==
    ASSUME IInv, NEW next \in {"loop", "recv"}, Recv(next), UNCHANGED <<fate, windowStart>>,
           \/ cpc = "try_recv" /\ next = "loop"
           \/ cpc = "recv" /\ next = "recv" /\ ~Gathered
    PROVE  IInv' /\ UNCHANGED <<outcome, failedAt, committed>>
<1>1. chan # <<>>
  BY NeverDisconnected DEF Recv
<1>2. /\ PoolInv' /\ cpc' = next
      /\ UNCHANGED <<endVars, queueVars, queued, committed>>
  BY <1>1, ReceiveStep DEF IInv, Looping
<1>3. UNCHANGED <<outcome, failedAt, queued, committed, progressOn, windowStart>> /\ WindowEnd' = WindowEnd
  BY <1>2 DEF endVars, queueVars, WindowEnd
<1>4. Windows' /\ Loop'
  BY <1>2, <1>3 DEF IInv, Windows, Loop
<1>5. Quiet'
  BY <1>2, <1>3 DEF IInv, Quiet, ProgressRequired
<1> QED
  BY <1>2, <1>3, <1>4, <1>5 DEF IInv

\* The scan knows the whole window: it fails at the earliest failure of the
\* window, or every row group of it may be committed.
LEMMA ScanStep ==
    ASSUME IInv, ScanWindow, UNCHANGED fate
    PROVE  /\ IInv' /\ outcome = "none" /\ committed = windowStart /\ committed' = committed
           /\ \/ UNCHANGED <<outcome, failedAt>>
              \/ /\ outcome' = "prepare_err" /\ failedAt' \in Window /\ fate[failedAt'] # "ok"
                 /\ \A o \in Window : o < failedAt' => fate[o] = "ok"
<1> DEFINE Goal ==
             /\ IInv' /\ outcome = "none" /\ committed = windowStart /\ committed' = committed
             /\ \/ UNCHANGED <<outcome, failedAt>>
                \/ /\ outcome' = "prepare_err" /\ failedAt' \in Window /\ fate[failedAt'] # "ok"
                   /\ \A o \in Window : o < failedAt' => fate[o] = "ok"
<1> USE DEF IInv
<1>0. /\ windowStart \in Nat /\ WindowEnd \in Nat /\ WindowEnd <= TaskCount /\ TaskCount \in Nat
      /\ queued \in Nat
  BY WindowBounds, Numbers DEF PoolInv, Windows
<1>1. cpc = "recv" /\ Gathered /\ committed = windowStart /\ queued = WindowEnd
  BY DEF ScanWindow, Loop
<1>2. pending = Window /\ outcome = "none"
  BY <1>1, WindowSize DEF PoolInv, Lifecycle, Running, Looping
<1>3. windowStart' = windowStart /\ WindowEnd' = WindowEnd /\ Window' = Window
  BY DEF ScanWindow, Window, WindowEnd
<1>4. ASSUME NEW e \in Window, e \in pending, fate[e] # "ok",
             \A o \in Window : o < e => ~(o \in pending /\ fate[o] # "ok"),
             FailAt(e)
      PROVE  Goal
  <2>1. /\ fate[e] # "ok" /\ FailAt(e)
        /\ \A o \in Window : o < e => fate[o] = "ok"
    BY <1>2, <1>4
  <2>2. e \in Ordinals
    BY <1>0, <2>1 DEF Window, Ordinals
  <2>3. PoolInv'
    BY <1>1, <2>1, <2>2, EndStep DEF FailAt, Looping, Outcomes
  <2>4. /\ cpc' = "finish" /\ outcome' = "prepare_err" /\ failedAt' = e
        /\ UNCHANGED <<queued, committed, progressOn>>
    BY <2>1 DEF FailAt, EndWith, queueVars
  <2>5. Windows' /\ Loop'
    BY <1>3, <2>4 DEF Windows, Loop
  <2>6. Quiet'
    BY <1>3, <2>4 DEF Quiet, ProgressRequired
  <2> QED
    BY <1>1, <1>2, <2>1, <2>3, <2>4, <2>5, <2>6
<1>5. CASE /\ \A o \in Window : ~(o \in pending /\ fate[o] # "ok")
           /\ cpc' = "commit"
           /\ UNCHANGED <<queueVars, snap, cancelled, workerVars, channelVars, gauge, endVars,
                          commitVars>>
  <2> SUFFICES Goal
    OBVIOUS
  <2>1. /\ \A o \in Window : fate[o] = "ok"
        /\ UNCHANGED <<queued, committed, pending, progressOn, outcome, failedAt>>
    BY <1>2, <1>5 DEF commitVars, queueVars, endVars
  <2>2. PoolInv'
    BY <1>1, <1>5, LabelStep DEF Looping, queueVars, PoolInv, PoolTypeOK
  <2>3. Windows'
    BY <1>3, <2>1 DEF Windows
  <2>4. windowStart < WindowEnd
    <3>1. MaxInFlight > 0
      BY <1>1 DEF PoolInv, Lifecycle
    <3>2. windowStart < TaskCount
      BY <1>1 DEF Loop
    <3> QED BY <3>1, <3>2, WindowBounds DEF Windows
  <2>5. Loop'
    <3>1. committed .. WindowEnd - 1 \subseteq pending
      BY <1>1, <1>2 DEF Window
    <3> QED
      BY <1>1, <1>3, <1>5, <2>1, <2>4, <3>1 DEF Loop
  <2>6. Quiet'
    BY <1>1, <1>3, <1>5, <2>1 DEF Quiet, ProgressRequired
  <2> QED
    BY <1>1, <1>2, <2>1, <2>2, <2>3, <2>5, <2>6
<1> QED
  BY <1>4, <1>5 DEF ScanWindow

\* The commit loop always finds the next result, successfully prepared; after
\* the last one of the window the next window starts.
LEMMA CommitNextStep ==
    ASSUME IInv, CommitNext, UNCHANGED fate
    PROVE  /\ IInv' /\ outcome = "none" /\ committed \in Window
           /\ \A o \in Window : fate[o] = "ok"
           /\ CommitFrontier(IF committed + 1 = WindowEnd THEN "loop" ELSE "commit")
<1> USE DEF IInv
<1> DEFINE next == IF committed + 1 = WindowEnd THEN "loop" ELSE "commit"
<1>0. /\ windowStart \in Nat /\ WindowEnd \in Nat /\ WindowEnd <= TaskCount /\ TaskCount \in Nat
      /\ queued \in Nat /\ committed \in Nat /\ windowStart <= committed /\ MaxInFlight \in Nat
  BY WindowBounds, Numbers DEF PoolInv, Windows
<1>1. /\ cpc = "commit" /\ queued = WindowEnd /\ committed < WindowEnd
      /\ committed .. WindowEnd - 1 \subseteq pending /\ \A o \in Window : fate[o] = "ok"
  BY DEF CommitNext, Loop
<1>2. committed \in pending /\ committed \in Window /\ fate[committed] = "ok" /\ outcome = "none"
  BY <1>0, <1>1 DEF Window, PoolInv, Lifecycle, Running, Looping
<1>3. /\ CommitFrontier(next)
      /\ windowStart' = IF cpc' = "loop" THEN WindowEnd ELSE windowStart
  BY <1>2 DEF CommitNext
<1>4. next \in Looping /\ cpc \in Looping
  BY <1>1 DEF Looping
<1>5. /\ PoolInv' /\ committed' \in {committed, committed + 1}
      /\ (outcome' = "none" => committed' = committed + 1 /\ cpc' = next)
  <2> HIDE DEF next
  <2> QED BY <1>2, <1>3, <1>4, CommitStep
<1>6. pending' = pending \ {committed} /\ UNCHANGED <<queued, progressOn>> /\ cpc' \in {next, "finish"}
  <2> HIDE DEF next
  <2> QED BY <1>3 DEF CommitFrontier, EndWith, queueVars
<1>7. MaxInFlight > 0
  BY <1>1 DEF PoolInv, Lifecycle
<1>8. CASE cpc' = "loop"
  <2>1. committed + 1 = WindowEnd /\ committed' = WindowEnd /\ windowStart' = WindowEnd
    <3>1. outcome' = "none"
      BY <1>5, <1>8 DEF PoolInv, Lifecycle, Running, Looping
    <3> QED
      BY <1>0, <1>1, <1>3, <1>5, <1>8, <3>1
  <2>2. windowStart' \in 0 .. TaskCount
    BY <1>0, <2>1
  <2>3. windowStart' <= WindowEnd' /\ WindowEnd' \in Nat
    <3>1. WindowEnd' = Lesser(WindowEnd + MaxInFlight, TaskCount)
      BY <2>1 DEF WindowEnd
    <3> QED
      BY <1>0, <2>1, <3>1 DEF Lesser
  <2>4. WindowEnd % MaxInFlight = 0 \/ WindowEnd = TaskCount
    <3>1. CASE WindowEnd = TaskCount
      BY <3>1
    <3>2. CASE WindowEnd # TaskCount
      <4>1. WindowEnd = windowStart + MaxInFlight /\ windowStart # TaskCount
        BY <1>0, <1>1, <3>2, WindowBounds DEF Windows
      <4>2. windowStart % MaxInFlight = 0
        BY <1>7, <4>1 DEF Windows
      <4>3. MaxInFlight \in Nat \ {0}
        BY <1>0, <1>7
      <4>4. (windowStart + MaxInFlight) % MaxInFlight = 0
        BY <1>0, <4>2, <4>3, NextMultiple
      <4> QED
        BY <4>1, <4>4
    <3> QED BY <3>1, <3>2
  <2>5. Windows'
    BY <1>0, <1>1, <1>6, <2>1, <2>2, <2>3, <2>4 DEF Windows
  <2>6. Loop'
    BY <1>8, <2>1 DEF Loop
  <2>7. Quiet'
    BY <1>1, <1>6, <1>8, <2>1 DEF Quiet, ProgressRequired
  <2> QED
    BY <1>1, <1>2, <1>3, <1>5, <2>5, <2>6, <2>7
<1>9. CASE cpc' # "loop"
  <2>1. windowStart' = windowStart /\ WindowEnd' = WindowEnd /\ Window' = Window
    BY <1>3, <1>9 DEF WindowEnd, Window
  <2>2. committed' \in Nat /\ windowStart <= committed'
    BY <1>0, <1>5
  <2>3. Windows'
    BY <1>6, <2>1, <2>2 DEF Windows
  <2>4. Loop'
    <3>1. CASE cpc' = "finish"
      BY <3>1 DEF Loop
    <3>2. CASE cpc' = "commit"
      <4>1. committed' = committed + 1 /\ committed + 1 # WindowEnd
        <5>1. outcome' = "none"
          BY <1>5, <3>2 DEF PoolInv, Lifecycle, Running, Looping
        <5> QED
          BY <1>5, <3>2, <5>1
      <4>2. committed + 1 < WindowEnd
        BY <1>0, <1>1, <4>1
      <4>3. committed + 1 .. WindowEnd - 1 \subseteq pending \ {committed}
        BY <1>0, <1>1
      <4> QED
        BY <1>1, <1>6, <2>1, <3>2, <4>1, <4>2, <4>3 DEF Loop
    <3> QED
      BY <1>6, <1>9, <3>1, <3>2
  <2>5. Quiet'
    BY <1>6, <2>1 DEF Quiet, ProgressRequired
  <2> QED
    BY <1>1, <1>2, <1>3, <1>5, <2>3, <2>4, <2>5
<1> QED
  BY <1>8, <1>9

\* The remaining steps of the loop: none of them commits or fails a row group.
LEMMA FillStep ==
    ASSUME IInv, FillNext \/ LaunchNext \/ PollResult \/ WaitForRoom \/ FillDone \/ Gather,
           UNCHANGED fate
    PROVE  IInv' /\ UNCHANGED <<outcome, failedAt, committed>>
<1> USE DEF IInv
<1>0. /\ windowStart' = windowStart /\ WindowEnd' = WindowEnd /\ Window' = Window
      /\ (ProgressRequired <=> ProgressRequired')
  BY DEF FillNext, LaunchNext, PollResult, WaitForRoom, FillDone, Gather, WindowEnd, Window,
     ProgressRequired
<1>n. /\ windowStart \in Nat /\ WindowEnd \in Nat /\ WindowEnd <= TaskCount /\ TaskCount \in Nat
      /\ queued \in Nat
  BY WindowBounds, Numbers DEF PoolInv, Windows
<1>1. CASE FillNext
  <2>1. snap' \in [Threads -> {"none", "fresh", "moved"}]
    BY <1>1, SnapTypes DEF FillNext, PoolInv, PoolTypeOK, Threads
  <2>2. PoolInv'
    BY <1>1, <2>1, LabelStep DEF FillNext, Looping, queueVars, PoolInv, PoolTypeOK
  <2>3. /\ cpc = "loop" /\ cpc' = "push" /\ queued < WindowEnd
        /\ UNCHANGED <<queued, committed, progressOn, outcome, failedAt>>
    BY <1>1 DEF FillNext, commitVars, queueVars, endVars
  <2>4. Windows' /\ Loop'
    BY <1>0, <2>3 DEF Windows, Loop
  <2>5. Quiet'
    <3>1. ProgressRequired
      BY <1>1, <1>n, <2>3 DEF FillNext, FastPath, Quiet
    <3> QED BY <1>0, <3>1 DEF Quiet
  <2> QED
    BY <2>2, <2>3, <2>4, <2>5
<1>2. CASE LaunchNext
  <2>1. cpc = "push" /\ TryPush("loop") /\ "loop" \in Looping
    BY <1>2 DEF LaunchNext, TryPush, Looping
  <2>2. queued < WindowEnd /\ committed = windowStart
    BY <2>1 DEF Loop
  <2>3. /\ PoolInv' /\ UNCHANGED <<endVars, committed, pending, progressOn>>
        /\ IF Len(taskq) >= TaskQueueCapacity THEN cpc' = "try_recv" /\ queued' = queued
           ELSE cpc' = "loop" /\ queued' = queued + 1
    BY <1>n, <2>1, <2>2, LaunchStep
  <2>4. Windows' /\ Loop'
    BY <1>0, <1>n, <2>2, <2>3 DEF Windows, Loop
  <2>5. Quiet'
    BY <1>0, <2>1 DEF Quiet
  <2> QED
    BY <2>3, <2>4, <2>5 DEF endVars
<1>3. CASE PollResult
  <2>1. CASE Recv("loop")
    BY <1>3, <2>1, ReceiveNext DEF PollResult, TryRecv
  <2>2. CASE ~Recv("loop")
    <3>1. progressOn' \in BOOLEAN
      BY <1>3, <2>2 DEF PollResult, TryRecv, PoolInv, PoolTypeOK
    <3>2. cpc = "try_recv" /\ cpc' \in {"loop", "wait"}
      BY <1>3, <2>2 DEF PollResult, TryRecv
    <3>3. UNCHANGED <<taskq, closed, snap, cancelled, workerVars, channelVars, gauge, endVars,
                      commitVars>>
      BY <1>3, <2>2 DEF PollResult, TryRecv
    <3>4. PoolInv'
      BY <3>1, <3>2, <3>3, LabelStep DEF Looping, PoolInv, PoolTypeOK
    <3>5. UNCHANGED <<queued, committed, outcome, failedAt>>
      BY <3>3 DEF commitVars, endVars
    <3>6. Windows' /\ Loop'
      BY <1>0, <3>2, <3>5 DEF Windows, Loop
    <3>7. Quiet'
      BY <1>0, <3>2 DEF Quiet
    <3> QED
      BY <3>4, <3>5, <3>6, <3>7
  <2> QED BY <2>1, <2>2
<1>4. CASE WaitForRoom
  <2>1. PoolInv'
    BY <1>4, LabelStep DEF WaitForRoom, WaitProgress, Looping, queueVars, PoolInv, PoolTypeOK
  <2>2. cpc = "wait" /\ cpc' = "loop" /\ UNCHANGED <<queued, committed, outcome, failedAt>>
    BY <1>4 DEF WaitForRoom, WaitProgress, commitVars, endVars
  <2>3. Windows' /\ Loop'
    BY <1>0, <2>2 DEF Windows, Loop
  <2>4. Quiet'
    BY <1>0, <2>2 DEF Quiet
  <2> QED
    BY <2>1, <2>2, <2>3, <2>4
<1>5. CASE FillDone
  <2>1. /\ cpc = "loop" /\ cpc' = "recv" /\ queued = WindowEnd /\ windowStart < TaskCount
        /\ UNCHANGED <<queued, committed, outcome, failedAt, progressOn>>
    BY <1>5 DEF FillDone, CloseQueue, commitVars, endVars, queueVars
  <2>2. PoolInv'
    <3>1. CASE WindowEnd = TaskCount
      BY <1>5, <2>1, <3>1, CloseStep DEF FillDone, Looping
    <3>2. CASE WindowEnd # TaskCount
      BY <1>5, <2>1, <3>2, LabelStep DEF FillDone, Looping, queueVars, PoolInv, PoolTypeOK
    <3> QED BY <3>1, <3>2
  <2>3. Windows' /\ Loop'
    BY <1>0, <2>1 DEF Windows, Loop
  <2>4. Quiet'
    BY <1>0, <2>1 DEF Quiet
  <2> QED
    BY <2>1, <2>2, <2>3, <2>4
<1>6. CASE Gather
  BY <1>6, ReceiveNext DEF Gather
<1> QED
  BY <1>1, <1>2, <1>3, <1>4, <1>5, <1>6

\* A worker that finds the channel full knows that it cannot hold a window.
LEMMA WorkerKeepsQuiet ==
    ASSUME IInv, NEW w \in Workers, WorkerStep(w), UNCHANGED windowStart
    PROVE  Quiet'
<1> USE DEF IInv
<1>1. /\ UNCHANGED <<cpc, queued>> /\ WindowEnd' = WindowEnd
      /\ (ProgressRequired <=> ProgressRequired')
  BY DEF WorkerStep, commitVars, WindowEnd, ProgressRequired
<1>2. CASE SendFull(w)
  <2>1. Len(chan) < WindowEnd - windowStart /\ Len(chan) >= ResultQueueCapacity
    BY <1>2, RoomToPublish DEF SendFull
  <2>2. ProgressRequired
    <3>1. /\ WindowEnd - windowStart <= Lesser(MaxInFlight, TaskCount) /\ Len(chan) \in Nat
          /\ Lesser(MaxInFlight, TaskCount) \in Nat /\ windowStart \in Nat /\ WindowEnd \in Nat
      BY WindowBounds, Numbers DEF Windows, PoolInv
    <3> QED
      BY <2>1, <3>1, CapacityAssumption DEF ProgressRequired
  <2> QED
    BY <1>1, <2>2 DEF Quiet
<1>3. CASE ~SendFull(w)
  <2>1. progressOn' = progressOn
    BY <1>3 DEF WorkerStep, WorkerProgress, PopNone, PopTask, PopWait, StartTask, RunTask,
       PublishOrQuit, SendDisconnected, SendOk, WakeMoved, SpuriousWake, WakeCancelled, queueVars
  <2> QED
    BY <1>1, <2>1 DEF Quiet
<1> QED
  BY <1>2, <1>3

\* Every step of the windowed coordinator, a worker or the exit keeps the invariant.
LEMMA StepKeepsIInv == IInv /\ [Next]_vars => IInv'
<1> SUFFICES ASSUME IInv, [Next]_vars PROVE IInv'
  OBVIOUS
<1>1. CASE CoordinatorStep /\ UNCHANGED fate
  <2>1. CASE PushWindow
    BY <1>1, <2>1, PushWindowStep
  <2>2. CASE ScanWindow
    BY <1>1, <2>2, ScanStep
  <2>3. CASE CommitNext
    BY <1>1, <2>3, CommitNextStep
  <2>4. CASE FillNext \/ LaunchNext \/ PollResult \/ WaitForRoom \/ FillDone \/ Gather
    BY <1>1, <2>4, FillStep
  <2>5. CASE LoopDone
    <3>1. PoolInv'
      BY <1>1, <2>5, EndStep DEF LoopDone, Looping, Outcomes, commitVars, IInv, PoolInv, PoolTypeOK
    <3>2. cpc' = "finish" /\ UNCHANGED <<queued, committed, windowStart, progressOn>>
      BY <2>5 DEF LoopDone, EndWith, commitVars, queueVars
    <3>3. Windows' /\ Loop'
      BY <3>2 DEF IInv, Windows, Loop, WindowEnd
    <3>4. Quiet'
      BY <3>2 DEF IInv, Quiet, WindowEnd, ProgressRequired
    <3> QED
      BY <3>1, <3>3, <3>4 DEF IInv
  <2>6. CASE EntryAndExit /\ UNCHANGED windowStart
    <3>1. PoolInv'
      BY <1>1, <2>6, EntryAndExitStep DEF IInv
    <3>2. UNCHANGED <<queued, committed, windowStart, progressOn>>
      BY <2>6 DEF EntryAndExit, Enter, Spawn, Cancel, CloseAtEnd, CloseQueue, DropReceiver, JoinAll,
         commitVars, queueVars
    <3>3. /\ cpc' \in {"spawn", "loop", "finish", "closing", "dropping", "join", "returned"}
          /\ cpc' \in {"spawn", "loop"} => cpc \in {"enter", "spawn"}
      BY <2>6 DEF EntryAndExit, Enter, Spawn, EndWith, Cancel, CloseAtEnd, DropReceiver, JoinAll
    <3>4. Windows' /\ Loop'
      BY <3>2, <3>3 DEF IInv, PoolInv, Lifecycle, Windows, Loop, WindowEnd
    <3>5. Quiet'
      BY <3>2, <3>3 DEF IInv, Quiet, WindowEnd, ProgressRequired
    <3> QED
      BY <3>1, <3>4, <3>5 DEF IInv
  <2> QED
    BY <1>1, <2>1, <2>2, <2>3, <2>4, <2>5, <2>6 DEF CoordinatorStep
<1>2. ASSUME NEW w \in Workers, WorkerStep(w), UNCHANGED <<windowStart, fate>> PROVE IInv'
  <2>1. PoolInv'
    BY <1>2, WorkerKeepsPool DEF IInv
  <2>2. UNCHANGED <<cpc, queued, committed, pending, windowStart, fate>>
    BY <1>2 DEF WorkerStep, commitVars
  <2>3. Windows' /\ Loop'
    BY <2>2 DEF IInv, Windows, Loop, WindowEnd, Window
  <2> QED
    BY <1>2, <2>1, <2>3, WorkerKeepsQuiet DEF IInv
<1>3. CASE UNCHANGED vars
  <2>1. PoolInv'
    BY <1>3, PoolStutter DEF IInv, vars
  <2>2. UNCHANGED <<cpc, queued, committed, pending, windowStart, fate, progressOn>>
    BY <1>3 DEF vars, poolVars, commitVars, queueVars
  <2>3. Windows' /\ Loop'
    BY <2>2 DEF IInv, Windows, Loop, WindowEnd, Window
  <2>4. Quiet'
    BY <2>2 DEF IInv, Quiet, WindowEnd, ProgressRequired
  <2> QED
    BY <2>1, <2>3, <2>4 DEF IInv
<1> QED
  BY <1>1, <1>2, <1>3 DEF Next

-----------------------------------------------------------------------------
(* The theorems.                                                           *)

\* The inductive invariant holds in every reachable state.
THEOREM WindowedInvariant == Spec => []IInv
<1>1. Init => IInv
  <2> SUFFICES ASSUME Init PROVE IInv
    OBVIOUS
  <2>1. /\ windowStart = 0 /\ queued = 0 /\ committed = 0 /\ cpc = "enter"
        /\ progressOn = ProgressRequired
    BY DEF Init, PoolInit
  <2>2. PoolInv
    <3>1. ProgressRequired \in BOOLEAN
      BY DEF ProgressRequired
    <3> QED
      BY <3>1, InitPool DEF Init
  <2>3. Windows
    <3>1. windowStart \in 0 .. TaskCount
      BY <2>1, CountAssumption
    <3>2. 0 <= WindowEnd
      BY <2>1, <3>1, WindowBounds
    <3>3. MaxInFlight > 0 => 0 % MaxInFlight = 0
      BY CountAssumption
    <3> QED
      BY <2>1, <3>1, <3>2, <3>3 DEF Windows
  <2>4. Loop /\ Quiet
    BY <2>1 DEF Loop, Quiet
  <2> QED
    BY <2>2, <2>3, <2>4 DEF IInv
<1> QED
  BY <1>1, StepKeepsIInv, PTL DEF Spec

\* The executor's state keeps the types of the Rust fields and locals.
THEOREM WindowedTypes == Spec => [](PoolTypeOK /\ windowStart \in 0 .. TaskCount)
<1>1. IInv => PoolTypeOK /\ windowStart \in 0 .. TaskCount
  BY DEF IInv, PoolInv, Windows
<1> QED
  BY <1>1, WindowedInvariant, PTL

\* The callback sees the plan in order, without gaps or repeats, and only
\* successfully prepared row groups, in windowed mode too.
THEOREM WindowedCallbacksInPlanOrder == Spec => []CallbacksInPlanOrder
BY WindowedInvariant, PTL DEF IInv, PoolInv, Commits

\* Neither internal-protocol error can reach the caller of a windowed read.
THEOREM WindowedNoInternalError == Spec => []NoInternalError
BY WindowedInvariant, PTL DEF IInv, PoolInv, Commits

\* Queues that hold a window are never seen full: no interleaving of one
\* window's stragglers with the next push turns the notifications on.
THEOREM WindowedFastPathNeverFull == Spec => []FastPathNeverFull
<1>1. IInv => FastPathNeverFull
  BY DEF IInv, Quiet, FastPathNeverFull
<1> QED
  BY <1>1, WindowedInvariant, PTL

\* All row groups in flight are of one window, and a window has one row group
\* per slot.
LEMMA OneRowGroupPerSlot ==
    ASSUME IInv, NEW o \in Window, NEW p \in Window, Slot(o) = Slot(p)
    PROVE  o = p
<1>0. /\ windowStart \in Nat /\ WindowEnd \in Nat /\ WindowEnd <= windowStart + MaxInFlight
      /\ MaxInFlight \in Nat /\ TaskCount \in Nat /\ WindowEnd <= TaskCount
  BY WindowBounds DEF IInv, Windows
<1>1. /\ o \in windowStart .. windowStart + MaxInFlight - 1
      /\ p \in windowStart .. windowStart + MaxInFlight - 1
      /\ MaxInFlight \in Nat \ {0} /\ windowStart # TaskCount
  BY <1>0 DEF Window
<1>2. windowStart % MaxInFlight = 0
  BY <1>1 DEF IInv, Windows
<1>3. o % MaxInFlight = o - windowStart /\ p % MaxInFlight = p - windowStart
  BY <1>0, <1>1, <1>2, OffsetInWindow
<1> QED
  BY <1>0, <1>1, <1>3 DEF Slot

\* A reusable buffer is refilled only after the batch it held went through the
\* visitor, however workers and coordinator interleave.
THEOREM WindowedBuffersNotShared == Spec => []BuffersNotShared
<1>1. IInv => BuffersNotShared
  <2> SUFFICES ASSUME IInv, NEW w \in Workers, wpc[w] = "running",
                      NEW o \in Ordinals \ {wtask[w]}, Slot(o) = Slot(wtask[w])
               PROVE  /\ \A v \in Workers : wtask[v] # o
                      /\ \A i \in DOMAIN chan : chan[i] # o
                      /\ o \notin pending
    BY DEF BuffersNotShared
  <2> USE DEF IInv, PoolInv
  <2>0. /\ windowStart \in Nat /\ WindowEnd \in Nat /\ Popped \in Int /\ Popped <= queued
        /\ committed \in Nat /\ queued \in Nat /\ windowStart <= committed /\ queued <= WindowEnd
    BY WindowBounds, Numbers DEF Windows, Popped
  <2>1. committed .. Popped - 1 \subseteq Window
    BY <2>0 DEF Window
  <2>2. wtask[w] \in Window
    BY <2>1 DEF Place, WorkersHold, Holding
  <2>3. o \notin Window
    <3> HIDE DEF IInv
    <3> QED BY <2>2, OneRowGroupPerSlot
  <2>4. \A v \in Workers : wtask[v] # o
    <3>1. o # NoTask
      BY CountAssumption DEF Ordinals, NoTask
    <3> QED
      BY <2>1, <2>3, <3>1 DEF Place, WorkersHold
  <2>5. \A i \in DOMAIN chan : chan[i] # o
    <3>1. DOMAIN chan = 1 .. Len(chan)
      BY DEF PoolTypeOK
    <3> QED
      BY <2>1, <2>3, <3>1 DEF Place, ChannelHolds
  <2>6. o \notin pending
    BY <2>1, <2>3 DEF Place, PendingHolds
  <2> QED
    BY <2>4, <2>5, <2>6
<1> QED
  BY <1>1, WindowedInvariant, PTL

-----------------------------------------------------------------------------
(* The books.                                                              *)

\* Every step keeps gauges and counters together.
LEMMA StepKeepsBooks ==
    ASSUME IInv, Books, [Next]_vars
    PROVE  Books'
<1>0. PoolInv
  BY DEF IInv
<1>1. CASE CommitNext /\ UNCHANGED fate
  <2>1. /\ committed \in Window /\ \A o \in Window : fate[o] = "ok"
        /\ CommitFrontier(IF committed + 1 = WindowEnd THEN "loop" ELSE "commit")
    BY <1>1, CommitNextStep
  <2>2. cpc = "commit" /\ committed \in pending
    <3>1. cpc = "commit"
      BY <1>1 DEF CommitNext
    <3>2. committed .. WindowEnd - 1 \subseteq pending /\ committed < WindowEnd
      BY <3>1 DEF IInv, Loop
    <3>3. committed \in Nat /\ WindowEnd \in Nat
      BY Numbers, WindowBounds DEF IInv, PoolInv, Windows
    <3> QED
      BY <3>1, <3>2, <3>3
  <2> DEFINE next == IF committed + 1 = WindowEnd THEN "loop" ELSE "commit"
  <2>3. next \in Looping /\ cpc \in Looping /\ CommitFrontier(next)
    BY <2>1, <2>2 DEF Looping
  <2> HIDE DEF next
  <2> QED
    BY <1>0, <1>1, <2>1, <2>2, <2>3, CommitKeepsBooks
<1>2. CASE ScanWindow /\ UNCHANGED fate
  <2>1. /\ UNCHANGED <<gauge, workerVars, chan, taskq, queued, committed>>
        /\ outcome' = "prepare_err" \/ UNCHANGED <<outcome, pending>>
    BY <1>2 DEF ScanWindow, FailAt, EndWith, queueVars, channelVars, commitVars, endVars
  <2> QED
    BY <1>0, <1>2, <2>1, LoopKeepsBooks
<1>3. CASE LoopDone /\ UNCHANGED fate
  <2>1. /\ outcome' = "completed" /\ committed = TaskCount
        /\ UNCHANGED <<gauge, workerVars, chan, taskq, queued, committed>>
    BY <1>3 DEF LoopDone, EndWith, queueVars, channelVars, commitVars, IInv, Loop
  <2> QED
    BY <1>0, <1>3, <2>1, LoopKeepsBooks
<1>4. CASE (FillNext \/ WaitForRoom) /\ UNCHANGED fate
  <2>1. UNCHANGED <<gauge, workerVars, chan, taskq, queued, committed, pending, outcome>>
    BY <1>4 DEF FillNext, WaitForRoom, WaitProgress, queueVars, channelVars, commitVars, endVars
  <2> QED
    BY <1>0, <1>4, <2>1, LoopKeepsBooks
<1>5. CASE LaunchNext /\ UNCHANGED fate
  <2>1. ~closed
    <3>1. /\ WindowEnd <= TaskCount /\ WindowEnd \in Nat /\ TaskCount \in Nat
          /\ queued \in Nat
      BY WindowBounds, Numbers DEF IInv, PoolInv, Windows
    <3>2. queued < WindowEnd
      BY <1>5 DEF LaunchNext, TryPush, IInv, Loop
    <3> QED
      BY <1>0, <1>5, <3>1, <3>2 DEF LaunchNext, TryPush, PoolInv, Lifecycle, Running, Looping
  <2>2. TryPush("loop")
    BY <1>5 DEF LaunchNext
  <2> QED
    BY <1>0, <1>5, <2>1, <2>2, PushKeepsBooks
<1>6. CASE PushWindow /\ UNCHANGED fate
  <2>1. IInv' /\ UNCHANGED <<outcome, failedAt, committed>>
    BY <1>6, PushWindowStep
  <2>2. UNCHANGED <<gauge, completed, wtask, chan, pending>>
    BY <1>6 DEF PushWindow, channelVars
  <2>3. committed .. Popped - 1 \subseteq committed .. Popped' - 1
    <3>1. Popped <= committed /\ committed \in Nat /\ Popped \in Int
      <4>1. queued = windowStart /\ committed = windowStart /\ queued \in Nat /\ Len(taskq) \in Nat
        BY <1>6, Numbers DEF PushWindow, FastPath, IInv, PoolInv, Loop
      <4> QED
        BY <4>1 DEF Popped
    <3> QED
      BY <3>1
  <2>4. \A w \in Workers : wpc'[w] = wpc[w] \/ (wpc[w] \in {"asleep", "unspawned"} /\ wpc'[w] = "pop")
    <3>1. wpc' = wpc \/ wpc' = WakeAll
      BY <1>6 DEF PushWindow
    <3> QED
      BY <1>0, <3>1, Waking DEF PoolInv
  <2> QED
    BY <1>0, <1>6, <2>1, <2>2, <2>3, <2>4, LaunchKeepsBooks
<1>7. CASE FillDone /\ UNCHANGED fate
  <2>1. UNCHANGED <<gauge, chan, queued, committed, pending, outcome>>
    BY <1>7 DEF FillDone, channelVars, commitVars, endVars
  <2>2. CASE CloseQueue
    BY <1>0, <1>7, <2>1, <2>2, CloseKeepsBooks
  <2>3. CASE UNCHANGED <<queueVars, workerVars>>
    BY <1>0, <1>7, <2>1, <2>3, LoopKeepsBooks DEF queueVars
  <2> QED
    BY <1>7, <2>2, <2>3 DEF FillDone
<1>8. CASE (Gather \/ PollResult) /\ UNCHANGED fate
  <2>1. ASSUME NEW next \in {"loop", "recv"}, Recv(next), cpc \in {"recv", "try_recv"},
               cpc = "recv" => ~Gathered
        PROVE  Books'
    <3>1. chan # <<>>
      BY <2>1, NeverDisconnected DEF Recv
    <3> QED
      BY <1>0, <1>8, <2>1, <3>1, ReceiveKeepsBooks DEF Looping
  <2>2. CASE PollResult /\ ~Recv("loop")
    <3>1. UNCHANGED <<gauge, workerVars, chan, taskq, queued, committed, pending, outcome>>
      BY <2>2 DEF PollResult, TryRecv, channelVars, commitVars, endVars
    <3> QED
      BY <1>0, <1>8, <3>1, LoopKeepsBooks
  <2> QED
    BY <1>8, <2>1, <2>2 DEF Gather, PollResult, TryRecv
<1>9. CASE EntryAndExit /\ UNCHANGED fate
  BY <1>0, <1>9, EntryAndExitKeepsBooks
<1>10. ASSUME NEW w \in Workers, WorkerStep(w), UNCHANGED fate PROVE Books'
  BY <1>0, <1>10, WorkerKeepsBooks
<1>11. CASE UNCHANGED vars
  BY <1>0, <1>11, BooksStutter DEF vars
<1> QED
  BY <1>1, <1>2, <1>3, <1>4, <1>5, <1>6, <1>7, <1>8, <1>9, <1>10, <1>11 DEF Next, CoordinatorStep

\* In windowed mode too each launched row group is in one place at every step, the
\* gauges count what is finished and not yet delivered, and the counters of the
\* report agree with one another.
THEOREM WindowedBooksBalance == Spec => []BooksBalance
<1>1. Init => Books
  <2>1. ProgressRequired \in BOOLEAN
    BY DEF ProgressRequired
  <2> QED
    BY <2>1, InitBooks DEF Init
<1>2. IInv /\ Books /\ [Next]_vars => Books'
  BY StepKeepsBooks
<1>3. IInv /\ Books => BooksBalance
  <2> SUFFICES ASSUME IInv, Books PROVE BooksBalance
    OBVIOUS
  <2>1. InFlightBounded
    <3>1. /\ windowStart \in Nat /\ WindowEnd \in Nat /\ WindowEnd <= windowStart + MaxInFlight
          /\ MaxInFlight \in Nat /\ queued <= WindowEnd /\ windowStart <= committed
          /\ queued \in Nat /\ committed \in Nat
      BY WindowBounds, Numbers DEF IInv, PoolInv, Windows
    <3> QED
      BY <3>1 DEF InFlightBounded
  <2> QED
    BY <2>1, BooksDoBalance DEF IInv
<1> QED
  BY <1>1, <1>2, <1>3, WindowedInvariant, PTL DEF Spec

-----------------------------------------------------------------------------
(* Implementation of the batched sequential visit.                         *)

\* The current window is the batch of each of its ordinals.
LEMMA BatchIsWindow ==
    ASSUME IInv, MaxInFlight > 0, windowStart # TaskCount
    PROVE  \A o \in Window : /\ Sequential!BatchStart(o) = windowStart
                             /\ Sequential!BatchOf(o) = Window
<1>0. /\ windowStart \in Nat /\ WindowEnd \in Nat /\ WindowEnd <= windowStart + MaxInFlight
      /\ MaxInFlight \in Nat \ {0} /\ TaskCount \in Nat /\ WindowEnd <= TaskCount
      /\ (WindowEnd < TaskCount => WindowEnd = windowStart + MaxInFlight)
  BY WindowBounds DEF IInv, Windows
<1>1. windowStart % MaxInFlight = 0
  BY DEF IInv, Windows
<1>2. \A o \in Nat : Sequential!BatchStart(o) = o - (o % MaxInFlight)
  BY <1>0 DEF Sequential!BatchStart
<1>3. \A o \in Window : Sequential!BatchStart(o) = windowStart
  <2> SUFFICES ASSUME NEW o \in Window PROVE Sequential!BatchStart(o) = windowStart
    OBVIOUS
  <2>1. o \in windowStart .. windowStart + MaxInFlight - 1 /\ o \in Nat
    BY <1>0 DEF Window
  <2>2. o % MaxInFlight = o - windowStart
    BY <1>0, <1>1, <2>1, OffsetInWindow
  <2>3. Sequential!BatchStart(o) = o - (o - windowStart)
    BY <1>2, <2>1, <2>2
  <2> QED
    BY <1>0, <2>1, <2>3
<1>4. \A p \in 0 .. TaskCount - 1 : Sequential!BatchStart(p) = windowStart => p \in Window
  <2> SUFFICES ASSUME NEW p \in 0 .. TaskCount - 1, Sequential!BatchStart(p) = windowStart
               PROVE  p \in Window
    OBVIOUS
  <2>1. p % MaxInFlight \in 0 .. MaxInFlight - 1
    BY <1>0
  <2>2. p - (p % MaxInFlight) = windowStart
    BY <1>2
  <2> QED
    BY <1>0, <2>1, <2>2 DEF Window
<1>5. Window \subseteq 0 .. TaskCount - 1
  BY <1>0 DEF Window
<1> QED
  BY <1>3, <1>4, <1>5 DEF Sequential!BatchOf, Sequential!Plan

\* Every step of the pool is a step of the batched visit or leaves its state
\* alone.
LEMMA StepRefines ==
    ASSUME IInv, [Next]_vars
    PROVE  [Sequential!Next]_(Sequential!vars)
<1> USE DEF Sequential!vars, IInv, endVars, commitVars, EndWith
<1>1. CASE CommitNext /\ UNCHANGED fate
  <2>1. /\ outcome = "none" /\ committed \in Window /\ \A o \in Window : fate[o] = "ok"
        /\ CommitFrontier(IF committed + 1 = WindowEnd THEN "loop" ELSE "commit")
    BY <1>1, CommitNextStep
  <2>2. /\ MaxInFlight > 0 /\ windowStart # TaskCount /\ committed \in Ordinals /\ failedAt = NoTask
    <3>1. windowStart \in Nat /\ WindowEnd \in Nat /\ WindowEnd <= TaskCount /\ TaskCount \in Nat
      BY WindowBounds DEF Windows
    <3> QED
      BY <1>1, <2>1, <3>1 DEF CommitNext, PoolInv, Lifecycle, Window, Ordinals
  <2>3. Sequential!MayVisit
    BY <2>1, <2>2, BatchIsWindow DEF Sequential!MayVisit, Sequential!Plan, Ordinals, Sequential!Good
  <2>4. Sequential!Visit \/ Sequential!VisitorFails
    BY <2>1, <2>2, <2>3, PanicModeAssumption
       DEF CommitFrontier, NoTask, Sequential!Visit, Sequential!VisitorFails
  <2> QED
    BY <1>1, <2>1, <2>4 DEF Sequential!Next
<1>2. CASE ScanWindow /\ UNCHANGED fate
  <2>1. /\ outcome = "none" /\ committed = windowStart /\ committed' = committed
        /\ \/ UNCHANGED <<outcome, failedAt>>
           \/ /\ outcome' = "prepare_err" /\ failedAt' \in Window /\ fate[failedAt'] # "ok"
              /\ \A o \in Window : o < failedAt' => fate[o] = "ok"
    BY <1>2, ScanStep
  <2>2. CASE UNCHANGED <<outcome, failedAt>>
    BY <1>2, <2>1, <2>2
  <2>3. CASE /\ outcome' = "prepare_err" /\ failedAt' \in Window /\ fate[failedAt'] # "ok"
             /\ \A o \in Window : o < failedAt' => fate[o] = "ok"
    <3> DEFINE e == failedAt'
    <3>0. /\ windowStart \in Nat /\ WindowEnd \in Nat /\ WindowEnd <= TaskCount /\ TaskCount \in Nat
      BY WindowBounds DEF Windows
    <3>1. e \in Ordinals /\ fate[e] # "ok" /\ MaxInFlight > 0 /\ windowStart # TaskCount
      BY <1>2, <2>3, <3>0 DEF ScanWindow, PoolInv, Lifecycle, Window, Ordinals
    <3>2. \A o \in Ordinals : o < e => fate[o] = "ok"
      <4> SUFFICES ASSUME NEW o \in Ordinals, o < e PROVE fate[o] = "ok"
        OBVIOUS
      <4>1. CASE o < windowStart
        <5>1. o \in 0 .. committed - 1
          BY <2>1, <3>0, <4>1 DEF Ordinals
        <5> QED
          BY <5>1 DEF PoolInv, Commits, History
      <4>2. CASE o >= windowStart
        <5>1. o \in Window
          BY <2>3, <3>0, <4>2 DEF Window, Ordinals
        <5> QED
          BY <2>3, <5>1
      <4> QED
        BY <3>0, <4>1, <4>2 DEF Ordinals
    <3>3. Sequential!BatchStart(e) = committed
      BY <2>1, <2>3, <3>1, BatchIsWindow
    <3>4. Sequential!RowGroupFails
      <4> HIDE DEF e
      <4>1. e \in Sequential!Plan /\ ~Sequential!Good(e)
        BY <3>1 DEF Sequential!Plan, Ordinals, Sequential!Good
      <4>2. \A o \in Sequential!Plan : o < e => Sequential!Good(o)
        BY <3>2 DEF Sequential!Plan, Ordinals, Sequential!Good
      <4>3. failedAt' = e
        BY DEF e
      <4> QED
        BY <2>1, <2>3, <3>3, <4>1, <4>2, <4>3 DEF Sequential!RowGroupFails
    <3> QED
      BY <1>2, <2>1, <3>4 DEF Sequential!Next
  <2> QED
    BY <2>1, <2>2, <2>3
<1>3. CASE LoopDone /\ UNCHANGED fate
  <2>1. committed = TaskCount
    BY <1>3 DEF LoopDone, Loop
  <2> QED
    BY <1>3, <2>1 DEF LoopDone, PoolInv, Lifecycle, Running, Looping, Sequential!Next,
       Sequential!Complete, NoTask
<1>4. CASE Enter /\ UNCHANGED fate
  BY <1>4 DEF Enter, PoolInv, Lifecycle, Running, Looping, Sequential!Next, Sequential!Complete,
     Sequential!NeverStarts
<1>5. ASSUME NEW w \in Workers, Spawn(w), UNCHANGED fate
      PROVE  [Sequential!Next]_(Sequential!vars)
  BY <1>5 DEF Spawn, PoolInv, Lifecycle, Running, Looping, Sequential!Next, Sequential!NeverStarts,
     NoTask
<1>6. CASE PushWindow /\ UNCHANGED fate
  BY <1>6, PushWindowStep
<1>7. CASE /\ FillNext \/ LaunchNext \/ PollResult \/ WaitForRoom \/ FillDone \/ Gather
           /\ UNCHANGED fate
  BY <1>7, FillStep
<1>8. CASE (Cancel \/ CloseAtEnd \/ DropReceiver \/ JoinAll) /\ UNCHANGED fate
  BY <1>8 DEF Cancel, CloseAtEnd, DropReceiver, JoinAll
<1>9. ASSUME NEW w \in Workers, WorkerStep(w), UNCHANGED fate
      PROVE  [Sequential!Next]_(Sequential!vars)
  BY <1>9 DEF WorkerStep
<1>10. CASE UNCHANGED vars
  BY <1>10 DEF vars, poolVars
<1> QED
  BY <1>1, <1>2, <1>3, <1>4, <1>5, <1>6, <1>7, <1>8, <1>9, <1>10
     DEF Next, CoordinatorStep, EntryAndExit

\* The concurrent windowed execution implements the one-thread visit that
\* prepares window by window: a window with a failure commits nothing and
\* reports its earliest failing row group.
THEOREM WindowedImplementsBatchedVisit == Spec => ImplementsBatchedVisit
<1>1. Init => Sequential!Init
  BY DEF Init, PoolInit, Sequential!Init, Sequential!Plan, Ordinals, NoTask, Sequential!NoOrdinal
<1>2. IInv /\ [Next]_vars => [Sequential!Next]_(Sequential!vars)
  BY StepRefines
<1> QED
  BY <1>1, <1>2, WindowedInvariant, PTL DEF Spec, ImplementsBatchedVisit, Sequential!Spec
=============================================================================
