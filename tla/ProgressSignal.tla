--------------------------- MODULE ProgressSignal ---------------------------
(***************************************************************************)
(* ProgressSignal of parallel_prepare.rs, one atomic access per step: an   *)
(* event count made of a generation counter, a waiter count, a mutex and a *)
(* condition variable.  notify() skips the mutex when it sees no waiter,   *)
(* so a wakeup could be lost between a waiter's test and its sleep; this   *)
(* module shows that it is not.  BoundedOrdered uses its interface.        *)
(*                                                                         *)
(* Waiters and notifiers are roles: in the executor a thread plays one or  *)
(* the other at a time.  A notifier may first store the cancellation flag, *)
(* as every canceller does before TaskQueue::close.                        *)
(***************************************************************************)
EXTENDS Integers, FiniteSets

CONSTANTS Waiters, Notifiers,
          NoOne,           \* nobody holds wait_lock
          MaxGeneration    \* bound: notifications in one behaviour

ASSUME RolesAssumption ==
    /\ IsFiniteSet(Waiters) /\ Waiters \cap Notifiers = {}
    /\ NoOne \notin Waiters \cup Notifiers
ASSUME BoundAssumption == MaxGeneration \in Nat

VARIABLES
    generation,  \* ProgressSignal.generation
    waiters,     \* ProgressSignal.waiters
    holder,      \* owner of wait_lock, or NoOne
    cancelFlag,  \* the pool's cancellation flag
    observed,    \* per waiter: the generation it snapshot
    waiterPc,    \* per waiter: where wait_for_change is
    notifierPc   \* per notifier: where notify is

signalVars == <<generation, waiters, holder, cancelFlag, observed, waiterPc, notifierPc>>

WaiterPcs == {"idle", "observed", "test_generation", "test_cancelled", "lock",
              "retest_generation", "retest_cancelled", "sleep", "asleep",
              "unlock", "unregister"}
NotifierPcs == {"idle", "bump", "load", "lock", "notify"}

SignalInit ==
    /\ generation = 0 /\ waiters = 0 /\ holder = NoOne /\ cancelFlag = FALSE
    /\ observed = [t \in Waiters |-> 0]
    /\ waiterPc = [t \in Waiters |-> "idle"]
    /\ notifierPc = [n \in Notifiers |-> "idle"]

WaiterGoes(t, label) == waiterPc' = [waiterPc EXCEPT ![t] = label]
NotifierGoes(n, label) == notifierPc' = [notifierPc EXCEPT ![n] = label]

-----------------------------------------------------------------------------
(* wait_for_change                                                         *)

\* snapshot(); the caller then retries its operation before it waits.
Snapshot(t) ==
    /\ waiterPc[t] \in {"idle", "observed"}
    /\ observed' = [observed EXCEPT ![t] = generation]
    /\ WaiterGoes(t, "observed")
    /\ UNCHANGED <<generation, waiters, holder, cancelFlag, notifierPc>>

\* ProgressWaiterGuard::register.
Register(t) ==
    /\ waiterPc[t] = "observed"
    /\ waiters' = waiters + 1
    /\ WaiterGoes(t, "test_generation")
    /\ UNCHANGED <<generation, holder, cancelFlag, observed, notifierPc>>

\* The unlocked test: two loads, generation first.
TestGeneration(t) ==
    /\ waiterPc[t] = "test_generation"
    /\ WaiterGoes(t, IF generation = observed[t] THEN "test_cancelled" ELSE "unregister")
    /\ UNCHANGED <<generation, waiters, holder, cancelFlag, observed, notifierPc>>

TestCancelled(t) ==
    /\ waiterPc[t] = "test_cancelled"
    /\ WaiterGoes(t, IF cancelFlag THEN "unregister" ELSE "lock")
    /\ UNCHANGED <<generation, waiters, holder, cancelFlag, observed, notifierPc>>

\* Fault: the test is not repeated under the lock.
LockWithoutRetest(t) ==
    /\ waiterPc[t] = "lock" /\ holder = NoOne
    /\ holder' = t
    /\ WaiterGoes(t, "sleep")
    /\ UNCHANGED <<generation, waiters, cancelFlag, observed, notifierPc>>

\* Locking wait_lock, on entry or when the condition variable wakes.
LockWait(t) ==
    /\ waiterPc[t] = "lock" /\ holder = NoOne
    /\ holder' = t
    /\ WaiterGoes(t, "retest_generation")
    /\ UNCHANGED <<generation, waiters, cancelFlag, observed, notifierPc>>

RetestGeneration(t) ==
    /\ waiterPc[t] = "retest_generation"
    /\ WaiterGoes(t, IF generation = observed[t] THEN "retest_cancelled" ELSE "unlock")
    /\ UNCHANGED <<generation, waiters, holder, cancelFlag, observed, notifierPc>>

RetestCancelled(t) ==
    /\ waiterPc[t] = "retest_cancelled"
    /\ WaiterGoes(t, IF cancelFlag THEN "unlock" ELSE "sleep")
    /\ UNCHANGED <<generation, waiters, holder, cancelFlag, observed, notifierPc>>

\* Condvar::wait releases the mutex and enqueues the thread in one step.
Sleep(t) ==
    /\ waiterPc[t] = "sleep"
    /\ holder' = NoOne
    /\ WaiterGoes(t, "asleep")
    /\ UNCHANGED <<generation, waiters, cancelFlag, observed, notifierPc>>

\* A condition variable may wake a thread without a notification.
WakeSpuriously(t) ==
    /\ waiterPc[t] = "asleep"
    /\ WaiterGoes(t, "lock")
    /\ UNCHANGED <<generation, waiters, holder, cancelFlag, observed, notifierPc>>

Unlock(t) ==
    /\ waiterPc[t] = "unlock"
    /\ holder' = NoOne
    /\ WaiterGoes(t, "unregister")
    /\ UNCHANGED <<generation, waiters, cancelFlag, observed, notifierPc>>

\* The guard's drop, and the return to the caller's loop.
Unregister(t) ==
    /\ waiterPc[t] = "unregister"
    /\ waiters' = waiters - 1
    /\ WaiterGoes(t, "idle")
    /\ UNCHANGED <<generation, holder, cancelFlag, observed, notifierPc>>

\* What a thread inside wait_for_change cannot put off for ever.
Waiting(t) ==
    \/ TestGeneration(t) \/ TestCancelled(t) \/ LockWait(t) \/ RetestGeneration(t)
    \/ RetestCancelled(t) \/ Sleep(t) \/ Unlock(t) \/ Unregister(t)

WaiterStep(t) == Waiting(t) \/ Snapshot(t) \/ Register(t) \/ WakeSpuriously(t)

-----------------------------------------------------------------------------
(* notify                                                                  *)

\* A change worth announcing happened, possibly the cancellation itself.
Begin(n) ==
    /\ notifierPc[n] = "idle"
    /\ generation + Cardinality({m \in Notifiers : notifierPc[m] = "bump"}) < MaxGeneration
    /\ cancelFlag' = TRUE \/ UNCHANGED cancelFlag
    /\ NotifierGoes(n, "bump")
    /\ UNCHANGED <<generation, waiters, holder, observed, waiterPc>>

Bump(n) ==
    /\ notifierPc[n] = "bump"
    /\ generation' = generation + 1
    /\ NotifierGoes(n, "load")
    /\ UNCHANGED <<waiters, holder, cancelFlag, observed, waiterPc>>

\* Fault: a single waiter is overlooked.
LoadWaitersOffByOne(n) ==
    /\ notifierPc[n] = "load"
    /\ NotifierGoes(n, IF waiters <= 1 THEN "idle" ELSE "lock")
    /\ UNCHANGED <<generation, waiters, holder, cancelFlag, observed, waiterPc>>

\* The waiter count is read after the generation moved.
LoadWaiters(n) ==
    /\ notifierPc[n] = "load"
    /\ NotifierGoes(n, IF waiters = 0 THEN "idle" ELSE "lock")
    /\ UNCHANGED <<generation, waiters, holder, cancelFlag, observed, waiterPc>>

LockNotify(n) ==
    /\ notifierPc[n] = "lock" /\ holder = NoOne
    /\ holder' = n
    /\ NotifierGoes(n, "notify")
    /\ UNCHANGED <<generation, waiters, cancelFlag, observed, waiterPc>>

\* notify_all, then the guard is dropped.
NotifyAll(n) ==
    /\ notifierPc[n] = "notify"
    /\ waiterPc' = [t \in Waiters |-> IF waiterPc[t] = "asleep" THEN "lock" ELSE waiterPc[t]]
    /\ holder' = NoOne
    /\ NotifierGoes(n, "idle")
    /\ UNCHANGED <<generation, waiters, cancelFlag, observed>>

Notifying(n) == Bump(n) \/ LoadWaiters(n) \/ LockNotify(n) \/ NotifyAll(n)

SignalNext ==
    \/ \E t \in Waiters : WaiterStep(t)
    \/ \E n \in Notifiers : Begin(n) \/ Notifying(n)

\* A thread inside the signal's methods keeps running; when to snapshot, to
\* wait or to notify is the caller's choice.  Spurious wakeups end eventually:
\* they would otherwise let one waiter keep the unfair mutex from another.
SignalFairness ==
    /\ <>[][\A t \in Waiters : ~WakeSpuriously(t)]_signalVars
    /\ \A t \in Waiters : WF_signalVars(Waiting(t))
    /\ \A n \in Notifiers : WF_signalVars(Notifying(n))

SignalSpec == SignalInit /\ [][SignalNext]_signalVars /\ SignalFairness

-----------------------------------------------------------------------------

\* The fields have their Rust types; the waiter count is never negative.
SignalTypeOK ==
    /\ generation \in Nat /\ waiters \in Nat
    /\ holder \in Waiters \cup Notifiers \cup {NoOne}
    /\ cancelFlag \in BOOLEAN
    /\ observed \in [Waiters -> Nat]
    /\ waiterPc \in [Waiters -> WaiterPcs]
    /\ notifierPc \in [Notifiers -> NotifierPcs]

Registered == {t \in Waiters : waiterPc[t] \notin {"idle", "observed"}}

\* The waiter count equals the number of live ProgressWaiterGuards, so the
\* guard's debug assertion (no underflow) holds and reading zero is conclusive.
WaitersExact == waiters = Cardinality(Registered)

Changed(t) == generation # observed[t] \/ cancelFlag

\* notify() is under way past the point where it commits to look for waiters.
Announcing(n) == notifierPc[n] \in {"bump", "load", "lock", "notify"}

\* No lost wakeup: a sleeper whose generation moved, or whose pool was
\* cancelled, still has a notifier on its way to notify_all.
NoLostWakeup ==
    \A t \in Waiters :
        waiterPc[t] = "asleep" /\ Changed(t) => \E n \in Notifiers : Announcing(n)

\* wait_for_change only returns when something changed since the snapshot.
NoEarlyReturn ==
    \A t \in Waiters : waiterPc[t] \in {"unlock", "unregister"} => Changed(t)

\* A waiter for which something changed is back in its caller eventually.
WakesUp ==
    \A t \in Waiters : (t \in Registered /\ Changed(t)) ~> (waiterPc[t] = "idle")
=============================================================================
