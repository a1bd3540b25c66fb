------------------------ MODULE ChannelParallelRead ------------------------
(***************************************************************************)
(* Reading several channel files in parallel: parallel_read.rs.  Worker    *)
(* threads take channels from one queue, read each file through the        *)
(* windowed visitor (a wave of row groups is read, then its batches are    *)
(* handed to the shared caller-supplied visitor one by one) and send one   *)
(* result per channel to the calling thread.  A shared flag asks every     *)
(* worker to stop early: a visitor sets it by answering Stop, a failed     *)
(* channel by failing.                                                     *)
(*                                                                         *)
(* The flag is read and written with relaxed ordering: a worker that has   *)
(* not seen it set may go on reading it as clear for a while.  A wave is   *)
(* read in one step; WindowedCommit.tla is the wave in detail.             *)
(***************************************************************************)
EXTENDS Integers, Sequences, FiniteSetsExt, SequencesExt

CONSTANTS
  Requests,         \* the sequences of channel ids a caller may pass
  ChannelWorkers,   \* options.channel_workers
  WaveSize,         \* row groups in flight within one file
  Footprint,        \* per channel: the bytes of each planned row group
  Budget            \* the aggregate resource limit of the whole operation

Channels == DOMAIN Footprint

ASSUME ChannelReadAssumption ==
  /\ Requests \subseteq Seq(Nat)
  /\ ChannelWorkers \in Nat \ {0} /\ WaveSize \in Nat \ {0} /\ Budget \in Nat
  /\ Channels \subseteq Nat \ {0} /\ \A c \in Channels : Footprint[c] \in Seq(Nat)
  /\ \A r \in Requests : Range(r) \subseteq Channels \cup {0}

VARIABLES
  request,      \* the caller's inputs, by ChannelID
  cpc,          \* where the calling thread is
  spawned,      \* worker threads started so far
  queue,        \* channels not yet taken
  stop,         \* the shared stop flag
  knows,        \* per worker: it has set the flag or seen it set
  wpc,          \* per worker: where it is
  wch,          \* per worker: the channel it reads
  pos,          \* per worker: batches of the channel handed over so far
  wave,         \* per worker: where the wave it holds ends
  wmsg,         \* per worker: the result of its channel
  chan,         \* the unbounded result channel
  reports,      \* reports received, in order of arrival
  firstError,   \* first_error
  outcome,
  seen          \* history: per channel, the batches its visitor calls returned from

vars == <<request, cpc, spawned, queue, stop, knows, wpc, wch, pos, wave, wmsg,
          chan, reports, firstError, outcome, seen>>

NoChannel == 0
NoError == "none"
Errors == {"read", "view", "visitor", "rowCount", "overLimit"}
Planned(c) == Len(Footprint[c])

\* One message per channel: its report, or why it failed.
Report(c, n, stopped) == [channel |-> c, batches |-> n, cancelled |-> stopped, error |-> NoError]
Failure(c, e) == [channel |-> c, batches |-> 0, cancelled |-> FALSE, error |-> e]
Messages == [channel : Channels, batches : Nat, cancelled : BOOLEAN,
             error : Errors \cup {NoError}]
NoMessage == [error |-> NoError]

\* effective_channel_workers
EffectiveWorkers ==
  IF request = <<>> THEN 1 ELSE Min({ChannelWorkers, Len(request)})
Workers == 1 .. ChannelWorkers

WorkerPcs == {"idle", "take", "open", "wave", "poll", "visit", "tell", "fail",
              "send", "exited", "dead"}

TypeOK ==
  /\ request \in Requests
  /\ cpc \in {"enter", "spawn", "receive", "join", "done"}
  /\ spawned \in 0 .. EffectiveWorkers
  /\ queue \in Seq(Channels)
  /\ stop \in BOOLEAN /\ knows \in [Workers -> BOOLEAN]
  /\ wpc \in [Workers -> WorkerPcs]
  /\ wch \in [Workers -> Channels \cup {NoChannel}]
  /\ \A w \in Workers :
       wch[w] # NoChannel => pos[w] \in 0 .. Planned(wch[w]) /\ wave[w] \in 0 .. Planned(wch[w])
  /\ wmsg \in [Workers -> Messages \cup {NoMessage}]
  /\ chan \in Seq(Messages) /\ reports \in Seq(Messages)
  /\ firstError \in Errors \cup {NoError, "panic"}
  /\ outcome \in {"none", "ok", "invalid_input", "error"}
  /\ seen \in [Channels -> Nat]
-----------------------------------------------------------------------------
(* The worker threads.                                                     *)

Caller == <<request, cpc, spawned, reports, firstError, outcome>>
Work == <<wch, pos, wave, wmsg>>

At(w, here) == wpc[w] = here
Goto(w, there) == wpc' = [wpc EXCEPT ![w] = there]

\* Fault: every worker may use the whole budget.
WholeBudget == Budget

\* channel_worker_resource_share: the same floor share for every worker.
Share == Budget \div EffectiveWorkers

\* A relaxed load of the stop flag yields v.
LoadStop(w, v) ==
  /\ v \in IF knows[w] THEN {TRUE} ELSE {FALSE, stop}
  /\ knows' = [knows EXCEPT ![w] = v]

\* A relaxed store of TRUE.
StoreStop(w) ==
  /\ stop' = TRUE
  /\ knows' = [knows EXCEPT ![w] = TRUE]

\* The head of the loop: leave when asked to stop.
CheckStop(w) ==
  /\ At(w, "idle")
  /\ \E v \in BOOLEAN : LoadStop(w, v) /\ Goto(w, IF v THEN "exited" ELSE "take")
  /\ UNCHANGED <<Caller, queue, stop, Work, chan, seen>>

Take(w) ==
  /\ At(w, "take") /\ queue # <<>>
  /\ queue' = Tail(queue)
  /\ wch' = [wch EXCEPT ![w] = Head(queue)]
  /\ pos' = [pos EXCEPT ![w] = 0] /\ wave' = [wave EXCEPT ![w] = 0]
  /\ Goto(w, "open")
  /\ UNCHANGED <<Caller, stop, knows, wmsg, chan, seen>>

TakeNone(w) ==
  /\ At(w, "take") /\ queue = <<>>
  /\ Goto(w, "exited")
  /\ UNCHANGED <<Caller, queue, stop, knows, Work, chan, seen>>

\* read_physical_v2_channel returns, and gives up what it holds: a report, or an
\* error that the loop records in the stop flag before it sends it.
Returns(w, m) ==
  /\ wmsg' = [wmsg EXCEPT ![w] = m]
  /\ wave' = [wave EXCEPT ![w] = 0]
  /\ Goto(w, IF m.error = NoError THEN "send" ELSE "fail")

\* The wave that starts at batch n, and what it holds in memory.
WaveEnd(c, n) == Min({n + WaveSize, Planned(c)})
WaveBytes(c, from, to) == SumFunctionOnSet(Footprint[c], from + 1 .. to)

\* Every wave of the plan fits the worker's share, before anything is read.
EveryWaveFits(c) ==
  \A n \in 0 .. Planned(c) :
    n % WaveSize = 0 => WaveBytes(c, n, WaveEnd(c, n)) <= Share

\* Opening and planning the file, and the check of its waves against the share.
Open(w) ==
  /\ At(w, "open")
  /\ \/ ~EveryWaveFits(wch[w]) /\ Returns(w, Failure(wch[w], "overLimit"))
     \/ Returns(w, Failure(wch[w], "read"))
     \/ EveryWaveFits(wch[w]) /\ Goto(w, "wave") /\ UNCHANGED <<wmsg, wave>>
  /\ UNCHANGED <<Caller, queue, stop, knows, wch, pos, chan, seen>>

\* Fault: a last wave that is short is left out.
OnlyShortWaveLeft(w) == pos[w] + WaveSize > Planned(wch[w])

AllHandedOver(w) == pos[w] = Planned(wch[w])

\* A wave is read and decoded as a whole: a row group that fails fails the channel
\* before any batch of its wave is handed over.
ReadWave(w) ==
  /\ At(w, "wave") /\ ~AllHandedOver(w)
  /\ \/ /\ wave' = [wave EXCEPT ![w] = WaveEnd(wch[w], pos[w])]
        /\ Goto(w, "poll") /\ UNCHANGED wmsg
     \/ Returns(w, Failure(wch[w], "read"))
  /\ UNCHANGED <<Caller, queue, stop, knows, wch, pos, chan, seen>>

\* The batch at hand is counted as yielded, whatever the visitor answered.
HandOver(w) == pos' = [pos EXCEPT ![w] = @ + 1]

AfterBatch(w) == Goto(w, IF pos[w] + 1 = wave[w] THEN "wave" ELSE "poll")

\* Stop ends the channel's read after the batch at hand.
EndEarly(w, n) == Returns(w, Report(wch[w], n, TRUE))

\* The closure around the visitor first looks at the flag; if it is set, the
\* visitor is not called and the channel's read stops.
PollStop(w) ==
  /\ At(w, "poll")
  /\ \E v \in BOOLEAN :
       /\ LoadStop(w, v)
       /\ \/ v /\ HandOver(w) /\ EndEarly(w, pos[w] + 1)
          \/ ~v /\ Goto(w, "visit") /\ UNCHANGED <<pos, wave, wmsg>>
  /\ UNCHANGED <<Caller, queue, stop, wch, chan, seen>>

\* The batch is checked and given to the visitor, which may answer Continue or
\* Stop, fail, or panic and take the thread with it.
Visit(w) ==
  /\ At(w, "visit")
  /\ \/ /\ HandOver(w) /\ AfterBatch(w)
        /\ seen' = [seen EXCEPT ![wch[w]] = @ + 1] /\ UNCHANGED <<wave, wmsg>>
     \/ /\ HandOver(w) /\ Goto(w, "tell")
        /\ seen' = [seen EXCEPT ![wch[w]] = @ + 1] /\ UNCHANGED <<wave, wmsg>>
     \/ /\ \E e \in {"view", "visitor"} : Returns(w, Failure(wch[w], e))
        /\ UNCHANGED <<pos, seen>>
     \/ /\ Goto(w, "dead")
        /\ wave' = [wave EXCEPT ![w] = 0] /\ UNCHANGED <<pos, wmsg, seen>>
  /\ UNCHANGED <<Caller, queue, stop, knows, wch, chan>>

\* The visitor answered Stop: tell the others.
TellOthers(w) ==
  /\ At(w, "tell")
  /\ StoreStop(w) /\ UNCHANGED pos /\ EndEarly(w, pos[w])
  /\ UNCHANGED <<Caller, queue, wch, chan, seen>>

\* All planned batches were handed over: the row count is compared with the
\* expected one, if there is one.
Complete(w) ==
  /\ At(w, "wave") /\ AllHandedOver(w)
  /\ UNCHANGED pos
  /\ \/ Returns(w, Report(wch[w], pos[w], FALSE))
     \/ Returns(w, Failure(wch[w], "rowCount"))
  /\ UNCHANGED <<Caller, queue, stop, knows, wch, chan, seen>>

\* A channel failed: the flag is set before the error is sent.
RaiseStop(w) ==
  /\ At(w, "fail")
  /\ StoreStop(w)
  /\ Goto(w, "send")
  /\ UNCHANGED <<Caller, queue, Work, chan, seen>>

\* The receiver outlives the senders, so sending cannot fail.
Send(w) ==
  /\ At(w, "send")
  /\ chan' = Append(chan, wmsg[w])
  /\ wmsg' = [wmsg EXCEPT ![w] = NoMessage]
  /\ wch' = [wch EXCEPT ![w] = NoChannel]
  /\ Goto(w, "idle")
  /\ UNCHANGED <<Caller, queue, stop, knows, pos, wave, seen>>

WorkerStep(w) ==
  /\ w <= spawned
  /\ \/ CheckStop(w) \/ Take(w) \/ TakeNone(w) \/ Open(w) \/ ReadWave(w)
     \/ PollStop(w) \/ Visit(w) \/ TellOthers(w) \/ Complete(w)
     \/ RaiseStop(w) \/ Send(w)
-----------------------------------------------------------------------------
(* The calling thread.                                                     *)

Pool == <<queue, stop, knows, wpc, Work, chan, seen>>

\* normalize_inputs accepts: at least one channel, none with id 0, none twice.
Acceptable ==
  /\ request # <<>>
  /\ 0 \notin Range(request)
  /\ IsInjective(request)

\* The arrangements of a sequence, of which a sort picks one that ascends.
Arrangements(s) == {[i \in DOMAIN s |-> s[p[i]]] : p \in Bijection(DOMAIN s, DOMAIN s)}
Ascending(s) == \A i, j \in DOMAIN s : i < j => s[i] <= s[j]
ChannelsOf(messages) == [i \in DOMAIN messages |-> messages[i].channel]

\* The inputs are checked and queued in order of their ChannelID.
Enter ==
  /\ cpc = "enter"
  /\ \/ /\ Acceptable
        /\ \E q \in Arrangements(request) : Ascending(q) /\ queue' = q
        /\ cpc' = "spawn" /\ UNCHANGED outcome
     \/ /\ ~Acceptable
        /\ cpc' = "done" /\ outcome' = "invalid_input" /\ UNCHANGED queue
  /\ UNCHANGED <<request, spawned, stop, knows, wpc, Work, chan, reports,
                 firstError, seen>>

SpawnWorker ==
  /\ cpc = "spawn"
  /\ \/ spawned < EffectiveWorkers /\ spawned' = spawned + 1 /\ UNCHANGED cpc
     \/ spawned = EffectiveWorkers /\ cpc' = "receive" /\ UNCHANGED spawned
  /\ UNCHANGED <<request, Pool, reports, firstError, outcome>>

Gone(w) == wpc[w] \in {"exited", "dead"}
AllGone == \A w \in 1 .. EffectiveWorkers : Gone(w)

\* One result: a report, or an error, of which the first to arrive is kept.
Receive ==
  /\ cpc = "receive" /\ chan # <<>>
  /\ LET m == Head(chan) IN
     IF m.error = NoError
     THEN reports' = Append(reports, m) /\ UNCHANGED firstError
     ELSE /\ firstError' = IF firstError = NoError THEN m.error ELSE firstError
          /\ UNCHANGED reports
  /\ chan' = Tail(chan)
  /\ UNCHANGED <<request, cpc, spawned, queue, stop, knows, wpc, Work, outcome, seen>>

\* Fault: the calling thread keeps its own sender.
NeverDisconnected == FALSE

\* The receive loop ends when every sender is gone and the channel is drained.
Disconnected == chan = <<>> /\ AllGone

StopReceiving ==
  /\ cpc = "receive" /\ Disconnected
  /\ cpc' = "join"
  /\ UNCHANGED <<request, spawned, Pool, reports, firstError, outcome>>

\* A worker that panicked becomes the error when no channel reported one.
JoinError ==
  IF firstError = NoError /\ \E w \in 1 .. EffectiveWorkers : wpc[w] = "dead"
  THEN "panic" ELSE firstError

\* All workers joined: the first error, or the reports in order of ChannelID.
Join ==
  /\ cpc = "join" /\ AllGone
  /\ firstError' = JoinError
  /\ outcome' = IF firstError' = NoError THEN "ok" ELSE "error"
  /\ \E r \in Arrangements(reports) : Ascending(ChannelsOf(r)) /\ reports' = r
  /\ cpc' = "done"
  /\ UNCHANGED <<request, spawned, Pool>>
-----------------------------------------------------------------------------
Init ==
  /\ request \in Requests
  /\ cpc = "enter" /\ spawned = 0
  /\ queue = <<>>
  /\ stop = FALSE /\ knows = [w \in Workers |-> FALSE]
  /\ wpc = [w \in Workers |-> "idle"]
  /\ wch = [w \in Workers |-> NoChannel]
  /\ pos = [w \in Workers |-> 0] /\ wave = [w \in Workers |-> 0]
  /\ wmsg = [w \in Workers |-> NoMessage]
  /\ chan = <<>> /\ reports = <<>>
  /\ firstError = NoError /\ outcome = "none"
  /\ seen = [c \in Channels |-> 0]

CallerStep == Enter \/ SpawnWorker \/ Receive \/ StopReceiving \/ Join

Next == CallerStep \/ \E w \in Workers : WorkerStep(w)

\* A runnable thread runs, and reads and visitor calls return.
Fairness == WF_vars(CallerStep) /\ \A w \in Workers : WF_vars(WorkerStep(w))

Spec == Init /\ [][Next]_vars /\ Fairness
-----------------------------------------------------------------------------
(* What the reader promises.                                               *)

Cancelled == \E i \in DOMAIN reports : reports[i].cancelled

\* A report that does not say it was cancelled is complete: every channel asked
\* for has a report, in order of ChannelID, and the visitor saw every planned
\* batch.  The stop flag, read without ordering, never drops a channel silently.
UncancelledIsComplete ==
  outcome = "ok" /\ ~Cancelled =>
    /\ Range(ChannelsOf(reports)) = Range(request)
    /\ Ascending(ChannelsOf(reports)) /\ IsInjective(ChannelsOf(reports))
    /\ \A c \in Range(request) : seen[c] = Planned(c)

\* Where channel c is: waiting, with a worker, on its way, or answered.
Places(c) ==
  ({"queue"} \X {i \in DOMAIN queue : queue[i] = c})
    \cup ({"worker"} \X {w \in Workers : wch[w] = c})
    \cup ({"chan"} \X {i \in DOMAIN chan : chan[i].channel = c})
    \cup ({"reports"} \X {i \in DOMAIN reports : reports[i].channel = c})

\* Every channel asked for is in one place; one whose worker panicked stays there,
\* and only a failure that the call will return leaves a channel nowhere.
ChannelInOnePlace ==
  cpc # "enter" /\ outcome # "invalid_input" =>
    \A c \in Range(request) :
      /\ \A p, q \in Places(c) : p = q
      /\ Places(c) = {} => firstError # NoError

\* A failure is never swallowed: the call succeeds only if no worker panicked and
\* no channel failed, in which case the stop flag can only be a visitor's doing.
FailureSurfaces ==
  outcome = "ok" =>
    /\ \A w \in Workers : wpc[w] # "dead"
    /\ stop => Cancelled

\* What the call returns is true of what the workers did: no channel is lost or
\* answered twice, no failure is swallowed, and only a report that says it was
\* cancelled leaves anything out.
ReportsAreTrue ==
  TypeOK /\ ChannelInOnePlace /\ FailureSurfaces /\ UncancelledIsComplete

\* The waves the workers hold at one time fit the budget of the operation, however
\* the channels are spread over the workers.
HeldBy(w) == IF wch[w] = NoChannel THEN 0 ELSE WaveBytes(wch[w], pos[w], wave[w])
HeldBytes == SumFunction([w \in Workers |-> HeldBy(w)])
BudgetHeld == HeldBytes <= Budget

\* The call returns.
Returned == <>(cpc = "done")

\* What the report's documentation says of batches_yielded: the number of batches
\* yielded to the visitor.
YieldedReachedVisitor ==
  outcome = "ok" =>
    \A i \in DOMAIN reports : reports[i].batches = seen[reports[i].channel]
=============================================================================
