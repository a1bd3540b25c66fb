# A TLA+ model of arcadia-tio-rs

arcadia-tio-rs is a Rust workspace around the Arcadia TIO file formats. Three
crates matter here:

* `arcadia-tio-ocb-core`: a pure Rust reader of OCB ("column bundle") files, with
  its own parallel executors. This is where the concurrency and the recovery
  logic live and what most of this project is about;
* `arcadia-tio-rs`: a safe surface over a native library (tensor files, tensor
  operations, OCB writing and reading sessions);
* `arcadia-tio-sys`: the foreign declarations of that library.

The modules here model the parts whose behaviour depends on interleaving,
failure, order or arithmetic at a boundary, model-check them on small instances,
and prove the central results for every instance. Paths below are relative to
`src/crates/arcadia-tio-ocb-core/src/` unless they name another crate.

## 1. Inventory

### The bounded ordered executor (`parallel_prepare.rs`)

*State*: a fixed pool of scoped worker threads; a bounded `TaskQueue` (mutex and
condition variable, `closed` flag); a bounded result channel
(`sync_channel`); a cancellation flag; a `ProgressSignal`; the coordinator's
queued and committed counts and its map of pending results; gauges for row
groups and rows in flight.

*Operations*: `execute_bounded_ordered_with_runtime` validates, spawns and joins;
`coordinate_sliding_ordered_commit` keeps up to `max_in_flight_row_groups` launched and commits
the frontier as it becomes ready; `coordinate_windowed_ordered_commit` fills a window, gathers
all of it, looks for the earliest failure and commits it; the worker loop pops,
reads, prepares and publishes; the `ordered_commit` callback continues, stops,
fails or panics.

*Interaction*: called by the row-group visitors (windowed) and, through
`execute_parallel_prepare`, by ordered preparation (sliding). The caller's closures
run on worker threads, the callback on the calling thread.

*Hard*: workers wait for channel space while the coordinator waits for queue
space; wakeups pass through a lock-free fast path; results arrive in any order
and failures in any order; a stop, an error or a panic must wake and join every
thread; a "silent" mode in which notifications are off because nothing can be
full.

*Correct when*: callbacks run in plan order, exactly up to the first failure; the
reported failure is the earliest in plan order, not in time; no more than
`max_in_flight` row groups are between launch and commit; no task is lost; the
report agrees with what happened; the call returns.

### Progress signal (`parallel_prepare.rs`)

An event count: `generation`, `waiters`, a mutex and a condition variable.
`notify` bumps the generation and takes the mutex only if it sees a waiter.
*Correct when* no waiter sleeps through a notification or a cancellation, and
none returns without one.

### Opening an appendable file (`read.rs`, `format.rs`)

*State*: the bootstrap page with its slot table, root objects, the body objects
each root refers to, the list of candidate roots, and a cache of auxiliary
objects (dictionaries, key tuples) with the bytes charged for them, shared by all
the candidates of one open.

*Operations*: read every slot; drop unreadable or inconsistent ones; take the
newest generation; drop a generation two slots dispute; read its metadata, check
the structure of its inventory, charge the auxiliary objects, validate; on
corruption go on with the next candidate, on any other failure stop.

*Hard*: a file whose last writer stopped halfway; objects shared by roots; a
budget and a cache that outlive a rejected candidate.

*Correct when* the newest intact root is selected, an older one is never the
answer to an I/O failure, the open gives up only when there is no root to
select, and an object is not trusted because a rejected root had asked for it.

### Channel-parallel reader (`parallel_read.rs`, `column_bundle.rs`)

*State*: a queue of channel files, a stop flag read with relaxed ordering, worker
threads, an unbounded result channel, the reports and the first error.

*Operations*: normalise and validate the inputs; a worker takes a channel, opens
and plans it, reads it wave by wave, hands each batch to the shared visitor and
sends a report; the caller receives until all senders are gone, then joins.

*Hard*: a stop by one worker reaches the others late or never; a visitor may
panic and take its worker down without a result; each worker has a share of one
budget.

*Correct when* no channel is lost, none is read twice, a report that is not
cancelled is complete, every failure surfaces and the budget is kept.

### Planning and reading (`column_bundle.rs`, `column_bundle/*.rs`, `read.rs`)

| Part | State and operations | What makes it correct |
|---|---|---|
| Read planner | resolves a request, prunes by ordering keys and statistics, builds a plan; subsets of a plan | never prunes a row group that holds a matching row; the plan's order is kept |
| Resource admission | checked sums of the bytes of each window, sliding window or whole result | what is admitted bounds what the executor holds |
| Visitors and reusable buffers | buffers chosen by ordinal modulo the window, refilled group after group | a buffer is not refilled before its batch was visited, and shows one group only |
| Chunk decoding and materialisation | an owned batch, caller buffers filled one after the other, a reusable buffer, a field projection | what is returned is what was stored for the group asked for; a refused fill writes nothing |
| Version 1 open and metadata graph | loads one root's objects, applies a row-group index delta, cross-checks schema, groups, chunks, statistics, ordering proof | every row, chunk and statistic is reached once; what a writer publishes is accepted |
| Binary format (`format.rs`) | encoders and decoders of every object, checksums, a budget shared by one open | intact objects read back, damaged ones are refused, the budget pays for what is kept |
| Read source | positioned reads against a length captured at open, through a handle that outlives its path | no read beyond it |

*Hard*: a plan outlives the snapshot it was made on; buffers outlive the group
they were filled from; bodies may be overwritten after the metadata was
validated; counts near the limits of their integers.

### Artifacts (`manifest.rs`, `certification.rs`, `compact_l2.rs`)

*State*: a bound root directory and its handle, the artifact handle, declared
hashes, counts and key ranges; the running observations of a scan.
*Operations*: bind a root; resolve, look up and open an artifact beneath it; hash
it; scan its rows in either of two layouts; compare with the manifest.
*Hard*: each step is a system call of its own, between which paths may be
replaced; the two layouts are scanned by separate code several hundred lines long.
*Correct when* nothing outside the bound root is accepted, hash and rows are of
one file, what is certified is the declared run of keys, and the two layouts are
judged alike.

### The native wrapper (`arcadia-tio-rs`)

| Part | State and operations | What makes it correct |
|---|---|---|
| Append session (`ocb/append_session.rs`) | begin, append, commit, abort, drop; terminal after an error | a session is in the file whole or not at all; a dead one holds no lock |
| Tensor files, OCB reader, sessions, maintenance (`tensor_file.rs`, `ocb/*.rs`) | argument checks, native calls, outputs, conversions, early returns | each output freed once and read only between fill and free; the error reported is the failing call's own; a refused call changed nothing |
| Ownership, ABI gate (`ownership.rs`, `error.rs`) | guards around native outputs; one version query per process | no call to an incompatible library |
| Tensor operations (`ops.rs`) | reshape, permute, slice, join, divide, arithmetic, reductions on owned tensors | each element is the one its index definition names; overflow is refused |
| Tensor interchange (`tensor.rs`) | CSV, Parquet and Arrow, both ways | a round trip is exact; row faults never give another tensor |

*Hard*: error paths that free, copy and read the thread's last error in some order;
checks that must come before a native call with an effect; empty axes, negative
bounds, partial sums that overflow.

`PROJECT.json` lists each part with its sources and status, and the hazards, each
at the line where it bites, with the properties that would catch it.

## 2. Modules

```
        OrderedVisit   (abstract: one thread visits in order)
           ^      ^
   implements    implements
           |      |
 SlidingCommit   WindowedCommit         ProgressSignal
           \      /                     (the event count the
         BoundedOrdered                  executor waits on)

 AppendableFile  --opened by-->  RootSelection --validates with--> MetadataGraph
                                      |                                 |
                                FormatObjects (FormatLayouts)           v
 ReadPlanning (ResourceAdmission)  --row groups read by-->       RowGroupRead

 ManifestBinding --handles read by--> Certification, ChannelParallelRead

 NativeCall executes NativeSteps scripts: TensorFileApi, OcbApi
 TensorOps                    TensorInterchange
```

**BoundedOrdered** holds what the two commit modes share. Threads are `0` (the
coordinator) and `1..StartedWorkers`. `taskq`, `closed` are the task queue,
`chan`, `receiverOpen` the channel, `wpc`, `wtask` the worker loops, `queued`,
`committed`, `pending` the coordinator's locals, `gauge` and `completed` the
report's counters, `calls` the history of callbacks. A row group is its ordinal;
what its read and prepare stages produce is an input (`fate`), chosen in `Init`.
The callback's answer is chosen when it is called: continue, stop, fail, panic.
A thread that cannot be spawned is the panicking alternative of `Spawn`.
Worker actions: `PopTask`, `PopWait`, `PopNone`, `StartTask`, `RunTask`,
`PublishOrQuit`, `SendOk`, `SendFull`, `SendDisconnected`, `WakeMoved`,
`WakeCancelled`, `SpuriousWake`. Coordinator building blocks: `TryPush`, `Recv`,
`TryRecv`, `WaitProgress`, `CommitFrontier`, `FailAt`. Entry and exit: `Enter`,
`Spawn`, `Cancel`, `CloseAtEnd`, `DropReceiver`, `JoinAll`.

**SlidingCommit** and **WindowedCommit** extend it with the two coordinator loops.
`WindowedCommit` includes the fast path that pushes a window without
notifications (`PushWindow`), the scan for the earliest failure (`ScanWindow`) and
the reusable buffer each row group is read into (`Slot`).

**OrderedVisit** is the promise both make: a single thread visits ordinals in
order, in batches of `Batch`; it visits none of a batch that holds a failure,
reports the earliest failure of that batch, and stops where the visitor stops.
`Batch = 1` is what the sliding mode implements, `Batch = MaxInFlight` what the
windowed mode does.

**ProgressSignal** is the event count at the grain of one atomic access.
`BoundedOrdered` uses its interface: a thread's `snap` says whether progress was
made since its snapshot. Two simplifications join the levels. A queue or channel
operation and the `notify_progress` after it are one step in `BoundedOrdered`:
splitting them only delays a wakeup that is on its way, and that such a wakeup
arrives is what `ProgressSignal` shows. Memory is sequentially consistent.

**RootSelection** has the slot scan (`SkipSlot`, `ReadRoot`), the choice (`Choose`,
`DropConflict`, `NoValidRoot`), and the validation of one candidate
(`ReadMetadata`, `CheckStructure`, `ChargeUnique`, `Preflighted`, `Revisit`,
`ValidateObject`, `Opened`). The candidates are the set of the accepted slots; the
vector of the code is that set in slot order. Slots are chosen in `Init`, what reading an object
yields when it is first read (`contents`), and again the same when it is reread.
`corrupt` stands for the failures `is_discardable_candidate_error` accepts, `fatal`
for all others.

**ChannelParallelRead** has the caller (`Enter`, `SpawnWorker`, `Receive`,
`StopReceiving`, `Join`) and the workers (`CheckStop`, `Take`, `TakeNone`, `Open`,
`ReadWave`, `PollStop`, `Visit`, `TellOthers`, `Complete`, `RaiseStop`, `Send`). A
worker that has not seen the stop flag set may read it as clear although it is
set (relaxed ordering); once it has seen it, or set it, it reads it as set
(coherence). Reading a wave is one step: its inside is `WindowedCommit`.

**AppendableFile** composes the append-session wrapper with the open. The file is a
body that grows at its end and two root slots. `BeginSession`, `AppendBatch`,
`AppendInactive`, `Commit`, `CommitReturns` and `EndSession` are the wrapper: an
error in `append_batch` takes the handle and ends the session. `WriteBatch`,
`WriteRoot`, `TearSlot`, `WriteSlot` and `Free` are the native session, external,
as the format and the wrapper use it: a root is appended and then the slot that is
not selected is overwritten, in two steps. `Crash` may happen between any two,
`CleanupOrphanTail` cuts off what no root names, and `OpenFile`, `ReadBootstrap`,
`SelectRoot` are the open of a concurrent reader, whose length is captured first.

**MetadataGraph** is one candidate's validation: `Load`, `ApplyDelta`,
`ValidateRootSemantics`, `ValidateRootCounts`, `ValidateSchema`, `Preflight`,
`ValidateDictionaries`, one `ValidateRowGroup` per group with the running
expectations of the loop, `EndRowGroups`, `ValidateOrdering`. A file is the content
of its decoded objects; `Alter` changes a field, since a valid checksum only says
that some writer produced the bytes.

**FormatLayouts** and **FormatObjects** are the codec. A layout lists the fields of
an object with their roles; an object is a sequence of words, one for each run of
fields the code treats alike. Write, damage (with or without a fresh checksum),
truncation, extension, an appender's slot update, read under a budget, payload
decoding and reference validation are actions. CRC32C is a word that changes when
a covered word does; zstd is external.

**ResourceAdmission** has the footprints and the admission checks as operators on
checked sums. **ReadPlanning** extends it with the requests, the pruning, the plan
and every entry point that reads one. How the executor schedules a window is
abstracted to what `SlidingCommit` and `WindowedCommit` establish: a group is started
only inside the window and groups are delivered in order.
`ReadPlanningAssumption` names what is assumed of files and requests, above all that
the statistics of a group bound its numbers (`StatisticsBound`): a reader has nothing
but the statistics to prune by, and that they are true is the writer's part.

**RowGroupRead** reads chunks as an owned batch (`ReadOwned`), into caller buffers
(`FillCaller`), into a reusable buffer (`MakeSlot`, `FillSlot`) and through the field
projection (`MakeFields`, `Project`), while `Overwrite` changes bodies under it.

**ManifestBinding** has a small file system (directories, files, links, a bound on
link hops) and the resolver one system call at a time: canonicalise the root, open
it, canonicalise the artifact, look it up, walk it with `openat` and no links,
compare, then hash and scan through the handle. `Rename`, `Unlink` and `Rewrite`
happen in between. Three history variables say what the property is about: the
directories that have been below the bound root (`beneath`, closed under the entries
of its members), the files in them (`held`), and the files that the artifact's path,
and once it was canonicalised the canonical path, has led to (`named`).

**Certification** has the manifest's own invariants, the two artifact certifiers with
their options, the file certifier, and the conversions between a payload record and
its lanes. Rows, lanes and manifest are edited before a certification. A list of checks
is a sequence of faults, of which the first one that is not `"none"` is the error
(`FirstFailure`, `Worst`), in the order of the code; a scan's expected key is the one after
the previous row's, in whichever row group that was. `Absent` stands for every option
that is not given.

**NativeSteps** is a vocabulary of steps (check, call, edit, fill, copy, free, give,
read the last error), **TensorFileApi** and **OcbApi** give every wrapper function as a
script of such steps, and **NativeCall** executes scripts, each step failing or not.
Of the native library it assumes that a failing function sets the thread's last
error and may leave outputs partly filled, that frees leave the last error alone,
and that a failing mutation has no effect. **ScriptRules** states what the functions
have in common as conditions on the text of one script: gate first, arguments checked
before the first edit, the life of each output under a guard or in a local, the error
kept after the last call before it is reported. `NativeCall` assumes them of its
scripts, the `native_call` run evaluates that assumption on every script of
`TensorFileApi` and `OcbApi`, and the proofs use nothing else of a script.

**TensorOps** is every operation of `ops.rs` as the code computes it (strides, flat
offsets, prefix sums, checked products), beside definitions on multi-indices.
**TensorInterchange** is the CSV, Parquet and Arrow conversions; a payload is its
metadata and its groups of rows, joined in order by **Joining**, which `Certification`
uses for the rows of a file too.

Definitions marked *Fault* are seeded bugs, one for each property of each passing
run: putting one in place of the definition that follows it makes the property
fail (`mutants` in `PROJECT.json`).

## 3. Runs

Five of the runs check two components each. Their MC modules extend both (`MCTensors`
extends one and instantiates the other); a variable `part`, chosen in the initial state,
says which of the two runs, and the other rests in one of its initial states. This is not
a composition and shows nothing about an interaction; the two state spaces are
explored side by side. Each run ends within three minutes. `CHECK_DEADLOCK FALSE` is set where a
modelled call returns, after which nothing happens, or where a bound on faults and
edits ends the model; that nobody waits for ever is what the liveness properties
say. `native_call` checks deadlock.

| Run | Instance | States | What it shows |
|---|---|---|---|
| `sliding` | 4 row groups, 2 threads, 3 in flight, one-slot queue and channel, panics converted | 460k | `InFlightBounded`; no task lost, gauges exact, report consistent (`BooksBalance`); implements the sequential visit; `Termination` under back-pressure on both queues |
| `windowed_production` | 5 row groups, windows of 2, queues hold a window, panics propagated | 73k | the silent fast path never meets a full queue (`FastPathNeverFull`); a reusable buffer is refilled only after its visit (`BuffersNotShared`); implements the batched visit with a short last window |
| `windowed_saturated` | 4 row groups, windows of 3, one-slot queue and channel | 194k | windows filled task by task under back-pressure terminate |
| `progress_signal` | 2 waiters, 2 notifiers, 3 notifications | 61k | `NoLostWakeup`, `WakesUp` |
| `channel_read` | 1 to 3 channels, 2 workers, waves of 2, budget 6 | 33k | no channel lost or answered twice, failures surface, only cancelled reports are incomplete (`ReportsAreTrue`); `BudgetHeld`; `Returned` |
| `channel_yielded` | as `channel_read` | -- | *violated*: a batch withheld from the visitor is counted as yielded |
| `appendable` | 2 writers, 3 sessions of 1, 2 and 1 batches, one reader; and 2 slots, 4 roots, 5 objects, limits 2, 3, 4 | 800k | sessions are whole or absent (`SessionsAreAtomic`); `LockFollowsHandle`; `OpenFreshUnlessOverrun`; `OpensNewestIntact`; `FailuresToldApart` |
| `snapshot` | objects of up to 2 records, one damage, two reads; and 4 snapshots with up to 2 changed fields | 814k | `IntactReadsBack`, `AcceptedObjectsAreWhole`, `BudgetPaysForWhatIsKept`; `AcceptedGraphTiles`, `WrittenFilesOpen` |
| `reading` | files of up to 3 row groups of 4 kinds, 12 requests, windows 0 to 2, subsets; and 2 row groups of 2 columns, one overwritten body, up to 6 calls | 295k | `PruningLosesNoRow`, `SubsetFollowsPlan`, `AdmittedReadsFit`; `ReadsAreFaithful`, `ReusedBuffersShowOneGroup`, `RefusedFillsLeaveBuffers` |
| `artifacts` | a tree of 5 directories, 2 files, 5 links with up to 2 changes; and 2 channels of 4 rows with up to 2 edits | 723k | `AcceptedLayBeneathRoot`, `HashCoversTheRows`; `CertifiedMeansTiled`, `LayoutsAgree` |
| `native_call` | every wrapper function, one thread, any order of calls | 23k | `OutputLifetimesKept`, `OwnErrorReported`, `RefusedCallsHaveNoEffect` |
| `tensors` | 7 tensors of rank 1 to 3, one operation each with every argument, usize up to 20, integers up to 5; and 6 tensors with up to 3 row faults | 22k | `ElementsFollowDefinition`, `ReductionsCoverTheirSlots`; `RoundTrips`, `RowFaultsNeverPass` |

**Why the bounds are enough.** For the executor the interesting cases are: more
tasks than slots (so that the frontier moves while later results are pending),
more slots than workers (results wait while workers go on), a worker blocked on
the channel while the other sleeps on the queue, two failures out of order, and a
last window that is short. Each needs at most the sizes above. For the signal,
two waiters make the waiter count and the broadcast matter, and three
notifications let a waiter observe, miss and observe again. For the channel
reader, channel 3 fits the whole budget but not the share of two workers, requests
contain a duplicate, a zero id and no channel at all, and two waves per channel
put a stop inside and between waves.

For the append sessions, three let two commits overtake one open that began after
a first commit, and a session of two batches can fail at its second; two writers
let a lock left behind stop somebody. For the root selection, `old` and `new` share a
dictionary, `rival` has the generation of `new` and a reference beyond the file,
`odd` the generation of `old` and an object of the wrong kind; the limit 3 fits each
root alone and not one after the other. A damaged object needs one changed word to
be wrong and a count of two to be off by one; two reads share one budget. A graph
error that escapes a single check needs two fields changed consistently. A plan of
three groups has a window that slides; the statistics kinds are present, absent, of
nulls and of NaN. The file tree holds a second directory with the same names, so
that a replaced component leads somewhere plausible, and two changes can move a
component away and put another in its place; a link within the root makes the
artifact's path and its canonical path differ. Two edits can hide one another (a row
lost and a count lowered). One operation per tensor is enough because the results
of an operation are tensors like any other; 20 as the largest usize makes the
strides of `<<0, 5, 5>>` overflow although its element count is zero.

**The disagreement.** `CompactL2PhysicalV2ChannelReadReport::batches_yielded` is
documented as the batches yielded to the visitor (`parallel_read.rs:193`). When
another worker has set the stop flag, the closure at `parallel_read.rs:962` returns
Stop without calling the visitor, and the layer below counts the batch all the
same. It concerns the report only.

**Observations.** Met while modelling, allowed by the properties and worth knowing:

* `cancelled` is documented as "stopped before all planned batches were yielded"
  (`parallel_read.rs:199`), but a Stop at the last planned batch sets it too.
* An open whose length was captured before two commits rewrote both slots judges
  the healthy file corrupt (`read.rs:136`); `OpenFreshUnlessOverrun` shows that this
  is the only way.
* A plan is bound to a file by ids only: read on another snapshot with the same
  ids it delivers that snapshot's groups. `parallel_prepare` with a window of 0 is
  admitted as 1 and then refused by the executor.
* A fixed-binary chunk stored plain is read into the caller's buffer before its
  checksum is known; the call fails, the buffer has been written.
* `append_base_row` of a root is checked only against its total.
* A decoder does not refuse bytes between the last record and the checksum, nor
  reserved words, nor what only the writer checks; a version 1 table version is
  written unchecked and refused on read; a failed allocation after the charge
  leaves the budget charged.
* A declared-subset manifest with absent keys is valid (`manifest.rs:213`) and never
  certifies. Without header verification order and trade counts are compared with
  0 and the receive-time edges with nothing.
* `slice_axis_step` refuses a slice whose step past the last index leaves isize; the
  mean of an empty reduction is refused even without an output slot, the variance
  is not.

## 4. Fairness

* Executor: weak fairness of the coordinator and of each worker. The code
  justifies it as far as closures and callbacks return and the system runs every
  runnable thread. A sleeping or blocked worker is not assumed to wake by itself:
  `SpuriousWake` and noticing a cancellation while blocked are left out of the
  fair actions, so that `Termination` depends on the notifications of the code.
* ProgressSignal: weak fairness of a waiter inside `wait_for_change` and of a
  notifier inside `notify`, and only finitely many spurious wakeups: with an unfair
  mutex, threads that wake for no reason for ever could keep another out.
* ChannelParallelRead: weak fairness of the caller and of each worker. Nothing is
  assumed of when a relaxed load sees the flag.

The other modules state no fairness: they are calls of one thread without a loop
that could wait, or sequences of calls of which a caller may make none.

## 5. Proofs

Eight modules hold theorems. Each proves its results for every value of the
constants that satisfies the named assumptions of the component's module, along an
inductive invariant that TLC checked on the run's instance first. The assumptions are
ASSUMEd where the constants are declared, and a run evaluates each on its instance.
None is about the outcome of a read, a callback, a crash or another process.

| Module | Of | Proves | For any |
|---|---|---|---|
| `BoundedOrderedProofs` | BoundedOrdered | lemmas of both modes | |
| | ProgressSignal | `NoLostWakeup`, `TypeOK`, `WaitersExact`, `NoEarlyReturn` | finite set of waiters, notifiers, bound on notifications |
| `SlidingCommitProofs` | SlidingCommit | `InFlightBounded`, `BooksBalance`, `ImplementsSequentialVisit`, `CallbacksInPlanOrder`, `NoInternalError`, `TypeOK` | plan, pool, window, queue sizes, fates |
| `WindowedCommitProofs` | WindowedCommit | `FastPathNeverFull`, `BuffersNotShared`, `BooksBalance`, `ImplementsBatchedVisit`, `CallbacksInPlanOrder`, `NoInternalError`, `TypeOK` | the same |
| `AppendableFileProofs` | AppendableFile | `SessionsAreAtomic`, `LockFollowsHandle`, `OpenFreshUnlessOverrun` | writers, sessions, batches, crashes |
| | RootSelection | `OpensNewestIntact`, `FailuresToldApart`, `FailuresNotMasked` | slot table, roots, graphs of objects, limits |
| `ChannelParallelReadProofs` | ChannelParallelRead | `ReportsAreTrue`, `BudgetHeld` | request, workers, plans, waves, budget |
| `BoundaryProofs` | ManifestBinding | `AcceptedLayBeneathRoot`, `HashCoversTheRows` | tree, links, requests, number of changes |
| | Certification | `CertifiedMeansTiled`, `LayoutsAgree` | manifest, files of any number of channels, row groups and rows, number of edits |
| | TensorInterchange | `RoundTrips`, `RowFaultsNeverPass` | tensors, limits of the number types, number of row faults |
| | NativeCall | `OutputLifetimesKept`, `OwnErrorReported`, `RefusedCallsHaveNoEffect` | threads, and functions whose scripts keep `ScriptRules` |
| `SnapshotReadProofs` | MetadataGraph | `AcceptedGraphTiles` | written files, alterations of their fields, limits |
| | RowGroupRead | `ReadsAreFaithful`, `ReusedBuffersShowOneGroup`, `RefusedFillsLeaveBuffers` | columns, row groups, cells, damage, calls |
| | ReadPlanning | `PruningLosesNoRow`, `SubsetFollowsPlan`, `AdmittedReadsFit` | columns, files, requests, key ranges, subsets, windows, limits |
| `SumTheorems` | | induction up to a number and over the subsets of a finite set; functions defined by recursion; sums over finite sets | |

**ProgressSignal.** The inductive invariant adds to the properties who owns the mutex
(`LockOwner`), that a snapshot is never ahead of the counter (`SnapshotsPast`), and
`WakeupOnItsWay`, the heart of the argument: if something changed after a waiter
tested it under the mutex, then until that waiter sleeps whoever changed it has
yet to take the mutex, and once it sleeps, that notifier has yet to notify. It is
needed because `NoLostWakeup` alone says nothing of a waiter between its test and
its sleep. `WaitersExact` is what makes the notifier's look at the count
conclusive; the cardinality argument is the lemma `RegisteredCount`.

**The executor.** `BoundedOrderedProofs` proves that the workers, the entry and the
exit keep `PoolInv`, which both coordinators build on:

* `Place`: every launched and uncommitted ordinal is in the queue, with one worker,
  in the channel or pending (`Covered`), no two of these hold the same one
  (`WorkersApart`, `ChannelApart`, ...), and the queue holds consecutive ordinals;
* `Lifecycle`: what the program counters of the coordinator and of the workers say
  of the flags (closed, cancelled, receiver open, spawned);
* `Commits`: while the loop runs there have been as many callbacks as commits, and
  all committed row groups were prepared without error.

`Place` is needed for `NoInternalError`: a coordinator that waits for a result
that nobody holds would find the channel disconnected. The refinement maps
`visited` to `committed` and the final outcome to the outcome of the executor; a
step either changes neither or is a step of the sequential visit.

For the windowed mode three parts are added. `Windows`: what is launched and not
committed belongs to one window, which starts at a multiple of `MaxInFlight`. `Loop`:
what each coordinator phase knows of that window (nothing launched before the push,
all of it pending before the scan, no failure in it before the first callback).
`Quiet`: when both queues hold a window, the notifying path is never entered. That a
push then finds room is a counting argument: the ordinals in a queue are distinct
members of one window. `BuffersNotShared` follows because a window has one row group
for each slot. The batched visit is implemented with `Batch = MaxInFlight`.

`BooksBalance` counts what `Place` says of each ordinal: a launched and uncommitted one
has one holder, the gauge of results is the cardinality of the finished ones
(`Unretired`) and the gauge of rows the sum of their rows. One step adds one ordinal to
that set or removes one, and changes the sum by its rows; so no gauge goes below zero.

**AppendableFile.** `LockSound`: the lock has an owner exactly while a handle or a
running commit can reach the session. `NativeSound`: what each phase of the native
session has already written. `FileSound`: some slot always decodes, each one that does
leads to its root, and the roots are ordered alike by generation and by position in
the body. `SessionsSound`: the root of a slot names all batches of a session, in
order, or none, and a session reported as committed is in the newest root. `SizedSound` and `TableSound` say of a
reader between its two system calls how many commits have passed it; two make the
overrun that `OpenFreshUnlessOverrun` excepts. The last two are needed because a
reader's captured length and slot table are stale as soon as they are read.

**RootSelection.** Generations are dropped as a whole and in descending order, so
every accepted slot already passed is still a candidate, has an explanation (a
disputed generation or a broken object), or is of the chosen generation. The cache
names only objects that were read good (why an object is not trusted because a
rejected root asked for it), and a fatal outcome is the last thing that happened.
`FailuresToldApart` needs in addition `ChargesSound`: the bytes charged are the sum of
the lengths of the objects charged, which belong to roots that were tried, so that a
reported limit is one that those objects and one more do exceed.

**ChannelParallelRead.** A requested channel is in one of four places: waiting in the
queue, held by a worker, sent, or received. A worker has shown the visitor as many batches as it
counted; messages are truthful about that; the stop flag is set only for a
reason that the caller has received or will receive; a worker leaves only when it saw the
flag or an empty queue. Together: when the caller has joined everybody, an
uncancelled success has a complete report for each channel. The relaxed flag needs no
special care: every part holds whatever a load returns before the flag is seen. `BudgetHeld`
is a sum over the workers: each wave a worker reads was found to fit its share before
the first was read, what is left of a wave weighs no more than the wave (`WaveOk`), and
the shares of the workers that can hold one add up to no more than the budget.

**ManifestBinding.** `Recorded`: the history of directories is closed under the
current entries. `BelowRoot`: the directory the next `openat` starts from is one of
them, so what it opens without following a link is too. `Looked`: what the sought
path leads to is remembered. The comparison joins the two halves: the file reached by
`openat` is the one the metadata was of. `Hashed`: between hash and scan the bytes
behind the handle change only by a rewrite of that file. How a path is resolved plays
no part: `Follow` is never expanded. An earlier form of the property, that the
accepted file was one the *uncanonicalised* path had led to, is false: a link of the
path may be replaced after it was canonicalised and then the file at the canonical
path. The file accepted is still below the root; the property now says so, and the
instance has such a link.

**Certification.** `CertifyInv`: the files and the manifest have their types, and a result
is what the certifier's function gives for the files *as they are now*. It is needed
because the properties relate a kept result to files that edits could change; none happens
after a run. The rest is about the functions. First, each list of checks passes exactly
when every check in it does (`PayloadChannelPassed`, `LaneChannelIs`), for which the row
groups must divide the rows of the file (`IndexesCover`). Then `SequenceTiles`: rows whose
keys follow one another from the declared first to the declared last are all of the run,
each once. The payload scan compares each key with its position, the lane scan with the
row before it, so the second needs an induction along the rows (`LaneKeysFollow`). The
agreement goes channel by channel (`ChannelsAgree`), with one bound made up for by
another: only the payload scan compares a key with the declared last one, but both
compare the last key; and `biz < MaxKey` in one is `first + i <= MaxKey` in the other.
That rebuilding the records of a file and joining its row groups can be exchanged is an
induction over the groups (`RebuiltFile`). Of the assumption `CertificationAssumption` the
proofs use the types, and that there is a channel and a file for each.

**TensorInterchange.** `InterchangeInv`: a payload that was written has the metadata of its
tensor, but for a shape that was dropped, and each of its rows is *one of* those the
writer made (`RowsFrom`), in whatever number, order and groups; without a fault it has
all of them as written. Loss, repetition, exchange and cutting keep it, because they make
no rows. The writer numbers the rows, so rows that a reader finds in the order of their
numbers are the first of the tensor's (`OrderedRowsArePrefix`), and the count makes them
all. For Parquet the order is checked row group by row group, each from where the one
before ended; that this is the order of the joined rows is an induction over the groups
(`GroupsInOrder`). For Arrow the joined slices are the data (`SlicesJoin`), and the number
of elements is the first axis times the row width, although both products are checked
for overflow from the left: another induction (`FirstAxisTimesRow`).

**NativeCall.** `FrameSound` says where a thread is. It is idle, or on the way through
its function's script: the gates it has passed said "supported", the arguments whose
check it passed are remembered, the file has changed only if an edit step lies behind
it, a failed call's error is the thread's last error and the one kept by `save` stays
what it was until the next call; each output has reached the stage of its life that
the rules prescribe at this step (`GuardSound` or `LocalSound`). Or the call is over,
with everything freed or handed out, and an error it reports is that of its own
failing call. The step over an optional part is why the rules speak of landings: no
path may enter an output's life in the middle.

**MetadataGraph.** `RangesLaid`: the ranges compared so far lie one behind the other from
zero on, for rows, chunks and statistics alike (`Laid`). `GroupsVisited`: the groups
before the current one have different ids, and each owns one chunk of each column and
statistics of different columns. `PhaseSound`: what the finished phases established, such
as that the rows of the groups sum up to the rows of the root.
At the end the last range ends where the table does, so each entry is reached once.
Nothing is assumed of the content of a file: an alteration may give a field any value.

**RowGroupRead.** `BodiesSound`: whatever was overwritten, a body says of which chunk it
is, and its values are that chunk's in some order. Hence what passes the checks
(identity, counts, checksum) is the chunk asked for. `ReportSound` relates the report
of the last fill to the buffers of the slot; `ReusedBuffersShowOneGroup` needs it
because a refused fill leaves an older report beside buffers it must not have touched.

**ReadPlanning.** The invariant `PlanIInv` joins six parts. `PlanComplete`: a group that the
plan leaves out has a statistic which excludes each of its rows; a missing, null or NaN
bound excludes nothing. It holds of the plan alone, so a reopened file does not disturb it.
`ReadFollowsPlan`: the groups of a read are those of the plan that were asked for, in its
order (`Picks`), and the delivered ones are the first of these. `ReadInWindow`: what is
launched lies in the sliding window, or in the wave that starts at a multiple of the
window. `ReadAdmitted`: every window of that kind was summed up and fits. The last two
meet in `AdmittedReadsFit`: the groups held at any time are a part of one of the windows
the check measured. That the sliding check, which subtracts the group that leaves and adds
the one that enters, computes the sum of each window is an induction over the windows; it
also shows that its subtraction never underflows. `ReadWellFormed` and `PlanWellFormed` are
the types.

**Induction over data.** The library's induction theorems take an operator as a parameter,
which the provers cannot instantiate. `SumTheorems` goes round this with sets: the property
is a *set* of numbers (or of subsets of a finite set), and a set of numbers that is not
empty has a least element, which follows from the library's facts about well-founded
relations stated with sets. From it come induction up to a bound, the existence of a
function defined by recursion (so that a `LET f[n \in 0..m]` has the equation it was given)
and the laws of `SumFunctionOnSet`: one element more, one less, sub-sums, bounds.

**Only model-checked**, and why:

* liveness (`Termination`, `WakesUp`, `Returned`): fairness is out of this prover's
  reach;
* `IntactReadsBack`, `AcceptedObjectsAreWhole`, `BudgetPaysForWhatIsKept` (FormatObjects): the
  layouts are data, and the properties are about what folds over them compute, object
  kind by object kind. TLC goes through every kind with every field;
* `WrittenFilesOpen`: it is about the particular files of the instance, which are what a
  writer publishes; for any files it would need a model of the writer, which is native;
* `ElementsFollowDefinition`, `ReductionsCoverTheirSlots` (TensorOps): products and
  quotients of strides, arithmetic that is not linear and that Z3 does not decide;

`CallbacksInPlanOrder`, `NoInternalError`, `WaitersExact`, `NoEarlyReturn` and
`FailuresNotMasked` by itself are proved and not repeated by a run.

## 6. What is left out

Of the modelled parts:

* Executor: durations, wait counters and attribution; a panic in a worker outside
  the read and prepare closures (no code there can panic short of a poisoned
  lock); the wrap-around of the 64-bit generation.
* RootSelection: bytes. A decoder's verdict is an input (`FormatObjects` has the
  decoders). The analysis made for maintenance repeats the selection, changes
  nothing and collects diagnostics.
* ChannelParallelRead: a thread that cannot be spawned (the workers already
  started then run on, detached); the decoding inside a wave.
* RowGroupRead: element types differ only in width; an integer and a fixed-binary
  column stand for them.
* ManifestBinding: the non-Unix build, which opens by path.
* TensorOps: float rounding, division and square roots; `typed_ops.rs` forwards.
* NativeCall: field-by-field conversions are one step that may fail. That `cancel`
  wakes a blocked `next` of a parallel read session, and what head of a tensor file
  a lookup followed by a read sees, is the native library's doing. A library that
  answers OK with a null handle breaks its contract; the wrapper would then report
  an older error.

Not modelled: attribution, error values and their texts, the option and coordinate
types (data without control), the declarations of `arcadia-tio-sys`, examples,
benchmarks and build files.

## 7. Plan

What would come next, in this order:

1. `AcceptedObjectsAreWhole`, by induction over the fields of a layout.
2. `ElementsFollowDefinition` for the operations that move elements, with lemmas on
   quotient and remainder by an axis's size.
3. A refinement of `ReadPlanning`'s window by the executors: `Launch` and `Deliver` are what
   `SlidingCommit` and `WindowedCommit` do, shown so far by the properties both sides state.
