-------------------------- MODULE AppendableFile --------------------------
(***************************************************************************)
(* Append sessions of arcadia-tio-rs writing an appendable OCB file that   *)
(* arcadia-tio-ocb-core opens meanwhile.  The file is a body that grows    *)
(* at its end and a table of two root slots; a slot names the end of a     *)
(* root object.                                                            *)
(*                                                                         *)
(* The wrapper (append_session.rs) and the open (read.rs) are translated.  *)
(* The native session they meet through the file is external: it holds     *)
(* the mutation lock from begin to free, appends at the end of the body,   *)
(* publishes by appending a root and then overwriting the slot that is     *)
(* not selected, rolls back by truncating to where it began, and touches   *)
(* the body no more once the write of the slot has begun.                  *)
(***************************************************************************)
EXTENDS Integers, Sequences

CONSTANTS
  Writers,            \* writer threads, each in a process of its own
  NoWriter,
  MaxBatchRowGroups,  \* ARCADIA_TIO_OCB_APPEND_SESSION_MAX_ROW_GROUPS
  MaxSessions,        \* bound: sessions begun in a behaviour
  MaxBatches          \* bound: batches handed to each session

ASSUME AppendableFileAssumption ==
  /\ NoWriter \notin Writers
  /\ {MaxBatchRowGroups, MaxSessions} \subseteq Nat \ {0}
  /\ MaxBatches \in [1 .. MaxSessions -> Nat]

VARIABLES
  body,      \* the objects of the file, in order: batches and roots
  slots,     \* the root slot table
  lock,      \* holder of the native mutation lock
  alive,     \* the AppendSession values in scope
  raw,       \* their `raw' is Some
  native,    \* the native session behind each: where it began, its phase
  session,   \* the session each writer is on, by number
  outcome,   \* history: what the caller of each session was told
  sent,      \* history: the batches whose append returned Ok
  begun,     \* sessions begun so far
  reader     \* one open in progress

vars == <<body, slots, lock, alive, raw, native, session, outcome, sent,
          begun, reader>>

Sessions == 1 .. MaxSessions
Batch(s, k) == [kind |-> "batch", of |-> s, nth |-> k]
Root(generation, rows) == [kind |-> "root", generation |-> generation, rows |-> rows]

Slot == {0, 1}
SlotTo(generation, end) == [intact |-> TRUE, generation |-> generation, end |-> end]
TornSlot == [intact |-> FALSE, generation |-> 0, end |-> 0]

(* ---- Reading the file ---------------------------------------------------- *)

\* validate_candidate and the read of the root: the slot decodes and its root
\* ends inside the length the reader goes by, and is there.
Accepts(s, length) ==
  /\ s.intact
  /\ s.end <= length
  /\ s.end <= Len(body)
  /\ body[s.end].kind = "root"
  /\ body[s.end].generation = s.generation

\* Fault: the open gives up when the newest slot is rejected.
CandidatesFirstOnly(table, length) ==
  {i \in Slot : /\ Accepts(table[i], length)
                /\ \A j \in Slot : table[j].generation <= table[i].generation}

\* The slots that select_v2_metadata keeps as candidates.
Candidates(table, length) == {i \in Slot : Accepts(table[i], length)}

NewestOf(table, length) ==
  CHOOSE i \in Candidates(table, length) :
    \A j \in Candidates(table, length) : table[j].generation <= table[i].generation

\* What the file says now.
Selected == NewestOf(slots, Len(body))
Published == body[slots[Selected].end]

(* ---- The native session (external) --------------------------------------- *)

Idle == [phase |-> "none", base |-> 0]

Acquire(w) ==
  /\ lock = NoWriter
  /\ lock' = w
  /\ native' = [native EXCEPT ![w] = [phase |-> "open", base |-> Len(body)]]

\* arcadia_tio_ocb_append_session_free: a session not yet publishing rolls back,
\* as far as it can; the lock goes.
Free(w) ==
  /\ lock' = NoWriter
  /\ native' = [native EXCEPT ![w] = Idle]
  /\ IF native[w].phase \in {"open", "rooted"}
     THEN body' \in {SubSeq(body, 1, native[w].base), body}
     ELSE UNCHANGED body

WriteBatch(w) ==
  body' = Append(body, Batch(session[w], Len(sent[session[w]]) + 1))

WriteRoot(w) ==
  /\ native[w].phase = "committing"
  /\ body' = Append(body, Root(Published.generation + 1,
                               Published.rows \o sent[session[w]]))
  /\ native' = [native EXCEPT ![w].phase = "rooted"]
  /\ UNCHANGED <<slots, lock, alive, raw, session, outcome, sent, begun, reader>>

\* The slot is written in two steps; between them it does not decode.
TearSlot(w) ==
  /\ native[w].phase = "rooted"
  /\ slots' = [slots EXCEPT ![1 - Selected] = TornSlot]
  /\ native' = [native EXCEPT ![w].phase = "torn"]
  /\ reader' = IF reader.at = "sized" /\ reader.overrun < 2
               THEN [reader EXCEPT !.overrun = @ + 1] ELSE reader
  /\ UNCHANGED <<body, lock, alive, raw, session, outcome, sent, begun>>

WriteSlot(w) ==
  /\ native[w].phase = "torn"
  /\ LET end == CHOOSE n \in DOMAIN body :
                  /\ body[n].kind = "root"
                  /\ \A m \in DOMAIN body : body[m].kind = "root" => m <= n
         torn == CHOOSE i \in Slot : ~slots[i].intact
     IN  slots' = [slots EXCEPT ![torn] = SlotTo(body[end].generation, end)]
  /\ native' = [native EXCEPT ![w].phase = "written"]
  /\ UNCHANGED <<body, lock, alive, raw, session, outcome, sent, begun, reader>>

(* ---- The wrapper --------------------------------------------------------- *)

\* A reported failure is not taken back by a later answer.
Told(w, what) ==
  outcome' = [outcome EXCEPT ![session[w]] = IF @ = "failed" THEN @ ELSE what]

\* AppendSession::begin.  A schema with row groups, an invalid one, and a native
\* failure (the lock is taken) all end in an error before there is a session.
BeginSession(w) ==
  /\ ~alive[w]
  /\ native[w].phase = "none"
  /\ begun < MaxSessions
  /\ Acquire(w)
  /\ begun' = begun + 1
  /\ session' = [session EXCEPT ![w] = begun + 1]
  /\ alive' = [alive EXCEPT ![w] = TRUE]
  /\ raw' = [raw EXCEPT ![w] = TRUE]
  /\ outcome' = [outcome EXCEPT ![begun + 1] = "active"]
  /\ UNCHANGED <<body, slots, sent, reader>>

\* Fault: the handle is borrowed, not taken, so an error leaves it in place.
KeepOnError(w) ==
  /\ Told(w, "failed")
  /\ UNCHANGED <<body, slots, lock, alive, raw, native, session, sent, begun, reader>>

\* The taken handle is dropped on the way out of a failed append_batch.
EndOnError(w) ==
  /\ Told(w, "failed")
  /\ raw' = [raw EXCEPT ![w] = FALSE]
  /\ Free(w)
  /\ UNCHANGED <<slots, alive, session, sent, begun, reader>>

\* append_batch on a session that is no longer active: take_active fails, the
\* native side is not called.
AppendInactive(w) ==
  /\ alive[w] /\ ~raw[w]
  /\ UNCHANGED vars

\* append_batch(n row groups): rejected here or by the native encoder, or
\* accepted and the handle put back.
AppendBatch(w, n) ==
  /\ alive[w] /\ raw[w] /\ native[w].phase = "open"
  /\ Len(sent[session[w]]) < MaxBatches[session[w]]
  /\ \/ EndOnError(w)
     \/ /\ n \in 1 .. MaxBatchRowGroups
        /\ WriteBatch(w)
        /\ sent' = [sent EXCEPT ![session[w]] =
                      Append(@, Batch(session[w], Len(@) + 1))]
        /\ UNCHANGED <<slots, lock, alive, raw, native, session, outcome,
                       begun, reader>>

\* commit_with_report consumes the session and enters the native commit.
Commit(w) ==
  /\ alive[w] /\ raw[w] /\ native[w].phase = "open"
  /\ alive' = [alive EXCEPT ![w] = FALSE]
  /\ raw' = [raw EXCEPT ![w] = FALSE]
  /\ native' = [native EXCEPT ![w].phase = "committing"]
  /\ Told(w, "committing")
  /\ UNCHANGED <<body, slots, lock, session, sent, begun, reader>>

\* The native commit returns: OK only when the slot is written, an error from
\* anywhere.  The local handle is dropped in both cases.
CommitReturns(w) ==
  /\ native[w].phase \in {"committing", "rooted", "torn", "written"}
  /\ \/ native[w].phase = "written" /\ Told(w, "committed")
     \/ Told(w, "unknown")
  /\ lock' = NoWriter
  /\ native' = [native EXCEPT ![w] = Idle]
  /\ IF native[w].phase \in {"committing", "rooted"}
     THEN body' \in {SubSeq(body, 1, native[w].base), body}
     ELSE UNCHANGED body
  /\ UNCHANGED <<slots, alive, raw, session, sent, begun, reader>>

\* Fault: the handle is forgotten instead of dropped.
ForgetHandle(w) ==
  /\ alive[w]
  /\ alive' = [alive EXCEPT ![w] = FALSE]
  /\ raw' = [raw EXCEPT ![w] = FALSE]
  /\ Told(w, "dropped")
  /\ UNCHANGED <<body, slots, lock, native, session, sent, begun, reader>>

\* abort, and Drop of an AppendSession: the value goes, and with it the native
\* session if there is one.  commit and abort of an inactive session only
\* report the error.
EndSession(w) ==
  /\ alive[w]
  /\ alive' = [alive EXCEPT ![w] = FALSE]
  /\ raw' = [raw EXCEPT ![w] = FALSE]
  /\ IF raw[w]
     THEN Free(w) /\ Told(w, "dropped")
     ELSE UNCHANGED <<body, lock, native, outcome>>
  /\ UNCHANGED <<slots, session, sent, begun, reader>>

(* ---- Failures and maintenance -------------------------------------------- *)

\* The writer's process dies: nothing is rolled back, the system frees the lock.
Crash(w) ==
  /\ native[w].phase # "none"
  /\ lock' = NoWriter
  /\ alive' = [alive EXCEPT ![w] = FALSE]
  /\ raw' = [raw EXCEPT ![w] = FALSE]
  /\ native' = [native EXCEPT ![w] = Idle]
  /\ Told(w, IF native[w].phase = "open" THEN "dropped" ELSE "unknown")
  /\ UNCHANGED <<body, slots, session, sent, begun, reader>>

\* cleanup_orphan_tail: what lies behind the selected root is cut off.
CleanupOrphanTail ==
  /\ lock = NoWriter
  /\ body' = SubSeq(body, 1, slots[Selected].end)
  /\ UNCHANGED <<slots, lock, alive, raw, native, session, outcome, sent, begun, reader>>

(* ---- The open ------------------------------------------------------------ *)

\* The result of an open: the generation of the root, or no valid root slot.
Corrupt == 0
NoOpen == [at |-> "idle", length |-> 0, asOf |-> 0, overrun |-> 0,
           table |-> [i \in Slot |-> TornSlot], result |-> Corrupt]

\* OcbReadSource::from_file: the length is taken once.
OpenFile ==
  /\ reader.at = "idle"
  /\ reader' = [NoOpen EXCEPT !.at = "sized", !.length = Len(body),
                              !.asOf = Published.generation]
  /\ UNCHANGED <<body, slots, lock, alive, raw, native, session, outcome, sent, begun>>

\* OcbBootstrapPageV2::read_from: the slot table, as it is now.
ReadBootstrap ==
  /\ reader.at = "sized"
  /\ reader' = [reader EXCEPT !.at = "table", !.table = slots]
  /\ UNCHANGED <<body, slots, lock, alive, raw, native, session, outcome, sent, begun>>

\* The newest slot whose root is inside the length taken at the start.
SelectRoot ==
  /\ reader.at = "table"
  /\ reader' = [NoOpen EXCEPT !.at = "done", !.asOf = reader.asOf,
       !.overrun = reader.overrun,
       !.result = IF Candidates(reader.table, reader.length) = {} THEN Corrupt
                  ELSE reader.table[NewestOf(reader.table, reader.length)].generation]
  /\ UNCHANGED <<body, slots, lock, alive, raw, native, session, outcome, sent, begun>>

CloseFile ==
  /\ reader.at = "done"
  /\ reader' = NoOpen
  /\ UNCHANGED <<body, slots, lock, alive, raw, native, session, outcome, sent, begun>>

-----------------------------------------------------------------------------
\* The file was created with one empty root.
Init ==
  /\ body = <<Root(1, <<>>)>>
  /\ slots = [i \in Slot |-> IF i = 0 THEN SlotTo(1, 1) ELSE TornSlot]
  /\ lock = NoWriter
  /\ alive = [w \in Writers |-> FALSE]
  /\ raw = [w \in Writers |-> FALSE]
  /\ native = [w \in Writers |-> Idle]
  /\ session = [w \in Writers |-> 0]
  /\ outcome = [s \in Sessions |-> "none"]
  /\ sent = [s \in Sessions |-> <<>>]
  /\ begun = 0
  /\ reader = NoOpen

Write(w) ==
  \/ BeginSession(w)
  \/ \E n \in 0 .. MaxBatchRowGroups + 1 : AppendBatch(w, n)
  \/ AppendInactive(w) \/ Commit(w) \/ CommitReturns(w) \/ EndSession(w)
  \/ WriteRoot(w) \/ TearSlot(w) \/ WriteSlot(w)
  \/ Crash(w)

Open == OpenFile \/ ReadBootstrap \/ SelectRoot \/ CloseFile

Next == (\E w \in Writers : Write(w)) \/ CleanupOrphanTail \/ Open

Spec == Init /\ [][Next]_vars
-----------------------------------------------------------------------------
\* The sessions whose batches a sequence of rows holds.
SessionsIn(rows) == {rows[i].of : i \in DOMAIN rows}

\* The rows hold the batches of session s: in one piece, in that order, and
\* nothing else of s.
HoldsAll(rows, s, batches) ==
  \E k \in 0 .. Len(rows) - Len(batches) :
    /\ \A j \in DOMAIN batches : rows[k + j] = batches[j]
    /\ \A i \in DOMAIN rows : rows[i].of = s => i \in k + 1 .. k + Len(batches)

\* A root that a reader may open holds, of every session, either nothing or the
\* whole of what the caller was told is in, in that order.  A session one of
\* whose calls failed before the commit, or that was aborted or dropped, is in no
\* such root; one whose commit returned Ok is in the newest.
SessionsAreAtomic ==
  /\ \A i \in Candidates(slots, Len(body)) :
       LET rows == body[slots[i].end].rows IN
       \A s \in SessionsIn(rows) :
         /\ HoldsAll(rows, s, sent[s])
         /\ outcome[s] \in {"committing", "committed", "unknown"}
  /\ \A s \in Sessions :
       outcome[s] = "committed" => HoldsAll(Published.rows, s, sent[s])

\* The mutation lock is held exactly as long as a handle can still reach the
\* native session, or its commit runs: no failed or dropped session keeps the
\* file locked, and no handle outlives its session.
LockFollowsHandle ==
  \A w \in Writers :
    /\ lock = w <=> native[w].phase # "none"
    /\ lock = w <=> raw[w] \/ native[w].phase \notin {"none", "open"}
    /\ raw[w] => alive[w]

\* An open never returns a root older than the one current when it took the file's
\* length, and it reports a corrupt file only when commits rewrote both slots
\* behind that length: the healthy file is then misjudged.
OpenFreshUnlessOverrun ==
  reader.at = "done" =>
    IF reader.result = Corrupt THEN reader.overrun = 2
    ELSE reader.result >= reader.asOf
=============================================================================
