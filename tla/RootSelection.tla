--------------------------- MODULE RootSelection ---------------------------
(***************************************************************************)
(* Opening an appendable (version 2) OCB file: select_v2_metadata and      *)
(* choose_v2_metadata of read.rs.  The bootstrap page holds a table of     *)
(* root slots.  The open reads every slot, keeps the ones that lead to a   *)
(* readable root as candidates, and validates the candidates from the      *)
(* newest generation down until one is intact.  Corruption discards a      *)
(* candidate; every other failure (I/O, unsupported format, a resource     *)
(* limit) ends the open.                                                   *)
(*                                                                         *)
(* What the file holds is input.  The slots are fixed initially; what      *)
(* reading a root, its metadata or a body object yields is chosen when it  *)
(* is first read and kept in `contents', so that reading it again yields   *)
(* the same.                                                               *)
(***************************************************************************)
EXTENDS Integers, Sequences, FiniteSets, Functions

CONSTANTS
  SlotCount,    \* OCB_ROOT_SLOT_V2_COUNT
  RootRefs,     \* the root objects of the file, by reference
  NoRef,        \* the null reference
  Objects,      \* the body objects the roots refer to
  Generation,   \* the generation each root carries
  Kind,         \* the body kind each object reference carries
  Length,       \* the encoded length of each object
  OutOfRange,   \* the object references that end beyond the file
  Inventory,    \* for each root, what its graph validation visits, in order
  Limits        \* values of max_owned_selected_compressed_bytes to consider

\* A check that reads no auxiliary object (descriptors, chunks, debug JSON).
Plain == "plain"
AuxiliaryKinds == {"dictionary", "keyTuple"}
Verdicts == {"ok", "corrupt", "fatal"}
Uses == [ref : Objects, as : AuxiliaryKinds \cup {Plain}]

(* What the constants must be. *)
ASSUME RootSelectionAssumption ==
  /\ SlotCount \in Nat \ {0}
  /\ NoRef \notin RootRefs
  /\ IsFiniteSet(Objects)
  /\ Generation \in [RootRefs -> Nat]
  /\ Kind \in [Objects -> AuxiliaryKinds \cup {Plain}]
  /\ Length \in [Objects -> Nat]
  /\ OutOfRange \subseteq Objects
  /\ Inventory \in [RootRefs -> Seq(Uses)]
  /\ Limits \subseteq Nat

VARIABLES
  slotTable,    \* the slot table, as decoded_root_slots and validate_candidate see it
  limit,        \* resource_limits.max_owned_selected_compressed_bytes
  contents,     \* what reading each root, its metadata and each object yields
  pc,
  idx,          \* the slot the scan is at
  candidates,   \* the candidates left; their order is that of their slots
  chosen,       \* the candidate being validated
  at,           \* the place in its inventory
  cache,        \* OcbOpenAuxiliaryObjectCache.objects
  charged,      \* OcbOpenAuxiliaryObjectCache.total_unique_bytes
  tried,        \* history: the candidates validated, in order
  reads,        \* history: how often each auxiliary object was read successfully
  result

selectionVars == <<slotTable, limit, contents, pc, idx, candidates, chosen, at, cache,
                   charged, tried, reads, result>>

TableSlot == 0 .. SlotCount - 1
Generations == Range(Generation)

\* A slot: its decoding (checksum, magic, version, then validate_candidate),
\* and if it decodes, the fields the selection looks at.  `linked' says that the
\* previous root and diagnostics fields repeat the ones of the root.
SlotContents ==
  [verdict : {"corrupt", "fatal"}]
    \cup [verdict : {"ok"}, ref : {NoRef}]
    \cup [verdict : {"ok"}, ref : RootRefs, generation : Generations,
          linked : BOOLEAN]
CandidateValues == [slot : TableSlot, generation : Generations, ref : RootRefs]
NoCandidate == [slot |-> -1, generation |-> -1, ref |-> NoRef]

\* The things the open reads, apart from the slots.
Readable == ({"root", "metadata"} \X RootRefs) \cup ({"object"} \X Objects)

Results == {"none", "opened", "corrupt", "failed", "overLimit"}
pcs == {"scan", "choose", "metadata", "structure", "charge", "validate", "done"}

SelectionTypeOK ==
  /\ slotTable \in [TableSlot -> SlotContents]
  /\ limit \in Limits
  /\ contents \in [Readable -> Verdicts \cup {"unread"}]
  /\ pc \in pcs
  /\ idx \in 0 .. SlotCount
  /\ candidates \subseteq CandidateValues
  /\ chosen \in CandidateValues \cup {NoCandidate}
  /\ at \in Nat
  /\ cache \in [Objects -> {"absent", "pending", "validated"}]
  /\ charged \in 0 .. limit
  /\ tried \in Seq(CandidateValues)
  /\ reads \in [Objects -> Nat]
  /\ result \in Results
-----------------------------------------------------------------------------
(* Reading.                                                                *)

\* Reading x yields v, now and every later time.
Yields(x, v) ==
  /\ v \in Verdicts
  /\ contents[x] \in {v, "unread"}
  /\ contents' = [contents EXCEPT ![x] = v]

\* Fault: any failure discards a candidate.
DiscardableAny(v) == v # "ok"

\* The only failure that discards a candidate.
Discardable(v) == v = "corrupt"

Finish(r) ==
  /\ pc' = "done"
  /\ result' = r

File == <<slotTable, limit>>
Cache == <<cache, charged, reads>>
Choice == <<candidates, chosen, at, tried>>
-----------------------------------------------------------------------------
(* The scan of the slot table.                                             *)

NextSlot ==
  /\ idx' = idx + 1
  /\ pc' = IF idx + 1 = SlotCount THEN "choose" ELSE "scan"
  /\ UNCHANGED result

\* An unreadable slot is passed over, as is an empty one; a slot that fails for
\* another reason than corruption ends the open.
SkipSlot ==
  /\ pc = "scan"
  /\ LET s == slotTable[idx] IN
     \/ /\ s.verdict = "fatal"
        /\ Finish("failed")
        /\ UNCHANGED idx
     \/ /\ Discardable(s.verdict) \/ (s.verdict = "ok" /\ s.ref = NoRef)
        /\ NextSlot
  /\ UNCHANGED <<File, contents, Choice, Cache>>

\* The slot repeats what its root says (slot.validate_root).
SlotMatchesRoot(s) == s.generation = Generation[s.ref] /\ s.linked

\* Reading and decoding the root, then comparing it with the slot.
ReadRoot ==
  /\ pc = "scan"
  /\ LET s == slotTable[idx] IN
     /\ s.verdict = "ok" /\ s.ref # NoRef
     /\ \E v \in Verdicts :
          /\ Yields(<<"root", s.ref>>, v)
          /\ \/ v = "fatal" /\ Finish("failed") /\ UNCHANGED <<idx, candidates>>
             \/ /\ Discardable(v) \/ (v = "ok" /\ ~SlotMatchesRoot(s))
                /\ NextSlot /\ UNCHANGED candidates
             \/ /\ v = "ok" /\ SlotMatchesRoot(s)
                /\ candidates' = candidates \cup
                     {[slot |-> idx, generation |-> s.generation, ref |-> s.ref]}
                /\ NextSlot
  /\ UNCHANGED <<File, chosen, at, tried, Cache>>
-----------------------------------------------------------------------------
(* The choice of a candidate.                                              *)

\* The candidates of the newest generation, and whether two roots claim it.
NewestLeft == {c \in candidates : \A d \in candidates : d.generation <= c.generation}
Conflict == \E c, d \in NewestLeft : c.ref # d.ref

\* candidates.retain(generation != g)
DropGeneration(g) == candidates' = {c \in candidates : c.generation # g}

\* No candidate is left.
NoValidRoot ==
  /\ pc = "choose" /\ candidates = {}
  /\ Finish("corrupt")
  /\ UNCHANGED <<File, contents, idx, Choice, Cache>>

\* A generation that two different roots claim is dropped altogether.
DropConflict ==
  /\ pc = "choose" /\ Conflict
  /\ \E c \in NewestLeft : DropGeneration(c.generation)
  /\ UNCHANGED <<File, contents, pc, idx, chosen, at, tried, Cache, result>>

\* The first candidate of the newest generation is the one to validate.
Choose ==
  /\ pc = "choose" /\ ~Conflict
  /\ \E c \in NewestLeft :
       /\ \A d \in NewestLeft : c.slot <= d.slot
       /\ chosen' = c
       /\ candidates' = candidates \ {c}
       /\ tried' = Append(tried, c)
  /\ at' = 1
  /\ pc' = "metadata"
  /\ UNCHANGED <<File, contents, idx, Cache, result>>

\* The candidate turned out corrupt: its whole generation goes with it.
Discard ==
  /\ DropGeneration(chosen.generation)
  /\ chosen' = NoCandidate
  /\ pc' = "choose"
  /\ UNCHANGED result
-----------------------------------------------------------------------------
(* The validation of the chosen root.                                      *)

\* The object has not been met in this open.
Uncharged(o) == cache[o] = "absent"
Inventoried == Inventory[chosen.ref]
Use == Inventoried[at]
Visiting(here) == pc = here /\ at <= Len(Inventoried)
Visited(here) == pc = here /\ at > Len(Inventoried)

\* The metadata objects, the root's own consistency, its counts and its schema.
ReadMetadata ==
  /\ pc = "metadata"
  /\ \E v \in Verdicts :
       /\ Yields(<<"metadata", chosen.ref>>, v)
       /\ \/ /\ v = "ok" /\ pc' = "structure"
             /\ UNCHANGED <<candidates, chosen, result>>
          \/ v = "fatal" /\ Finish("failed") /\ UNCHANGED <<candidates, chosen>>
          \/ Discardable(v) /\ Discard
  /\ UNCHANGED <<File, idx, at, tried, Cache>>

\* OcbBodyRefV2::validate: the kind is the expected one and the body is in the file.
WellFormed(u) == Kind[u.ref] = u.as /\ u.ref \notin OutOfRange
Auxiliary(u) == u.as \in AuxiliaryKinds

\* The first preflight pass, over all auxiliary references, before any is charged.
CheckStructure ==
  /\ pc = "structure"
  /\ LET broken == \E u \in Range(Inventoried) : Auxiliary(u) /\ ~WellFormed(u) IN
     \/ broken /\ Discard
     \/ ~broken /\ pc' = "charge" /\ UNCHANGED <<candidates, chosen, result>>
  /\ UNCHANGED <<File, contents, idx, at, tried, Cache>>

Fits(n) == charged + n <= limit

\* The second pass, charge_unique: a reference is charged the first time it is met.
ChargeUnique ==
  /\ Visiting("charge")
  /\ \/ /\ ~Auxiliary(Use) \/ ~Uncharged(Use.ref)
        /\ at' = at + 1
        /\ UNCHANGED <<pc, result, cache, charged>>
     \/ /\ Auxiliary(Use) /\ Uncharged(Use.ref)
        /\ Fits(Length[Use.ref])
        /\ charged' = charged + Length[Use.ref]
        /\ cache' = [cache EXCEPT ![Use.ref] = "pending"]
        /\ at' = at + 1
        /\ UNCHANGED <<pc, result>>
     \/ /\ Auxiliary(Use) /\ Uncharged(Use.ref)
        /\ ~Fits(Length[Use.ref])
        /\ Finish("overLimit")
        /\ UNCHANGED <<at, cache, charged>>
  /\ UNCHANGED <<File, contents, idx, candidates, chosen, tried, reads>>

Preflighted ==
  /\ Visited("charge")
  /\ at' = 1
  /\ pc' = "validate"
  /\ UNCHANGED <<File, contents, idx, candidates, chosen, tried, Cache, result>>

\* Fault: an object is trusted as soon as it has been met.
RevisitPending ==
  /\ Visiting("validate") /\ Auxiliary(Use) /\ cache[Use.ref] # "absent"
  /\ at' = at + 1
  /\ UNCHANGED <<File, contents, pc, idx, candidates, chosen, tried, Cache, result>>

\* An auxiliary object validated before, for this root or a rejected one, is not
\* read again.
Revisit ==
  /\ Visiting("validate") /\ Auxiliary(Use) /\ cache[Use.ref] = "validated"
  /\ at' = at + 1
  /\ UNCHANGED <<File, contents, pc, idx, candidates, chosen, tried, Cache, result>>

\* Reading the object in use.  A reference that was not preflighted counts as
\* corruption, and is not read.
ReadUse(v) ==
  IF Auxiliary(Use) /\ Uncharged(Use.ref)
  THEN v = "corrupt" /\ UNCHANGED contents
  ELSE Yields(<<"object", Use.ref>>, v)

\* The object is good, and an auxiliary one is remembered as such.
Accept ==
  /\ at' = at + 1
  /\ IF Auxiliary(Use)
     THEN /\ cache' = [cache EXCEPT ![Use.ref] = "validated"]
          /\ reads' = [reads EXCEPT ![Use.ref] = @ + 1]
     ELSE UNCHANGED <<cache, reads>>
  /\ UNCHANGED <<pc, candidates, chosen, result>>

\* dictionary_values_summary, validate_key_tuple, and the checks that use no
\* cached object.
ValidateObject ==
  /\ Visiting("validate")
  /\ Auxiliary(Use) => cache[Use.ref] # "validated"
  /\ \E v \in Verdicts :
       /\ ReadUse(v)
       /\ \/ v = "ok" /\ Accept
          \/ /\ v = "fatal" /\ Finish("failed")
             /\ UNCHANGED <<at, candidates, chosen, cache, reads>>
          \/ Discardable(v) /\ Discard /\ UNCHANGED <<at, cache, reads>>
  /\ UNCHANGED <<File, idx, tried, charged>>

Opened ==
  /\ Visited("validate")
  /\ Finish("opened")
  /\ UNCHANGED <<File, contents, idx, Choice, Cache>>
-----------------------------------------------------------------------------
SelectionInit ==
  /\ slotTable \in [TableSlot -> SlotContents]
  /\ limit \in Limits
  /\ contents = [x \in Readable |-> "unread"]
  /\ pc = "scan"
  /\ idx = 0
  /\ candidates = {}
  /\ chosen = NoCandidate
  /\ at = 1
  /\ cache = [o \in Objects |-> "absent"]
  /\ charged = 0
  /\ tried = <<>>
  /\ reads = [o \in Objects |-> 0]
  /\ result = "none"

SelectionNext ==
  \/ SkipSlot \/ ReadRoot
  \/ NoValidRoot \/ DropConflict \/ Choose
  \/ ReadMetadata \/ CheckStructure \/ ChargeUnique \/ Preflighted
  \/ Revisit \/ ValidateObject \/ Opened

SelectionSpec == SelectionInit /\ [][SelectionNext]_selectionVars
-----------------------------------------------------------------------------
(* What the open promises.                                                 *)

\* The slots the scan accepts, stated from the file alone.
Accepted(i) ==
  /\ slotTable[i].verdict = "ok" /\ slotTable[i].ref # NoRef
  /\ contents[<<"root", slotTable[i].ref>>] = "ok"
  /\ slotTable[i].generation = Generation[slotTable[i].ref]
  /\ slotTable[i].linked
Disputed(g) ==
  \E i, j \in TableSlot :
    /\ Accepted(i) /\ Accepted(j)
    /\ slotTable[i].generation = g /\ slotTable[j].generation = g
    /\ slotTable[i].ref # slotTable[j].ref

AuxiliaryUses(r) == {u \in Range(Inventory[r]) : u.as \in AuxiliaryKinds}
Sound(r) ==
  \A u \in AuxiliaryUses(r) : Kind[u.ref] = u.as /\ u.ref \notin OutOfRange
IntactRoot(r) ==
  /\ contents[<<"metadata", r>>] = "ok"
  /\ Sound(r)
  /\ \A u \in Range(Inventory[r]) : contents[<<"object", u.ref>>] = "ok"
Broken(r) ==
  \/ contents[<<"metadata", r>>] = "corrupt"
  \/ ~Sound(r)
  \/ \E u \in Range(Inventory[r]) : contents[<<"object", u.ref>>] = "corrupt"

\* An open that succeeds returns an intact root, all of whose objects were read
\* and found good (none taken on trust because a rejected root had met it before),
\* and every accepted slot of a newer generation was disputed or really broken.
SelectsNewestIntact ==
  result = "opened" =>
    /\ Accepted(chosen.slot) /\ chosen.ref = slotTable[chosen.slot].ref
    /\ IntactRoot(chosen.ref) /\ ~Disputed(chosen.generation)
    /\ \A i \in TableSlot :
         Accepted(i) /\ slotTable[i].generation > chosen.generation =>
           Disputed(slotTable[i].generation) \/ Broken(slotTable[i].ref)

\* "No valid root slot" is reported only when there is none: every accepted slot
\* was disputed or its root is broken.
GivesUpOnlyWithoutRoot ==
  result = "corrupt" =>
    \A i \in TableSlot :
      Accepted(i) => Disputed(slotTable[i].generation) \/ Broken(slotTable[i].ref)

\* A failure that is not corruption is never turned into a fallback: the open
\* fails exactly when it met one.
FailuresNotMasked ==
  result # "none" =>
    (result = "failed" <=>
       \/ \E x \in Readable : contents[x] = "fatal"
       \/ idx < SlotCount /\ slotTable[idx].verdict = "fatal")

\* The objects the cache has been charged for by the roots tried so far.
ChargedObjects == {o \in Objects : cache[o] # "absent"}
TriedObjects == {u.ref : u \in UNION {AuxiliaryUses(c.ref) : c \in Range(tried)}}
Bytes(S) == SumFunctionOnSet(Length, S)

\* The auxiliary budget spans the whole open: a limit is reported only when the
\* distinct objects of the roots tried so far really exceed it, and never for a
\* root whose references are malformed, which is corruption whatever the limit.
LimitReportedOnlyWhenExceeded ==
  /\ charged = Bytes(ChargedObjects)
  /\ result = "overLimit" => Bytes(TriedObjects) > limit /\ Sound(chosen.ref)

\* Falling back goes strictly down the generations, so no root is tried twice and
\* at most one per slot is; and an object found good is never read again.
FallbackDescends ==
  /\ \A i, j \in DOMAIN tried : i < j => tried[i].generation > tried[j].generation
  /\ \A o \in Objects : reads[o] <= 1

\* The open answers with the newest intact root, or says that there is none when
\* there is none, having gone down the generations without a repetition.
OpensNewestIntact ==
  SelectionTypeOK /\ SelectsNewestIntact /\ GivesUpOnlyWithoutRoot /\ FallbackDescends

\* Any other answer names what went wrong: a failed read is never answered with
\* an older snapshot, and a limit is reported only when it was exceeded.
FailuresToldApart == FailuresNotMasked /\ LimitReportedOnlyWhenExceeded
=============================================================================
