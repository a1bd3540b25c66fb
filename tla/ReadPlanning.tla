---------------------------- MODULE ReadPlanning ----------------------------
(***************************************************************************)
(* The read path of a column bundle (column_bundle.rs, planning.rs and      *)
(* execution.rs): a request is resolved and pruned into a plan, the plan or *)
(* a subset of it is validated and admitted, and its row groups are read in *)
(* the way of the chosen entry point.  How the bounded executor schedules   *)
(* them is abstracted to what SlidingCommit and WindowedCommit establish:   *)
(* a group is started only inside the current window and groups are         *)
(* delivered in order.                                                      *)
(***************************************************************************)
EXTENDS ResourceAdmission

CONSTANTS
    Columns,      \* schema: sequence of [name, type, width]; ids are indexes
    Files,        \* snapshots: [keys, groups] with groups a sequence of
                  \* [id, row_count, rows, stats, chunks]
    OtherFiles,   \* snapshots a reader may reopen while it keeps a plan
    Requests,     \* read requests
    KeyRanges,    \* arguments of from_ordering_key_ranges
    SelectionCaps,\* strict planning caps
    InFlight,     \* values of max_in_flight_row_groups, zero included
    Subsets,      \* caller-supplied row-group subsets
    Null, NaN     \* integers standing for a null cell and for not-a-number

(* The statistics of a group bound its cells that are numbers.              *)
StatisticsBound(group) ==
    \A c \in DOMAIN group.stats, i \in DOMAIN group.rows :
        LET s == group.stats[c]
            cell == group.rows[i][c]
        IN /\ {s.min, s.max, cell} \subseteq Int
           /\ cell \notin {Null, NaN} /\ s.min # NaN => s.min <= cell
           /\ cell \notin {Null, NaN} /\ s.max # NaN => cell <= s.max

Sequence(s) == s \in Seq(Range(s))
Bounded(x) == x.lower.value \in Int /\ x.upper.value \in Int

ASSUME ReadPlanningAssumption ==
    /\ Sequence(Columns)
    /\ \A f \in Files \union OtherFiles :
          /\ Sequence(f.keys) /\ Sequence(f.groups)
          /\ \A i \in DOMAIN f.groups :
                LET g == f.groups[i]
                IN /\ StatisticsBound(g)
                   /\ g.row_count \in Nat
                   /\ \A c \in DOMAIN g.chunks :
                         /\ g.chunks[c].object \in Nat /\ g.chunks[c].decoded \in Nat
                         /\ g.chunks[c].validity \in Nat
    /\ \A r \in Requests :
          /\ DOMAIN r = {"projection", "predicates", "options"}
          /\ Sequence(r.projection) /\ Sequence(r.predicates) /\ r.options.threads \in Nat
          /\ \A i \in DOMAIN r.predicates : Bounded(r.predicates[i])
    /\ \A ranges \in KeyRanges : \A i \in DOMAIN ranges : Bounded(ranges[i])
    /\ \A subset \in Subsets : Sequence(subset)
    /\ InFlight \subseteq Nat

VARIABLES
    snapshot,   \* the open snapshot
    plan,       \* the last plan, with the request and the snapshot it is of
    pool,       \* reusable buffer pool: its slots and columns
    exec,       \* the read under way
    delivered,  \* row groups given to the caller by this read
    outcome     \* result of the last call

vars == <<snapshot, plan, pool, exec, delivered, outcome>>

NoPlan == [ids |-> <<>>, columns |-> <<>>, threads |-> 0, predicates |-> <<>>, on |-> <<>>]
NoExec == [mode |-> "none", ids |-> <<>>, columns |-> <<>>, window |-> 0,
           launched |-> 0, asked |-> <<>>]
NoPool == [slots |-> 0, columns |-> <<>>]

(***************************************************************************)
(* Requests.  A bound is [type, value]; an absent bound has type "none".    *)
(***************************************************************************)
Present(bound) == bound.type # "none"
Names == {Columns[c].name : c \in DOMAIN Columns}
ColumnId(name) == CHOOSE c \in DOMAIN Columns : Columns[c].name = name

(* "less", "equal" or "greater"; NaN compares with nothing.                 *)
cmp_same_type(left, right) ==
    IF NaN \in {left, right} THEN Err("invalid")
    ELSE Ok(IF left < right THEN "less" ELSE IF left = right THEN "equal" ELSE "greater")

validate_read_options(options) ==
    Require(options.validate_checksums /\ ~options.decode_dictionaries,
            "unimplemented", Ok(<<>>))

resolve_projection(projection) ==
    IF projection = <<"*">> THEN Ok([c \in DOMAIN Columns |-> c])
    ELSE Require(Range(projection) \subseteq Names /\ IsInjective(projection), "invalid",
                 Ok([i \in DOMAIN projection |-> ColumnId(projection[i])]))

(* The checks shared by predicates and ordering ranges: at least one side,  *)
(* a scalar column, bounds of its type, and lower not above upper.          *)
ScalarRange(c, lower, upper) ==
    /\ Present(lower) \/ Present(upper)
    /\ Columns[c].type # "binary"
    /\ \A b \in {lower, upper} : Present(b) => b.type = Columns[c].type
    /\ Present(lower) /\ Present(upper) =>
          LET order == cmp_same_type(lower.value, upper.value)
          IN IsOk(order) /\ order.value # "greater"

resolve_predicates(predicates) ==
    Require(\A i \in DOMAIN predicates :
                LET p == predicates[i]
                IN p.column \in Names /\ ScalarRange(ColumnId(p.column), p.lower, p.upper),
            "invalid",
            Ok([i \in DOMAIN predicates |->
                    [column |-> ColumnId(predicates[i].column),
                     lower |-> predicates[i].lower, upper |-> predicates[i].upper]]))

(* The members of a sequence that are in a set, in their order.             *)
Kept(s, S) ==
    LET kept[n \in 0..Len(s)] ==
            IF n = 0 THEN <<>>
            ELSE IF s[n] \in S THEN Append(kept[n - 1], s[n]) ELSE kept[n - 1]
    IN kept[Len(s)]

(* One predicate for each ranged key, in the order of the keys.             *)
from_ordering_key_ranges(keys, ranges) ==
    LET ranged == Kept([k \in DOMAIN keys |-> k], {ranges[i].key : i \in DOMAIN ranges})
        RangeOf(k) == ranges[CHOOSE i \in DOMAIN ranges : ranges[i].key = k]
    IN Require(/\ ranges # <<>>
               /\ \A i, j \in DOMAIN ranges : ranges[i].key = ranges[j].key => i = j
               /\ \A i \in DOMAIN ranges :
                     /\ ranges[i].key \in DOMAIN keys
                     /\ ScalarRange(keys[ranges[i].key], ranges[i].lower, ranges[i].upper),
               "invalid",
               Ok([i \in DOMAIN ranged |->
                       [column |-> Columns[keys[ranged[i]]].name,
                        lower |-> RangeOf(ranged[i]).lower, upper |-> RangeOf(ranged[i]).upper]]))

(***************************************************************************)
(* Pruning.                                                                 *)
(***************************************************************************)
(* Fault: a group whose extreme equals the bound is dropped.                *)
PrunesTouching(group, p) ==
    LET s == group.stats[p.column]
    IN Ok(\/ Present(p.lower) /\ s.max <= p.lower.value
          \/ Present(p.upper) /\ s.min >= p.upper.value)

(* Does the statistic of one predicate's column exclude the row group?      *)
StatExcludes(group, p) ==
    LET s == group.stats[p.column]
        upper == IF ~Present(p.upper) THEN Ok(FALSE)
                 ELSE Then(cmp_same_type(s.min, p.upper.value), LAMBDA o : Ok(o = "greater"))
    IN IF ~Present(p.lower) THEN upper
       ELSE Then(cmp_same_type(s.max, p.lower.value),
                 LAMBDA o : IF o = "less" THEN Ok(TRUE) ELSE upper)

(* A missing statistic keeps the group.  The first one that excludes it, or *)
(* cannot be compared, decides.                                             *)
row_group_matches_predicates(group, predicates) ==
    LET verdict == [j \in DOMAIN predicates |->
                        IF predicates[j].column \in DOMAIN group.stats
                        THEN StatExcludes(group, predicates[j]) ELSE Ok(FALSE)]
        decisive == {j \in DOMAIN predicates : IsOk(verdict[j]) => verdict[j].value}
    IN IF decisive = {} THEN Ok(TRUE)
       ELSE Then(verdict[Min(decisive)], LAMBDA excluded : Ok(FALSE))

SelectedIds(groups, predicates) ==
    Then(Collect([i \in DOMAIN groups |-> row_group_matches_predicates(groups[i], predicates)]),
         LAMBDA matches :
            LET kept == Kept([i \in DOMAIN groups |-> i], {i \in DOMAIN groups : matches[i]})
            IN Ok([k \in DOMAIN kept |-> groups[kept[k]].id]))

require_predicate_stats_available(groups, predicates) ==
    Require(\A i \in DOMAIN groups, j \in DOMAIN predicates :
                predicates[j].column \in DOMAIN groups[i].stats, "invalid", Ok(<<>>))

(* What both planners compute, strict being the extra demand on statistics. *)
Planned(request, strict, cap) ==
    Then(validate_read_options(request.options), LAMBDA a :
    Then(resolve_projection(request.projection), LAMBDA columns :
    Then(resolve_predicates(request.predicates), LAMBDA predicates :
    Then(IF strict THEN require_predicate_stats_available(snapshot.groups, predicates)
                   ELSE Ok(<<>>), LAMBDA b :
    Then(SelectedIds(snapshot.groups, predicates), LAMBDA ids :
         Require(~strict \/ Len(ids) <= cap, "invalid",
                 Ok([ids |-> ids, columns |-> columns, threads |-> request.options.threads,
                     predicates |-> predicates, on |-> snapshot.groups])))))))

(***************************************************************************)
(* Validation and admission of an execution.                                *)
(***************************************************************************)
EffectiveThreads(requested, selected) ==
    IF requested <= 1 \/ selected <= 1 THEN 1 ELSE Min({requested, selected})

validate_read_plan(p) ==
    Require(/\ Range(p.columns) \subseteq DOMAIN Columns /\ IsInjective(p.columns)
            /\ Range(p.ids) \subseteq Ids(snapshot.groups) /\ IsInjective(p.ids),
            "invalid", Ok(p.ids))

validate_read_cursor_options(max, ordered) ==
    IF max = 0 THEN Err("invalid") ELSE Require(ordered, "unimplemented", Ok(<<>>))

(* Fault: the subset is read in the order the caller wrote it.              *)
CallerOrder(p, subset) ==
    Require(Range(subset) \subseteq Range(p.ids) /\ IsInjective(subset), "invalid", Ok(subset))

planned_row_group_subset(p, subset) ==
    Require(Range(subset) \subseteq Range(p.ids) /\ IsInjective(subset), "invalid",
            Ok(Kept(p.ids, Range(subset))))

Footprints(ids) == selected_resource_footprints_for_plan(snapshot.groups, ids, plan.columns)

max_row_count_for_plan(p) ==
    Then(selected_row_groups_for_plan(snapshot.groups, p.ids),
         LAMBDA gs : Ok(Max({0} \union {gs[i].row_count : i \in DOMAIN gs})))

Widths(columns) == [i \in DOMAIN columns |-> Columns[columns[i]].width]

validate_reusable_buffer_pool(p) ==
    Require(pool.slots > 0 /\ p.columns # <<>> /\ pool.columns = p.columns,
            "invalid", Ok(<<>>))

(***************************************************************************)
(* Operations.                                                              *)
(***************************************************************************)
(* The bound on behaviours: a refused call and a read change neither the    *)
(* snapshot, plan nor pool, so a behaviour ends with the first of them.      *)
Idle == outcome \in {"none", "ok"}

(* A call that returned without reading row groups.                         *)
Answer(result) ==
    /\ outcome' = result
    /\ exec' = NoExec
    /\ delivered' = <<>>

(* A read whose checks all passed.                                          *)
Begin(mode, ids, window, asked) ==
    /\ exec' = [mode |-> mode, ids |-> ids, columns |-> plan.columns, window |-> window,
                launched |-> 0, asked |-> asked]
    /\ delivered' = <<>>
    /\ outcome' = "running"

Init ==
    /\ snapshot \in Files
    /\ plan = NoPlan
    /\ pool = NoPool
    /\ exec = NoExec
    /\ delivered = <<>>
    /\ outcome = "none"

Plan(request, strict, cap) ==
    /\ Idle
    /\ LET p == Planned(request, strict, cap)
       IN /\ plan' = IF IsOk(p) THEN p.value ELSE plan
          /\ Answer(p.kind)
    /\ UNCHANGED <<snapshot, pool>>

plan_read(request) == Plan(request, FALSE, 0)

plan_read_strict(request, cap) == Plan(request, TRUE, cap)

(* A request built from ordering-key ranges, then planned.                  *)
PlanFromKeyRanges(request, ranges) ==
    /\ Idle
    /\ LET p == Then(from_ordering_key_ranges(snapshot.keys, ranges),
                     LAMBDA ps : Planned([request EXCEPT !.predicates = ps], FALSE, 0))
       IN /\ plan' = IF IsOk(p) THEN p.value ELSE plan
          /\ Answer(p.kind)
    /\ UNCHANGED <<snapshot, pool>>

(* The caller opens another snapshot and keeps its plan and pool.           *)
Reopen(f) ==
    /\ Idle
    /\ snapshot' = f
    /\ Answer("none")
    /\ UNCHANGED <<plan, pool>>

reusable_buffer_pool_for_plan(max, allowNulls) ==
    /\ Idle
    /\ LET r == IF ~IsOk(validate_read_plan(plan)) \/ max = 0 THEN Err("invalid")
                ELSE Then(max_row_count_for_plan(plan), LAMBDA rows :
                     Then(Then(Footprints(plan.ids), LAMBDA fps :
                              validate_sliding_resource_footprints(fps, max)), LAMBDA a :
                     validate_reusable_pool_allocation_resource_limits(
                         Widths(plan.columns), rows, max, allowNulls)))
       IN /\ pool' = IF IsOk(r) THEN [slots |-> max, columns |-> plan.columns] ELSE pool
          /\ Answer(r.kind)
    /\ UNCHANGED <<snapshot, plan>>

(* read_plan_batches and read_plan_row_groups: every batch is kept.         *)
ReadOwned(asked, subset) ==
    /\ Idle
    /\ LET ids == Then(validate_read_plan(plan), LAMBDA all : subset)
           r == Then(ids, LAMBDA s : Then(Footprints(s), validate_owned_plan_resource_limits))
       IN IF IsOk(r)
          THEN Begin("owned", ids.value, EffectiveThreads(plan.threads, Len(ids.value)), asked)
          ELSE Answer(r.kind)
    /\ UNCHANGED <<snapshot, plan, pool>>

read_plan_batches == ReadOwned(plan.ids, Ok(plan.ids))

read_plan_row_groups(subset) == ReadOwned(subset, planned_row_group_subset(plan, subset))

(* Visitors.  An empty selection returns before anything is admitted.       *)
Visit(mode, asked, subset, max, ordered, slots) ==
    /\ Idle
    /\ LET ids == Then(validate_read_plan(plan), LAMBDA all :
                  Then(validate_read_cursor_options(max, ordered), LAMBDA a : subset))
           wave == Min({EffectiveThreads(plan.threads, Len(ids.value)), max} \union slots)
           r == Then(ids, LAMBDA s :
                IF mode # "visit" /\ ~IsOk(validate_reusable_buffer_pool(plan)) THEN Err("invalid")
                ELSE IF s = <<>> THEN Ok(s)
                ELSE Then(Footprints(s), LAMBDA fps :
                         validate_contiguous_in_flight_plan_resource_limits(fps, wave)))
       IN IF IsOk(r) THEN Begin(mode, ids.value, wave, asked) ELSE Answer(r.kind)
    /\ UNCHANGED <<snapshot, plan, pool>>

visit_plan_batches(max, ordered) ==
    Visit("visit", plan.ids, Ok(plan.ids), max, ordered, {})

visit_plan_row_groups(subset, max, ordered) ==
    Visit("visit", subset, planned_row_group_subset(plan, subset), max, ordered, {})

visit_plan_row_groups_into(subset, max, ordered) ==
    Visit("into", subset, planned_row_group_subset(plan, subset), max, ordered, {pool.slots})

(* parallel_prepare_plan_row_groups: windows slide; a zero bound is only    *)
(* refused by the executor, after the plan was admitted as if it were one.  *)
parallel_prepare_plan_row_groups(subset, max) ==
    /\ Idle
    /\ LET ids == Then(validate_read_plan(plan), LAMBDA all : planned_row_group_subset(plan, subset))
           r == Then(ids, LAMBDA s :
                Then(Footprints(s), LAMBDA fps :
                Then(validate_sliding_resource_footprints(fps, max), LAMBDA a :
                     Require(max # 0, "invalid", Ok(s)))))
       IN IF IsOk(r) THEN Begin("sliding", ids.value, max, subset) ELSE Answer(r.kind)
    /\ UNCHANGED <<snapshot, plan, pool>>

(* A row group is started: inside its wave, or inside the sliding window.   *)
Launch ==
    /\ exec.mode # "none"
    /\ exec.launched < Len(exec.ids)
    /\ LET done == Len(delivered)
       IN exec.launched < IF exec.mode = "sliding" THEN done + exec.window
                          ELSE (done \div exec.window + 1) * exec.window
    /\ exec' = [exec EXCEPT !.launched = @ + 1]
    /\ UNCHANGED <<snapshot, plan, pool, delivered, outcome>>

(* The next group in order is delivered; the caller continues or stops.     *)
Deliver(stop) ==
    /\ Len(delivered) < exec.launched
    /\ stop => exec.mode # "owned"
    /\ delivered' = Append(delivered, exec.ids[Len(delivered) + 1])
    /\ IF stop THEN outcome' = "stopped" /\ exec' = NoExec
               ELSE UNCHANGED <<outcome, exec>>
    /\ UNCHANGED <<snapshot, plan, pool>>

(* A chunk of a started group fails its checks while it is decoded.         *)
ReadFails ==
    /\ Len(delivered) < exec.launched
    /\ Answer("failed")
    /\ UNCHANGED <<snapshot, plan, pool>>

Finish ==
    /\ exec.mode # "none"
    /\ Len(delivered) = Len(exec.ids)
    /\ outcome' = "done"
    /\ exec' = [NoExec EXCEPT !.asked = exec.asked, !.ids = exec.ids]
    /\ UNCHANGED <<snapshot, plan, pool, delivered>>

Next ==
    \/ \E request \in Requests :
          \/ plan_read(request)
          \/ \E cap \in SelectionCaps : plan_read_strict(request, cap)
          \/ request.predicates = <<>> /\ \E ranges \in KeyRanges : PlanFromKeyRanges(request, ranges)
    \/ \E f \in OtherFiles : Reopen(f)
    \/ \E max \in InFlight, nulls \in BOOLEAN : reusable_buffer_pool_for_plan(max, nulls)
    \/ read_plan_batches
    \/ \E max \in InFlight, ordered \in BOOLEAN : visit_plan_batches(max, ordered)
    \/ \E subset \in Subsets :
          \/ read_plan_row_groups(subset)
          \/ \E max \in InFlight :
                \/ visit_plan_row_groups(subset, max, TRUE)
                \/ visit_plan_row_groups_into(subset, max, TRUE)
                \/ parallel_prepare_plan_row_groups(subset, max)
    \/ Launch
    \/ \E stop \in BOOLEAN : Deliver(stop)
    \/ ReadFails
    \/ Finish

Spec == Init /\ [][Next]_vars

(***************************************************************************)
(* Properties.                                                              *)
(***************************************************************************)
Satisfies(row, p) ==
    /\ row[p.column] \notin {Null, NaN}
    /\ Present(p.lower) => row[p.column] >= p.lower.value
    /\ Present(p.upper) => row[p.column] <= p.upper.value

(* No row that satisfies every predicate of the request is in a row group   *)
(* the plan leaves out, whatever statistics the file has; and a full read   *)
(* that finished on the planned snapshot has delivered all those rows.      *)
PruningLosesNoRow ==
    \A i \in DOMAIN plan.on :
        (\E row \in Range(plan.on[i].rows) : \A p \in Range(plan.predicates) : Satisfies(row, p))
        => /\ plan.on[i].id \in Range(plan.ids)
           /\ (outcome = "done" /\ snapshot.groups = plan.on /\ exec.asked = plan.ids)
              => plan.on[i].id \in Range(delivered)

(* What a read delivers is, in the order of the plan and without a gap, what *)
(* the caller asked for: all of it once the read is done, none of it twice,  *)
(* whatever order the caller named the groups in and whichever snapshot the  *)
(* plan is of.                                                              *)
SubsetFollowsPlan ==
    outcome \in {"running", "done"} =>
        /\ IsInjective(delivered)
        /\ Range(delivered) \subseteq Range(exec.asked) \cap Ids(snapshot.groups)
        /\ \A i, j \in DOMAIN plan.ids :
              i < j /\ plan.ids[i] \in Range(exec.asked) /\ plan.ids[j] \in Range(delivered) =>
                  \E a, b \in DOMAIN delivered :
                      a < b /\ delivered[a] = plan.ids[i] /\ delivered[b] = plan.ids[j]
        /\ outcome = "done" => Range(delivered) = Range(exec.asked)

(* The row groups a running read holds, and their encoded and decoded bytes. *)
HeldFrom == IF exec.mode = "owned" THEN 1 ELSE Len(delivered) + 1

EncodedBytes(group, columns) ==
    SumFunction([i \in DOMAIN columns |->
        group.chunks[columns[i]].object - ObjectOverhead + group.chunks[columns[i]].validity])
DecodedBytes(group, columns) ==
    SumFunction([i \in DOMAIN columns |->
        group.chunks[columns[i]].decoded + group.chunks[columns[i]].validity])

HeldBytes(bytes) == SumFunctionOnSet(bytes, HeldFrom..exec.launched)
Reading(i) == GroupById(snapshot.groups, exec.ids[i])

(* Once a plan is admitted, the encoded and decoded bytes of the row groups *)
(* held at any moment stay within the limits: the windows the check         *)
(* measured are the windows the read can reach.                             *)
AdmittedReadsFit ==
    exec.mode # "none" =>
        /\ HeldBytes([i \in DOMAIN exec.ids |-> EncodedBytes(Reading(i), exec.columns)])
              <= Limits.compressed
        /\ HeldBytes([i \in DOMAIN exec.ids |-> DecodedBytes(Reading(i), exec.columns)])
              <= Limits.decoded
=============================================================================
