------------------------- MODULE ResourceAdmission -------------------------
(***************************************************************************)
(* Resource accounting of a read plan (column_bundle/execution.rs and the   *)
(* allocation checks of column_bundle.rs), as operators on the footprints   *)
(* of the selected row groups.  Byte counts are checked u64 sums; MaxBytes  *)
(* stands for 2^64 - 1.                                                     *)
(***************************************************************************)
EXTENDS Integers, Sequences, SequencesExt, FiniteSetsExt

CONSTANTS
    MaxBytes,        \* largest byte count
    ObjectOverhead,  \* header and trailing checksum of a chunk object
    Limits           \* OcbResourceLimits

ASSUME LimitsAssumption ==
    /\ MaxBytes \in Nat /\ ObjectOverhead \in Nat
    /\ Limits \in [{"object", "compressedChunk", "decompressedChunk",
                    "projected", "compressed", "decoded"} -> 0..MaxBytes]

(* A result is an accepted value or the error kind that replaces it.        *)
Ok(v) == [kind |-> "ok", value |-> v]
Err(e) == [kind |-> e, value |-> <<>>]
IsOk(r) == r.kind = "ok"
Then(r, Next(_)) == IF IsOk(r) THEN Next(r.value) ELSE r
Require(holds, e, r) == IF holds THEN r ELSE Err(e)

(* The values of a list of results, or the first failure among them.        *)
Collect(results) ==
    IF \A i \in DOMAIN results : IsOk(results[i])
    THEN Ok([i \in DOMAIN results |-> results[i].value])
    ELSE results[CHOOSE i \in DOMAIN results :
                    ~IsOk(results[i]) /\ \A j \in 1..(i - 1) : IsOk(results[j])]

Ceil8(n) == (n + 7) \div 8

(***************************************************************************)
(* Footprints.  A chunk descriptor has the length of its object, of its     *)
(* decoded values and of its validity bitmap (zero: no bitmap).             *)
(***************************************************************************)
Footprint(c, d, rows) == [compressed |-> c, decoded |-> d, rows |-> rows]

CheckedAdd(f, c, d) ==
    Require(f.compressed + c <= MaxBytes /\ f.decoded + d <= MaxBytes, "corrupt",
            Ok(Footprint(f.compressed + c, f.decoded + d, f.rows)))

(* The total of the `count' footprints that follow the first `skip'.        *)
CheckedTotal(fps, skip, count) ==
    LET total[n \in 0..count] ==
            IF n = 0 THEN Ok(Footprint(0, 0, 0))
            ELSE Then(total[n - 1],
                      LAMBDA t : CheckedAdd(t, fps[skip + n].compressed, fps[skip + n].decoded))
    IN total[count]

Malformed(chunk, rows) ==
    \/ chunk.object < ObjectOverhead
    \/ chunk.validity # 0 /\ chunk.validity # Ceil8(rows)

AddChunk(f, chunk) ==
    IF \/ chunk.object > Limits.object
       \/ chunk.object - ObjectOverhead > Limits.compressedChunk
       \/ chunk.decoded > Limits.decompressedChunk
    THEN Err("invalid")
    ELSE Then(CheckedAdd(f, chunk.object - ObjectOverhead, chunk.decoded),
              LAMBDA t : Require(chunk.validity <= Limits.object, "invalid",
                                 CheckedAdd(t, chunk.validity, chunk.validity)))

(* A malformed chunk anywhere in the selection is reported before any limit *)
(* is: the first pass checks, the second measures.                          *)
selected_resource_footprint_for_row_group_desc(group, columns) ==
    LET measured[n \in 0..Len(columns)] ==
            IF n = 0 THEN Ok(Footprint(0, 0, group.row_count))
            ELSE Then(measured[n - 1], LAMBDA f : AddChunk(f, group.chunks[columns[n]]))
    IN IF \E i \in DOMAIN columns :
             \/ columns[i] \notin DOMAIN group.chunks
             \/ Malformed(group.chunks[columns[i]], group.row_count)
       THEN Err("corrupt")
       ELSE Then(measured[Len(columns)],
                 LAMBDA f : Require(f.decoded <= Limits.projected, "invalid", Ok(f)))

Ids(groups) == {groups[i].id : i \in DOMAIN groups}
GroupById(groups, id) == groups[CHOOSE i \in DOMAIN groups : groups[i].id = id]

selected_row_groups_for_plan(groups, ids) ==
    IF ~IsInjective(ids) \/ ~(Range(ids) \subseteq Ids(groups)) THEN Err("invalid")
    ELSE Ok([i \in DOMAIN ids |-> GroupById(groups, ids[i])])

selected_resource_footprints_for_plan(groups, ids, columns) ==
    Then(selected_row_groups_for_plan(groups, ids),
         LAMBDA selected :
            Collect([i \in DOMAIN selected |->
                        selected_resource_footprint_for_row_group_desc(selected[i], columns)]))

(***************************************************************************)
(* Admission: "ok" or the error kind that refuses the plan.                 *)
(***************************************************************************)
validate_footprint_totals(f) ==
    Require(f.compressed <= Limits.compressed /\ f.decoded <= Limits.decoded,
            "invalid", Ok(f))

AdmitWindow(fps, skip, count) ==
    Then(CheckedTotal(fps, skip, count), validate_footprint_totals)

validate_owned_plan_resource_limits(fps) == AdmitWindow(fps, 0, Len(fps))

(* The n largest of each dimension, which sorting and taking n computes.    *)
LargestSum(values, n) ==
    Max({MapThenSumSet(LAMBDA i : values[i], S) : S \in kSubset(n, DOMAIN values)})

validate_in_flight_plan_resource_limits(fps, max) ==
    IF fps = <<>> THEN Ok(<<>>) ELSE
    LET n == Min({Max({max, 1}), Len(fps)})
        c == LargestSum([i \in DOMAIN fps |-> fps[i].compressed], n)
        d == LargestSum([i \in DOMAIN fps |-> fps[i].decoded], n)
    IN Require(c <= MaxBytes /\ d <= MaxBytes, "corrupt",
               validate_footprint_totals(Footprint(c, d, 0)))

validate_contiguous_in_flight_plan_resource_limits(fps, max) ==
    LET wave == Max({max, 1})
        waves == (Len(fps) + wave - 1) \div wave
        Skip(k) == (k - 1) * wave
    IN Collect([k \in 1..waves |-> AdmitWindow(fps, Skip(k), Min({wave, Len(fps) - Skip(k)}))])

(* One window is summed; the others follow by subtracting the group that    *)
(* leaves and adding the one that enters.                                   *)
SlideWindow(total, leaving, entering) ==
    IF total.compressed < leaving.compressed \/ total.decoded < leaving.decoded
    THEN Err("corrupt")
    ELSE Then(CheckedAdd(Footprint(total.compressed - leaving.compressed,
                                   total.decoded - leaving.decoded, 0),
                         entering.compressed, entering.decoded),
              validate_footprint_totals)

(* Fault: only the first window is measured.                                *)
SlideFirstWindow(fps, max) ==
    IF fps = <<>> THEN Ok(<<>>)
    ELSE AdmitWindow(fps, 0, Min({Max({max, 1}), Len(fps)}))

validate_sliding_resource_footprints(fps, max) ==
    LET w == Min({Max({max, 1}), Len(fps)})
        window[k \in 0..(Len(fps) - w)] ==
            IF k = 0 THEN AdmitWindow(fps, 0, w)
            ELSE Then(window[k - 1], LAMBDA t : SlideWindow(t, fps[k], fps[k + w]))
    IN IF fps = <<>> THEN Ok(<<>>) ELSE window[Len(fps) - w]

(***************************************************************************)
(* Allocation of reusable slots and of a fixed-binary projection buffer.    *)
(***************************************************************************)
SlotBytes(widths, rows, allowNulls) ==
    FoldLeft(LAMBDA n, w : n + rows * w + (IF allowNulls THEN Ceil8(rows) ELSE 0), 0, widths)

validate_reusable_pool_allocation_resource_limits(widths, rows, slots, allowNulls) ==
    LET slot == SlotBytes(widths, rows, allowNulls)
    IN Require(/\ slot <= Limits.projected
               /\ slot * slots <= MaxBytes
               /\ slot * slots <= Limits.decoded, "invalid", Ok(slot * slots))

validate_fixed_binary_projection_resource_limits(fps, fieldWidths, rows) ==
    Require(/\ rows * fieldWidths <= MaxBytes
            /\ rows * fieldWidths <= Limits.decoded
            /\ \A i \in DOMAIN fps :
                  LET bytes == fps[i].rows * fieldWidths + fps[i].decoded
                  IN bytes <= MaxBytes /\ bytes <= Limits.projected,
            "invalid", Ok(rows * fieldWidths))
=============================================================================
