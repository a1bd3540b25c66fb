----------------------------- MODULE MCReading -----------------------------
(***************************************************************************)
(* Planning a read and reading one row group, each checked by itself:      *)
(* `part' says which one runs, and the other one rests.                    *)
(***************************************************************************)
EXTENDS ReadPlanning, RowGroupRead

VARIABLE part

(***************************************************************************)
(* Planning.                                                               *)
(***************************************************************************)
MCColumns == << [name |-> "t", type |-> "i64", width |-> 2],
                [name |-> "p", type |-> "f64", width |-> 2],
                [name |-> "b", type |-> "binary", width |-> 1] >>

MCLimits == [object |-> 10, compressedChunk |-> 8, decompressedChunk |-> 8,
             projected |-> 18, compressed |-> 16, decoded |-> 20]

(* Row groups: rows of (t, p), the columns with statistics and their        *)
(* bounds, and chunks of two sizes.                                         *)
Bounds(lo, hi) == [min |-> lo, max |-> hi]
Chunk(size, validity) == [object |-> 2 + size, decoded |-> size, validity |-> validity]
Group(rows, stats, size, nulls) ==
    [row_count |-> Len(rows), rows |-> rows, stats |-> stats,
     chunks |-> (1 :> Chunk(size, 0) @@ 2 :> Chunk(size, nulls) @@ 3 :> Chunk(1, 0))]

EarlyRows == << <<0, 0>>, <<1, 1>> >>
MixedRows == << <<1, Null>>, <<2, NaN>> >>
LateRows == << <<2, 1>> >>

MCGroups == { Group(EarlyRows, (1 :> Bounds(0, 1) @@ 2 :> Bounds(0, 1)), 2, 0),
              Group(EarlyRows, <<>>, 6, 0),
              Group(MixedRows, (1 :> Bounds(1, 2) @@ 2 :> Bounds(NaN, NaN)), 4, 1),
              Group(LateRows, (1 :> Bounds(2, 2)), 6, 0) }
OversizedGroup == Group(LateRows, (1 :> Bounds(2, 2) @@ 2 :> Bounds(1, 1)), 9, 0)

GroupIds == <<5, 3, 9>>
Snapshot(groups) == [keys |-> <<1, 3>>, groups |-> [i \in DOMAIN groups |->
    [id |-> GroupIds[i], row_count |-> groups[i].row_count, rows |-> groups[i].rows,
     stats |-> groups[i].stats, chunks |-> groups[i].chunks]]]
MCFiles == {Snapshot(groups) : groups \in UNION {[1..n -> MCGroups] : n \in 0..3}}
    \union {Snapshot(<<OversizedGroup, g>>) : g \in MCGroups}
MCOtherFiles == {Snapshot(<<Group(EarlyRows, <<>>, 8, 0)>>)}

Bound(type, v) == [type |-> type, value |-> v]
None == Bound("none", 0)
Predicate(c, lower, upper) == [column |-> c, lower |-> lower, upper |-> upper]
Options(checksums, decode, threads) ==
    [validate_checksums |-> checksums, decode_dictionaries |-> decode, threads |-> threads]
Request(projection, predicates, options) ==
    [projection |-> projection, predicates |-> predicates, options |-> options]

MCPredicates == { <<>>,
    <<Predicate("t", Bound("i64", 1), None)>>,
    <<Predicate("t", None, Bound("i64", 1)), Predicate("p", Bound("f64", 1), None)>>,
    <<Predicate("p", None, Bound("f64", 0))>>,
    <<Predicate("p", Bound("f64", NaN), Bound("f64", 1))>>,
    <<Predicate("t", Bound("i64", 2), Bound("i64", 1))>>,
    <<Predicate("b", Bound("binary", 0), None)>>,
    <<Predicate("q", Bound("i64", 0), None)>> }

MCRequests ==
    {Request(<<"*">>, ps, Options(TRUE, FALSE, 2)) : ps \in MCPredicates}
    \union {Request(<<"p">>, <<>>, Options(TRUE, FALSE, 3)),
            Request(<<"p", "p">>, <<>>, Options(TRUE, FALSE, 2)),
            Request(<<"t">>, <<>>, Options(FALSE, FALSE, 2)),
            Request(<<>>, <<>>, Options(TRUE, FALSE, 0))}

Range1(key, lower, upper) == [key |-> key, lower |-> lower, upper |-> upper]
MCKeyRanges == { <<>>, <<Range1(1, Bound("i64", 2), None)>>,
                 <<Range1(2, None, Bound("i64", 1))>>,
                 <<Range1(1, None, Bound("i64", 1)), Range1(1, Bound("i64", 0), None)>> }

MCSubsets == { <<>>, <<9, 5>>, <<3, 9, 5>>, <<5, 5>> }

(***************************************************************************)
(* Row groups: two of different sizes, an integer column with a bitmap in  *)
(* the first and a fixed-binary column with one in the second, stored      *)
(* plain in one group and compressed in the other.                         *)
(***************************************************************************)
MCStoredColumns == <<[name |-> "k", type |-> "i32", nullable |-> TRUE],
                     [name |-> "v", type |-> "fixed", nullable |-> TRUE]>>
MCRowGroups == <<2, 1>>
MCCodec == [b \in (1..2) \X (1..2) |-> IF b = <<2, 1>> \/ b = <<2, 2>> THEN "zstd" ELSE "none"]
MCNulls == {<<1, 1>>, <<2, 2>>}
MCUnchecked == {<<2, 1>>}
MCCell(g, c, r) == IF c = 1 THEN <<10 * g + r>> ELSE <<10 * g + r, 100 + 10 * g + r>>
MCValid(g, c, r) == r # 1

Cells(n, zero) == [i \in 1..n |-> zero]
Buffer(name, id, type, rows, bits, allow) ==
    [name |-> name, id |-> id, type |-> type, values |-> Cells(rows, <<>>),
     bits |-> Cells(bits, TRUE), allow |-> allow]
KeyBuffers == {Buffer("k", 0, "i32", 2, 2, TRUE), Buffer("", 1, "i32", 2, 0, FALSE),
               Buffer("k", 1, "i32", 1, 2, TRUE), Buffer("k", 1, "i32", 2, 1, TRUE),
               Buffer("k", 2, "i32", 2, 2, TRUE), Buffer("", 0, "i32", 2, 2, TRUE)}
PayloadBuffers == {Buffer("v", 0, "fixed", 2, 0, FALSE), Buffer("", 2, "fixed", 1, 0, FALSE),
                   Buffer("v", 2, "i32", 2, 0, FALSE), Buffer("x", 0, "fixed", 2, 0, FALSE)}
AnyBuffer == KeyBuffers \cup PayloadBuffers
MCFillRequests == {<<>>} \cup {<<b>> : b \in AnyBuffer} \cup {<<a, b>> : a, b \in AnyBuffer}
MCProjections == {<<1>>, <<2>>, <<2, 1>>}
MCFieldSets == {<<1>>, <<1, 0>>, <<0, 2>>}

-----------------------------------------------------------------------------
MCInit ==
    \/ part = "planning" /\ Init /\ RowsInit
    \/ part = "row groups" /\ snapshot = Snapshot(<<>>) /\ Init /\ RowsInit

MCNext ==
    \/ part = "planning" /\ Next /\ UNCHANGED <<part, rowVars>>
    \/ part = "row groups" /\ RowsNext /\ UNCHANGED <<part, vars>>

MCSpec == MCInit /\ [][MCNext]_<<part, vars, rowVars>>
=============================================================================
