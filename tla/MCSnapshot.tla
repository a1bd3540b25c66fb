---------------------------- MODULE MCSnapshot ----------------------------
(***************************************************************************)
(* The two halves of decoding a snapshot, each checked by itself: `part'   *)
(* says which one runs, and the other one rests.                           *)
(*                                                                         *)
(* Objects: objects of up to two records; one damaged word, with or        *)
(* without a fresh checksum, read twice by a budget that is empty, nearly  *)
(* spent or spent.                                                         *)
(*                                                                         *)
(* Graph: snapshots as the writer publishes them, and the same snapshots   *)
(* with one or two fields changed: a count, a range, an id, a reference, a *)
(* missing or a repeated entry.                                            *)
(***************************************************************************)
EXTENDS FormatObjects, MetadataGraph

VARIABLE part

MCAltered == {0, 1, 2, 5, 7, MaxWord}
MCCharges == {0, Limit - 12, Limit}

-----------------------------------------------------------------------------
Null == [body |-> 0, kind |-> "unknown", inFile |-> FALSE, bytes |-> 0, intact |-> FALSE]
Reference(body, kind, bytes) ==
    [body |-> body, kind |-> kind, inFile |-> TRUE, bytes |-> bytes, intact |-> TRUE]

MCWidth == [i32 |-> 4]

TwoColumns == <<[id |-> 1, name |-> 1, type |-> "i32", width |-> 0, nullable |-> TRUE,
                 coded |-> TRUE, dict |-> 7],
                [id |-> 2, name |-> 2, type |-> "fixed", width |-> 2, nullable |-> FALSE,
                 coded |-> FALSE, dict |-> 0]>>
Strings == <<"key", "payload", "codes">>
Dictionaries == <<<<[id |-> 7, name |-> 3, code |-> "i32", kind |-> "text", entries |-> 2,
                     values |-> [kind |-> "text", entries |-> 2,
                                 ref |-> Reference(1, "dictionary", 3)]]>>>>

Chunk(g, rows, c) ==
    LET type == TwoColumns[c].type
        bytes == rows * (IF c = 1 THEN 4 ELSE 2)
        codec == IF c = 1 THEN "zstd" ELSE "none"
    IN  [group |-> g, column |-> c, type |-> type, codec |-> codec, rows |-> rows,
         bytes |-> bytes, decoded |-> bytes,
         ref |-> Reference(100 + 10 * g + c, "chunk", 4 + (IF c = 1 THEN 3 ELSE bytes)),
         validity |-> IF c = 1 /\ g = 1 THEN Reference(200, "validity", 1) ELSE Null,
         object |-> [group |-> g, column |-> c, type |-> type, codec |-> codec,
                     rows |-> rows, bytes |-> bytes]]
Stat(g) == [group |-> g, column |-> 1, type |-> "i32"]
Group(g, base, rows) ==
    [id |-> g, base |-> base, rows |-> rows, chunkBegin |-> 2 * g, chunkCount |-> 2,
     statBegin |-> g, statCount |-> 1, key |-> IF g = 0 THEN Reference(2, "keys", 2) ELSE Null]
Proof(g) == [id |-> g, key |-> IF g = 1 THEN Reference(2, "keys", 2) ELSE Null]

Root(rows, groups, appendRow, appendRows, appendGroup, appendGroups) ==
    [first |-> appendGroup = 0, previous |-> IF appendGroup = 0 THEN 0 ELSE 1,
     generation |-> IF appendGroup = 0 THEN 1 ELSE 2,
     rows |-> rows, groups |-> groups, columns |-> 2, chunks |-> 2 * groups,
     dictionaries |-> 1, appendRow |-> appendRow, appendRows |-> appendRows,
     appendGroup |-> appendGroup, appendGroups |-> appendGroups, key |-> Null]

Base == [groups |-> <<Group(0, 0, 2)>>,
         chunks |-> <<Chunk(0, 2, 1), Chunk(0, 2, 2)>>, stats |-> <<Stat(0)>>, flags |-> 0]
Delta == [bases |-> [groups |-> 1, chunks |-> 2, stats |-> 1, proofs |-> 1], flags |-> 0,
          groups |-> <<Group(1, 2, 1)>>, chunks |-> <<Chunk(1, 1, 1), Chunk(1, 1, 2)>>,
          stats |-> <<Stat(1)>>, keys |-> <<1>>, proofs |-> <<Proof(1)>>]

Snapshot(v, root, base, delta, proofs) ==
    [version |-> v, columns |-> TwoColumns, strings |-> Strings,
     dictionaries |-> Dictionaries, root |-> root, base |-> base, delta |-> delta,
     proof |-> proofs]

NoRows == Snapshot(2, Root(0, 0, 0, 0, 0, 0),
                  [groups |-> <<>>, chunks |-> <<>>, stats |-> <<>>, flags |-> 0],
                  <<>>, <<>>)
First == Snapshot(1, Root(2, 1, 0, 2, 0, 1), Base, <<>>,
                  <<[keys |-> <<1>>, groups |-> <<Proof(0)>>]>>)
Appended == Snapshot(2, Root(3, 2, 2, 1, 1, 1), Base, <<Delta>>,
                     <<[keys |-> <<1>>, groups |-> <<Proof(0)>>]>>)
Unordered == Snapshot(2, Root(3, 2, 2, 1, 1, 1), Base,
                      <<[Delta EXCEPT !.bases.proofs = 0, !.keys = <<>>, !.proofs = <<>>]>>,
                      <<>>)

Near(n) == {n + 1} \cup (IF n > 0 THEN {n - 1} ELSE {})
Shortened(s) == {SubSeq(s, 1, Len(s) - 1) : x \in IF s = <<>> THEN {} ELSE {0}}
Doubled(s) == {s \o SubSeq(s, Len(s), Len(s)) : x \in IF s = <<>> THEN {} ELSE {0}}
Resized(s) == Shortened(s) \cup Doubled(s)
DamagedRef(r) == {[r EXCEPT !.intact = FALSE], [r EXCEPT !.bytes = 9], [r EXCEPT !.inFile = FALSE],
                  [r EXCEPT !.kind = "chunk"]}

EditGroup(g) ==
    UNION {{[g EXCEPT !.id = n] : n \in Near(g.id)},
           {[g EXCEPT !.base = n] : n \in Near(g.base)},
           {[g EXCEPT !.rows = n] : n \in Near(g.rows) \cup {MaxU64}},
           {[g EXCEPT !.chunkBegin = n] : n \in Near(g.chunkBegin)},
           {[g EXCEPT !.chunkCount = n] : n \in Near(g.chunkCount)},
           {[g EXCEPT !.statBegin = n] : n \in Near(g.statBegin)},
           {[g EXCEPT !.statCount = n] : n \in Near(g.statCount)}}
EditChunk(c) ==
    UNION {{[c EXCEPT !.group = n, !.object.group = n] : n \in Near(c.group)},
           {[c EXCEPT !.column = n, !.object.column = n] : n \in Near(c.column)},
           {[c EXCEPT !.object.group = @ + 1], [c EXCEPT !.ref.intact = FALSE],
            [c EXCEPT !.decoded = @ + 1], [c EXCEPT !.ref.bytes = 9]}}
EditIndex(x) ==
    UNION {{[x EXCEPT !.groups = s] : s \in Resized(x.groups)},
           {[x EXCEPT !.chunks = s] : s \in Resized(x.chunks)},
           {[x EXCEPT !.stats = s] : s \in Resized(x.stats)},
           UNION {{[x EXCEPT !.groups[i] = g] : g \in EditGroup(x.groups[i])}
                     : i \in DOMAIN x.groups},
           UNION {{[x EXCEPT !.chunks[i] = c] : c \in EditChunk(x.chunks[i])}
                     : i \in DOMAIN x.chunks},
           {[x EXCEPT !.stats[i].group = 1 - @] : i \in DOMAIN x.stats},
           {[x EXCEPT !.flags = 1]}}
EditDelta(d) ==
    UNION {EditIndex(d),
           {[d EXCEPT !.bases.groups = n] : n \in Near(d.bases.groups)},
           {[d EXCEPT !.bases.chunks = n] : n \in Near(d.bases.chunks)},
           {[d EXCEPT !.bases.stats = n] : n \in Near(d.bases.stats)},
           {[d EXCEPT !.bases.proofs = n] : n \in Near(d.bases.proofs)},
           {[d EXCEPT !.proofs = s] : s \in Resized(d.proofs)},
           {[d EXCEPT !.proofs[i].id = 1 - @] : i \in DOMAIN d.proofs},
           {[d EXCEPT !.keys = <<>>], [d EXCEPT !.keys = <<1, 1>>]}}
EditRoot(r) ==
    UNION {{[r EXCEPT !.rows = n] : n \in Near(r.rows)},
           {[r EXCEPT !.groups = n] : n \in Near(r.groups)},
           {[r EXCEPT !.chunks = n] : n \in Near(r.chunks)},
           {[r EXCEPT !.appendRow = n] : n \in Near(r.appendRow) \cup {MaxU64}},
           {[r EXCEPT !.appendRows = n] : n \in Near(r.appendRows)},
           {[r EXCEPT !.appendGroup = n] : n \in Near(r.appendGroup)},
           {[r EXCEPT !.appendGroups = n] : n \in Near(r.appendGroups)},
           {[r EXCEPT !.generation = @ + 1], [r EXCEPT !.dictionaries = 0],
            [r EXCEPT !.key = Reference(3, "keys", 8)],
            [r EXCEPT !.key = [Reference(3, "keys", 2) EXCEPT !.intact = FALSE]]}}
EditProof(p) ==
    UNION {{[p EXCEPT !.groups = s] : s \in Resized(p.groups)},
           {[p EXCEPT !.groups[i].id = 1 - @] : i \in DOMAIN p.groups},
           {[p EXCEPT !.keys = <<2>>], [p EXCEPT !.keys = <<1, 1>>]}}

Edits(f) ==
    UNION {{[f EXCEPT !.base = x] : x \in EditIndex(f.base)},
           UNION {{[f EXCEPT !.delta[i] = d] : d \in EditDelta(f.delta[i])}
                     : i \in DOMAIN f.delta},
           {[f EXCEPT !.root = r] : r \in EditRoot(f.root)},
           UNION {{[f EXCEPT !.proof[i] = p] : p \in EditProof(f.proof[i])}
                     : i \in DOMAIN f.proof},
           {[f EXCEPT !.columns = s] : s \in Shortened(f.columns)},
           {[f EXCEPT !.columns[i].id = 1] : i \in DOMAIN f.columns \ {1}},
           {[f EXCEPT !.columns[i].name = 1] : i \in DOMAIN f.columns \ {1}},
           {[f EXCEPT !.columns[i].dict = 8] : i \in DOMAIN f.columns},
           {[f EXCEPT !.columns[i].coded = FALSE] : i \in DOMAIN f.columns},
           UNION {{[f EXCEPT !.dictionaries[i][1].values.ref = r]
                      : r \in DamagedRef(f.dictionaries[i][1].values.ref)}
                     : i \in DOMAIN f.dictionaries},
           {[f EXCEPT !.dictionaries = <<>>], [f EXCEPT !.proof = <<>>]}}

MCWritten == {NoRows, First, Appended, Unordered}

-----------------------------------------------------------------------------
MCInit ==
    \/ /\ part = "objects" /\ file = NoRows /\ mode = [validation |-> "full", budget |-> 5]
       /\ Init /\ OpenInit
    \/ part = "graph" /\ charged = 0 /\ Init /\ OpenInit

MCNext ==
    \/ part = "objects" /\ Next /\ UNCHANGED <<part, openVars>>
    \/ part = "graph" /\ OpenNext /\ UNCHANGED <<part, vars>>

MCSpec == MCInit /\ [][MCNext]_<<part, vars, openVars>>
=============================================================================
