--------------------------- MODULE MetadataGraph ---------------------------
(***************************************************************************)
(* Opening one snapshot of a column-bundle file (ocb-core read.rs): the     *)
(* metadata objects of a root are loaded, a row-group index delta is        *)
(* applied to its base index, and the graph of schema, dictionaries, row    *)
(* groups, chunk descriptors, statistics, ordering proof and key tuples is  *)
(* validated before anything is read through it.                            *)
(*                                                                          *)
(* A file is the content of its decoded metadata objects; their checksums   *)
(* are RootSelection's concern.  Any content may arrive here, because a     *)
(* checksum only says that the bytes are those some writer produced.        *)
(***************************************************************************)
EXTENDS Integers, Sequences, FiniteSets, Functions

CONSTANTS
    Written,        \* snapshots as the writer publishes them
    Alterations(_), \* the files that differ from a given one in one field
    MaxAlterations, \* bound on the fields that differ from a written snapshot
    ValidationModes,\* subset of {"metadata", "full"}: OcbOpenValidationMode
    Width,          \* physical type -> value bytes of a primitive column
    ChunkHeader,    \* encoded bytes of a chunk object around its payload
    MaxU64,         \* largest u64
    MaxObject,      \* max_encoded_object_bytes
    MaxCompressed,  \* max_compressed_chunk_bytes
    MaxDecompressed,\* max_decompressed_chunk_bytes
    MaxAuxiliary,   \* max_owned_selected_compressed_bytes
    Budgets         \* metadata materialisation budgets a caller may set, in descriptors

(***************************************************************************)
(* What the decoders of the metadata objects yield: a reference is          *)
(* [body, kind, inFile, bytes, intact], where kind "unknown" is the null    *)
(* reference; the name of a column is an index into the string table and    *)
(* its dict is 0 for OCB_NULL_U32.                                          *)
(***************************************************************************)
BodyRefs == [body : Nat, kind : STRING, inFile : BOOLEAN, bytes : Nat, intact : BOOLEAN]
ColumnDescs == [id : Nat, name : Nat, type : STRING, width : Nat, nullable : BOOLEAN,
                coded : BOOLEAN, dict : Nat]
DictionaryDescs == [id : Nat, name : Nat, code : STRING, kind : STRING, entries : Nat,
                    values : [kind : STRING, entries : Nat, ref : BodyRefs]]
GroupDescs == [id : Nat, base : Nat, rows : Nat, chunkBegin : Nat, chunkCount : Nat,
               statBegin : Nat, statCount : Nat, key : BodyRefs]
ChunkDescs == [group : Nat, column : Nat, type : STRING, codec : STRING, rows : Nat, bytes : Nat,
               decoded : Nat, ref : BodyRefs, validity : BodyRefs,
               object : [group : Nat, column : Nat, type : STRING, codec : STRING, rows : Nat,
                         bytes : Nat]]
StatDescs == [group : Nat, column : Nat, type : STRING]
GroupProofs == [id : Nat, key : BodyRefs]
OrderingProofs == [keys : Seq(Nat), groups : Seq(GroupProofs)]
Indexes == [groups : Seq(GroupDescs), chunks : Seq(ChunkDescs), stats : Seq(StatDescs),
            flags : Nat]
Deltas == [bases : [groups : Nat, chunks : Nat, stats : Nat, proofs : Nat], flags : Nat,
           groups : Seq(GroupDescs), chunks : Seq(ChunkDescs), stats : Seq(StatDescs),
           keys : Seq(Nat), proofs : Seq(GroupProofs)]
SnapshotRoots == [first : BOOLEAN, previous : Nat, generation : Nat, rows : Nat, groups : Nat,
                  columns : Nat, chunks : Nat, dictionaries : Nat, appendRow : Nat,
                  appendRows : Nat, appendGroup : Nat, appendGroups : Nat, key : BodyRefs]
DecodedFiles == [version : {1, 2}, columns : Seq(ColumnDescs), strings : Seq(STRING),
                 dictionaries : Seq(Seq(DictionaryDescs)), root : SnapshotRoots, base : Indexes,
                 delta : Seq(Deltas), proof : Seq(OrderingProofs)]

(* What the constants must be. *)
ASSUME MetadataGraphAssumption ==
    /\ Written \subseteq DecodedFiles
    /\ MaxU64 \in Nat /\ ChunkHeader \in Nat /\ MaxObject \in Nat /\ MaxCompressed \in Nat
    /\ MaxDecompressed \in Nat /\ MaxAuxiliary \in Nat /\ Budgets \subseteq Nat

VARIABLES
    file,       \* content of the file being opened
    alterations,\* fields changed in it since it was written
    mode,       \* the caller's validation mode and metadata budget
    phase,      \* the validation step about to run
    index,      \* row-group index: [groups, chunks, stats, flags]
    proof,      \* ordering proof, a sequence of at most one
    budget,     \* descriptors charged to the metadata budget
    expected,   \* [base, chunk, stat]: the running expectations of the group loop
    position,   \* groups already validated
    validated,  \* auxiliary references whose body was read
    verdict     \* "none", "open", "corrupt" or "limit"

openVars == <<file, alterations, mode, phase, index, proof, budget, expected, position,
              validated, verdict>>

(* The bootstrap magic tells a version 1 file from an appendable one.       *)
version == file.version
Distinct(s) == \A i, j \in DOMAIN s : s[i] = s[j] => i = j
FieldValues(s, f) == [i \in DOMAIN s |-> s[i][f]]
Overflows(n) == n > MaxU64
Slice(s, begin, count) == SubSeq(s, begin + 1, begin + count)

RowTotal(groups) ==
    SumFunctionOnSet([i \in DOMAIN groups |-> groups[i].rows], DOMAIN groups)

Primitive(column) == column.type # "fixed"
WidthKnown(column) == IF Primitive(column) THEN column.width = 0 ELSE column.width > 0
value_byte_width(column) == IF Primitive(column) THEN Width[column.type] ELSE column.width
ColumnIds == {c.id : c \in Range(file.columns)}
ColumnOf(id) == CHOOSE c \in Range(file.columns) : c.id = id

IsNull(ref) == ref.kind = "unknown"
RefValid(ref, kind) == ~IsNull(ref) /\ ref.kind = kind /\ ref.inFile

(* visit_auxiliary_object_references: what the open must read besides the   *)
(* chunks, with the kind each reference has to have.                        *)
DictionaryRefs ==
    {d.values.ref : d \in UNION {Range(dicts) : dicts \in Range(file.dictionaries)}}
GroupKeyTuples == {g.key : g \in Range(index.groups)}
ProofKeyTuples == {p.key : p \in UNION {Range(pr.groups) : pr \in Range(proof)}}
RootKeyTuples == IF version = 2 THEN {file.root.key} ELSE {}
KeyTupleRefs ==
    {r \in GroupKeyTuples \cup ProofKeyTuples \cup RootKeyTuples : ~IsNull(r)}
TotalBytes(refs) == SumFunctionOnSet([r \in refs |-> r.bytes], refs)

----------------------------------------------------------------------------
Conclude(result) ==
    /\ verdict' = result
    /\ phase' = "done"

Refuse(result) ==
    /\ Conclude(result)
    /\ UNCHANGED <<file, alterations, mode, index, proof, budget, expected, position, validated>>

OpenInit ==
    /\ file \in Written
    /\ alterations = 0
    /\ mode \in [validation : ValidationModes, budget : Budgets]
    /\ phase = "load"
    /\ index = [groups |-> <<>>, chunks |-> <<>>, stats |-> <<>>, flags |-> 0]
    /\ proof = <<>>
    /\ budget = 0
    /\ expected = [base |-> 0, chunk |-> 0, stat |-> 0]
    /\ position = 0
    /\ validated = {}
    /\ verdict = "none"

(* Another writer, or damage no checksum covers, left the file different.   *)
Alter ==
    /\ phase = "load"
    /\ alterations < MaxAlterations
    /\ alterations' = alterations + 1
    /\ file' \in Alterations(file)
    /\ file' \in DecodedFiles
    /\ UNCHANGED <<mode, phase, index, proof, budget, expected, position, validated, verdict>>

(* read_metadata_objects: the retained descriptors are charged as parsed.   *)
Descriptors(part) == Len(part.groups) + Len(part.chunks) + Len(part.stats)

Load ==
    LET cost == Descriptors(file.base) + Len(file.columns)
    IN  /\ phase = "load"
        /\ \/ /\ cost > mode.budget
              /\ Refuse("limit")
           \/ /\ cost <= mode.budget
              /\ index' = file.base
              /\ proof' = file.proof
              /\ budget' = cost
              /\ phase' = IF version = 2 THEN "delta" ELSE "counts"
              /\ UNCHANGED <<file, alterations, mode, expected, position, validated, verdict>>

(***************************************************************************)
(* apply_row_group_index_delta.  A delta is a sequence of at most one       *)
(* [bases, flags, groups, chunks, stats, keys, proofs]; bases holds the     *)
(* counts of groups, chunks, stats and proofs it was computed against.      *)
(***************************************************************************)
BaseCountsMatch(delta) ==
    /\ Len(index.groups) = delta.bases.groups
    /\ Len(index.chunks) = delta.bases.chunks
    /\ Len(index.stats) = delta.bases.stats

OrderingDeltaMatches(delta) ==
    IF delta.proofs = <<>>
    THEN delta.bases.proofs = 0 /\ delta.keys = <<>>
    ELSE /\ delta.bases.proofs = delta.bases.groups
         /\ Len(delta.proofs) = Len(delta.groups)
         /\ proof # <<>>
         /\ Len(proof[1].groups) = delta.bases.proofs
         /\ proof[1].keys = delta.keys

(* Charged once as parsed, whatever the relation to the base, and once for  *)
(* the destination the descriptors are moved to.                            *)
DeltaCost(delta) == Descriptors(delta) + Len(delta.proofs)

ApplyDelta ==
    /\ phase = "delta"
    /\ \/ /\ file.delta = <<>>
          /\ phase' = "root"
          /\ UNCHANGED <<file, alterations, mode, index, proof, budget, expected, position,
                         validated, verdict>>
       \/ \E delta \in Range(file.delta) :
            LET parsed == budget + DeltaCost(delta)
                moved == parsed + DeltaCost(delta)
                fits == /\ BaseCountsMatch(delta)
                        /\ delta.flags = index.flags
                        /\ OrderingDeltaMatches(delta)
            IN  \/ parsed > mode.budget /\ Refuse("limit")
                \/ parsed <= mode.budget /\ ~fits /\ Refuse("corrupt")
                \/ parsed <= mode.budget /\ fits /\ moved > mode.budget /\ Refuse("limit")
                \/ /\ fits /\ moved <= mode.budget
                   /\ index' = [index EXCEPT !.groups = @ \o delta.groups,
                                             !.chunks = @ \o delta.chunks,
                                             !.stats = @ \o delta.stats]
                   /\ proof' = IF delta.proofs = <<>> THEN proof
                               ELSE <<[proof[1] EXCEPT !.groups = @ \o delta.proofs]>>
                   /\ budget' = moved
                   /\ phase' = "root"
                   /\ UNCHANGED <<file, alterations, mode, expected, position, validated, verdict>>

(***************************************************************************)
(* validate_v2_root_semantics and validate_root_counts.                     *)
(***************************************************************************)
GenerationFollows(root) ==
    IF root.first THEN root.previous = 0 ELSE root.previous + 1 = root.generation

AppendedGroups(root) ==
    SelectSeq(index.groups, LAMBDA g : g.id >= root.appendGroup
                                       /\ g.id < root.appendGroup + root.appendGroups)

(* FAULT: the end of the appended rows is taken as inclusive.               *)
AppendEndsBeforeTotal(root) ==
    /\ ~Overflows(root.appendRow + root.appendRows)
    /\ root.appendRow + root.appendRows < root.rows
    /\ root.appendGroup + root.appendGroups <= root.groups
    /\ RowTotal(AppendedGroups(root)) = root.appendRows

AppendRangeFits(root) ==
    /\ ~Overflows(root.appendRow + root.appendRows)
    /\ root.appendRow + root.appendRows <= root.rows
    /\ root.appendGroup + root.appendGroups <= root.groups
    /\ root.appendRows = 0 \/ root.appendGroups = 0
         => root.first /\ root.rows = 0 /\ root.groups = 0
    /\ RowTotal(AppendedGroups(root)) = root.appendRows

Check(step, next, holds) ==
    /\ phase = step
    /\ \/ ~holds /\ Refuse("corrupt")
       \/ /\ holds
          /\ phase' = next
          /\ UNCHANGED <<file, alterations, mode, index, proof, budget, expected, position,
                         validated, verdict>>

ValidateRootSemantics ==
    Check("root", "counts", GenerationFollows(file.root) /\ AppendRangeFits(file.root))

ChunkCount(root) == IF version = 2 THEN root.chunks ELSE root.columns * root.groups

ValidateRootCounts ==
    Check("counts", "schema",
          /\ file.root.columns = Len(file.columns)
          /\ file.root.groups = Len(index.groups)
          /\ ChunkCount(file.root) = Len(index.chunks)
          /\ IF file.dictionaries = <<>> THEN file.root.dictionaries = 0
             ELSE file.root.dictionaries = Len(file.dictionaries[1])
          /\ ~Overflows(RowTotal(index.groups))
          /\ RowTotal(index.groups) = file.root.rows)

ValidateSchema ==
    Check("schema", "preflight",
          /\ Distinct(FieldValues(file.columns, "id"))
          /\ \A c \in Range(file.columns) :
                /\ c.name \in DOMAIN file.strings
                /\ WidthKnown(c)
                /\ c.coded => c.dict # 0 /\ Primitive(c)
          /\ Distinct([i \in DOMAIN file.columns |->
                          file.strings[file.columns[i].name]]))

(* The open-scoped cache: every reference is checked before any is charged, *)
(* and equal references are charged once.                                   *)
Preflight ==
    LET sound == /\ \A r \in DictionaryRefs : RefValid(r, "dictionary")
                 /\ \A r \in KeyTupleRefs : RefValid(r, "keys")
    IN  /\ phase = "preflight"
        /\ \/ ~sound /\ Refuse("corrupt")
           \/ /\ sound /\ TotalBytes(DictionaryRefs \cup KeyTupleRefs) > MaxAuxiliary
              /\ Refuse("limit")
           \/ /\ sound /\ TotalBytes(DictionaryRefs \cup KeyTupleRefs) <= MaxAuxiliary
              /\ phase' = "dictionaries"
              /\ UNCHANGED <<file, alterations, mode, index, proof, budget, expected, position,
                             validated, verdict>>

(* A body is read the first time its reference is met.                      *)
BodyCheck(ref) == CASE ref \in validated -> "open"
                    [] ref.bytes > MaxObject -> "limit"
                    [] ref.intact -> "open"
                    [] OTHER -> "corrupt"

ValidateDictionaries ==
    LET dicts == IF file.dictionaries = <<>> THEN <<>> ELSE file.dictionaries[1]
        coded == {c \in Range(file.columns) : c.coded}
        described ==
            /\ Distinct(FieldValues(dicts, "id"))
            /\ \A d \in Range(dicts) : d.name \in DOMAIN file.strings
            /\ Distinct([i \in DOMAIN dicts |-> file.strings[dicts[i].name]])
            /\ \A d \in Range(dicts) : d.values.kind = d.kind /\ d.values.entries = d.entries
        resolved ==
            \A c \in coded : \E d \in Range(dicts) : d.id = c.dict /\ d.code = c.type
    IN  /\ phase = "dictionaries"
        /\ \/ /\ ~described \/ ~resolved \/ \E r \in DictionaryRefs : BodyCheck(r) = "corrupt"
              /\ Refuse("corrupt")
           \/ /\ \E r \in DictionaryRefs : BodyCheck(r) = "limit"
              /\ Refuse("limit")
           \/ /\ described /\ resolved /\ \A r \in DictionaryRefs : BodyCheck(r) = "open"
              /\ validated' = validated \cup DictionaryRefs
              /\ phase' = "groups"
              /\ UNCHANGED <<file, alterations, mode, index, proof, budget, expected, position,
                             verdict>>

(***************************************************************************)
(* validate_row_group_graph, one row group per step.                        *)
(***************************************************************************)
GroupDescFollows(g, earlier) ==
    /\ \A e \in earlier : e.id # g.id
    /\ g.base = expected.base
    /\ g.chunkBegin = expected.chunk
    /\ g.statBegin = expected.stat
    /\ ~Overflows(expected.base + g.rows)

ChunksInBounds(g) == g.chunkBegin + g.chunkCount <= Len(index.chunks)
StatsInBounds(g) == g.statBegin + g.statCount <= Len(index.stats)
ChunksOf(g) == Slice(index.chunks, g.chunkBegin, g.chunkCount)
StatsOf(g) == Slice(index.stats, g.statBegin, g.statCount)

(* validate_column_chunk_object_header                                      *)
ChunkHeaderMatches(chunk) ==
    /\ RefValid(chunk.ref, "chunk")
    /\ chunk.ref.bytes >= ChunkHeader
    /\ chunk.object = [group |-> chunk.group, column |-> chunk.column, type |-> chunk.type,
                       codec |-> chunk.codec, rows |-> chunk.rows, bytes |-> chunk.bytes]
    /\ IF chunk.codec = "none" THEN chunk.ref.bytes = ChunkHeader + chunk.bytes
       ELSE chunk.ref.bytes > ChunkHeader

ChunkOverLimit(chunk) ==
    \/ chunk.ref.bytes > MaxObject
    \/ chunk.ref.bytes - ChunkHeader > MaxCompressed
    \/ chunk.bytes > MaxDecompressed

(* validate_column_chunk_object_streaming and the bitmap of a full open.    *)
PayloadsIntact(chunk) ==
    /\ chunk.ref.intact
    /\ chunk.codec = "zstd" => chunk.decoded = chunk.bytes
    /\ ~IsNull(chunk.validity) => chunk.validity.intact

BitmapBytes(rows) == (rows + 7) \div 8

validate_chunk_desc(g, chunk) ==
    /\ chunk.group = g.id
    /\ chunk.column \in ColumnIds
    /\ LET column == ColumnOf(chunk.column)
       IN  /\ chunk.type = column.type
           /\ chunk.rows = g.rows
           /\ chunk.bytes = chunk.rows * value_byte_width(column)
           /\ ~Overflows(chunk.bytes)
           /\ ~IsNull(chunk.validity) => /\ column.nullable
                                         /\ RefValid(chunk.validity, "validity")
                                         /\ chunk.validity.bytes = BitmapBytes(chunk.rows)
    /\ ChunkHeaderMatches(chunk)

validate_stat_desc(g, stat) ==
    /\ stat.group = g.id
    /\ stat.column \in ColumnIds
    /\ stat.type = ColumnOf(stat.column).type
    /\ stat.type # "fixed"

GroupSound(g, earlier) ==
    /\ GroupDescFollows(g, earlier)
    /\ ChunksInBounds(g) /\ StatsInBounds(g)
    /\ \A chunk \in Range(ChunksOf(g)) : validate_chunk_desc(g, chunk)
    /\ Distinct(FieldValues(ChunksOf(g), "column"))
    /\ {c.column : c \in Range(ChunksOf(g))} = ColumnIds
    /\ \A stat \in Range(StatsOf(g)) : validate_stat_desc(g, stat)
    /\ Distinct(FieldValues(StatsOf(g), "column"))

KeysOf(ref) == IF IsNull(ref) THEN {} ELSE {ref}

(* Limits and damage met while the chunks of a sound group are visited; the *)
(* first one met decides, and the order of the descriptors is the file's.   *)
GroupFaults(g) ==
    ({BodyCheck(r) : r \in KeysOf(g.key)}
     \cup {IF ChunkOverLimit(c) THEN "limit"
           ELSE IF mode.validation = "full" /\ ~PayloadsIntact(c) THEN "corrupt" ELSE "open"
              : c \in Range(ChunksOf(g))}) \ {"open"}

ValidateRowGroup ==
    /\ phase = "groups"
    /\ position < Len(index.groups)
    /\ LET g == index.groups[position + 1]
           earlier == {index.groups[i] : i \in 1..position}
       IN  \/ ~GroupSound(g, earlier) /\ Refuse("corrupt")
           \/ /\ GroupSound(g, earlier)
              /\ \E fault \in GroupFaults(g) : Refuse(fault)
           \/ /\ GroupSound(g, earlier) /\ GroupFaults(g) = {}
              /\ expected' = [base |-> expected.base + g.rows,
                              chunk |-> expected.chunk + g.chunkCount,
                              stat |-> expected.stat + g.statCount]
              /\ position' = position + 1
              /\ validated' = validated \cup KeysOf(g.key)
              /\ UNCHANGED <<file, alterations, mode, phase, index, proof, budget, verdict>>

(* FAULT: descriptors after the last group's range are ignored.             *)
TailUnchecked == expected.chunk <= Len(index.chunks)

TablesCovered ==
    /\ expected.chunk = Len(index.chunks)
    /\ expected.stat = Len(index.stats)

EndRowGroups ==
    /\ position = Len(index.groups)
    /\ Check("groups", "ordering", TablesCovered)

(***************************************************************************)
(* validate_ordering_graph and the key tuples of the root.                  *)
(***************************************************************************)
OrderingCovers(p) ==
    /\ Len(p.groups) = Len(index.groups)
    /\ \A k \in Range(p.keys) : k \in ColumnIds /\ ColumnOf(k).type # "fixed"
    /\ Distinct(p.keys)
    /\ Distinct(FieldValues(p.groups, "id"))
    /\ {q.id : q \in Range(p.groups)} = {g.id : g \in Range(index.groups)}

ValidateOrdering ==
    LET bodies == {BodyCheck(r) : r \in {k \in ProofKeyTuples \cup RootKeyTuples : ~IsNull(k)}}
        sound == \A p \in Range(proof) : OrderingCovers(p)
    IN  /\ phase = "ordering"
        /\ \/ ~sound /\ Refuse("corrupt")
           \/ sound /\ \E fault \in bodies \ {"open"} : Refuse(fault)
           \/ /\ sound /\ bodies \subseteq {"open"}
              /\ Conclude("open")
              /\ validated' = validated \cup KeyTupleRefs
              /\ UNCHANGED <<file, alterations, mode, index, proof, budget, expected, position>>

OpenNext ==
    \/ Alter
    \/ Load \/ ApplyDelta \/ ValidateRootSemantics \/ ValidateRootCounts \/ ValidateSchema
    \/ Preflight \/ ValidateDictionaries \/ ValidateRowGroup \/ EndRowGroups \/ ValidateOrdering

OpenSpec == OpenInit /\ [][OpenNext]_openVars

----------------------------------------------------------------------------
(* The positions of table s that group i of the index claims as its own.    *)
Claimed(begin, count) == (begin + 1)..(begin + count)
Once(S) == Cardinality(S) = 1

RowsTiled ==
    \A row \in 0..(file.root.rows - 1) :
        Once({i \in DOMAIN index.groups :
                row \in index.groups[i].base..(index.groups[i].base + index.groups[i].rows - 1)})

ChunksTiled ==
    /\ \A i \in DOMAIN index.groups, c \in ColumnIds :
          Once({k \in DOMAIN index.chunks :
                  /\ k \in Claimed(index.groups[i].chunkBegin, index.groups[i].chunkCount)
                  /\ index.chunks[k].group = index.groups[i].id
                  /\ index.chunks[k].column = c})
    /\ \A k \in DOMAIN index.chunks :
          Once({i \in DOMAIN index.groups :
                  k \in Claimed(index.groups[i].chunkBegin, index.groups[i].chunkCount)})

StatsTiled ==
    \A k \in DOMAIN index.stats :
        /\ Once({i \in DOMAIN index.groups :
                   /\ k \in Claimed(index.groups[i].statBegin, index.groups[i].statCount)
                   /\ index.groups[i].id = index.stats[k].group})
        /\ Once({j \in DOMAIN index.stats :
                   /\ index.stats[j].group = index.stats[k].group
                   /\ index.stats[j].column = index.stats[k].column})

ProofTiled ==
    \A p \in Range(proof), i \in DOMAIN index.groups :
        Once({q \in DOMAIN p.groups : p.groups[q].id = index.groups[i].id})

(* An open that succeeds yields an index through which every row, chunk     *)
(* descriptor and statistic is reached exactly once: whatever counts,       *)
(* ranges and ids the base index, its delta and the root carry, row groups  *)
(* tile the rows, each group has one chunk per column and claims no chunk   *)
(* or statistic of another, each statistic is the only one of its group and *)
(* column, and an ordering proof speaks once of every group                 *)
(* (apply_row_group_index_delta, validate_row_group_graph).                 *)
AcceptedGraphTiles ==
    verdict = "open" => RowsTiled /\ ChunksTiled /\ StatsTiled /\ ProofTiled

(* A healthy file is never called corrupt: a snapshot as the writer         *)
(* publishes it, with a delta or without, passes every cross-check of the   *)
(* open in both modes and both versions, unless a limit refuses it.         *)
WrittenFilesOpen == alterations = 0 /\ verdict # "none" => verdict \in {"open", "limit"}
=============================================================================
