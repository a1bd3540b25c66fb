---------------------------- MODULE RowGroupRead ----------------------------
(***************************************************************************)
(* Reading the chunks of a row group (column_bundle/execution.rs and        *)
(* materialize.rs, chunk objects of format.rs) in the three ways the        *)
(* reader offers: an owned batch, caller-owned fill buffers, and a reusable *)
(* buffer that keeps what earlier groups left in it, with the fixed-binary  *)
(* field projection on top.  The descriptors are those of an accepted       *)
(* metadata graph (MetadataGraph); the bodies they refer to may have been   *)
(* overwritten since the file was opened.                                   *)
(***************************************************************************)
EXTENDS Integers, Sequences, FiniteSets

CONSTANTS
    StoredColumns,\* sequence of [name, type, nullable]; ids are the indexes
    RowGroups,   \* sequence of row counts; ids are the indexes
    Codec,       \* [group, column] -> "none" or "zstd"
    Nulls,       \* the <<group, column>> with a validity bitmap
    Unchecked,   \* the <<group, column>> whose references carry no checksum
    Cell(_, _, _), \* the value stored at a group, column and row
    Valid(_, _, _),\* the validity bit stored there
    FillRequests,\* sequences of caller buffers
    Projections, \* sequences of column ids a reusable buffer is made for
    FieldSets,   \* sequences of byte offsets, the fields of a projection
    MaxRows,     \* row capacity of caller and projection buffers
    MaxDamage,   \* bound on overwritten bodies
    MaxCalls     \* bound on calls that use the reusable buffers

Groups == DOMAIN RowGroups
StoredIds == DOMAIN StoredColumns
Bodies == Groups \X StoredIds

(* A cell is the bytes of a value; a caller's buffer names a column, by     *)
(* name, by id or both, and brings storage for values and validity bits.    *)
Bytes == Seq(Nat)
FillBuffers == [name : STRING, id : Nat, type : STRING, values : Seq(Bytes),
                bits : Seq(BOOLEAN), allow : BOOLEAN]

(* What the constants must be. *)
ASSUME RowGroupReadAssumption ==
    /\ StoredColumns \in Seq([name : STRING, type : STRING, nullable : BOOLEAN])
    /\ RowGroups \in Seq(Nat)
    /\ \A g \in Groups, c \in StoredIds : \A r \in 1..RowGroups[g] :
          Cell(g, c, r) \in Bytes /\ Valid(g, c, r) \in BOOLEAN
    /\ FillRequests \subseteq Seq(FillBuffers)
    /\ Projections \subseteq Seq(StoredIds)
    /\ FieldSets \subseteq Seq(Nat)
    /\ MaxRows \in Nat /\ MaxDamage \in Nat /\ MaxCalls \in Nat

VARIABLES
    object,  \* chunk bodies: [group, column, rows, values, crc, whole]
    bitmap,  \* validity bodies: a sequence of bits
    damage,  \* bodies overwritten so far
    slot,    \* reusable column buffers: [column, values, bits, allow]
    report,  \* fill report of the slot: [group, rows, filled], or none
    fields,  \* projection buffer: [offsets, values, rows]
    last,    \* result of the last call
    calls

rowVars == <<object, bitmap, damage, slot, report, fields, last, calls>>

Stored(g, c) == [r \in 1..RowGroups[g] |-> Cell(g, c, r)]
StoredBits(g, c) == [r \in 1..RowGroups[g] |-> Valid(g, c, r)]
HasBitmap(g, c) == <<g, c>> \in Nulls
FixedBinary(c) == StoredColumns[c].type = "fixed"

Failed(kind) == [ok |-> FALSE, kind |-> kind]
Delivered(value) == [ok |-> TRUE, value |-> value]
NoReport == [group |-> 0, rows |-> 0, filled |-> <<>>]
NoFields == [offsets |-> <<>>, values |-> <<>>, rows |-> 0]
NoCall == [how |-> "none", group |-> 0, result |-> Failed("none"), before |-> <<>>, after |-> <<>>]

WrittenBody(g, c) == [group |-> g, column |-> c, rows |-> RowGroups[g], values |-> Stored(g, c),
                      crc |-> TRUE, whole |-> TRUE]

RowsInit ==
    /\ object = [b \in Bodies |-> WrittenBody(b[1], b[2])]
    /\ bitmap = [b \in Bodies |-> StoredBits(b[1], b[2])]
    /\ damage = 0
    /\ slot = <<>>
    /\ report = NoReport
    /\ fields = NoFields
    /\ last = NoCall
    /\ calls = 0

Reversed(s) == [i \in DOMAIN s |-> s[Len(s) + 1 - i]]
Flipped(bits) == [i \in DOMAIN bits |-> ~bits[i]]

(* A body changes under the reader: bytes flipped, the body of another      *)
(* chunk in its place, a self-consistent body with other values, a file cut *)
(* short, or a bitmap with other bits.                                      *)
Overwrite ==
    /\ damage < MaxDamage
    /\ damage' = damage + 1
    /\ \E b \in Bodies :
        \/ /\ \/ object' = [object EXCEPT ![b].values = Reversed(@), ![b].crc = FALSE]
              \/ \E other \in Bodies \ {b} : object' = [object EXCEPT ![b] = object[other]]
              \/ object' = [object EXCEPT ![b].values = Reversed(@)]
              \/ object' = [object EXCEPT ![b].whole = FALSE]
           /\ UNCHANGED bitmap
        \/ /\ HasBitmap(b[1], b[2])
           /\ bitmap' = [bitmap EXCEPT ![b] = Flipped(@)]
           /\ UNCHANGED object
    /\ UNCHANGED <<slot, report, fields, last, calls>>

----------------------------------------------------------------------------
(***************************************************************************)
(* Chunk bodies.  The checksum of a reference is that of the body it was    *)
(* written for; the object also carries its own.                            *)
(***************************************************************************)
ReferenceMatches(g, c) == <<g, c>> \in Unchecked \/ object[<<g, c>>] = WrittenBody(g, c)
BitmapMatches(g, c) == <<g, c>> \in Unchecked \/ bitmap[<<g, c>>] = StoredBits(g, c)

(* FAULT: the object at the chunk's place is taken for the chunk's.         *)
HeaderUnmatched(g, c) == object[<<g, c>>].whole

(* validate_column_chunk_object_header, before every payload is read.       *)
HeaderMatches(g, c) ==
    LET o == object[<<g, c>>]
    IN  o.whole /\ o.group = g /\ o.column = c /\ o.rows = RowGroups[g]

(* read_column_chunk_from_reader, read_from_bytes and                       *)
(* validate_and_decode_chunk_object: a payload or an error.                 *)
ReadChunk(g, c) ==
    IF HeaderMatches(g, c) /\ ReferenceMatches(g, c) /\ object[<<g, c>>].crc
    THEN Delivered(object[<<g, c>>].values) ELSE Failed("corrupt")

(* read_validity_bitmap                                                     *)
ReadBitmap(g, c) ==
    IF ~HasBitmap(g, c) THEN Delivered(<<>>)
    ELSE IF BitmapMatches(g, c) THEN Delivered(bitmap[<<g, c>>]) ELSE Failed("corrupt")

(* read_column_array: values and validity of one column.                    *)
read_column_array(g, c) ==
    IF ReadChunk(g, c).ok /\ ReadBitmap(g, c).ok
    THEN Delivered([column |-> c, values |-> ReadChunk(g, c).value,
             validity |-> ReadBitmap(g, c).value])
    ELSE Failed("corrupt")

(* read_row_group: the columns of a projection, all or none.                *)
read_row_group(g, ids) ==
    IF g \notin Groups \/ \E i \in DOMAIN ids : ~read_column_array(g, ids[i]).ok
    THEN Failed("corrupt")
    ELSE Delivered([i \in DOMAIN ids |-> read_column_array(g, ids[i]).value])

(* read_row_group_with_attribution counts what it materialised as well.     *)
read_row_group_with_attribution(g, ids) ==
    LET batch == read_row_group(g, ids)
    IN  [batch |-> batch,
         chunks |-> IF batch.ok THEN Len(ids) ELSE 0,
         groups |-> IF batch.ok THEN 1 ELSE 0]

Returns(how, g, result, before, after) ==
    last' = [how |-> how, group |-> g, result |-> result, before |-> before, after |-> after]

(* Owned reads and caller fills touch no reusable buffer, so they are taken *)
(* first, while there is none; the buffers are made once each.              *)
NoBuffers == slot = <<>> /\ fields = NoFields /\ last = NoCall

Call(how, g, result) ==
    /\ calls < MaxCalls
    /\ calls' = calls + 1
    /\ Returns(how, g, result, <<>>, <<>>)

ReadBatch ==
    /\ NoBuffers
    /\ \E g \in Groups, ids \in Projections :
        \/ Returns("owned", g, read_row_group(g, ids), <<>>, <<>>)
        \/ Returns("attributed", g, read_row_group_with_attribution(g, ids).batch, <<>>, <<>>)
    /\ UNCHANGED <<object, bitmap, damage, slot, report, fields, calls>>

----------------------------------------------------------------------------
(***************************************************************************)
(* Fill buffers: [name, id, type, values, bits, allow], with "" and 0 for   *)
(* an absent selector; values and bits are the caller's storage, bits <<>>  *)
(* when it brings none.                                                     *)
(***************************************************************************)
ByName(b) == {c \in StoredIds : b.name = "" \/ StoredColumns[c].name = b.name}
ById(b) == {c \in StoredIds : b.id = 0 \/ c = b.id}

(* resolve_fill_column: name and id must agree, and one must be given.      *)
Resolvable(b) == (b.name # "" \/ b.id # 0) /\ ByName(b) \cap ById(b) # {}
BufferColumn(b) == CHOOSE c \in ByName(b) \cap ById(b) : TRUE

BufferFits(g, b) ==
    /\ Resolvable(b)
    /\ b.type = StoredColumns[BufferColumn(b)].type
    /\ Len(b.values) >= RowGroups[g]
    /\ HasBitmap(g, BufferColumn(b)) => b.allow /\ Len(b.bits) >= RowGroups[g]

(* Every buffer is checked before any chunk is read.                        *)
RequestFits(g, bufs) ==
    /\ bufs # <<>>
    /\ g \in Groups
    /\ \A i \in DOMAIN bufs : BufferFits(g, bufs[i])
    /\ \A i, j \in DOMAIN bufs : i # j => BufferColumn(bufs[i]) # BufferColumn(bufs[j])

(* out[..rows] of a longer buffer; what follows is left alone.              *)
Over(values, storage) == values \o SubSeq(storage, Len(values) + 1, Len(storage))

(* uncompressed_fixed_binary_direct_output: such a chunk is read straight   *)
(* into the buffer, and its checksums are compared afterwards.              *)
Direct(g, c) == FixedBinary(c) /\ Codec[<<g, c>>] = "none"

(* fill_column_buffer: the buffer it leaves, and whether it succeeded.      *)
fill_column_buffer(g, b) ==
    LET c == BufferColumn(b)
        read == ReadChunk(g, c)
        bits == ReadBitmap(g, c)
        values == IF read.ok THEN Over(read.value, b.values)
                  ELSE IF Direct(g, c) /\ HeaderMatches(g, c)
                       THEN Over(object[<<g, c>>].values, b.values)
                       ELSE b.values
    IN  [ok |-> read.ok /\ bits.ok,
         buffer |-> [b EXCEPT !.values = values,
                              !.bits = IF read.ok /\ bits.ok THEN Over(bits.value, b.bits)
                                       ELSE @]]

FirstFailure(g, bufs) ==
    LET failing == {i \in DOMAIN bufs : ~fill_column_buffer(g, bufs[i]).ok}
    IN  IF failing = {} THEN Len(bufs) + 1
        ELSE CHOOSE i \in failing : \A j \in failing : i <= j

(* FAULT: buffers are checked one by one as they are filled.                *)
FillWhileChecking(g, bufs) ==
    LET bad == {i \in DOMAIN bufs : ~BufferFits(g, bufs[i])}
    IN  IF bufs = <<>> \/ g \notin Groups \/ 1 \in bad
        THEN [result |-> Failed("invalid"), buffers |-> bufs]
        ELSE [result |-> IF bad # {} THEN Failed("invalid")
                         ELSE IF FirstFailure(g, bufs) <= Len(bufs) THEN Failed("corrupt")
                         ELSE Delivered([i \in DOMAIN bufs |-> HasBitmap(g, BufferColumn(bufs[i]))]),
              buffers |-> [i \in DOMAIN bufs |->
                             IF i \notin bad /\ \A j \in bad : i < j
                             THEN fill_column_buffer(g, bufs[i]).buffer ELSE bufs[i]]]

(* read_row_group_into: [result, buffers]; the result of a success says for *)
(* each buffer whether its validity was filled.                             *)
read_row_group_into(g, bufs) ==
    IF ~RequestFits(g, bufs) THEN [result |-> Failed("invalid"), buffers |-> bufs]
    ELSE LET stop == FirstFailure(g, bufs)
         IN  [result |-> IF stop <= Len(bufs) THEN Failed("corrupt")
                         ELSE Delivered([i \in DOMAIN bufs |-> HasBitmap(g, BufferColumn(bufs[i]))]),
              buffers |-> [i \in DOMAIN bufs |->
                             IF i <= stop THEN fill_column_buffer(g, bufs[i]).buffer
                             ELSE bufs[i]]]

FillCaller ==
    /\ NoBuffers
    /\ \E g \in Groups, bufs \in FillRequests :
          LET filled == read_row_group_into(g, bufs)
          IN  Returns("fill", g, filled.result, bufs, filled.buffers)
    /\ UNCHANGED <<object, bitmap, damage, slot, report, fields, calls>>

----------------------------------------------------------------------------
(***************************************************************************)
(* Reusable buffers: one slot of a pool.                                    *)
(***************************************************************************)
Resize(s, n, zero) == [i \in 1..n |-> IF i <= Len(s) THEN s[i] ELSE zero]

(* ColumnBundleReusableColumnBuffer::for_column                             *)
for_column(c, rows, allow) ==
    [column |-> c, values |-> Resize(<<>>, rows, <<>>), allow |-> allow,
     bits |-> IF allow THEN Resize(<<>>, rows, FALSE) ELSE <<>>]

MakeSlot ==
    /\ slot = <<>>
    /\ \E ids \in Projections, rows \in 0..MaxRows, allow \in BOOLEAN :
          /\ slot' = [i \in DOMAIN ids |-> for_column(ids[i], rows, allow)]
          /\ Call("make", 0, Delivered(<<>>))
    /\ report' = NoReport
    /\ UNCHANGED <<object, bitmap, damage, fields>>

prepare_for_rows(b, rows) ==
    [b EXCEPT !.values = Resize(@, rows, <<>>),
              !.bits = IF b.allow THEN Resize(@, rows, FALSE) ELSE <<>>]

as_fill_buffer(b) ==
    [name |-> StoredColumns[b.column].name, id |-> b.column, type |-> StoredColumns[b.column].type,
     values |-> b.values, bits |-> b.bits, allow |-> b.allow]

(* read_row_group_into_reusable                                             *)
FillSlot ==
    /\ slot # <<>>
    /\ \E g \in Groups :
        LET prepared == [i \in DOMAIN slot |-> prepare_for_rows(slot[i], RowGroups[g])]
            filled == read_row_group_into(g, [i \in DOMAIN slot |-> as_fill_buffer(prepared[i])])
        IN  /\ slot' = [i \in DOMAIN slot |->
                          [prepared[i] EXCEPT !.values = filled.buffers[i].values,
                                              !.bits = filled.buffers[i].bits]]
            /\ report' = IF filled.result.ok
                         THEN [group |-> g, rows |-> RowGroups[g],
                               filled |-> filled.result.value]
                         ELSE NoReport
            /\ Call("reuse", g, filled.result)
    /\ UNCHANGED <<object, bitmap, damage, fields>>

(* FAULT: validity is shown whenever the buffer has storage for it.         *)
ViewStorage(b, rows, filled) ==
    [column |-> b.column, values |-> SubSeq(b.values, 1, rows),
     validity |-> IF b.allow THEN SubSeq(b.bits, 1, rows) ELSE <<>>]

(* ColumnBundleReusableColumnBuffer::view                                   *)
view(b, rows, filled) ==
    [column |-> b.column, values |-> SubSeq(b.values, 1, rows),
     validity |-> IF filled THEN SubSeq(b.bits, 1, rows) ELSE <<>>]

BatchView == [i \in DOMAIN slot |-> view(slot[i], report.rows, report.filled[i])]

(***************************************************************************)
(* Fixed-binary projection.  A record is a sequence of bytes; a field is    *)
(* the byte at its offset (field types only differ in width).               *)
(***************************************************************************)
RecordWidth(v) == Len(v)

MakeFields ==
    /\ fields = NoFields
    /\ \E offsets \in FieldSets, rows \in 0..MaxRows :
          fields' = [offsets |-> offsets, rows |-> 0,
                     values |-> [f \in DOMAIN offsets |-> Resize(<<>>, rows, 0)]]
    /\ Call("make", 0, Delivered(<<>>))
    /\ UNCHANGED <<object, bitmap, damage, slot, report>>

(* project_fields_inner: checked and filled field by field.                 *)
FieldFits(v, offset, out) ==
    /\ \A r \in DOMAIN v : offset < RecordWidth(v[r])
    /\ Len(out) >= Len(v)

project_records(v) ==
    LET bad == {f \in DOMAIN fields.offsets :
                  ~FieldFits(v, fields.offsets[f], fields.values[f])}
        upTo == IF bad = {} THEN Len(fields.offsets)
                ELSE (CHOOSE f \in bad : \A h \in bad : f <= h) - 1
        project(f) == Over([r \in DOMAIN v |-> v[r][fields.offsets[f] + 1]], fields.values[f])
    IN  [ok |-> bad = {},
         buffer |-> [fields EXCEPT
                       !.values = [f \in DOMAIN @ |-> IF f <= upTo THEN project(f) ELSE @[f]],
                       !.rows = IF bad = {} THEN Len(v) ELSE @]]

(* project_fixed_binary_reusable_batch, on the batch of the slot.           *)
Project ==
    /\ report # NoReport
    /\ fields # NoFields
    /\ \E i \in DOMAIN slot :
          /\ FixedBinary(slot[i].column)
          /\ LET shown == BatchView[i]
                 done == project_records(shown.values)
             IN  IF shown.validity # <<>>
                 THEN Call("project", report.group, Failed("invalid"))
                      /\ UNCHANGED fields
                 ELSE /\ fields' = done.buffer
                      /\ Call("project", report.group,
                              IF done.ok
                              THEN Delivered([column |-> slot[i].column,
                                       fields |-> [f \in DOMAIN fields.offsets |->
                                           SubSeq(done.buffer.values[f], 1, done.buffer.rows)]])
                              ELSE Failed("invalid"))
    /\ UNCHANGED <<object, bitmap, damage, slot, report>>

RowsNext ==
    \/ Overwrite \/ ReadBatch \/ FillCaller \/ MakeSlot \/ FillSlot \/ MakeFields \/ Project

RowsSpec == RowsInit /\ [][RowsNext]_rowVars

----------------------------------------------------------------------------
(* Data shown for a column of a group is what was stored.  A body whose     *)
(* references carry no checksum may be a later one, but of the same chunk.  *)
Faithful(g, c, values, validity) ==
    IF <<g, c>> \in Unchecked
    THEN {values[r] : r \in DOMAIN values} = {Cell(g, c, r) : r \in 1..RowGroups[g]}
    ELSE /\ values = Stored(g, c)
         /\ validity = IF HasBitmap(g, c) THEN StoredBits(g, c) ELSE <<>>

(* Data that reaches the caller is the data of the group it asked for: an   *)
(* owned batch and filled caller buffers hold the values and validity       *)
(* stored for every column, even though bodies were overwritten, swapped or *)
(* cut after the file was opened (read_row_group, read_row_group_into).     *)
ReadsAreFaithful ==
    last.result.ok =>
        /\ last.how \in {"owned", "attributed"} =>
             \A i \in DOMAIN last.result.value :
                 LET a == last.result.value[i]
                 IN  Faithful(last.group, a.column, a.values, a.validity)
        /\ last.how = "fill" =>
             \A i \in DOMAIN last.after :
                 LET b == last.after[i]
                     rows == RowGroups[last.group]
                     c == BufferColumn(b)
                 IN  Faithful(last.group, c, SubSeq(b.values, 1, rows),
                              IF last.result.value[i] THEN SubSeq(b.bits, 1, rows) ELSE <<>>)

(* A reusable buffer shows nothing of an earlier group: whatever larger,    *)
(* nullable or failed fill used it before, the view of a reported fill has  *)
(* exactly the rows, values and validity of its group, and so have the      *)
(* fields projected from it (prepare_for_rows, view, project_records).      *)
ReusedBuffersShowOneGroup ==
    /\ report # NoReport =>
         \A i \in DOMAIN slot :
             LET v == BatchView[i]
             IN  Faithful(report.group, v.column, v.values, v.validity)
    /\ last.how = "project" /\ last.result.ok =>
         LET c == last.result.value.column
         IN  <<last.group, c>> \notin Unchecked =>
               \A f \in DOMAIN fields.offsets :
                  last.result.value.fields[f] =
                     [r \in 1..RowGroups[last.group] |->
                         Cell(last.group, c, r)[fields.offsets[f] + 1]]

(* "validates all requested buffers ... before reading selected payload     *)
(* chunks": a fill refused for the caller's buffers has written into none   *)
(* of them, and no refused or failed fill writes past the rows of the       *)
(* group (read_row_group_into, fill_column_buffer).                         *)
RefusedFillsLeaveBuffers ==
    last.how = "fill" =>
        /\ ~last.result.ok /\ last.result.kind = "invalid" => last.after = last.before
        /\ \A i \in DOMAIN last.after : \A r \in DOMAIN last.after[i].values :
              r > RowGroups[last.group] => last.after[i].values[r] = last.before[i].values[r]
=============================================================================
