--------------------------- MODULE FormatObjects ---------------------------
(* The objects of a column bundle file as they are written and read back:   *)
(* a magic, a version, a header, tables of records or a payload, and a       *)
(* checksum at the end.  An object is a sequence of words, one for each      *)
(* field or run of fields that the code treats alike.  Reading an object     *)
(* first checks its structure and only then charges the metadata it will     *)
(* keep to the budget shared by everything one open reads.                   *)
EXTENDS Integers, Sequences, FiniteSets, SequencesExt, FiniteSetsExt, FormatLayouts

CONSTANTS
    MaxWord,        \* the largest value a field can hold; the null id of a column
    Crc,            \* the checksum word: it stands for no value a field can hold
    BadText,        \* a word of a string that is not UTF-8
    Altered,        \* what a damaged word may turn into
    MaxEdits,       \* bound on damaged words, cuts and additions
    MaxRecords,     \* bound on the records of all tables of a written object
    MaxReads,       \* bound on the reads of one object
    Limit,          \* MetadataMaterializationBudget::limit_bytes
    Charges,        \* what the objects read earlier by the same open may have charged
    FileLength,     \* the length of the file
    MaxEncoded,     \* max_compressed_bytes
    MaxDecoded      \* max_decompressed_bytes

ASSUME BudgetAssumption == Limit \in Nat /\ Charges \subseteq 0..Limit
ASSUME WordAssumption == Altered \subseteq 0..MaxWord /\ Crc > MaxWord

VARIABLES
    disk,           \* the object's words with the checksum last, and the words it was made of
    wrote,          \* the object that the writer was given
    charged,        \* MetadataMaterializationBudget::charged_bytes
    result,         \* what the last write or read returned
    edits,          \* damage done
    resealed,       \* the checksum was computed again over damaged words
    reads           \* reads done

vars == <<disk, wrote, charged, result, edits, resealed, reads>>

----------------------------------------------------------------------------
Kinds == DOMAIN Layout
Texts == {"strings", "values"}      \* objects whose table is a list of byte strings
Start == 3                          \* magic, version and header or page length come first
HeaderEnd(kind) == Start + Len(Layout[kind].header)

PrimitiveWidth(physical) == IF physical \in {1, 3} THEN 1 ELSE 2
FixedBinary == 5

Legal(role) ==
    CASE role = "physical" -> 1..5
      [] role = "scalar" -> 1..4
      [] role = "logical" -> 0..5
      [] role \in {"nullability", "codec", "direction", "sum"} -> 0..1
      [] role = "slotid" -> 0..1
      [] role = "nullorder" -> 0..2
      [] role = "dictkind" -> 1..4
      [] role = "body" -> BodyKinds
      [] OTHER -> 0..Crc
UnknownCode(role) == IF role = "codec" THEN "UnsupportedFormat" ELSE "CorruptFile"
Dropped == {"reserved", "count", "bytes"}      \* read and not kept

None == "none"
FirstFault(faults) ==
    IF \A i \in DOMAIN faults : faults[i] = None THEN None
    ELSE faults[Min({i \in DOMAIN faults : faults[i] # None})]
Has(layout, role) == \E i \in DOMAIN layout : layout[i].role = role
At(layout, values, role) == values[CHOOSE i \in DOMAIN layout : layout[i].role = role]
InHead(kind, head, role) == At(Layout[kind].header, head, role)
Total(numbers) == FoldLeft(LAMBDA sum, n : sum + n, 0, numbers)
Keep(layout, words) ==
    [i \in DOMAIN layout |-> IF layout[i].role \in Dropped THEN 0 ELSE words[i]]

----------------------------------------------------------------------------
(* Writing.                                                                 *)

(* The references of a record or header: where each begins.                 *)
Refs(layout) == {i \in DOMAIN layout : layout[i].role = "body"}
is_null(values, i) == values[i - 2] = 0 /\ values[i - 1] = 0 /\ values[i] = 0
RefKindOk(layout, values, i) ==
    \/ values[i] \in layout[i].kinds
    \/ ~layout[i].required /\ is_null(values, i)
RefKindsOk(layout, values) == \A i \in Refs(layout) : RefKindOk(layout, values, i)

ColumnWritable(layout, column) ==
    /\ ~(At(layout, column, "logical") = 3 /\ At(layout, column, "dictionary") = MaxWord)
    /\ (At(layout, column, "physical") = FixedBinary) <=> (At(layout, column, "width") # 0)
StatsAgree(stats) == stats[4] = stats[2] /\ stats[8] = stats[2]
RecordWritable(layout, record) ==
    /\ RefKindsOk(layout, record)
    /\ Has(layout, "logical") => ColumnWritable(layout, record)
    /\ Has(layout, "scalar") => StatsAgree(record)

AppendWritable(head) ==
    LET Value(role) == InHead("root2", head, role)
    IN  /\ Value("append_base_row") + Value("append_row_count") <= Value("row_count")
        /\ Value("append_base_row_group") + Value("append_row_group_count")
              <= Value("row_group_count")
SlotWritable(head) == is_null(head, 6) \/ head[5] = 2     \* root_ref.length is the root's
ValuesWritable(object) ==
    LET fixed == InHead("values", object.head, "dictkind") = 3
        width == InHead("values", object.head, "width")
    IN  /\ fixed <=> width # 0
        /\ fixed => \A i \in DOMAIN object.texts : Len(object.texts[i]) = width
ChunkBytes(head) ==
    LET physical == InHead("chunk", head, "physical")
    IN  IF physical = FixedBinary THEN InHead("chunk", head, "value_bytes")
        ELSE InHead("chunk", head, "rows") * PrimitiveWidth(physical)
ChunkWritable(object) ==
    /\ ChunkBytes(object.head) <= MaxWord
    /\ InHead("chunk", object.head, "value_bytes") = ChunkBytes(object.head)
    /\ IF InHead("chunk", object.head, "codec") = 0
       THEN Len(object.data) = ChunkBytes(object.head)
       ELSE object.data # <<>>

WriteFault(object) ==
    LET layout == Layout[object.kind]
        checks == <<object.kind \in {"slot", "root2"} => object.version = 2,
                    RefKindsOk(layout.header, object.head),
                    object.kind = "slot" => SlotWritable(object.head),
                    object.kind = "root2" => AppendWritable(object.head),
                    object.kind = "values" => ValuesWritable(object),
                    object.kind = "chunk" => ChunkWritable(object),
                    \A t \in DOMAIN layout.tables : \A r \in DOMAIN object.tables[t] :
                       RecordWritable(layout.tables[t], object.tables[t][r])>>
    IN  CASE object.kind = "bootstrap2" /\ object.version # 2 -> "UnsupportedFormat"
          [] \E i \in DOMAIN checks : ~checks[i] -> "InvalidInput"
          [] OTHER -> None

Offsets(texts) == [i \in 1..Len(texts) + 1 |-> Total([j \in 1..i - 1 |-> Len(texts[j])])]
Counted(object) == IF object.kind \in Texts THEN <<object.texts>> ELSE object.tables
Header(object) ==
    LET header == Layout[object.kind].header
        Ordinal(i) == Cardinality({j \in 1..i : header[j].role = "count"})
    IN  [i \in DOMAIN header |->
            CASE header[i].role = "count" -> Len(Counted(object)[Ordinal(i)])
              [] header[i].role = "bytes" -> Len(FlattenSeq(object.texts))
              [] OTHER -> object.head[i]]
encode_without_checksum(object) ==
    <<Layout[object.kind].magic, object.version, HeaderEnd(object.kind)>> \o Header(object)
    \o FlattenSeq([t \in DOMAIN object.tables |-> FlattenSeq(object.tables[t])])
    \o (CASE object.kind = "strings" ->
               FlattenSeq([i \in DOMAIN object.texts |->
                           <<Len(object.texts[i])>> \o object.texts[i]])
          [] object.kind = "values" -> Offsets(object.texts) \o FlattenSeq(object.texts)
          [] OTHER -> object.data)

(* Fault: the page's checksum covers its slots.                             *)
CoversSlots(kind, words) == words

(* The page's checksum leaves out the slots, which an appender rewrites and *)
(* which carry checksums of their own.                                      *)
Covered(kind, words) ==
    [i \in DOMAIN words |->
        IF kind = "bootstrap2" /\ i - Start \in DOMAIN Layout["bootstrap2"].header
                               /\ Layout["bootstrap2"].header[i - Start].role = "slot"
        THEN 0 ELSE words[i]]

----------------------------------------------------------------------------
(* Reading.  A reader sees the words with the checksum set to zero.          *)

(* Fault: the checksum's own word counts as payload.                        *)
FitsWithChecksum(total, position, needed) == needed <= total - position

(* remaining_before_crc and the checks made with it: so many words can      *)
(* follow the position before the checksum.                                 *)
Fits(total, position, needed) == needed <= total - 1 - position

HeaderFault(kind, bytes) ==
    LET layout == Layout[kind]
        Expected(i) == CASE i = 1 -> bytes[i] = layout.magic
                         [] i = 2 -> bytes[i] = layout.version
                         [] i = 3 -> bytes[i] = HeaderEnd(kind)
                         [] OTHER -> bytes[i] \in Legal(layout.header[i - Start].role)
        Wrong(i) == CASE i = 2 -> "UnsupportedFormat"
                      [] i > Start -> UnknownCode(layout.header[i - Start].role)
                      [] OTHER -> "CorruptFile"
    IN  FirstFault([i \in 1..Min({Len(bytes), HeaderEnd(kind)}) |->
                       IF Expected(i) THEN None ELSE Wrong(i)]
                   \o <<IF Fits(Len(bytes), HeaderEnd(kind), 0) THEN None ELSE "CorruptFile">>)

RecordFault(layout, record) ==
    FirstFault([i \in DOMAIN layout |->
                   IF record[i] \in Legal(layout[i].role) THEN None ELSE UnknownCode(layout[i].role)]
               \o <<IF Has(layout, "scalar") /\ ~StatsAgree(record) THEN "CorruptFile" ELSE None>>)
validate_record_sequence(layout, records) ==
    FirstFault([r \in DOMAIN records |-> RecordFault(layout, records[r])])

(* What has been read of an object, and how far the reader has come.        *)
Begun(kind) ==
    [position |-> HeaderEnd(kind), fault |-> None, retained |-> 0,
     tables |-> <<>>, texts |-> <<>>, data |-> <<>>]
Failed(sofar) == [sofar EXCEPT !.fault = "CorruptFile"]

RecordsAt(bytes, position, layout, count) ==
    [r \in 1..count |-> SubSeq(bytes, position + (r - 1) * Len(layout) + 1,
                               position + r * Len(layout))]
read_record_sequence(sofar, layout, records) ==
    [sofar EXCEPT !.position = @ + Len(records) * Len(layout),
                  !.fault = validate_record_sequence(layout, records),
                  !.retained = @ + Len(records) * Len(layout),
                  !.tables = Append(@, [r \in DOMAIN records |-> Keep(layout, records[r])])]
ReadTable(bytes, sofar, layout, count) ==
    CASE sofar.fault # None -> sofar
      [] ~Fits(Len(bytes), sofar.position, count * Len(layout)) -> Failed(sofar)
      [] OTHER -> read_record_sequence(sofar, layout,
                                       RecordsAt(bytes, sofar.position, layout, count))
ReadTables(kind, bytes, counts) ==
    FoldLeft(LAMBDA sofar, t : ReadTable(bytes, sofar, Layout[kind].tables[t], counts[t]),
             Begun(kind), [t \in DOMAIN Layout[kind].tables |-> t])

IsText(text) == \A i \in DOMAIN text : text[i] # BadText
TakeText(sofar, text) ==
    IF ~IsText(text) THEN Failed(sofar)
    ELSE [sofar EXCEPT !.position = @ + 1 + Len(text), !.retained = @ + 1 + Len(text),
                       !.texts = Append(@, text)]
inspect_string_u32_bounded(bytes, sofar, start) ==
    CASE sofar.fault # None -> sofar
      [] ~Fits(Len(bytes), sofar.position, 1) -> Failed(sofar)
      [] ~Fits(Len(bytes), start, bytes[start]) -> Failed(sofar)
      [] OTHER -> TakeText(sofar, SubSeq(bytes, start + 1, start + bytes[start]))
ReadStrings(bytes, count) ==
    IF ~Fits(Len(bytes), HeaderEnd("strings"), count) THEN Failed(Begun("strings"))
    ELSE FoldLeft(LAMBDA sofar, i :
                     inspect_string_u32_bounded(bytes, sofar, sofar.position + 1),
                  Begun("strings"), [i \in 1..count |-> i])

OffsetsSound(offsets, width, count, data) ==
    /\ offsets[1] = 0
    /\ \A i \in 1..count : /\ offsets[i] <= offsets[i + 1]
                           /\ offsets[i + 1] <= data
                           /\ width >= 0 => offsets[i + 1] - offsets[i] = width
    /\ offsets[count + 1] = data
FixedWidth(head) ==
    IF InHead("values", head, "dictkind") = 3 THEN InHead("values", head, "width") ELSE -1
CutTexts(bytes, start, offsets, count, data) ==
    [Begun("values") EXCEPT
        !.retained = count + data,
        !.texts = [i \in 1..count |-> SubSeq(bytes, start + offsets[i] + 1,
                                             start + offsets[i + 1])]]
OffsetsAt(bytes, count) == SubSeq(bytes, HeaderEnd("values") + 1, HeaderEnd("values") + 1 + count)
ReadDictionaryValues(bytes, head, count, data) ==
    IF /\ count + 1 <= MaxWord
       /\ Fits(Len(bytes), HeaderEnd("values"), count + 1)
       /\ OffsetsSound(OffsetsAt(bytes, count), FixedWidth(head), count, data)
       /\ Fits(Len(bytes), HeaderEnd("values") + 1 + count, data)
    THEN CutTexts(bytes, HeaderEnd("values") + 1 + count, OffsetsAt(bytes, count), count, data)
    ELSE Failed(Begun("values"))

ReadChunk(head, payload) ==
    IF /\ ChunkBytes(head) <= MaxWord
       /\ InHead("chunk", head, "value_bytes") = ChunkBytes(head)
       /\ InHead("chunk", head, "codec") = 0 => Len(payload) = InHead("chunk", head, "value_bytes")
    THEN [Begun("chunk") EXCEPT !.data = payload]
    ELSE Failed(Begun("chunk"))

CountsIn(kind, words) ==
    SelectSeq([i \in DOMAIN words |-> IF Layout[kind].header[i].role = "count" THEN words[i] ELSE -1],
              LAMBDA n : n >= 0)
ReadRest(kind, bytes, words, counts) ==
    CASE kind = "strings" -> ReadStrings(bytes, counts[1])
      [] kind = "values" -> ReadDictionaryValues(bytes, words, counts[1],
                                                 InHead("values", words, "bytes"))
      [] kind = "chunk" -> ReadChunk(words, SubSeq(bytes, HeaderEnd(kind) + 1, Len(bytes) - 1))
      [] OTHER -> ReadTables(kind, bytes, counts)
Assemble(kind, version, words, parts) ==
    [fault |-> parts.fault, retained |-> parts.retained,
     object |-> [kind |-> kind, version |-> version, head |-> Keep(Layout[kind].header, words),
                 tables |-> parts.tables, texts |-> parts.texts, data |-> parts.data]]
DecodeWith(kind, bytes, words, fault) ==
    IF fault # None THEN [fault |-> fault, retained |-> 0, object |-> None]
    ELSE Assemble(kind, bytes[2], words, ReadRest(kind, bytes, words, CountsIn(kind, words)))
HeaderWords(kind, bytes) ==
    SubSeq(bytes, Start + 1, Min({Len(bytes), HeaderEnd(kind)}))
Decode(kind, bytes) ==
    DecodeWith(kind, bytes, HeaderWords(kind, bytes), HeaderFault(kind, bytes))

(* Fault: the budget is charged before the records are checked.             *)
LimitFirst(fault, retained) ==
    CASE charged + retained > Limit -> "InvalidInput"
      [] fault # None -> fault
      [] OTHER -> None

(* Structure first, then the budget.                                        *)
Admit(fault, retained) ==
    CASE fault # None -> fault
      [] charged + retained > Limit -> "InvalidInput"
      [] OTHER -> None

(* A fixed-size object is read to its own length, any other to the end.     *)
Taken(kind) ==
    IF Layout[kind].fixed
    THEN SubSeq(disk.words, 1, Min({HeaderEnd(kind) + 1, Len(disk.words)}))
    ELSE disk.words
ChecksumHolds(kind, words) ==
    /\ words # <<>>
    /\ Layout[kind].fixed => Len(words) = HeaderEnd(kind) + 1
    /\ Last(words) = Crc
    /\ Covered(kind, Front(words)) = disk.sealed
Bytes(words) == Append(Front(words), 0)

----------------------------------------------------------------------------
(* decode_payload_with_limits.  A compressed payload of one word stands for *)
(* so many values; any other is not a frame.                                *)

IsFrame(payload) == Len(payload) = 1
Decompress(payload) == [i \in 1..payload[1] |-> 1]
DecodeFault(chunk) ==
    LET expected == ChunkBytes(chunk.head)
        plain == InHead("chunk", chunk.head, "codec") = 0
    IN  CASE plain /\ Len(chunk.data) # expected -> "CorruptFile"
          [] ~plain /\ chunk.data = <<>> -> "CorruptFile"
          [] Len(chunk.data) > MaxEncoded -> "InvalidInput"
          [] ~plain /\ expected + 1 > MaxWord -> "CorruptFile"
          [] expected > MaxDecoded -> "InvalidInput"
          [] ~plain /\ ~(IsFrame(chunk.data) /\ Len(Decompress(chunk.data)) = expected) ->
               "CorruptFile"
          [] OTHER -> None
Decoded(chunk) ==
    IF InHead("chunk", chunk.head, "codec") = 0 THEN chunk.data ELSE Decompress(chunk.data)

(* OcbRootV2::validate_references: every kind, then every range.            *)
RangeOk(values, i) == is_null(values, i) \/ values[i - 2] + values[i - 1] <= FileLength
validate_references(head) ==
    CASE ~RefKindsOk(Layout["root2"].header, head) -> "InvalidInput"
      [] \E i \in Refs(Layout["root2"].header) : ~RangeOk(head, i) -> "CorruptFile"
      [] OTHER -> None

----------------------------------------------------------------------------
(* What a caller may hand to the writer: every field of the type its struct *)
(* gives it.  One field of an object differs from the usual ones.           *)

Usual(layout) ==
    [i \in DOMAIN layout |->
        CASE layout[i].role \in Dropped \cup {"width"} -> 0
          [] layout[i].role = "length" -> 2
          [] layout[i].role = "body" -> Max(layout[i].kinds)
          [] layout[i].role \in {"row_count", "row_group_count"} -> 3
          [] layout[i].role \in {"rows", "value_bytes"} -> 2
          [] layout[i].role \in {"physical", "scalar"} -> 1
          [] Legal(layout[i].role) # 0..Crc -> Max(Legal(layout[i].role))
          [] OTHER -> i % 3]
FieldChoices(field) ==
    CASE field.role \in Dropped -> {0}
      [] field.role = "body" -> {0, 1, 12}
      [] Legal(field.role) # 0..Crc -> Legal(field.role)
      [] OTHER -> {0, 3, MaxWord}
Variants(layout) ==
    {Usual(layout)}
    \cup UNION {{[Usual(layout) EXCEPT ![i] = w] : w \in FieldChoices(layout[i])} : i \in DOMAIN layout}
    \cup {[Usual(layout) EXCEPT ![i] = 0, ![i - 1] = 0, ![i - 2] = 0] : i \in Refs(layout)}

Counts(n) == {c \in [1..n -> 0..MaxRecords] : Total(c) <= MaxRecords}
UsualTables(kind, counts) ==
    [t \in DOMAIN Layout[kind].tables |->
        [r \in 1..counts[t] |-> Usual(Layout[kind].tables[t])]]
TableChoices(kind) ==
    {UsualTables(kind, c) : c \in Counts(Len(Layout[kind].tables))}
    \cup UNION {{[UsualTables(kind, [u \in DOMAIN Layout[kind].tables |-> 1]) EXCEPT ![t] = <<v>>] :
                    v \in Variants(Layout[kind].tables[t])} : t \in DOMAIN Layout[kind].tables}
TextChoices == {<<>>, << <<>> >>, << <<1>>, <<2>> >>, << <<1, 2>> >>}
DataChoices(kind) == IF kind = "chunk" THEN {<<>>, <<2>>, <<1, 2>>, <<1, 2, 1>>} ELSE {<<>>}
Given(kind, version, head, tables, texts, data) ==
    [kind |-> kind, version |-> version, head |-> head, tables |-> tables, texts |-> texts,
     data |-> data]
Objects(kind) ==
    LET version == Layout[kind].version
        header == Layout[kind].header
        none == UsualTables(kind, [t \in DOMAIN Layout[kind].tables |-> 0])
        texts == IF kind \in Texts THEN TextChoices ELSE {<<>>}
    IN  {Given(kind, version, head, none, some, data) :
            head \in Variants(header), some \in texts, data \in DataChoices(kind)}
        \cup {Given(kind, version, Usual(header), tables, <<>>, <<>>) : tables \in TableChoices(kind)}
        \cup {Given(kind, 3, Usual(header), none, <<>>, <<>>)}
        \cup {Given(kind, version, [head EXCEPT ![4] = 1], none, << <<1>>, <<2>> >>, <<>>) :
                 head \in {h \in Variants(header) : kind = "values" /\ h[1] = 3}}
        \cup {Given(kind, version, [head EXCEPT ![1] = FixedBinary], none, <<>>, data) :
                 head \in {h \in Variants(header) : kind = "chunk"}, data \in DataChoices(kind)}

----------------------------------------------------------------------------
Nothing == [words |-> <<>>, sealed |-> <<>>]
NoResult == [op |-> "none", kind |-> None, outcome |-> None, object |-> None, spent |-> 0]
Result(op, kind, outcome, object, spent) ==
    [op |-> op, kind |-> kind, outcome |-> outcome, object |-> object, spent |-> spent]

Init ==
    /\ disk = Nothing
    /\ wrote = None
    /\ charged \in Charges
    /\ result = NoResult
    /\ edits = 0
    /\ resealed = FALSE
    /\ reads = 0

(* write_to                                                                 *)
Write(object) ==
    LET words == encode_without_checksum(object)
        fault == WriteFault(object)
    IN  /\ wrote' = object
        /\ result' = Result("write", object.kind, fault, None, 0)
        /\ disk' = IF fault = None
                   THEN [words |-> Append(words, Crc), sealed |-> Covered(object.kind, words)]
                   ELSE disk
        /\ UNCHANGED <<charged, edits, resealed, reads>>

(* An appender publishes a root by rewriting one slot of the page.          *)
Publish(i, w) ==
    /\ disk # Nothing
    /\ wrote.kind = "bootstrap2"
    /\ edits = 0
    /\ Layout["bootstrap2"].header[i].role = "slot"
    /\ disk' = [disk EXCEPT !.words[Start + i] = w]
    /\ result' = NoResult
    /\ UNCHANGED <<wrote, charged, edits, resealed, reads>>

(* The stored words of an ordinary object are damaged: an altered word      *)
(* makes any other object of its shape.                                     *)
Ordinary(object) ==
    /\ object.head = Usual(Layout[object.kind].header)
    /\ \A t \in DOMAIN object.tables : \A r \in DOMAIN object.tables[t] :
          object.tables[t][r] = Usual(Layout[object.kind].tables[t])
Damageable ==
    /\ disk # Nothing
    /\ edits < MaxEdits
    /\ ~resealed
    /\ Ordinary(wrote)
Damage(words) ==
    /\ edits' = edits + 1
    /\ disk' = [disk EXCEPT !.words = words]
    /\ result' = NoResult
    /\ UNCHANGED <<wrote, charged, resealed, reads>>
AlterWord(i, w) == disk.words[i] # w /\ Damage([disk.words EXCEPT ![i] = w])
Cut == disk.words # <<>> /\ Damage(Front(disk.words))
Extend(w) == Damage(Append(disk.words, w))
(* A faulty writer: the checksum is right for words no writer should store. *)
Reseal ==
    /\ edits > 0
    /\ ~resealed
    /\ disk.words # <<>>
    /\ resealed' = TRUE
    /\ disk' = [words |-> Append(Front(disk.words), Crc),
                sealed |-> Covered(wrote.kind, Front(disk.words))]
    /\ result' = NoResult
    /\ UNCHANGED <<wrote, charged, edits, reads>>

(* read_from, read_from_bytes_with_budget.  Once the charge is made, an      *)
(* allocation may still fail.                                               *)
Refused(kind, fault) ==
    /\ result' = Result("read", kind, fault, None, 0)
    /\ UNCHANGED charged
Charged(kind, decoded) ==
    /\ charged' = charged + decoded.retained
    /\ \E outcome \in {None} \cup (IF decoded.retained > 0 THEN {"Io"} ELSE {}) :
          result' = Result("read", kind, outcome, decoded.object, decoded.retained)
Finish(kind, decoded, fault) ==
    \/ fault # None /\ Refused(kind, fault)
    \/ fault = None /\ Charged(kind, decoded)
ReadWords(kind, words, decoded) ==
    \/ ~ChecksumHolds(kind, words) /\ Refused(kind, "CorruptFile")
    \/ ChecksumHolds(kind, words) /\ Finish(kind, decoded, Admit(decoded.fault, decoded.retained))
ReadObject(kind) ==
    /\ disk # Nothing
    /\ edits > 0 => kind = wrote.kind
    /\ reads < MaxReads
    /\ reads' = reads + 1
    /\ ReadWords(kind, Taken(kind), Decode(kind, Bytes(Taken(kind))))
    /\ UNCHANGED <<disk, wrote, edits, resealed>>

ReadBack(kind) == result.op = "read" /\ result.kind = kind /\ result.outcome = None

(* decode_payload_with_limits, into_decoded_payload_with_limits             *)
DecodePayload ==
    /\ ReadBack("chunk")
    /\ result' = LET fault == DecodeFault(result.object)
                 IN  Result("decode", "chunk", fault, result.object, 0)
    /\ UNCHANGED <<disk, wrote, charged, edits, resealed, reads>>

ValidateReferences ==
    /\ ReadBack("root2")
    /\ result' = Result("validate", "root2", validate_references(result.object.head),
                        result.object, 0)
    /\ UNCHANGED <<disk, wrote, charged, edits, resealed, reads>>

Next ==
    \/ /\ disk = Nothing /\ result = NoResult
       /\ \E kind \in Kinds : \E object \in Objects(kind) : Write(object)
    \/ \E i \in DOMAIN Layout["bootstrap2"].header, w \in Altered : Publish(i, w)
    \/ /\ Damageable
       /\ \/ \E i \in DOMAIN disk.words, w \in Altered : AlterWord(i, w)
          \/ Cut
          \/ \E w \in Altered : Extend(w)
    \/ Reseal
    \/ \E kind \in Kinds : ReadObject(kind)
    \/ DecodePayload
    \/ ValidateReferences

Spec == Init /\ [][Next]_vars

----------------------------------------------------------------------------
Retained(object) ==
    Total([t \in DOMAIN object.tables |-> Len(FlattenSeq(object.tables[t]))])
    + Len(object.texts) + Len(FlattenSeq(object.texts))
WithoutSlots(object) ==
    [object EXCEPT !.head = [i \in DOMAIN object.head |->
        IF Layout[object.kind].header[i].role = "slot" THEN 0 ELSE object.head[i]]]

(* What a writer stored is what a reader gets, and nothing else passes for  *)
(* it: an intact object of a supported version reads back as it was written *)
(* unless it does not fit the budget, also after an appender has rewritten  *)
(* the page's slots; damage that did not come with a new checksum is        *)
(* reported and never read, by whatever reader.                             *)
IntactReadsBack ==
    result.op = "read" /\ ~resealed =>
        /\ result.outcome = None =>
              /\ result.kind = wrote.kind
              /\ WithoutSlots(result.object) = WithoutSlots(wrote)
        /\ edits = 0 /\ result.kind = wrote.kind
              /\ wrote.version = Layout[wrote.kind].version =>
                 \/ result.outcome \in {None, "Io"}
                 \/ result.outcome = "InvalidInput" /\ charged + Retained(wrote) > Limit

(* An object is accepted only as a whole, even when its checksum is right   *)
(* for damaged words: written again, it gives the words it was read from,   *)
(* up to the reserved ones, and nothing of it was read beyond them; every   *)
(* record count, string, offset and width agrees with what is there.  A     *)
(* decoded payload has the length its header promises, within the limits,   *)
(* and the references of a validated root lie in the file.                  *)
Marked(layout, values) ==
    [i \in DOMAIN layout |-> IF layout[i].role = "reserved" THEN -1 ELSE values[i]]
MarkReserved(object) ==
    LET layout == Layout[object.kind]
    IN  [object EXCEPT
            !.head = Marked(layout.header, object.head),
            !.tables = [t \in DOMAIN object.tables |->
                           [r \in DOMAIN object.tables[t] |->
                               Marked(layout.tables[t], object.tables[t][r])]]]
AcceptedObjectsAreWhole ==
    /\ result.op = "read" /\ result.outcome = None =>
          LET again == encode_without_checksum(MarkReserved(result.object))
          IN  /\ Len(again) < Len(disk.words)
              /\ \A i \in DOMAIN again : again[i] \in {-1, disk.words[i]}
              /\ result.kind = "chunk" => Len(again) = Len(disk.words) - 1
    /\ result.op = "decode" /\ result.outcome = None =>
          /\ Len(Decoded(result.object)) = InHead("chunk", result.object.head, "value_bytes")
          /\ Len(Decoded(result.object)) <= MaxDecoded
          /\ Len(result.object.data) <= MaxEncoded
    /\ result.op = "validate" /\ result.outcome = None =>
          \A i \in Refs(Layout["root2"].header) :
             /\ result.object.head[i - 2] + result.object.head[i - 1] <= FileLength
             /\ RefKindOk(Layout["root2"].header, result.object.head, i)

(* The budget pays for exactly what is kept and never beyond its limit; an  *)
(* object refused for any reason but a failed allocation costs nothing, and *)
(* the limit is reported only for an object that a larger budget would      *)
(* accept, so that corruption is never taken for a matter of configuration. *)
BudgetPaysForWhatIsKept ==
    /\ charged <= Limit
    /\ result.op = "read" =>
          CASE result.outcome \in {None, "Io"} -> result.spent = Retained(result.object)
            [] result.outcome = "InvalidInput" ->
                  result.spent = 0 /\ Decode(result.kind, Bytes(Taken(result.kind))).fault = None
            [] OTHER -> result.spent = 0
=============================================================================
