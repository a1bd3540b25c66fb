------------------------- MODULE SnapshotReadProofs -------------------------
(***************************************************************************)
(* Proofs about opening a snapshot, reading its row groups and planning    *)
(* which to read.  Whatever content a file's metadata has, one that is     *)
(* opened reaches every row, chunk and statistic once.  For any table, any *)
(* overwriting of its bodies and any sequence of calls, data that reaches  *)
(* the caller is that of the group it asked for, reused buffers show one   *)
(* group at a time, and refused fills write nothing.  For any request, no  *)
(* row that satisfies it is pruned, a read follows its plan, and what it   *)
(* holds fits the limits that admitted it.                                 *)
(***************************************************************************)
EXTENDS MetadataGraph, RowGroupRead, ReadPlanning, SequenceTheorems, SumTheorems, TLAPS

BodyValues == [group : Groups, column : StoredIds, rows : Nat, values : Seq(Bytes),
               crc : BOOLEAN, whole : BOOLEAN]
SlotBuffers == [column : StoredIds, values : Seq(Bytes), bits : Seq(BOOLEAN), allow : BOOLEAN]
FillReports == [group : Groups, rows : Nat, filled : Seq(BOOLEAN)]
FieldBuffers == [offsets : Seq(Nat), values : Seq(Seq(Nat)), rows : Nat]

\* The state has the types of the bodies and of the caller's buffers.
RowsTypeOK ==
  /\ object \in [Bodies -> BodyValues]
  /\ bitmap \in [Bodies -> Seq(BOOLEAN)]
  /\ damage \in Nat /\ calls \in Nat
  /\ slot \in Seq(SlotBuffers)
  /\ report \in FillReports \cup {NoReport}
  /\ fields \in FieldBuffers

\* The values are those of a chunk, in some order.
OfChunk(g, c, values) ==
  {values[r] : r \in DOMAIN values} = {Cell(g, c, r) : r \in 1..RowGroups[g]}

\* A body, wherever it lies, says truly which chunk it was written for, and
\* a bitmap has a bit for each row.
BodiesSound ==
  \A b \in Bodies :
    /\ object[b].rows = RowGroups[object[b].group]
    /\ Len(object[b].values) = object[b].rows
    /\ OfChunk(object[b].group, object[b].column, object[b].values)
    /\ Len(bitmap[b]) = RowGroups[b[1]]

\* A report is about rows that every buffer of the slot has.
ReportSound ==
  report # NoReport =>
    /\ report.rows = RowGroups[report.group]
    /\ \A i \in DOMAIN slot : report.rows <= Len(slot[i].values)

\* Each field has its values.
FieldsSound == DOMAIN fields.values = DOMAIN fields.offsets

\* The inductive invariant.
RowsIInv ==
  /\ RowsTypeOK /\ BodiesSound /\ ReportSound /\ FieldsSound
  /\ ReadsAreFaithful /\ ReusedBuffersShowOneGroup /\ RefusedFillsLeaveBuffers

----------------------------------------------------------------------------
(***************************************************************************)
(* Sequences.                                                              *)
(***************************************************************************)
\* A function on an initial interval is a sequence.
LEMMA IntervalSeq ==
    ASSUME NEW S, NEW n \in Nat, NEW f \in [1..n -> S]
    PROVE  f \in Seq(S) /\ Len(f) = n /\ DOMAIN f = 1..n
<1>1. f \in Seq(S) /\ DOMAIN f = 1..n
  OBVIOUS
<1>2. Len(f) \in Nat /\ DOMAIN f = 1..Len(f)
  BY <1>1, LenProperties
<1> QED
  BY <1>1, <1>2

\* So is one on the places of a sequence.
LEMMA SameLengthSeq ==
    ASSUME NEW S, NEW T, NEW s \in Seq(T), NEW f \in [DOMAIN s -> S]
    PROVE  f \in Seq(S) /\ Len(f) = Len(s) /\ DOMAIN f = DOMAIN s
<1>1. Len(s) \in Nat /\ DOMAIN s = 1..Len(s)
  BY LenProperties
<1> QED
  BY <1>1, IntervalSeq

\* A prefix of a sequence.
LEMMA PrefixOf ==
    ASSUME NEW S, NEW s \in Seq(S), NEW n \in Nat, n <= Len(s)
    PROVE  /\ SubSeq(s, 1, n) \in Seq(S) /\ Len(SubSeq(s, 1, n)) = n
           /\ DOMAIN SubSeq(s, 1, n) = 1..n
           /\ \A r \in 1..n : SubSeq(s, 1, n)[r] = s[r]
<1>1. \A i \in 1..n : s[i] \in S
  BY LenProperties, ElementOfSeq
<1>2. /\ SubSeq(s, 1, n) \in Seq(S)
      /\ Len(SubSeq(s, 1, n)) = IF 1 <= n THEN n - 1 + 1 ELSE 0
      /\ \A i \in 1..n - 1 + 1 : SubSeq(s, 1, n)[i] = s[1 + i - 1]
  BY <1>1, SubSeqProperties
<1>3. Len(SubSeq(s, 1, n)) = n
  BY <1>2
<1>4. ASSUME NEW r \in 1..n PROVE SubSeq(s, 1, n)[r] = s[r]
  BY <1>2
<1> QED
  BY <1>2, <1>3, <1>4, LenProperties

\* Storage that was written over: the data first, then what was there.
LEMMA Overwritten ==
    ASSUME NEW S, NEW v \in Seq(S), NEW storage \in Seq(S)
    PROVE  /\ Over(v, storage) \in Seq(S)
           /\ SubSeq(Over(v, storage), 1, Len(v)) = v
           /\ \A r \in DOMAIN Over(v, storage) :
                 r > Len(v) => Over(v, storage)[r] = storage[r]
           /\ Len(v) <= Len(storage) => Len(Over(v, storage)) = Len(storage)
           /\ Len(v) <= Len(Over(v, storage))
<1> DEFINE n == Len(v)
           m == Len(storage)
           tail == SubSeq(storage, n + 1, m)
           o == Over(v, storage)
<1>1. n \in Nat /\ m \in Nat
  BY LenProperties
<1>2. \A i \in n + 1..m : storage[i] \in S
  BY <1>1, LenProperties, ElementOfSeq
<1>3. /\ tail \in Seq(S)
      /\ Len(tail) = IF n + 1 <= m THEN m - (n + 1) + 1 ELSE 0
      /\ \A i \in 1..m - (n + 1) + 1 : tail[i] = storage[n + 1 + i - 1]
  BY <1>1, <1>2, SubSeqProperties
<1>4. o = v \o tail
  BY DEF Over
<1> HIDE DEF tail, o
<1>5. /\ o \in Seq(S) /\ Len(o) = n + Len(tail)
      /\ \A i \in 1..n + Len(tail) : o[i] = IF i <= n THEN v[i] ELSE tail[i - n]
  BY <1>3, <1>4, ConcatProperties
<1>6. Len(tail) = IF n < m THEN m - n ELSE 0
  BY <1>1, <1>3
<1>7. Len(tail) \in Nat
  BY <1>3, LenProperties
<1>8. n <= Len(o) /\ (n <= m => Len(o) = m)
  BY <1>1, <1>5, <1>6
<1>9. SubSeq(o, 1, n) = v
  <2>1. /\ SubSeq(o, 1, n) \in Seq(S) /\ Len(SubSeq(o, 1, n)) = n
        /\ \A r \in 1..n : SubSeq(o, 1, n)[r] = o[r]
    BY <1>1, <1>5, <1>8, PrefixOf
  <2>2. \A r \in 1..n : o[r] = v[r]
    BY <1>1, <1>5, <1>7
  <2> QED
    BY <2>1, <2>2, SeqEqual
<1>10. ASSUME NEW r \in DOMAIN o, r > n PROVE o[r] = storage[r]
  <2>1. r \in 1..n + Len(tail)
    BY <1>5, LenProperties
  <2>2. o[r] = tail[r - n] /\ r - n \in 1..Len(tail)
    BY <1>1, <1>5, <1>7, <1>10, <2>1
  <2>3. r - n \in 1..m - (n + 1) + 1
    BY <1>1, <1>6, <1>7, <2>1, <2>2
  <2>4. tail[r - n] = storage[n + 1 + (r - n) - 1]
    BY <1>3, <2>3
  <2>5. n + 1 + (r - n) - 1 = r
    <3>1. r \in Int /\ n \in Int
      BY <1>1, <1>7, <2>1
    <3> QED
      BY <3>1
  <2> QED
    BY <2>2, <2>4, <2>5
<1> QED
  BY <1>5, <1>8, <1>9, <1>10 DEF o

\* Storage made of a given length.
LEMMA Resized ==
    ASSUME NEW S, NEW s \in Seq(S), NEW n \in Nat, NEW zero \in S
    PROVE  Resize(s, n, zero) \in Seq(S) /\ Len(Resize(s, n, zero)) = n
<1>1. ASSUME NEW i \in 1..n PROVE (IF i <= Len(s) THEN s[i] ELSE zero) \in S
  BY LenProperties, ElementOfSeq
<1>2. Resize(s, n, zero) \in [1..n -> S]
  BY <1>1 DEF Resize
<1> QED
  BY <1>2, IntervalSeq

----------------------------------------------------------------------------
(***************************************************************************)
(* Reading a chunk and its bitmap.                                         *)
(***************************************************************************)
\* What a table stores for a chunk has the chunk's types and length.
LEMMA StoredTypes ==
    ASSUME NEW g \in Groups, NEW c \in StoredIds
    PROVE  /\ RowGroups[g] \in Nat
           /\ Stored(g, c) \in Seq(Bytes) /\ Len(Stored(g, c)) = RowGroups[g]
           /\ StoredBits(g, c) \in Seq(BOOLEAN) /\ Len(StoredBits(g, c)) = RowGroups[g]
           /\ OfChunk(g, c, Stored(g, c))
<1>1. RowGroups[g] \in Nat
  <2>1. RowGroups \in Seq(Nat)
    BY RowGroupReadAssumption
  <2> QED
    BY <2>1, LenProperties, ElementOfSeq DEF Groups
<1>2. \A r \in 1..RowGroups[g] : Cell(g, c, r) \in Bytes /\ Valid(g, c, r) \in BOOLEAN
  BY RowGroupReadAssumption
<1>3. Stored(g, c) \in [1..RowGroups[g] -> Bytes]
  BY <1>2 DEF Stored
<1>4. StoredBits(g, c) \in [1..RowGroups[g] -> BOOLEAN]
  BY <1>2 DEF StoredBits
<1>5. OfChunk(g, c, Stored(g, c))
  BY DEF OfChunk, Stored
<1> QED
  BY <1>1, <1>3, <1>4, <1>5, IntervalSeq

\* A chunk body that passes its header is as long as the group.
LEMMA BodyRead ==
    ASSUME RowsTypeOK, BodiesSound, NEW g \in Groups, NEW c \in StoredIds
    PROVE  /\ object[<<g, c>>].values \in Seq(Bytes)
           /\ HeaderMatches(g, c) => /\ Len(object[<<g, c>>].values) = RowGroups[g]
                                     /\ OfChunk(g, c, object[<<g, c>>].values)
<1>1. <<g, c>> \in Bodies
  BY DEF Bodies
<1>2. object[<<g, c>>] \in BodyValues
  BY <1>1 DEF RowsTypeOK
<1>3. object[<<g, c>>].values \in Seq(Bytes)
  BY <1>2 DEF BodyValues
<1>4. /\ object[<<g, c>>].rows = RowGroups[object[<<g, c>>].group]
      /\ Len(object[<<g, c>>].values) = object[<<g, c>>].rows
      /\ OfChunk(object[<<g, c>>].group, object[<<g, c>>].column, object[<<g, c>>].values)
  BY <1>1 DEF BodiesSound
<1> QED
  BY <1>3, <1>4 DEF HeaderMatches

\* A payload that is delivered is one of the chunk, and if the reference
\* carries a checksum, the one that was stored.
LEMMA ChunkRead ==
    ASSUME RowsTypeOK, BodiesSound, NEW g \in Groups, NEW c \in StoredIds,
           ReadChunk(g, c).ok
    PROVE  /\ ReadChunk(g, c).value = object[<<g, c>>].values
           /\ ReadChunk(g, c).value \in Seq(Bytes)
           /\ Len(ReadChunk(g, c).value) = RowGroups[g]
           /\ OfChunk(g, c, ReadChunk(g, c).value)
           /\ <<g, c>> \notin Unchecked => ReadChunk(g, c).value = Stored(g, c)
<1>1. HeaderMatches(g, c) /\ ReferenceMatches(g, c)
  BY DEF ReadChunk, Failed
<1>2. ReadChunk(g, c).value = object[<<g, c>>].values
  BY DEF ReadChunk, Failed, Delivered
<1>3. <<g, c>> \notin Unchecked => object[<<g, c>>].values = Stored(g, c)
  BY <1>1 DEF ReferenceMatches, WrittenBody
<1> QED
  BY <1>1, <1>2, <1>3, BodyRead

\* The same of a bitmap; a chunk without one has no validity.
LEMMA BitmapRead ==
    ASSUME RowsTypeOK, BodiesSound, NEW g \in Groups, NEW c \in StoredIds,
           ReadBitmap(g, c).ok
    PROVE  /\ ReadBitmap(g, c).value \in Seq(BOOLEAN)
           /\ ~HasBitmap(g, c) => ReadBitmap(g, c).value = <<>>
           /\ HasBitmap(g, c) => Len(ReadBitmap(g, c).value) = RowGroups[g]
           /\ HasBitmap(g, c) /\ <<g, c>> \notin Unchecked =>
                ReadBitmap(g, c).value = StoredBits(g, c)
<1>1. <<g, c>> \in Bodies
  BY DEF Bodies
<1>2. bitmap[<<g, c>>] \in Seq(BOOLEAN) /\ Len(bitmap[<<g, c>>]) = RowGroups[g]
  BY <1>1 DEF RowsTypeOK, BodiesSound
<1>3. CASE ~HasBitmap(g, c)
  <2>1. ReadBitmap(g, c).value = <<>>
    BY <1>3 DEF ReadBitmap, Delivered
  <2> QED
    BY <1>3, <2>1, EmptySeq
<1>4. CASE HasBitmap(g, c)
  <2>1. BitmapMatches(g, c)
    BY <1>4 DEF ReadBitmap, Failed
  <2>2. ReadBitmap(g, c).value = bitmap[<<g, c>>]
    BY <1>4, <2>1 DEF ReadBitmap, Delivered
  <2> QED
    BY <1>2, <1>4, <2>1, <2>2 DEF BitmapMatches
<1> QED
  BY <1>3, <1>4

\* Values and validity that are both delivered are the chunk's.
LEMMA FaithfulRead ==
    ASSUME RowsTypeOK, BodiesSound, NEW g \in Groups, NEW c \in StoredIds,
           ReadChunk(g, c).ok, ReadBitmap(g, c).ok
    PROVE  Faithful(g, c, ReadChunk(g, c).value, ReadBitmap(g, c).value)
<1>1. OfChunk(g, c, ReadChunk(g, c).value)
  BY ChunkRead
<1>2. <<g, c>> \notin Unchecked =>
         /\ ReadChunk(g, c).value = Stored(g, c)
         /\ ReadBitmap(g, c).value = IF HasBitmap(g, c) THEN StoredBits(g, c) ELSE <<>>
  BY ChunkRead, BitmapRead
<1> QED
  BY <1>1, <1>2 DEF Faithful, OfChunk

----------------------------------------------------------------------------
(***************************************************************************)
(* Filling caller buffers.                                                 *)
(***************************************************************************)
\* A resolvable buffer has a column, and one that gives an id has that one.
LEMMA ColumnOfBuffer ==
    ASSUME NEW b, Resolvable(b)
    PROVE  /\ BufferColumn(b) \in StoredIds
           /\ b.id # 0 => BufferColumn(b) = b.id
<1>1. BufferColumn(b) \in ByName(b) \cap ById(b)
  BY DEF Resolvable, BufferColumn
<1> QED
  BY <1>1 DEF ByName, ById

\* The column of a buffer is told by its name and its id.
LEMMA ColumnFollowsName ==
    ASSUME NEW a, NEW b, a.name = b.name, a.id = b.id
    PROVE  BufferColumn(a) = BufferColumn(b)
<1>1. ByName(a) = ByName(b) /\ ById(a) = ById(b)
  BY DEF ByName, ById
<1> QED
  BY <1>1 DEF BufferColumn

\* What fill_column_buffer does to a buffer that fits.
BufferFilled(g, b, f) ==
  /\ f.buffer.name = b.name /\ f.buffer.id = b.id
  /\ f.buffer.values \in Seq(Bytes) /\ f.buffer.bits \in Seq(BOOLEAN)
  /\ Len(f.buffer.values) = Len(b.values)
  /\ \A r \in DOMAIN f.buffer.values :
        r > RowGroups[g] => f.buffer.values[r] = b.values[r]
  /\ f.ok => Faithful(g, BufferColumn(b), SubSeq(f.buffer.values, 1, RowGroups[g]),
                      IF HasBitmap(g, BufferColumn(b))
                      THEN SubSeq(f.buffer.bits, 1, RowGroups[g]) ELSE <<>>)

\* The values and bits that fill_column_buffer leaves.
FilledValues(g, b) ==
  IF ReadChunk(g, BufferColumn(b)).ok
  THEN Over(ReadChunk(g, BufferColumn(b)).value, b.values)
  ELSE IF Direct(g, BufferColumn(b)) /\ HeaderMatches(g, BufferColumn(b))
       THEN Over(object[<<g, BufferColumn(b)>>].values, b.values)
       ELSE b.values
FilledBits(g, b) ==
  IF ReadChunk(g, BufferColumn(b)).ok /\ ReadBitmap(g, BufferColumn(b)).ok
  THEN Over(ReadBitmap(g, BufferColumn(b)).value, b.bits) ELSE b.bits

\* The parts of what fill_column_buffer returns.
LEMMA FillParts ==
    ASSUME NEW g, NEW b \in FillBuffers
    PROVE  /\ fill_column_buffer(g, b).ok <=>
                ReadChunk(g, BufferColumn(b)).ok /\ ReadBitmap(g, BufferColumn(b)).ok
           /\ fill_column_buffer(g, b).buffer.name = b.name
           /\ fill_column_buffer(g, b).buffer.id = b.id
           /\ fill_column_buffer(g, b).buffer.values = FilledValues(g, b)
           /\ fill_column_buffer(g, b).buffer.bits = FilledBits(g, b)
<1>1. fill_column_buffer(g, b) =
        [ok |-> ReadChunk(g, BufferColumn(b)).ok /\ ReadBitmap(g, BufferColumn(b)).ok,
         buffer |-> [b EXCEPT !.values = FilledValues(g, b), !.bits = FilledBits(g, b)]]
  BY Zenon DEF fill_column_buffer, FilledValues, FilledBits
<1>2. \A v, w : LET n == [b EXCEPT !.values = v, !.bits = w]
                IN  n.name = b.name /\ n.id = b.id /\ n.values = v /\ n.bits = w
  BY DEF FillBuffers
<1>3. PICK p : p = (ReadChunk(g, BufferColumn(b)).ok /\ ReadBitmap(g, BufferColumn(b)).ok)
  OBVIOUS
<1>4. PICK n : n = [b EXCEPT !.values = FilledValues(g, b), !.bits = FilledBits(g, b)]
  OBVIOUS
<1>5. fill_column_buffer(g, b) = [ok |-> p, buffer |-> n]
  BY <1>1, <1>3, <1>4
<1>6. fill_column_buffer(g, b).ok = p /\ fill_column_buffer(g, b).buffer = n
  BY <1>5
<1>7. /\ n.name = b.name /\ n.id = b.id
      /\ n.values = FilledValues(g, b) /\ n.bits = FilledBits(g, b)
  BY <1>2, <1>4
<1> QED
  BY <1>3, <1>6, <1>7, Zenon

\* A fitting buffer is filled with the chunk of its column or left alone, and
\* keeps what lies past the rows of the group.
LEMMA BufferIsFilled ==
    ASSUME RowsTypeOK, BodiesSound, NEW g \in Groups, NEW b \in FillBuffers, BufferFits(g, b)
    PROVE  BufferFilled(g, b, fill_column_buffer(g, b))
<1> DEFINE f == fill_column_buffer(g, b)
           values == FilledValues(g, b)
           bits == FilledBits(g, b)
<1>1. PICK c \in StoredIds : c = BufferColumn(b)
  BY ColumnOfBuffer DEF BufferFits
<1>2. PICK rows \in Nat : rows = RowGroups[g]
  BY <1>1, StoredTypes
<1>3. /\ b.values \in Seq(Bytes) /\ b.bits \in Seq(BOOLEAN)
      /\ rows <= Len(b.values) /\ (HasBitmap(g, c) => rows <= Len(b.bits))
  <2>1. b.values \in Seq(Bytes) /\ b.bits \in Seq(BOOLEAN)
    BY DEF FillBuffers
  <2> QED
    BY <1>1, <1>2, <2>1, LenProperties DEF BufferFits
<1>4. /\ values \in Seq(Bytes) /\ Len(values) = Len(b.values)
      /\ \A r \in DOMAIN values : r > rows => values[r] = b.values[r]
  <2>1. CASE values = b.values
    BY <1>3, <2>1
  <2>2. ASSUME NEW v \in Seq(Bytes), Len(v) = rows, values = Over(v, b.values)
        PROVE  /\ values \in Seq(Bytes) /\ Len(values) = Len(b.values)
               /\ \A r \in DOMAIN values : r > rows => values[r] = b.values[r]
    BY <1>3, <2>2, Overwritten
  <2>3. CASE ReadChunk(g, c).ok
    BY <1>1, <1>2, <2>2, <2>3, ChunkRead DEF FilledValues
  <2>4. CASE ~ReadChunk(g, c).ok /\ Direct(g, c) /\ HeaderMatches(g, c)
    BY <1>1, <1>2, <2>2, <2>4, BodyRead DEF FilledValues
  <2>5. CASE ~ReadChunk(g, c).ok /\ ~(Direct(g, c) /\ HeaderMatches(g, c))
    BY <1>1, <2>1, <2>5 DEF FilledValues
  <2> QED
    BY <2>3, <2>4, <2>5
<1>5. bits \in Seq(BOOLEAN)
  BY <1>1, <1>3, BitmapRead, Overwritten DEF FilledBits
<1>6. ASSUME ReadChunk(g, c).ok, ReadBitmap(g, c).ok
      PROVE  Faithful(g, c, SubSeq(values, 1, rows),
                      IF HasBitmap(g, c) THEN SubSeq(bits, 1, rows) ELSE <<>>)
  <2>1. SubSeq(values, 1, rows) = ReadChunk(g, c).value
    <3>1. PICK v \in Seq(Bytes) : v = ReadChunk(g, c).value /\ Len(v) = rows
      BY <1>2, <1>6, ChunkRead
    <3>2. values = Over(v, b.values)
      BY <1>1, <1>6, <3>1 DEF FilledValues
    <3>3. SubSeq(Over(v, b.values), 1, rows) = v
      BY <1>3, <3>1, Overwritten
    <3> QED
      BY <3>1, <3>2, <3>3
  <2>2. HasBitmap(g, c) => SubSeq(bits, 1, rows) = ReadBitmap(g, c).value
    <3> SUFFICES ASSUME HasBitmap(g, c) PROVE SubSeq(bits, 1, rows) = ReadBitmap(g, c).value
      OBVIOUS
    <3>1. PICK v \in Seq(BOOLEAN) : v = ReadBitmap(g, c).value /\ Len(v) = rows
      BY <1>2, <1>6, BitmapRead
    <3>2. bits = Over(v, b.bits)
      BY <1>1, <1>6, <3>1 DEF FilledBits
    <3>3. SubSeq(Over(v, b.bits), 1, rows) = v
      BY <1>3, <3>1, Overwritten
    <3> QED
      BY <3>1, <3>2, <3>3
  <2>3. ~HasBitmap(g, c) => ReadBitmap(g, c).value = <<>>
    BY <1>6, BitmapRead
  <2>4. ReadBitmap(g, c).value = IF HasBitmap(g, c) THEN SubSeq(bits, 1, rows) ELSE <<>>
    BY <2>2, <2>3
  <2> QED
    BY <1>6, <2>1, <2>4, FaithfulRead
<1>7. /\ f.ok <=> ReadChunk(g, c).ok /\ ReadBitmap(g, c).ok
      /\ f.buffer.name = b.name /\ f.buffer.id = b.id
      /\ f.buffer.values = values /\ f.buffer.bits = bits
  BY <1>1, FillParts
<1> HIDE DEF f, values, bits
<1> SUFFICES BufferFilled(g, b, f)
  BY DEF f
<1> QED
  BY <1>1, <1>2, <1>4, <1>5, <1>6, <1>7 DEF BufferFilled

\* Of the buffers that fail, if any, the first one.
LEMMA FirstFailureIsOne ==
    ASSUME NEW g, NEW bufs \in Seq(FillBuffers)
    PROVE  /\ FirstFailure(g, bufs) \in 1..Len(bufs) + 1
           /\ FirstFailure(g, bufs) > Len(bufs) =>
                \A i \in DOMAIN bufs : fill_column_buffer(g, bufs[i]).ok
<1> DEFINE failing == {i \in DOMAIN bufs : ~fill_column_buffer(g, bufs[i]).ok}
<1>1. Len(bufs) \in Nat /\ DOMAIN bufs = 1..Len(bufs)
  BY LenProperties
<1>2. CASE failing = {}
  BY <1>1, <1>2 DEF FirstFailure
<1>3. CASE failing # {}
  <2>1. failing \in SUBSET Nat
    BY <1>1
  <2>2. \E i \in failing : \A j \in failing : i <= j
    <3> HIDE DEF failing
    <3> QED
      BY <1>3, <2>1, LeastNumber
  <2>3. FirstFailure(g, bufs) = CHOOSE i \in failing : \A j \in failing : i <= j
    BY <1>3, Zenon DEF FirstFailure
  <2>4. FirstFailure(g, bufs) \in failing
    <3> HIDE DEF failing
    <3> QED
      BY <2>2, <2>3
  <2> QED
    BY <1>1, <2>4
<1> QED
  BY <1>2, <1>3

\* A buffer that read_row_group_into returns: the buffer of the request, with
\* other contents in the rows of the group only.
BufferReturned(g, b, n) ==
  /\ n.name = b.name /\ n.id = b.id
  /\ n.values \in Seq(Bytes) /\ n.bits \in Seq(BOOLEAN)
  /\ Len(n.values) = Len(b.values)
  /\ \A r \in DOMAIN n.values : r > RowGroups[g] => n.values[r] = b.values[r]

\* The validity flags of a successful fill.
FilledFlags(g, bufs) == [i \in DOMAIN bufs |-> HasBitmap(g, BufferColumn(bufs[i]))]

\* What a buffer shows after a successful fill is its column's chunk.
BufferShows(g, b, n) ==
  Faithful(g, BufferColumn(b), SubSeq(n.values, 1, RowGroups[g]),
           IF HasBitmap(g, BufferColumn(b)) THEN SubSeq(n.bits, 1, RowGroups[g]) ELSE <<>>)

\* What read_row_group_into promises of its result.
RequestFilled(g, bufs, f) ==
  /\ DOMAIN f.buffers = DOMAIN bufs
  /\ ~f.result.ok => \/ f.result = Failed("invalid") /\ f.buffers = bufs
                     \/ f.result = Failed("corrupt")
  /\ \A i \in DOMAIN bufs : BufferReturned(g, bufs[i], f.buffers[i])
  /\ f.result.ok => /\ f.result.value = FilledFlags(g, bufs)
                    /\ \A i \in DOMAIN bufs : BufferShows(g, bufs[i], f.buffers[i])

\* A request is refused before anything is written, or filled up to the first
\* chunk that cannot be read.
LEMMA RequestIsFilled ==
    ASSUME RowsTypeOK, BodiesSound, NEW g \in Groups, NEW bufs \in Seq(FillBuffers)
    PROVE  RequestFilled(g, bufs, read_row_group_into(g, bufs))
<1>1. PICK f : f = read_row_group_into(g, bufs)
  OBVIOUS
<1>2. ASSUME NEW i \in DOMAIN bufs PROVE bufs[i] \in FillBuffers
  BY LenProperties, ElementOfSeq
<1>3. CASE ~RequestFits(g, bufs)
  <2>1. f = [result |-> Failed("invalid"), buffers |-> bufs]
    BY <1>1, <1>3 DEF read_row_group_into
  <2>2. f.result = Failed("invalid") /\ f.buffers = bufs
    BY <2>1
  <2>3. ~f.result.ok
    BY <2>2 DEF Failed
  <2>4. ASSUME NEW i \in DOMAIN bufs PROVE BufferReturned(g, bufs[i], f.buffers[i])
    <3>1. bufs[i].values \in Seq(Bytes) /\ bufs[i].bits \in Seq(BOOLEAN)
      BY <1>2 DEF FillBuffers
    <3> QED
      BY <2>2, <3>1 DEF BufferReturned
  <2> QED
    BY <1>1, <2>2, <2>3, <2>4 DEF RequestFilled
<1>4. CASE RequestFits(g, bufs)
  <2>1. PICK stop : stop = FirstFailure(g, bufs)
    OBVIOUS
  <2>2. /\ stop \in 1..Len(bufs) + 1
        /\ stop > Len(bufs) => \A i \in DOMAIN bufs : fill_column_buffer(g, bufs[i]).ok
    BY <2>1, FirstFailureIsOne
  <2>3. f = [result |-> IF stop <= Len(bufs) THEN Failed("corrupt")
                        ELSE Delivered(FilledFlags(g, bufs)),
             buffers |-> [i \in DOMAIN bufs |->
                            IF i <= stop THEN fill_column_buffer(g, bufs[i]).buffer
                            ELSE bufs[i]]]
    BY <1>1, <1>4, <2>1, Zenon DEF read_row_group_into, FilledFlags
  <2>4. f.result = IF stop <= Len(bufs) THEN Failed("corrupt")
                   ELSE Delivered(FilledFlags(g, bufs))
    BY <2>3
  <2>5. f.buffers = [i \in DOMAIN bufs |->
                       IF i <= stop THEN fill_column_buffer(g, bufs[i]).buffer ELSE bufs[i]]
    BY <2>3
  <2>6. ASSUME NEW i \in DOMAIN bufs
        PROVE  BufferFilled(g, bufs[i], fill_column_buffer(g, bufs[i]))
    BY <1>2, <1>4, BufferIsFilled DEF RequestFits
  <2>7. ASSUME NEW i \in DOMAIN bufs PROVE BufferReturned(g, bufs[i], f.buffers[i])
    <3>1. bufs[i].values \in Seq(Bytes) /\ bufs[i].bits \in Seq(BOOLEAN)
      BY <1>2 DEF FillBuffers
    <3>2. CASE i <= stop
      BY <2>5, <2>6, <3>2 DEF BufferFilled, BufferReturned
    <3>3. CASE ~(i <= stop)
      BY <2>5, <3>1, <3>3 DEF BufferReturned
    <3> QED
      BY <3>2, <3>3
  <2>8. DOMAIN f.buffers = DOMAIN bufs
    BY <2>5
  <2>9. CASE stop <= Len(bufs)
    <3>1. f.result = Failed("corrupt") /\ ~f.result.ok
      BY <2>4, <2>9 DEF Failed
    <3> QED
      BY <1>1, <2>7, <2>8, <3>1 DEF RequestFilled
  <2>10. CASE ~(stop <= Len(bufs))
    <3>1. f.result.ok /\ f.result.value = FilledFlags(g, bufs)
      BY <2>4, <2>10 DEF Delivered
    <3>2. Len(bufs) \in Nat /\ DOMAIN bufs = 1..Len(bufs)
      BY LenProperties
    <3>3. \A i \in DOMAIN bufs : i <= stop /\ fill_column_buffer(g, bufs[i]).ok
      BY <2>2, <2>10, <3>2
    <3>4. ASSUME NEW i \in DOMAIN bufs PROVE BufferShows(g, bufs[i], f.buffers[i])
      BY <2>5, <2>6, <3>3 DEF BufferFilled, BufferShows
    <3> QED
      BY <1>1, <2>7, <2>8, <3>1, <3>4 DEF RequestFilled
  <2> QED
    BY <2>9, <2>10
<1> QED
  BY <1>3, <1>4

----------------------------------------------------------------------------
(***************************************************************************)
(* The initial state and the steps.                                        *)
(***************************************************************************)
\* What a body holds as it was written.
LEMMA WrittenParts ==
    ASSUME NEW g, NEW c
    PROVE  /\ WrittenBody(g, c).group = g /\ WrittenBody(g, c).column = c
           /\ WrittenBody(g, c).rows = RowGroups[g] /\ WrittenBody(g, c).values = Stored(g, c)
<1>1. PICK v : v = Stored(g, c)
  OBVIOUS
<1>2. WrittenBody(g, c) = [group |-> g, column |-> c, rows |-> RowGroups[g], values |-> v,
                           crc |-> TRUE, whole |-> TRUE]
  BY <1>1 DEF WrittenBody
<1> QED
  BY <1>1, <1>2

\* The invariant holds of a file as it was opened, before any call.
LEMMA RowsInitially == RowsInit => RowsIInv
<1> SUFFICES ASSUME RowsInit PROVE RowsIInv
  OBVIOUS
<1>1. ASSUME NEW b \in Bodies
      PROVE  /\ object[b] = WrittenBody(b[1], b[2]) /\ bitmap[b] = StoredBits(b[1], b[2])
             /\ b[1] \in Groups /\ b[2] \in StoredIds
  BY DEF RowsInit, Bodies
<1>2. ASSUME NEW b \in Bodies
      PROVE  /\ RowGroups[b[1]] \in Nat
             /\ Stored(b[1], b[2]) \in Seq(Bytes) /\ Len(Stored(b[1], b[2])) = RowGroups[b[1]]
             /\ StoredBits(b[1], b[2]) \in Seq(BOOLEAN)
             /\ Len(StoredBits(b[1], b[2])) = RowGroups[b[1]]
             /\ OfChunk(b[1], b[2], Stored(b[1], b[2]))
  BY <1>1, StoredTypes
<1>3. ASSUME NEW b \in Bodies PROVE object[b] \in BodyValues
  <2>1. PICK v \in Seq(Bytes) : v = Stored(b[1], b[2])
    BY <1>2
  <2>2. object[b] = [group |-> b[1], column |-> b[2], rows |-> RowGroups[b[1]], values |-> v,
                     crc |-> TRUE, whole |-> TRUE]
    BY <1>1, <2>1 DEF WrittenBody
  <2> QED
    BY <1>1, <1>2, <2>2 DEF BodyValues
<1>4. object \in [Bodies -> BodyValues] /\ bitmap \in [Bodies -> Seq(BOOLEAN)]
  <2>1. object = [b \in Bodies |-> object[b]] /\ bitmap = [b \in Bodies |-> bitmap[b]]
    BY DEF RowsInit
  <2> QED
    BY <1>1, <1>2, <1>3, <2>1
<1>5. slot \in Seq(SlotBuffers) /\ fields \in FieldBuffers /\ FieldsSound
  BY EmptySeq DEF RowsInit, NoFields, FieldBuffers, FieldsSound
<1>6. RowsTypeOK
  BY <1>4, <1>5 DEF RowsTypeOK, RowsInit
<1>7. BodiesSound
  <2> SUFFICES ASSUME NEW b \in Bodies
               PROVE  /\ object[b].rows = RowGroups[object[b].group]
                      /\ Len(object[b].values) = object[b].rows
                      /\ OfChunk(object[b].group, object[b].column, object[b].values)
                      /\ Len(bitmap[b]) = RowGroups[b[1]]
    BY DEF BodiesSound
  <2>1. /\ object[b].group = b[1] /\ object[b].column = b[2]
        /\ object[b].rows = RowGroups[b[1]] /\ object[b].values = Stored(b[1], b[2])
    BY <1>1, WrittenParts
  <2> QED
    BY <1>1, <1>2, <2>1
<1>8. report = NoReport /\ last.how = "none" /\ ~last.result.ok
  BY DEF RowsInit, NoCall, Failed
<1>9. ReportSound /\ ReadsAreFaithful /\ ReusedBuffersShowOneGroup /\ RefusedFillsLeaveBuffers
  BY <1>8 DEF ReportSound, ReadsAreFaithful, ReusedBuffersShowOneGroup, RefusedFillsLeaveBuffers
<1> QED
  BY <1>5, <1>6, <1>7, <1>9 DEF RowsIInv

\* Values in reverse order.
LEMMA ReversedValues ==
    ASSUME NEW v \in Seq(Bytes), NEW g, NEW c, OfChunk(g, c, v)
    PROVE  /\ Reversed(v) \in Seq(Bytes) /\ Len(Reversed(v)) = Len(v)
           /\ OfChunk(g, c, Reversed(v))
<1>1. Len(v) \in Nat /\ DOMAIN v = 1..Len(v)
  BY LenProperties
<1>2. ASSUME NEW i \in DOMAIN v PROVE Len(v) + 1 - i \in DOMAIN v /\ v[Len(v) + 1 - i] \in Bytes
  BY <1>1, LenProperties, ElementOfSeq
<1>3. Reversed(v) \in [DOMAIN v -> Bytes]
  BY <1>2 DEF Reversed
<1>4. \A i \in DOMAIN v : Reversed(v)[i] = v[Len(v) + 1 - i]
  BY DEF Reversed
<1>5. \A i \in DOMAIN v : v[i] = Reversed(v)[Len(v) + 1 - i]
  <2> SUFFICES ASSUME NEW i \in DOMAIN v PROVE v[i] = Reversed(v)[Len(v) + 1 - i]
    OBVIOUS
  <2>1. Reversed(v)[Len(v) + 1 - i] = v[Len(v) + 1 - (Len(v) + 1 - i)]
    BY <1>2, <1>4
  <2>2. Len(v) + 1 - (Len(v) + 1 - i) = i
    BY <1>1
  <2> QED
    BY <2>1, <2>2
<1>6. Reversed(v) \in Seq(Bytes) /\ Len(Reversed(v)) = Len(v) /\ DOMAIN Reversed(v) = DOMAIN v
  BY <1>3, SameLengthSeq
<1>7. {Reversed(v)[r] : r \in DOMAIN Reversed(v)} = {v[r] : r \in DOMAIN v}
  BY <1>2, <1>4, <1>5, <1>6
<1> QED
  BY <1>6, <1>7 DEF OfChunk

\* A body that says truly which chunk it was written for.
SoundBody(o) ==
  /\ o \in BodyValues
  /\ o.rows = RowGroups[o.group] /\ Len(o.values) = o.rows /\ OfChunk(o.group, o.column, o.values)

\* Every body is one.
LEMMA EveryBodySound ==
    ASSUME RowsTypeOK, BodiesSound, NEW b \in Bodies
    PROVE  SoundBody(object[b]) /\ bitmap[b] \in Seq(BOOLEAN) /\ Len(bitmap[b]) = RowGroups[b[1]]
BY DEF RowsTypeOK, BodiesSound, SoundBody

\* And when every body is one, the bodies are sound.
LEMMA SoundBodiesPrimed ==
    ASSUME DOMAIN object' = Bodies, DOMAIN bitmap' = Bodies,
           object' = [b \in Bodies |-> object'[b]], bitmap' = [b \in Bodies |-> bitmap'[b]],
           \A b \in Bodies : /\ SoundBody(object'[b]) /\ bitmap'[b] \in Seq(BOOLEAN)
                             /\ Len(bitmap'[b]) = RowGroups[b[1]]
    PROVE  /\ object' \in [Bodies -> BodyValues] /\ bitmap' \in [Bodies -> Seq(BOOLEAN)]
           /\ BodiesSound'
<1>1. object' \in [Bodies -> BodyValues] /\ bitmap' \in [Bodies -> Seq(BOOLEAN)]
  BY DEF SoundBody
<1>2. BodiesSound'
  BY DEF BodiesSound, SoundBody
<1> QED
  BY <1>1, <1>2

\* Calls that write no body keep them sound.
LEMMA BodiesKept ==
    ASSUME RowsTypeOK, BodiesSound, UNCHANGED <<object, bitmap>>
    PROVE  /\ object' \in [Bodies -> BodyValues] /\ bitmap' \in [Bodies -> Seq(BOOLEAN)]
           /\ BodiesSound'
BY DEF RowsTypeOK, BodiesSound

\* The body with its values in reverse order, its checksum spoilt or not, and
\* the body cut short, are sound.
LEMMA SpoiltBodies ==
    ASSUME NEW o, SoundBody(o)
    PROVE  /\ SoundBody([o EXCEPT !.values = Reversed(@), !.crc = FALSE])
           /\ SoundBody([o EXCEPT !.values = Reversed(@)])
           /\ SoundBody([o EXCEPT !.whole = FALSE])
<1>1. PICK v \in Seq(Bytes) : v = Reversed(o.values) /\ Len(v) = Len(o.values)
                              /\ OfChunk(o.group, o.column, v)
  BY ReversedValues DEF SoundBody, BodyValues
<1>2. o \in BodyValues
  BY DEF SoundBody
<1>3. SoundBody([o EXCEPT !.values = v, !.crc = FALSE])
  BY <1>1, <1>2 DEF SoundBody, BodyValues
<1>4. SoundBody([o EXCEPT !.values = v])
  BY <1>1, <1>2 DEF SoundBody, BodyValues
<1>5. SoundBody([o EXCEPT !.whole = FALSE])
  BY <1>2 DEF SoundBody, BodyValues
<1>6. /\ [o EXCEPT !.values = Reversed(@), !.crc = FALSE] = [o EXCEPT !.values = v, !.crc = FALSE]
      /\ [o EXCEPT !.values = Reversed(@)] = [o EXCEPT !.values = v]
  BY <1>1, <1>2 DEF BodyValues
<1> QED
  BY <1>3, <1>4, <1>5, <1>6

\* Overwriting a body leaves sound bodies: nothing that can lie at a chunk's
\* place lies about which chunk it was written for.
LEMMA OverwriteKeepsBodies ==
    ASSUME RowsTypeOK, BodiesSound, Overwrite
    PROVE  /\ object' \in [Bodies -> BodyValues] /\ bitmap' \in [Bodies -> Seq(BOOLEAN)]
           /\ BodiesSound'
<1>1. PICK b \in Bodies :
        \/ /\ \/ object' = [object EXCEPT ![b].values = Reversed(@), ![b].crc = FALSE]
              \/ \E other \in Bodies \ {b} : object' = [object EXCEPT ![b] = object[other]]
              \/ object' = [object EXCEPT ![b].values = Reversed(@)]
              \/ object' = [object EXCEPT ![b].whole = FALSE]
           /\ UNCHANGED bitmap
        \/ /\ bitmap' = [bitmap EXCEPT ![b] = Flipped(@)]
           /\ UNCHANGED object
  BY DEF Overwrite
<1>2. object \in [Bodies -> BodyValues] /\ bitmap \in [Bodies -> Seq(BOOLEAN)]
  BY DEF RowsTypeOK
<1>3. ASSUME NEW n, SoundBody(n), object' = [object EXCEPT ![b] = n], UNCHANGED bitmap
      PROVE  /\ object' \in [Bodies -> BodyValues] /\ bitmap' \in [Bodies -> Seq(BOOLEAN)]
             /\ BodiesSound'
  <2>1. \A d \in Bodies : object'[d] = IF d = b THEN n ELSE object[d]
    BY <1>2, <1>3
  <2>2. \A d \in Bodies : /\ SoundBody(object'[d]) /\ bitmap'[d] \in Seq(BOOLEAN)
                          /\ Len(bitmap'[d]) = RowGroups[d[1]]
    BY <1>3, <2>1, EveryBodySound
  <2>3. DOMAIN object' = Bodies /\ DOMAIN bitmap' = Bodies
        /\ object' = [d \in Bodies |-> object'[d]] /\ bitmap' = [d \in Bodies |-> bitmap'[d]]
    BY <1>2, <1>3
  <2> QED
    BY <2>2, <2>3, SoundBodiesPrimed
<1>4. SoundBody(object[b])
  BY EveryBodySound
<1>5. CASE object' = [object EXCEPT ![b].values = Reversed(@), ![b].crc = FALSE] /\ UNCHANGED bitmap
  <2>1. object' = [object EXCEPT ![b] = [object[b] EXCEPT !.values = Reversed(@), !.crc = FALSE]]
    BY <1>2, <1>5 DEF BodyValues
  <2> QED
    BY <1>3, <1>4, <1>5, <2>1, SpoiltBodies
<1>6. CASE /\ \E other \in Bodies \ {b} : object' = [object EXCEPT ![b] = object[other]]
           /\ UNCHANGED bitmap
  BY <1>3, <1>6, EveryBodySound
<1>7. CASE object' = [object EXCEPT ![b].values = Reversed(@)] /\ UNCHANGED bitmap
  <2>1. object' = [object EXCEPT ![b] = [object[b] EXCEPT !.values = Reversed(@)]]
    BY <1>2, <1>7 DEF BodyValues
  <2> QED
    BY <1>3, <1>4, <1>7, <2>1, SpoiltBodies
<1>8. CASE object' = [object EXCEPT ![b].whole = FALSE] /\ UNCHANGED bitmap
  <2>1. object' = [object EXCEPT ![b] = [object[b] EXCEPT !.whole = FALSE]]
    BY <1>2, <1>8 DEF BodyValues
  <2> QED
    BY <1>3, <1>4, <1>8, <2>1, SpoiltBodies
<1>9. CASE bitmap' = [bitmap EXCEPT ![b] = Flipped(@)] /\ UNCHANGED object
  <2>1. Flipped(bitmap[b]) \in Seq(BOOLEAN) /\ Len(Flipped(bitmap[b])) = Len(bitmap[b])
    <3>1. Flipped(bitmap[b]) \in [DOMAIN bitmap[b] -> BOOLEAN] /\ bitmap[b] \in Seq(BOOLEAN)
      BY <1>2 DEF Flipped
    <3> QED
      BY <3>1, SameLengthSeq
  <2>2. \A d \in Bodies : bitmap'[d] = IF d = b THEN Flipped(bitmap[b]) ELSE bitmap[d]
    BY <1>2, <1>9
  <2>3. \A d \in Bodies : /\ SoundBody(object'[d]) /\ bitmap'[d] \in Seq(BOOLEAN)
                          /\ Len(bitmap'[d]) = RowGroups[d[1]]
    BY <1>9, <2>1, <2>2, EveryBodySound
  <2>4. DOMAIN object' = Bodies /\ DOMAIN bitmap' = Bodies
        /\ object' = [d \in Bodies |-> object'[d]] /\ bitmap' = [d \in Bodies |-> bitmap'[d]]
    BY <1>2, <1>9
  <2> QED
    BY <2>3, <2>4, SoundBodiesPrimed
<1> QED
  BY <1>1, <1>5, <1>6, <1>7, <1>8, <1>9

\* So overwriting keeps the invariant: nothing read so far changes.
LEMMA OverwriteStep == RowsIInv /\ Overwrite => RowsIInv'
<1> SUFFICES ASSUME RowsIInv, Overwrite PROVE RowsIInv'
  OBVIOUS
<1>1. RowsTypeOK /\ BodiesSound
  BY DEF RowsIInv
<1>2. /\ object' \in [Bodies -> BodyValues] /\ bitmap' \in [Bodies -> Seq(BOOLEAN)]
      /\ BodiesSound'
  BY <1>1, OverwriteKeepsBodies
<1>3. UNCHANGED <<slot, report, fields, last, calls>> /\ damage' \in Nat
  BY <1>1 DEF Overwrite, RowsTypeOK
<1>4. RowsTypeOK'
  BY <1>1, <1>2, <1>3 DEF RowsTypeOK
<1>5. ReportSound' /\ FieldsSound'
  BY <1>3 DEF RowsIInv, ReportSound, FieldsSound
<1>6. ReadsAreFaithful' /\ ReusedBuffersShowOneGroup' /\ RefusedFillsLeaveBuffers'
  BY <1>3 DEF RowsIInv, ReadsAreFaithful, ReusedBuffersShowOneGroup, RefusedFillsLeaveBuffers, BatchView
<1> QED
  BY <1>2, <1>4, <1>5, <1>6 DEF RowsIInv

\* An owned batch that is delivered holds the chunks of its columns.
LEMMA BatchIsFaithful ==
    ASSUME RowsTypeOK, BodiesSound, NEW g \in Groups, NEW ids \in Seq(StoredIds),
           read_row_group(g, ids).ok
    PROVE  \A i \in DOMAIN read_row_group(g, ids).value :
              LET a == read_row_group(g, ids).value[i]
              IN  Faithful(g, a.column, a.values, a.validity)
<1>1. \A i \in DOMAIN ids : read_column_array(g, ids[i]).ok
  BY DEF read_row_group, Failed
<1>2. read_row_group(g, ids).value = [i \in DOMAIN ids |-> read_column_array(g, ids[i]).value]
  BY <1>1 DEF read_row_group, Delivered
<1>3. ASSUME NEW c \in StoredIds, read_column_array(g, c).ok
      PROVE  Faithful(g, read_column_array(g, c).value.column, read_column_array(g, c).value.values,
                      read_column_array(g, c).value.validity)
  <2>1. ReadChunk(g, c).ok /\ ReadBitmap(g, c).ok
    BY <1>3, Zenon DEF read_column_array, Failed
  <2>2. PICK v, w : v = ReadChunk(g, c).value /\ w = ReadBitmap(g, c).value
    OBVIOUS
  <2>3. read_column_array(g, c) = Delivered([column |-> c, values |-> v, validity |-> w])
    BY <2>1, <2>2, Zenon DEF read_column_array
  <2>4. read_column_array(g, c).value = [column |-> c, values |-> v, validity |-> w]
    BY <2>3 DEF Delivered
  <2>5. Faithful(g, c, v, w)
    BY <2>1, <2>2, FaithfulRead
  <2> QED
    BY <2>4, <2>5
<1>4. ASSUME NEW i \in DOMAIN ids PROVE ids[i] \in StoredIds
  BY LenProperties, ElementOfSeq
<1> QED
  BY <1>1, <1>2, <1>3, <1>4

\* A call that leaves the reusable buffers alone and is no projection keeps
\* what they show.
LEMMA ViewsKept ==
    ASSUME ReusedBuffersShowOneGroup, UNCHANGED <<slot, report>>, last'.how # "project"
    PROVE  ReusedBuffersShowOneGroup'
BY DEF ReusedBuffersShowOneGroup, BatchView

\* What a call sets.
LEMMA CallReturns ==
    ASSUME NEW how, NEW g, NEW result, NEW before, NEW after, Returns(how, g, result, before, after)
    PROVE  /\ last'.how = how /\ last'.group = g /\ last'.result = result
           /\ last'.before = before /\ last'.after = after
BY DEF Returns

\* Reading an owned batch keeps the invariant.
LEMMA ReadBatchStep == RowsIInv /\ ReadBatch => RowsIInv'
<1> SUFFICES ASSUME RowsIInv, ReadBatch PROVE RowsIInv'
  OBVIOUS
<1>1. RowsTypeOK /\ BodiesSound
  BY DEF RowsIInv
<1>2. UNCHANGED <<object, bitmap, damage, slot, report, fields, calls>>
  BY DEF ReadBatch
<1>3. RowsTypeOK' /\ BodiesSound' /\ ReportSound' /\ FieldsSound'
  BY <1>2 DEF RowsIInv, RowsTypeOK, BodiesSound, ReportSound, FieldsSound
<1>4. PICK g \in Groups, ids \in Projections :
        \/ Returns("owned", g, read_row_group(g, ids), <<>>, <<>>)
        \/ Returns("attributed", g, read_row_group_with_attribution(g, ids).batch, <<>>, <<>>)
  BY DEF ReadBatch
<1>5. /\ last'.how \in {"owned", "attributed"}
      /\ last'.group = g /\ last'.result = read_row_group(g, ids)
  <2>1. read_row_group_with_attribution(g, ids).batch = read_row_group(g, ids)
    BY DEF read_row_group_with_attribution
  <2> QED
    BY <1>4, <2>1, CallReturns
<1>6. ids \in Seq(StoredIds)
  BY RowGroupReadAssumption
<1>7. ReadsAreFaithful'
  <2> SUFFICES ASSUME last'.result.ok
               PROVE  \A i \in DOMAIN last'.result.value :
                        LET a == last'.result.value[i]
                        IN  Faithful(g, a.column, a.values, a.validity)
    BY <1>5 DEF ReadsAreFaithful
  <2> QED
    BY <1>1, <1>5, <1>6, BatchIsFaithful
<1>8. ReusedBuffersShowOneGroup'
  BY <1>2, <1>5, ViewsKept DEF RowsIInv
<1>9. RefusedFillsLeaveBuffers'
  BY <1>5 DEF RefusedFillsLeaveBuffers
<1> QED
  BY <1>3, <1>7, <1>8, <1>9 DEF RowsIInv

\* A successful fill: each buffer of the caller holds the chunk of its column.
LEMMA FilledBufferShows ==
    ASSUME NEW g \in Groups, NEW b, NEW n, BufferReturned(g, b, n), BufferShows(g, b, n),
           NEW flag, flag = HasBitmap(g, BufferColumn(b))
    PROVE  Faithful(g, BufferColumn(n), SubSeq(n.values, 1, RowGroups[g]),
                    IF flag THEN SubSeq(n.bits, 1, RowGroups[g]) ELSE <<>>)
<1>1. BufferColumn(n) = BufferColumn(b)
  BY ColumnFollowsName DEF BufferReturned
<1> QED
  BY <1>1 DEF BufferShows

\* Filling caller buffers keeps the invariant.
LEMMA FillCallerStep == RowsIInv /\ FillCaller => RowsIInv'
<1> SUFFICES ASSUME RowsIInv, FillCaller PROVE RowsIInv'
  OBVIOUS
<1>1. RowsTypeOK /\ BodiesSound
  BY DEF RowsIInv
<1>2. UNCHANGED <<object, bitmap, damage, slot, report, fields, calls>>
  BY DEF FillCaller
<1>3. RowsTypeOK' /\ BodiesSound' /\ ReportSound' /\ FieldsSound'
  BY <1>2 DEF RowsIInv, RowsTypeOK, BodiesSound, ReportSound, FieldsSound
<1>4. PICK g \in Groups, bufs \in FillRequests :
        Returns("fill", g, read_row_group_into(g, bufs).result, bufs,
                read_row_group_into(g, bufs).buffers)
  BY DEF FillCaller
<1>5. bufs \in Seq(FillBuffers)
  BY RowGroupReadAssumption
<1>6. PICK f : f = read_row_group_into(g, bufs) /\ RequestFilled(g, bufs, f)
  BY <1>1, <1>5, RequestIsFilled
<1>7. /\ last'.how = "fill" /\ last'.group = g /\ last'.result = f.result
      /\ last'.before = bufs /\ last'.after = f.buffers
  BY <1>4, <1>6, CallReturns
<1>8. ReadsAreFaithful'
  <2> SUFFICES ASSUME f.result.ok
               PROVE  \A i \in DOMAIN f.buffers :
                        Faithful(g, BufferColumn(f.buffers[i]),
                                 SubSeq(f.buffers[i].values, 1, RowGroups[g]),
                                 IF f.result.value[i] THEN SubSeq(f.buffers[i].bits, 1, RowGroups[g])
                                 ELSE <<>>)
    BY <1>7 DEF ReadsAreFaithful
  <2> SUFFICES ASSUME NEW i \in DOMAIN f.buffers
               PROVE  Faithful(g, BufferColumn(f.buffers[i]),
                               SubSeq(f.buffers[i].values, 1, RowGroups[g]),
                               IF f.result.value[i] THEN SubSeq(f.buffers[i].bits, 1, RowGroups[g])
                               ELSE <<>>)
    OBVIOUS
  <2>1. /\ i \in DOMAIN bufs /\ BufferReturned(g, bufs[i], f.buffers[i])
        /\ BufferShows(g, bufs[i], f.buffers[i]) /\ f.result.value = FilledFlags(g, bufs)
    BY <1>6 DEF RequestFilled
  <2>2. f.result.value[i] = HasBitmap(g, BufferColumn(bufs[i]))
    BY <2>1 DEF FilledFlags
  <2> QED
    BY <2>1, <2>2, FilledBufferShows
<1>9. ReusedBuffersShowOneGroup'
  BY <1>2, <1>7, ViewsKept DEF RowsIInv
<1>10. RefusedFillsLeaveBuffers'
  <2>1. ~f.result.ok /\ f.result.kind = "invalid" => f.buffers = bufs
    BY <1>6 DEF RequestFilled, Failed
  <2>2. \A i \in DOMAIN f.buffers : \A r \in DOMAIN f.buffers[i].values :
          r > RowGroups[g] => f.buffers[i].values[r] = bufs[i].values[r]
    BY <1>6 DEF RequestFilled, BufferReturned
  <2> QED
    BY <1>7, <2>1, <2>2 DEF RefusedFillsLeaveBuffers
<1> QED
  BY <1>3, <1>8, <1>9, <1>10 DEF RowsIInv

----------------------------------------------------------------------------
(***************************************************************************)
(* Reusable buffers.                                                       *)
(***************************************************************************)
\* A new buffer has its types.
LEMMA NewBuffer ==
    ASSUME NEW c \in StoredIds, NEW rows \in Nat, NEW allow \in BOOLEAN
    PROVE  for_column(c, rows, allow) \in SlotBuffers
<1>1. <<>> \in Seq(Bytes) /\ <<>> \in Seq(BOOLEAN) /\ <<>> \in Bytes
  BY EmptySeq DEF Bytes
<1>2. PICK v \in Seq(Bytes) : v = Resize(<<>>, rows, <<>>)
  BY <1>1, Resized
<1>3. PICK w \in Seq(BOOLEAN) : w = IF allow THEN Resize(<<>>, rows, FALSE) ELSE <<>>
  BY <1>1, Resized
<1>4. for_column(c, rows, allow) = [column |-> c, values |-> v, allow |-> allow, bits |-> w]
  BY <1>2, <1>3 DEF for_column
<1> QED
  BY <1>4 DEF SlotBuffers

\* Making a slot keeps the invariant.
LEMMA MakeSlotStep == RowsIInv /\ MakeSlot => RowsIInv'
<1> SUFFICES ASSUME RowsIInv, MakeSlot PROVE RowsIInv'
  OBVIOUS
<1>1. RowsTypeOK /\ BodiesSound
  BY DEF RowsIInv
<1>2. UNCHANGED <<object, bitmap, damage, fields>> /\ report' = NoReport
  BY DEF MakeSlot
<1>3. PICK ids \in Projections, rows \in 0..MaxRows, allow \in BOOLEAN :
        /\ slot' = [i \in DOMAIN ids |-> for_column(ids[i], rows, allow)]
        /\ Call("make", 0, Delivered(<<>>))
  BY DEF MakeSlot
<1>4. last'.how = "make" /\ calls' \in Nat
  BY <1>1, <1>3, CallReturns DEF Call, RowsTypeOK
<1>5. slot' \in Seq(SlotBuffers)
  <2>1. ids \in Seq(StoredIds) /\ rows \in Nat
    BY RowGroupReadAssumption
  <2>2. ASSUME NEW i \in DOMAIN ids PROVE for_column(ids[i], rows, allow) \in SlotBuffers
    BY <2>1, LenProperties, ElementOfSeq, NewBuffer
  <2>3. slot' \in [DOMAIN ids -> SlotBuffers]
    BY <1>3, <2>2
  <2> QED
    BY <2>1, <2>3, SameLengthSeq
<1>6. RowsTypeOK'
  BY <1>1, <1>2, <1>4, <1>5 DEF RowsTypeOK
<1>7. BodiesSound' /\ FieldsSound'
  BY <1>2 DEF RowsIInv, BodiesSound, FieldsSound
<1>8. ReportSound' /\ ReadsAreFaithful' /\ RefusedFillsLeaveBuffers' /\ ReusedBuffersShowOneGroup'
  BY <1>2, <1>4 DEF ReportSound, ReadsAreFaithful, RefusedFillsLeaveBuffers, ReusedBuffersShowOneGroup
<1> QED
  BY <1>6, <1>7, <1>8 DEF RowsIInv

\* A slot buffer made ready for a group.
LEMMA PreparedBuffer ==
    ASSUME NEW b \in SlotBuffers, NEW n \in Nat
    PROVE  /\ prepare_for_rows(b, n) \in SlotBuffers
           /\ prepare_for_rows(b, n).column = b.column
           /\ Len(prepare_for_rows(b, n).values) = n
<1>1. b.values \in Seq(Bytes) /\ b.bits \in Seq(BOOLEAN) /\ <<>> \in Bytes /\ <<>> \in Seq(BOOLEAN)
  BY EmptySeq DEF SlotBuffers, Bytes
<1>2. PICK v \in Seq(Bytes) : v = Resize(b.values, n, <<>>) /\ Len(v) = n
  <2>1. Resize(b.values, n, <<>>) \in Seq(Bytes) /\ Len(Resize(b.values, n, <<>>)) = n
    <3>1. PICK old \in Seq(Bytes), zero \in Bytes : old = b.values /\ zero = <<>>
      BY <1>1
    <3>2. Resize(old, n, zero) \in Seq(Bytes) /\ Len(Resize(old, n, zero)) = n
      BY Resized
    <3> QED
      BY <3>1, <3>2
  <2> QED
    BY <2>1
<1>3. PICK w \in Seq(BOOLEAN) : w = IF b.allow THEN Resize(b.bits, n, FALSE) ELSE <<>>
  BY <1>1, Resized
<1>4. prepare_for_rows(b, n) = [b EXCEPT !.values = v, !.bits = w]
  BY <1>2, <1>3 DEF prepare_for_rows, SlotBuffers
<1> QED
  BY <1>2, <1>3, <1>4 DEF SlotBuffers

\* It is passed on as a fill buffer of its column.
LEMMA BufferOfSlot ==
    ASSUME NEW b \in SlotBuffers
    PROVE  /\ as_fill_buffer(b) \in FillBuffers /\ as_fill_buffer(b).values = b.values
           /\ BufferColumn(as_fill_buffer(b)) = b.column
<1>1. PICK c \in StoredIds : c = b.column
  BY DEF SlotBuffers
<1>2. StoredColumns \in Seq([name : STRING, type : STRING, nullable : BOOLEAN])
  BY RowGroupReadAssumption
<1>3. c \in 1..Len(StoredColumns) /\ Len(StoredColumns) \in Nat
  BY <1>2, LenProperties DEF StoredIds
<1>4. StoredColumns[c] \in [name : STRING, type : STRING, nullable : BOOLEAN]
  BY <1>2, <1>3, ElementOfSeq
<1>5. PICK n : n = as_fill_buffer(b)
  OBVIOUS
<1>6. n = [name |-> StoredColumns[c].name, id |-> c, type |-> StoredColumns[c].type,
           values |-> b.values, bits |-> b.bits, allow |-> b.allow]
  BY <1>1, <1>5 DEF as_fill_buffer
<1>7. n \in FillBuffers /\ n.values = b.values
  <2>1. c \in Nat /\ StoredColumns[c].name \in STRING /\ StoredColumns[c].type \in STRING
    BY <1>3, <1>4
  <2>2. b.values \in Seq(Bytes) /\ b.bits \in Seq(BOOLEAN) /\ b.allow \in BOOLEAN
    BY DEF SlotBuffers
  <2> QED
    BY <1>6, <2>1, <2>2 DEF FillBuffers
<1>8. n.id = c /\ c # 0 /\ n.name = StoredColumns[c].name
  BY <1>3, <1>6
<1>9. c \in ByName(n) \cap ById(n)
  BY <1>8 DEF ByName, ById
<1>10. Resolvable(n)
  BY <1>8, <1>9 DEF Resolvable
<1>11. BufferColumn(n) = c
  BY <1>8, <1>10, ColumnOfBuffer
<1> QED
  BY <1>1, <1>5, <1>7, <1>11

\* A slot buffer that took the contents of a returned fill buffer.
Refilled(b, n) == [b EXCEPT !.values = n.values, !.bits = n.bits]

\* It keeps its column and has the types of the slot.
LEMMA RefilledBuffer ==
    ASSUME NEW b \in SlotBuffers, NEW n, n.values \in Seq(Bytes), n.bits \in Seq(BOOLEAN)
    PROVE  /\ Refilled(b, n) \in SlotBuffers /\ Refilled(b, n).column = b.column
           /\ Refilled(b, n).values = n.values /\ Refilled(b, n).bits = n.bits
BY DEF Refilled, SlotBuffers

\* What a fill of the slot for a group does to the slot.
SlotFilled(g, bufs, f) ==
  /\ slot' \in Seq(SlotBuffers) /\ DOMAIN slot' = DOMAIN slot
  /\ bufs \in Seq(FillBuffers) /\ DOMAIN bufs = DOMAIN slot
  /\ RequestFilled(g, bufs, f)
  /\ \A i \in DOMAIN slot :
       /\ slot'[i].column = BufferColumn(bufs[i])
       /\ slot'[i].values = f.buffers[i].values /\ slot'[i].bits = f.buffers[i].bits
       /\ Len(slot'[i].values) = RowGroups[g]
  /\ report' = IF f.result.ok
               THEN [group |-> g, rows |-> RowGroups[g], filled |-> f.result.value]
               ELSE NoReport
  /\ last'.how = "reuse" /\ calls' \in Nat

\* The steps of read_row_group_into_reusable, put together.
LEMMA FillOfSlot ==
    ASSUME RowsTypeOK, BodiesSound, FillSlot
    PROVE  \E g \in Groups : \E bufs, f : SlotFilled(g, bufs, f)
<1> DEFINE Prepared(g) == [i \in DOMAIN slot |-> prepare_for_rows(slot[i], RowGroups[g])]
           Request(g) == [i \in DOMAIN slot |-> as_fill_buffer(Prepared(g)[i])]
           Fill(g) == read_row_group_into(g, Request(g))
<1>1. PICK g \in Groups :
        /\ slot' = [i \in DOMAIN slot |->
                      [Prepared(g)[i] EXCEPT !.values = Fill(g).buffers[i].values,
                                             !.bits = Fill(g).buffers[i].bits]]
        /\ report' = IF Fill(g).result.ok
                     THEN [group |-> g, rows |-> RowGroups[g], filled |-> Fill(g).result.value]
                     ELSE NoReport
        /\ Call("reuse", g, Fill(g).result)
  BY Zenon DEF FillSlot
<1>2. PICK prepared : prepared = Prepared(g)
  OBVIOUS
<1>3. PICK bufs : bufs = Request(g)
  OBVIOUS
<1>4. PICK f : f = Fill(g)
  OBVIOUS
<1>5. /\ slot' = [i \in DOMAIN slot |-> Refilled(prepared[i], f.buffers[i])]
      /\ report' = IF f.result.ok
                   THEN [group |-> g, rows |-> RowGroups[g], filled |-> f.result.value]
                   ELSE NoReport
      /\ Call("reuse", g, f.result)
  BY <1>1, <1>2, <1>4, Zenon DEF Refilled
<1>6. /\ prepared = [i \in DOMAIN slot |-> prepare_for_rows(slot[i], RowGroups[g])]
      /\ bufs = [i \in DOMAIN slot |-> as_fill_buffer(prepared[i])]
      /\ f = read_row_group_into(g, bufs)
  BY <1>2, <1>3, <1>4, Zenon
<1> HIDE DEF Prepared, Request, Fill
<1>7. slot \in Seq(SlotBuffers) /\ RowGroups[g] \in Nat
  <2>1. RowGroups \in Seq(Nat)
    BY RowGroupReadAssumption
  <2> QED
    BY <2>1, LenProperties, ElementOfSeq DEF Groups, RowsTypeOK
<1>8. ASSUME NEW i \in DOMAIN slot
      PROVE  /\ prepared[i] \in SlotBuffers /\ Len(prepared[i].values) = RowGroups[g]
             /\ bufs[i] \in FillBuffers /\ bufs[i].values = prepared[i].values
             /\ BufferColumn(bufs[i]) = prepared[i].column
  <2>1. slot[i] \in SlotBuffers
    BY <1>7, LenProperties, ElementOfSeq
  <2>2. prepared[i] \in SlotBuffers /\ Len(prepared[i].values) = RowGroups[g]
    BY <1>6, <1>7, <2>1, PreparedBuffer
  <2> QED
    BY <1>6, <2>2, BufferOfSlot
<1>9. bufs \in Seq(FillBuffers) /\ DOMAIN bufs = DOMAIN slot
  <2>1. bufs \in [DOMAIN slot -> FillBuffers]
    BY <1>6, <1>8
  <2> QED
    BY <1>7, <2>1, SameLengthSeq
<1>10. RequestFilled(g, bufs, f)
  BY <1>6, <1>9, RequestIsFilled
<1>11. ASSUME NEW i \in DOMAIN slot
       PROVE  /\ slot'[i] \in SlotBuffers
              /\ slot'[i].column = BufferColumn(bufs[i])
              /\ slot'[i].values = f.buffers[i].values /\ slot'[i].bits = f.buffers[i].bits
              /\ Len(slot'[i].values) = RowGroups[g]
  <2>1. /\ f.buffers[i].values \in Seq(Bytes) /\ f.buffers[i].bits \in Seq(BOOLEAN)
        /\ Len(f.buffers[i].values) = Len(bufs[i].values)
    BY <1>9, <1>10 DEF RequestFilled, BufferReturned
  <2>2. slot'[i] = Refilled(prepared[i], f.buffers[i])
    BY <1>5
  <2>3. /\ Refilled(prepared[i], f.buffers[i]) \in SlotBuffers
        /\ Refilled(prepared[i], f.buffers[i]).column = prepared[i].column
        /\ Refilled(prepared[i], f.buffers[i]).values = f.buffers[i].values
        /\ Refilled(prepared[i], f.buffers[i]).bits = f.buffers[i].bits
    <3>1. PICK n : n = f.buffers[i]
      OBVIOUS
    <3>2. prepared[i] \in SlotBuffers /\ n.values \in Seq(Bytes) /\ n.bits \in Seq(BOOLEAN)
      BY <1>8, <2>1, <3>1
    <3> QED
      BY <3>1, <3>2, RefilledBuffer
  <2>4. /\ slot'[i] \in SlotBuffers /\ slot'[i].column = prepared[i].column
        /\ slot'[i].values = f.buffers[i].values /\ slot'[i].bits = f.buffers[i].bits
    BY <2>2, <2>3
  <2> QED
    BY <1>8, <2>1, <2>4
<1>12. slot' \in Seq(SlotBuffers) /\ DOMAIN slot' = DOMAIN slot
  <2>1. slot' \in [DOMAIN slot -> SlotBuffers]
    BY <1>5, <1>11
  <2> QED
    BY <1>7, <2>1, SameLengthSeq
<1>13. last'.how = "reuse" /\ calls' \in Nat
  BY <1>5, CallReturns DEF Call, RowsTypeOK
<1>14. SlotFilled(g, bufs, f)
  BY <1>5, <1>9, <1>10, <1>11, <1>12, <1>13 DEF SlotFilled
<1> QED
  BY <1>14

\* Filling the slot keeps the invariant: whatever earlier groups left in the
\* buffers, what they now show is the group of the report.
LEMMA FillSlotStep == RowsIInv /\ FillSlot => RowsIInv'
<1> SUFFICES ASSUME RowsIInv, FillSlot PROVE RowsIInv'
  OBVIOUS
<1>1. RowsTypeOK /\ BodiesSound
  BY DEF RowsIInv
<1>2. UNCHANGED <<object, bitmap, damage, fields>>
  BY DEF FillSlot
<1>3. PICK g \in Groups : \E bufs, f : SlotFilled(g, bufs, f)
  BY <1>1, FillOfSlot
<1>4. PICK bufs, f : SlotFilled(g, bufs, f)
  BY <1>3
<1>5. RowGroups[g] \in Nat
  <2>1. RowGroups \in Seq(Nat)
    BY RowGroupReadAssumption
  <2> QED
    BY <2>1, LenProperties, ElementOfSeq DEF Groups
<1>6. last'.how = "reuse"
  BY <1>4 DEF SlotFilled
<1>7. CASE ~f.result.ok
  <2>1. report' = NoReport
    BY <1>4, <1>7 DEF SlotFilled
  <2>2. RowsTypeOK'
    BY <1>1, <1>2, <1>4, <2>1 DEF RowsTypeOK, SlotFilled
  <2>3. ReportSound' /\ ReusedBuffersShowOneGroup'
    BY <1>6, <2>1 DEF ReportSound, ReusedBuffersShowOneGroup
  <2> QED
    BY <1>2, <1>6, <2>2, <2>3
    DEF RowsIInv, BodiesSound, FieldsSound, ReadsAreFaithful, RefusedFillsLeaveBuffers
<1>8. CASE f.result.ok
  <2>1. f.result.value = FilledFlags(g, bufs)
    BY <1>4, <1>8 DEF SlotFilled, RequestFilled
  <2>2. FilledFlags(g, bufs) \in Seq(BOOLEAN)
    <3>1. bufs \in Seq(FillBuffers)
      BY <1>4 DEF SlotFilled
    <3>2. FilledFlags(g, bufs) \in [DOMAIN bufs -> BOOLEAN]
      BY DEF FilledFlags, HasBitmap
    <3> QED
      BY <3>1, <3>2, SameLengthSeq
  <2>3. report' = [group |-> g, rows |-> RowGroups[g], filled |-> FilledFlags(g, bufs)]
    BY <1>4, <1>8, <2>1 DEF SlotFilled
  <2>4. /\ report'.group = g /\ report'.rows = RowGroups[g]
        /\ report'.filled = FilledFlags(g, bufs) /\ report' \in FillReports
    BY <1>5, <2>2, <2>3 DEF FillReports
  <2>5. RowsTypeOK'
    BY <1>1, <1>2, <1>4, <2>4 DEF RowsTypeOK, SlotFilled
  <2>6. ReportSound'
    BY <1>4, <1>5, <2>4 DEF ReportSound, SlotFilled
  <2>7. ASSUME NEW i \in DOMAIN slot'
        PROVE  Faithful(g, BatchView'[i].column, BatchView'[i].values, BatchView'[i].validity)
    <3>1. /\ i \in DOMAIN slot /\ i \in DOMAIN bufs
          /\ slot'[i].column = BufferColumn(bufs[i])
          /\ slot'[i].values = f.buffers[i].values /\ slot'[i].bits = f.buffers[i].bits
      BY <1>4 DEF SlotFilled
    <3>2. BufferShows(g, bufs[i], f.buffers[i])
      BY <1>4, <1>8, <3>1 DEF SlotFilled, RequestFilled
    <3>3. report'.filled[i] = HasBitmap(g, BufferColumn(bufs[i]))
      BY <2>4, <3>1 DEF FilledFlags
    <3>4. BatchView'[i] = view(slot'[i], report'.rows, report'.filled[i])
      BY DEF BatchView
    <3>5. PICK v, w : /\ v = SubSeq(f.buffers[i].values, 1, RowGroups[g])
                      /\ w = IF HasBitmap(g, BufferColumn(bufs[i]))
                             THEN SubSeq(f.buffers[i].bits, 1, RowGroups[g]) ELSE <<>>
      OBVIOUS
    <3>6. BatchView'[i] = [column |-> BufferColumn(bufs[i]), values |-> v, validity |-> w]
      BY <2>4, <3>1, <3>3, <3>4, <3>5 DEF view
    <3>7. Faithful(g, BufferColumn(bufs[i]), v, w)
      BY <3>2, <3>5 DEF BufferShows
    <3> QED
      BY <3>6, <3>7
  <2>8. ReusedBuffersShowOneGroup'
    BY <1>6, <2>4, <2>7 DEF ReusedBuffersShowOneGroup
  <2> QED
    BY <1>2, <1>6, <2>5, <2>6, <2>8
    DEF RowsIInv, BodiesSound, FieldsSound, ReadsAreFaithful, RefusedFillsLeaveBuffers
<1> QED
  BY <1>7, <1>8

----------------------------------------------------------------------------
(***************************************************************************)
(* Projection of fixed-binary fields.                                      *)
(***************************************************************************)
\* Making a projection buffer keeps the invariant.
LEMMA MakeFieldsStep == RowsIInv /\ MakeFields => RowsIInv'
<1> SUFFICES ASSUME RowsIInv, MakeFields PROVE RowsIInv'
  OBVIOUS
<1>1. RowsTypeOK /\ BodiesSound
  BY DEF RowsIInv
<1>2. UNCHANGED <<object, bitmap, damage, slot, report>>
  BY DEF MakeFields
<1>3. PICK offsets \in FieldSets, rows \in 0..MaxRows :
        fields' = [offsets |-> offsets, rows |-> 0,
                   values |-> [h \in DOMAIN offsets |-> Resize(<<>>, rows, 0)]]
  BY DEF MakeFields
<1>4. last'.how = "make" /\ calls' \in Nat
  BY <1>1, CallReturns DEF MakeFields, Call, RowsTypeOK
<1>5. PICK v \in Seq(Seq(Nat)) :
        v = [h \in DOMAIN offsets |-> Resize(<<>>, rows, 0)] /\ DOMAIN v = DOMAIN offsets
  <2>1. offsets \in Seq(Nat) /\ rows \in Nat
    BY RowGroupReadAssumption
  <2>2. Resize(<<>>, rows, 0) \in Seq(Nat)
    BY <2>1, EmptySeq, Resized
  <2>3. [h \in DOMAIN offsets |-> Resize(<<>>, rows, 0)] \in [DOMAIN offsets -> Seq(Nat)]
    BY <2>2
  <2> QED
    BY <2>1, <2>3, SameLengthSeq
<1>6. fields' = [offsets |-> offsets, rows |-> 0, values |-> v]
  BY <1>3, <1>5
<1>7. fields' \in FieldBuffers /\ FieldsSound'
  <2>1. offsets \in Seq(Nat)
    BY RowGroupReadAssumption
  <2> QED
    BY <1>5, <1>6, <2>1 DEF FieldBuffers, FieldsSound
<1>8. RowsTypeOK' /\ BodiesSound' /\ ReportSound'
  BY <1>1, <1>2, <1>4, <1>7 DEF RowsIInv, RowsTypeOK, BodiesSound, ReportSound
<1>9. ReusedBuffersShowOneGroup'
  BY <1>2, <1>4, ViewsKept DEF RowsIInv
<1>10. ReadsAreFaithful' /\ RefusedFillsLeaveBuffers'
  BY <1>4 DEF ReadsAreFaithful, RefusedFillsLeaveBuffers
<1> QED
  BY <1>7, <1>8, <1>9, <1>10 DEF RowsIInv

\* A field projected out of records it fits.
FieldOf(v, offset) == [r \in DOMAIN v |-> v[r][offset + 1]]

\* It has a byte for each record.
LEMMA FieldTypes ==
    ASSUME NEW v \in Seq(Bytes), NEW offset \in Nat, NEW out \in Seq(Nat), FieldFits(v, offset, out)
    PROVE  /\ FieldOf(v, offset) \in Seq(Nat) /\ Len(FieldOf(v, offset)) = Len(v)
           /\ Over(FieldOf(v, offset), out) \in Seq(Nat)
           /\ SubSeq(Over(FieldOf(v, offset), out), 1, Len(v)) = FieldOf(v, offset)
<1>1. ASSUME NEW r \in DOMAIN v PROVE v[r][offset + 1] \in Nat
  <2>1. v[r] \in Seq(Nat)
    BY LenProperties, ElementOfSeq DEF Bytes
  <2>2. offset + 1 \in 1..Len(v[r])
    BY <2>1, LenProperties DEF FieldFits, RecordWidth
  <2> QED
    BY <2>1, <2>2, ElementOfSeq
<1>2. FieldOf(v, offset) \in [DOMAIN v -> Nat]
  BY <1>1 DEF FieldOf
<1>3. FieldOf(v, offset) \in Seq(Nat) /\ Len(FieldOf(v, offset)) = Len(v)
  BY <1>2, SameLengthSeq
<1>4. PICK d \in Seq(Nat) : d = FieldOf(v, offset)
  BY <1>3
<1>5. Over(d, out) \in Seq(Nat) /\ SubSeq(Over(d, out), 1, Len(d)) = d
  BY Overwritten
<1> QED
  BY <1>3, <1>4, <1>5

\* The fields that records do not fit, the last field before them, and the
\* values that project_records leaves.
Unfit(v) == {h \in DOMAIN fields.offsets : ~FieldFits(v, fields.offsets[h], fields.values[h])}
LastFitting(v) ==
  IF Unfit(v) = {} THEN Len(fields.offsets)
  ELSE (CHOOSE h \in Unfit(v) : \A k \in Unfit(v) : h <= k) - 1
Projected(v) ==
  [h \in DOMAIN fields.values |->
     IF h <= LastFitting(v) THEN Over(FieldOf(v, fields.offsets[h]), fields.values[h])
     ELSE fields.values[h]]

\* Fields up to the last fitting one fit.
LEMMA FittingFields ==
    ASSUME RowsTypeOK, FieldsSound, NEW v,
           NEW h \in DOMAIN fields.offsets, h <= LastFitting(v)
    PROVE  FieldFits(v, fields.offsets[h], fields.values[h])
<1>1. fields.offsets \in Seq(Nat)
  BY DEF RowsTypeOK, FieldBuffers
<1>2. h \in Nat /\ Unfit(v) \in SUBSET Nat
  BY <1>1, LenProperties DEF Unfit
<1>3. CASE Unfit(v) = {}
  BY <1>3 DEF Unfit
<1>4. CASE Unfit(v) # {}
  <2>1. \E m \in Unfit(v) : \A k \in Unfit(v) : m <= k
    BY <1>2, <1>4, LeastNumber
  <2>2. PICK m \in Unfit(v) : (\A k \in Unfit(v) : m <= k) /\ LastFitting(v) = m - 1
    BY <1>4, <2>1 DEF LastFitting
  <2>3. m \in Nat /\ ~(m <= h)
    BY <1>2, <2>2
  <2>4. h \notin Unfit(v)
    BY <2>2, <2>3
  <2> QED
    BY <2>4 DEF Unfit
<1> QED
  BY <1>3, <1>4

\* The parts of what project_records returns.
LEMMA ProjectionParts ==
    ASSUME RowsTypeOK, NEW v
    PROVE  /\ project_records(v).ok <=> Unfit(v) = {}
           /\ project_records(v).buffer.offsets = fields.offsets
           /\ project_records(v).buffer.values = Projected(v)
           /\ project_records(v).buffer.rows = (IF Unfit(v) = {} THEN Len(v) ELSE fields.rows)
           /\ project_records(v).buffer =
                [offsets |-> fields.offsets, values |-> Projected(v),
                 rows |-> IF Unfit(v) = {} THEN Len(v) ELSE fields.rows]
<1>1. project_records(v) =
        [ok |-> Unfit(v) = {},
         buffer |-> [fields EXCEPT !.values = Projected(v),
                                   !.rows = IF Unfit(v) = {} THEN Len(v) ELSE fields.rows]]
  BY DEF project_records, Unfit, LastFitting, Projected, FieldOf
<1>2. PICK p : p = (Unfit(v) = {})
  OBVIOUS
<1>3. PICK rows : rows = IF Unfit(v) = {} THEN Len(v) ELSE fields.rows
  OBVIOUS
<1>4. PICK values : values = Projected(v)
  OBVIOUS
<1>5. PICK n : n = [fields EXCEPT !.values = values, !.rows = rows]
  OBVIOUS
<1>6. project_records(v) = [ok |-> p, buffer |-> n]
  BY <1>1, <1>2, <1>3, <1>4, <1>5
<1>7. project_records(v).ok = p /\ project_records(v).buffer = n
  BY <1>6
<1>8. n = [offsets |-> fields.offsets, values |-> values, rows |-> rows]
  BY <1>5 DEF RowsTypeOK, FieldBuffers
<1>9. project_records(v).ok <=> Unfit(v) = {}
  BY <1>2, <1>7, Zenon
<1>10. project_records(v).buffer = [offsets |-> fields.offsets, values |-> values, rows |-> rows]
  BY <1>7, <1>8
<1>11. /\ project_records(v).buffer.offsets = fields.offsets
       /\ project_records(v).buffer.values = values
       /\ project_records(v).buffer.rows = rows
  BY <1>10
<1> QED
  BY <1>3, <1>4, <1>9, <1>10, <1>11, Zenon

\* Projecting records leaves a projection buffer, and when every field fits,
\* one whose first rows are the fields of the records.
LEMMA RecordsProjected ==
    ASSUME RowsTypeOK, FieldsSound, NEW v \in Seq(Bytes)
    PROVE  /\ project_records(v).buffer \in FieldBuffers
           /\ project_records(v).buffer.offsets = fields.offsets
           /\ DOMAIN project_records(v).buffer.values = DOMAIN fields.offsets
           /\ project_records(v).ok =>
                /\ project_records(v).buffer.rows = Len(v)
                /\ \A h \in DOMAIN fields.offsets :
                     SubSeq(project_records(v).buffer.values[h], 1, Len(v)) =
                        FieldOf(v, fields.offsets[h])
<1>1. fields.offsets \in Seq(Nat) /\ fields.values \in Seq(Seq(Nat)) /\ fields.rows \in Nat
  BY DEF RowsTypeOK, FieldBuffers
<1>2. DOMAIN fields.values = DOMAIN fields.offsets
  BY DEF FieldsSound
<1>3. ASSUME NEW h \in DOMAIN fields.offsets
      PROVE  fields.offsets[h] \in Nat /\ fields.values[h] \in Seq(Nat)
  <2>1. fields.offsets[h] \in Nat
    BY <1>1, LenProperties, ElementOfSeq
  <2>2. fields.values[h] \in Seq(Nat)
    BY <1>1, <1>2, LenProperties, ElementOfSeq
  <2> QED
    BY <2>1, <2>2
<1>4. ASSUME NEW h \in DOMAIN fields.offsets, h <= LastFitting(v)
      PROVE  /\ Over(FieldOf(v, fields.offsets[h]), fields.values[h]) \in Seq(Nat)
             /\ SubSeq(Over(FieldOf(v, fields.offsets[h]), fields.values[h]), 1, Len(v)) =
                  FieldOf(v, fields.offsets[h])
  <2>1. FieldFits(v, fields.offsets[h], fields.values[h])
    BY <1>4, FittingFields
  <2>2. PICK offset \in Nat, out \in Seq(Nat) : offset = fields.offsets[h] /\ out = fields.values[h]
    BY <1>3
  <2> QED
    BY <2>1, <2>2, FieldTypes
<1>5. \A h \in DOMAIN fields.offsets :
        Projected(v)[h] = IF h <= LastFitting(v)
                          THEN Over(FieldOf(v, fields.offsets[h]), fields.values[h])
                          ELSE fields.values[h]
  BY <1>2 DEF Projected
<1>6. Projected(v) \in Seq(Seq(Nat)) /\ DOMAIN Projected(v) = DOMAIN fields.offsets
  <2>1. \A h \in DOMAIN fields.values : Projected(v)[h] \in Seq(Nat)
    BY <1>2, <1>3, <1>4, <1>5
  <2>2. Projected(v) = [h \in DOMAIN fields.values |-> Projected(v)[h]]
    BY DEF Projected
  <2>3. Projected(v) \in [DOMAIN fields.values -> Seq(Nat)]
    BY <2>1, <2>2
  <2> QED
    BY <1>1, <1>2, <2>3, SameLengthSeq
<1>7. Len(v) \in Nat
  BY LenProperties
<1>8. project_records(v).buffer \in FieldBuffers
  <2>1. PICK rows \in Nat : rows = IF Unfit(v) = {} THEN Len(v) ELSE fields.rows
    BY <1>1, <1>7
  <2>2. project_records(v).buffer =
          [offsets |-> fields.offsets, values |-> Projected(v), rows |-> rows]
    BY <2>1, ProjectionParts
  <2> QED
    BY <1>1, <1>6, <2>2 DEF FieldBuffers
<1>9. ASSUME project_records(v).ok
      PROVE  /\ project_records(v).buffer.rows = Len(v)
             /\ \A h \in DOMAIN fields.offsets :
                  SubSeq(project_records(v).buffer.values[h], 1, Len(v)) =
                     FieldOf(v, fields.offsets[h])
  <2>1. Unfit(v) = {}
    BY <1>9, ProjectionParts
  <2>2. LastFitting(v) = Len(fields.offsets)
    BY <2>1 DEF LastFitting
  <2>3. \A h \in DOMAIN fields.offsets : h <= LastFitting(v)
    BY <1>1, <2>2, LenProperties
  <2>4. /\ project_records(v).buffer.rows = Len(v)
        /\ project_records(v).buffer.values = Projected(v)
    BY <2>1, ProjectionParts
  <2> QED
    BY <1>4, <1>5, <2>3, <2>4
<1> QED
  BY <1>6, <1>8, <1>9, ProjectionParts

\* The records that a view of the slot shows.
LEMMA ShownRecords ==
    ASSUME RowsIInv, report # NoReport, NEW i \in DOMAIN slot
    PROVE  /\ BatchView[i].column = slot[i].column /\ slot[i].column \in StoredIds
           /\ BatchView[i].values \in Seq(Bytes)
           /\ report.group \in Groups
           /\ <<report.group, slot[i].column>> \notin Unchecked =>
                BatchView[i].values = Stored(report.group, slot[i].column)
<1>1. slot \in Seq(SlotBuffers) /\ report \in FillReports
  BY DEF RowsIInv, RowsTypeOK
<1>2. slot[i] \in SlotBuffers
  BY <1>1, LenProperties, ElementOfSeq
<1>3. slot[i].column \in StoredIds /\ slot[i].values \in Seq(Bytes)
  BY <1>2 DEF SlotBuffers
<1>4. report.group \in Groups /\ report.rows \in Nat
  BY <1>1 DEF FillReports
<1>5. report.rows <= Len(slot[i].values)
  BY DEF RowsIInv, ReportSound
<1>6. PICK w : w = IF report.filled[i] THEN SubSeq(slot[i].bits, 1, report.rows) ELSE <<>>
  OBVIOUS
<1>7. PICK v \in Seq(Bytes) : v = SubSeq(slot[i].values, 1, report.rows)
  BY <1>3, <1>4, <1>5, PrefixOf
<1>8. BatchView[i] = [column |-> slot[i].column, values |-> v, validity |-> w]
  BY <1>6, <1>7 DEF BatchView, view
<1>9. Faithful(report.group, slot[i].column, v, w)
  <2>1. Faithful(report.group, BatchView[i].column, BatchView[i].values, BatchView[i].validity)
    BY DEF RowsIInv, ReusedBuffersShowOneGroup
  <2> QED
    BY <1>8, <2>1
<1>10. <<report.group, slot[i].column>> \notin Unchecked => v = Stored(report.group, slot[i].column)
  BY <1>9 DEF Faithful
<1> QED
  BY <1>3, <1>4, <1>7, <1>8, <1>10

\* Projecting fields out of the batch of the slot keeps the invariant.
LEMMA ProjectStep == RowsIInv /\ Project => RowsIInv'
<1> SUFFICES ASSUME RowsIInv, Project PROVE RowsIInv'
  OBVIOUS
<1>1. RowsTypeOK /\ BodiesSound /\ FieldsSound
  BY DEF RowsIInv
<1>2. UNCHANGED <<object, bitmap, damage, slot, report>> /\ report # NoReport
  BY DEF Project
<1>3. PICK i \in DOMAIN slot :
        IF BatchView[i].validity # <<>>
        THEN Call("project", report.group, Failed("invalid")) /\ UNCHANGED fields
        ELSE /\ fields' = project_records(BatchView[i].values).buffer
             /\ Call("project", report.group,
                     IF project_records(BatchView[i].values).ok
                     THEN Delivered([column |-> slot[i].column,
                            fields |-> [h \in DOMAIN fields.offsets |->
                               SubSeq(project_records(BatchView[i].values).buffer.values[h], 1,
                                      project_records(BatchView[i].values).buffer.rows)]])
                     ELSE Failed("invalid"))
  BY DEF Project
<1>4. PICK g \in Groups, c \in StoredIds, v \in Seq(Bytes) :
        /\ g = report.group /\ c = slot[i].column /\ v = BatchView[i].values
        /\ <<g, c>> \notin Unchecked => v = Stored(g, c)
  BY <1>2, ShownRecords
<1>5. PICK done : done = project_records(v)
  OBVIOUS
<1>6. /\ done.buffer \in FieldBuffers /\ done.buffer.offsets = fields.offsets
      /\ DOMAIN done.buffer.values = DOMAIN fields.offsets
      /\ done.ok => /\ done.buffer.rows = Len(v)
                    /\ \A h \in DOMAIN fields.offsets :
                         SubSeq(done.buffer.values[h], 1, Len(v)) = FieldOf(v, fields.offsets[h])
  BY <1>1, <1>5, RecordsProjected
<1>7. PICK out : out = [h \in DOMAIN fields.offsets |->
                          SubSeq(done.buffer.values[h], 1, done.buffer.rows)]
  OBVIOUS
<1>8. PICK result :
        /\ \/ fields' = fields /\ result = Failed("invalid")
           \/ fields' = done.buffer /\ result = Failed("invalid")
           \/ /\ fields' = done.buffer /\ done.ok
              /\ result = Delivered([column |-> c, fields |-> out])
        /\ Call("project", g, result)
  <2>1. CASE BatchView[i].validity # <<>>
    BY <1>3, <1>4, <2>1
  <2>2. CASE BatchView[i].validity = <<>> /\ ~done.ok
    BY <1>3, <1>4, <1>5, <2>2
  <2>3. CASE BatchView[i].validity = <<>> /\ done.ok
    BY <1>3, <1>4, <1>5, <1>7, <2>3
  <2> QED
    BY <2>1, <2>2, <2>3
<1>9. last'.how = "project" /\ last'.group = g /\ last'.result = result /\ calls' \in Nat
  BY <1>1, <1>8, CallReturns DEF Call, RowsTypeOK
<1>10. fields' \in FieldBuffers /\ FieldsSound' /\ fields'.offsets = fields.offsets
  BY <1>1, <1>6, <1>8 DEF RowsTypeOK, FieldsSound
<1>11. RowsTypeOK' /\ BodiesSound' /\ ReportSound'
  BY <1>1, <1>2, <1>9, <1>10 DEF RowsIInv, RowsTypeOK, BodiesSound, ReportSound
<1>12. ReadsAreFaithful' /\ RefusedFillsLeaveBuffers'
  BY <1>9 DEF ReadsAreFaithful, RefusedFillsLeaveBuffers
<1>13. ReusedBuffersShowOneGroup'
  <2>1. report' # NoReport =>
          \A k \in DOMAIN slot' :
            Faithful(report'.group, BatchView'[k].column, BatchView'[k].values, BatchView'[k].validity)
    BY <1>2 DEF RowsIInv, ReusedBuffersShowOneGroup, BatchView
  <2>2. ASSUME result.ok, <<g, result.value.column>> \notin Unchecked,
               NEW h \in DOMAIN fields.offsets
        PROVE  result.value.fields[h] =
                 [r \in 1..RowGroups[g] |-> Cell(g, result.value.column, r)[fields.offsets[h] + 1]]
    <3>1. done.ok /\ result.value = [column |-> c, fields |-> out]
      BY <1>8, <2>2 DEF Failed, Delivered
    <3>2. result.value.column = c /\ result.value.fields = out
      BY <3>1
    <3>3. v = Stored(g, c)
      BY <1>4, <2>2, <3>2
    <3>4. out[h] = FieldOf(v, fields.offsets[h])
      BY <1>6, <1>7, <3>1
    <3>5. FieldOf(v, fields.offsets[h]) =
            [r \in 1..RowGroups[g] |-> Cell(g, c, r)[fields.offsets[h] + 1]]
      BY <3>3 DEF FieldOf, Stored
    <3> QED
      BY <3>2, <3>4, <3>5
  <2>3. last'.result.ok =>
          (<<last'.group, last'.result.value.column>> \notin Unchecked =>
             \A h \in DOMAIN fields'.offsets :
                last'.result.value.fields[h] =
                   [r \in 1..RowGroups[last'.group] |->
                      Cell(last'.group, last'.result.value.column, r)[fields'.offsets[h] + 1]])
    <3>1. PICK l, o : l = last' /\ o = fields'.offsets
      OBVIOUS
    <3>2. l.group = g /\ l.result = result /\ o = fields.offsets
      BY <1>9, <1>10, <3>1
    <3> SUFFICES ASSUME last'.result.ok,
                        <<last'.group, last'.result.value.column>> \notin Unchecked,
                        NEW h \in DOMAIN fields'.offsets
                 PROVE  last'.result.value.fields[h] =
                          [r \in 1..RowGroups[last'.group] |->
                             Cell(last'.group, last'.result.value.column, r)[fields'.offsets[h] + 1]]
      OBVIOUS
    <3>3. /\ result.ok /\ <<g, result.value.column>> \notin Unchecked
          /\ h \in DOMAIN fields.offsets
      BY <3>1, <3>2
    <3>4. result.value.fields[h] =
            [r \in 1..RowGroups[g] |-> Cell(g, result.value.column, r)[fields.offsets[h] + 1]]
      BY <2>2, <3>3
    <3> QED
      BY <3>1, <3>2, <3>4
  <2> QED
    BY <2>1, <2>3, Zenon DEF ReusedBuffersShowOneGroup
<1> QED
  BY <1>10, <1>11, <1>12, <1>13 DEF RowsIInv

----------------------------------------------------------------------------
(***************************************************************************)
(* The theorems.                                                           *)
(***************************************************************************)
\* The invariant is kept by every step.
LEMMA RowsInductive == RowsIInv /\ [RowsNext]_rowVars => RowsIInv'
<1> SUFFICES ASSUME RowsIInv, [RowsNext]_rowVars PROVE RowsIInv'
  OBVIOUS
<1>1. CASE UNCHANGED rowVars
  <2>1. UNCHANGED <<object, bitmap, damage, slot, report, fields, last, calls>>
    BY <1>1 DEF rowVars
  <2>2. RowsTypeOK' /\ BodiesSound' /\ ReportSound' /\ FieldsSound'
    BY <2>1 DEF RowsIInv, RowsTypeOK, BodiesSound, ReportSound, FieldsSound
  <2>3. ReadsAreFaithful' /\ RefusedFillsLeaveBuffers'
    BY <2>1 DEF RowsIInv, ReadsAreFaithful, RefusedFillsLeaveBuffers
  <2>4. ReusedBuffersShowOneGroup'
    BY <2>1 DEF RowsIInv, ReusedBuffersShowOneGroup, BatchView
  <2> QED
    BY <2>2, <2>3, <2>4 DEF RowsIInv
<1>2. CASE RowsNext
  BY <1>2, OverwriteStep, ReadBatchStep, FillCallerStep, MakeSlotStep, FillSlotStep,
     MakeFieldsStep, ProjectStep DEF RowsNext
<1> QED
  BY <1>1, <1>2

\* The invariant holds in every reachable state.
LEMMA RowsInvariant == RowsSpec => []RowsIInv
BY RowsInitially, RowsInductive, PTL DEF RowsSpec

\* Data that reaches the caller of read_row_group and read_row_group_into is
\* the data stored for the group and columns it asked for, however bodies were
\* overwritten, swapped or cut after the file was opened.
THEOREM DeliveredDataIsFaithful == RowsSpec => []ReadsAreFaithful
<1>1. RowsIInv => ReadsAreFaithful
  BY DEF RowsIInv
<1> QED
  BY <1>1, RowsInvariant, PTL

\* A reusable buffer shows the rows, values and validity of the reported
\* group and nothing that an earlier, larger or failed fill left in it, and so
\* do the fields projected from it.
THEOREM ReusedBuffersAreClean == RowsSpec => []ReusedBuffersShowOneGroup
<1>1. RowsIInv => ReusedBuffersShowOneGroup
  BY DEF RowsIInv
<1> QED
  BY <1>1, RowsInvariant, PTL

\* A fill that read_row_group_into refuses has written into no buffer, and no
\* fill writes past the rows of its group.
THEOREM RefusedFillsWriteNothing == RowsSpec => []RefusedFillsLeaveBuffers
<1>1. RowsIInv => RefusedFillsLeaveBuffers
  BY DEF RowsIInv
<1> QED
  BY <1>1, RowsInvariant, PTL

----------------------------------------------------------------------------
(***************************************************************************)
(* Opening a snapshot: the inductive invariant.                            *)
(***************************************************************************)
BeforeGroups == {"load", "delta", "root", "counts", "schema", "preflight", "dictionaries"}
AfterCounts == {"schema", "preflight", "dictionaries", "groups", "ordering"}
Verdicts == {"none", "open", "corrupt", "limit"}

\* The state has the types of what the decoders yield.
OpenTypeOK ==
  /\ file \in DecodedFiles
  /\ index \in Indexes /\ proof \in Seq(OrderingProofs)
  /\ expected \in [base : Nat, chunk : Nat, stat : Nat]
  /\ position \in Nat /\ position <= Len(index.groups)
  /\ phase \in BeforeGroups \cup {"groups", "ordering", "done"}
  /\ verdict \in Verdicts

\* Where the ranges of the groups begin, and how long they are.
Bases == [i \in DOMAIN index.groups |-> index.groups[i].base]
RowCounts == [i \in DOMAIN index.groups |-> index.groups[i].rows]
ChunkBegins == [i \in DOMAIN index.groups |-> index.groups[i].chunkBegin]
ChunkCounts == [i \in DOMAIN index.groups |-> index.groups[i].chunkCount]
StatBegins == [i \in DOMAIN index.groups |-> index.groups[i].statBegin]
StatCounts == [i \in DOMAIN index.groups |-> index.groups[i].statCount]

\* The first n ranges lie one behind the other and fill the places before e.
Laid(b, c, n, e) ==
  /\ \A i \in 1..n : b[i] + c[i] <= e
  /\ \A i, j \in 1..n : i < j => b[i] + c[i] <= b[j]
  /\ \A x \in 0..e - 1 : \E i \in 1..n : b[i] <= x /\ x < b[i] + c[i]

\* The groups visited so far have filled the tables up to the expectations.
RangesLaid ==
  /\ Laid(Bases, RowCounts, position, expected.base)
  /\ Laid(ChunkBegins, ChunkCounts, position, expected.chunk)
  /\ Laid(StatBegins, StatCounts, position, expected.stat)
  /\ expected.base = SumFunctionOnSet(RowCounts, 1..position)
  /\ expected.chunk <= Len(index.chunks) /\ expected.stat <= Len(index.stats)

\* A visited group owns what it claims: one chunk of each column, and
\* statistics of different columns.
GroupOwns(i) ==
  LET g == index.groups[i]
      chunks == Claimed(g.chunkBegin, g.chunkCount)
      stats == Claimed(g.statBegin, g.statCount)
  IN  /\ \A k \in chunks : index.chunks[k].group = g.id
      /\ \A c \in ColumnIds : \E k \in chunks : index.chunks[k].column = c
      /\ \A k, l \in chunks : index.chunks[k].column = index.chunks[l].column => k = l
      /\ \A k \in stats : index.stats[k].group = g.id
      /\ \A k, l \in stats : index.stats[k].column = index.stats[l].column => k = l

\* The visited groups have different ids and own what they claim.
GroupsVisited ==
  /\ \A i, j \in 1..position : index.groups[i].id = index.groups[j].id => i = j
  /\ \A i \in 1..position : GroupOwns(i)

\* What each phase of the open has established.
PhaseSound ==
  /\ phase \in BeforeGroups => position = 0 /\ expected = [base |-> 0, chunk |-> 0, stat |-> 0]
  /\ phase \in AfterCounts => RowTotal(index.groups) = file.root.rows
  /\ phase = "ordering" => /\ position = Len(index.groups)
                           /\ expected.chunk = Len(index.chunks)
                           /\ expected.stat = Len(index.stats)
  /\ phase # "done" => verdict = "none"

\* The inductive invariant of an open.
OpenIInv ==
  OpenTypeOK /\ RangesLaid /\ GroupsVisited /\ PhaseSound /\ AcceptedGraphTiles

----------------------------------------------------------------------------
(***************************************************************************)
(* Ranges laid one behind the other.                                       *)
(***************************************************************************)
\* No range fills no place.
LEMMA LaidNone == ASSUME NEW b, NEW c PROVE Laid(b, c, 0, 0)
BY DEF Laid

\* A range that begins where the others end.
LEMMA LaidOneMore ==
    ASSUME NEW n \in Nat, NEW e \in Nat, NEW b, NEW c,
           \A i \in 1..n + 1 : b[i] \in Nat /\ c[i] \in Nat,
           Laid(b, c, n, e), b[n + 1] = e
    PROVE  Laid(b, c, n + 1, e + c[n + 1])
<1>1. b[n + 1] \in Nat /\ c[n + 1] \in Nat
  OBVIOUS
<1>2. PICK m \in Nat : m = c[n + 1]
  BY <1>1
<1>3. ASSUME NEW i \in 1..n + 1 PROVE i = n + 1 \/ i \in 1..n
  OBVIOUS
<1>4. ASSUME NEW i \in 1..n + 1 PROVE b[i] + c[i] <= e + m
  <2>1. CASE i = n + 1
    BY <1>1, <1>2, <2>1
  <2>2. CASE i \in 1..n
    BY <1>2, <2>2 DEF Laid
  <2> QED
    BY <1>3, <2>1, <2>2
<1>5. ASSUME NEW i \in 1..n + 1, NEW j \in 1..n + 1, i < j PROVE b[i] + c[i] <= b[j]
  <2>1. i \in 1..n
    BY <1>5
  <2>2. CASE j = n + 1
    BY <2>1, <2>2 DEF Laid
  <2>3. CASE j \in 1..n
    BY <1>5, <2>1, <2>3 DEF Laid
  <2> QED
    BY <1>3, <2>2, <2>3
<1>6. ASSUME NEW x \in 0..(e + m) - 1
      PROVE  \E i \in 1..n + 1 : b[i] <= x /\ x < b[i] + c[i]
  <2>1. CASE x < e
    BY <2>1 DEF Laid
  <2>2. CASE ~(x < e)
    <3>1. n + 1 \in 1..n + 1 /\ b[n + 1] <= x /\ x < b[n + 1] + c[n + 1]
      BY <1>1, <1>2, <2>2
    <3> QED
      BY <3>1
  <2> QED
    BY <2>1, <2>2
<1> QED
  BY <1>2, <1>4, <1>5, <1>6 DEF Laid

\* A place is in one of the ranges.
LEMMA LaidOnce ==
    ASSUME NEW n \in Nat, NEW e \in Nat, NEW b, NEW c,
           \A i \in 1..n : b[i] \in Nat /\ c[i] \in Nat,
           Laid(b, c, n, e), NEW x \in 0..e - 1
    PROVE  \E i \in 1..n : /\ b[i] <= x /\ x < b[i] + c[i]
                           /\ \A j \in 1..n : b[j] <= x /\ x < b[j] + c[j] => j = i
<1>1. PICK i \in 1..n : b[i] <= x /\ x < b[i] + c[i]
  BY DEF Laid
<1>2. ASSUME NEW j \in 1..n, b[j] <= x, x < b[j] + c[j] PROVE j = i
  <2>1. ~(i < j)
    <3> SUFFICES ASSUME i < j PROVE FALSE
      OBVIOUS
    <3>1. b[i] + c[i] <= b[j]
      BY DEF Laid
    <3> QED
      BY <1>1, <1>2, <3>1
  <2>2. ~(j < i)
    <3> SUFFICES ASSUME j < i PROVE FALSE
      OBVIOUS
    <3>1. b[j] + c[j] <= b[i]
      BY DEF Laid
    <3> QED
      BY <1>1, <1>2, <3>1
  <2> QED
    BY <2>1, <2>2
<1> QED
  BY <1>1, <1>2

\* A set of one element.
LEMMA OneElement ==
    ASSUME NEW S, NEW x \in S, \A y \in S : y = x
    PROVE  Once(S)
<1>1. S = {x}
  OBVIOUS
<1> QED
  BY <1>1, FS_Singleton DEF Once

\* The part of a table that a range claims.
LEMMA SliceParts ==
    ASSUME NEW T, NEW s \in Seq(T), NEW b \in Nat, NEW n \in Nat, b + n <= Len(s)
    PROVE  /\ DOMAIN Slice(s, b, n) = 1..n
           /\ \A j \in 1..n : Slice(s, b, n)[j] = s[b + j] /\ b + j \in DOMAIN s
           /\ \A k \in Claimed(b, n) : /\ k \in DOMAIN s /\ k - b \in 1..n
                                       /\ Slice(s, b, n)[k - b] = s[k]
<1>1. Len(s) \in Nat /\ DOMAIN s = 1..Len(s)
  BY LenProperties
<1>2. \A i \in b + 1..b + n : s[i] \in T
  BY <1>1, ElementOfSeq
<1>3. /\ SubSeq(s, b + 1, b + n) \in Seq(T)
      /\ Len(SubSeq(s, b + 1, b + n)) =
           IF b + 1 <= b + n THEN (b + n) - (b + 1) + 1 ELSE 0
      /\ \A i \in 1..(b + n) - (b + 1) + 1 : SubSeq(s, b + 1, b + n)[i] = s[b + 1 + i - 1]
  BY <1>2, SubSeqProperties
<1>4. PICK t \in Seq(T) : t = SubSeq(s, b + 1, b + n)
  BY <1>3
<1>5. Len(t) = n
  BY <1>3, <1>4
<1>6. ASSUME NEW j \in 1..n PROVE t[j] = s[b + j] /\ b + j \in DOMAIN s
  <2>1. j \in 1..(b + n) - (b + 1) + 1
    OBVIOUS
  <2>2. t[j] = s[b + 1 + j - 1]
    BY <1>3, <1>4, <2>1
  <2>3. b + 1 + j - 1 = b + j
    OBVIOUS
  <2> QED
    BY <1>1, <2>2, <2>3
<1>7. ASSUME NEW k \in Claimed(b, n)
      PROVE  k \in DOMAIN s /\ k - b \in 1..n /\ t[k - b] = s[k]
  <2>1. k \in Int /\ k - b \in 1..n
    BY DEF Claimed
  <2>2. t[k - b] = s[b + (k - b)] /\ b + (k - b) \in DOMAIN s
    BY <1>6, <2>1
  <2>3. b + (k - b) = k
    BY <2>1
  <2> QED
    BY <2>1, <2>2, <2>3
<1>8. DOMAIN t = 1..n
  BY <1>5, LenProperties
<1> QED
  BY <1>4, <1>6, <1>7, <1>8 DEF Slice

----------------------------------------------------------------------------
(***************************************************************************)
(* The loop over the row groups.                                           *)
(***************************************************************************)
\* The numbers of a row group.
LEMMA GroupTypes ==
    ASSUME OpenTypeOK, NEW i \in DOMAIN index.groups
    PROVE  /\ index.groups[i] \in GroupDescs
           /\ index.groups[i].id \in Nat /\ index.groups[i].base \in Nat
           /\ index.groups[i].rows \in Nat
           /\ index.groups[i].chunkBegin \in Nat /\ index.groups[i].chunkCount \in Nat
           /\ index.groups[i].statBegin \in Nat /\ index.groups[i].statCount \in Nat
<1>1. index.groups \in Seq(GroupDescs)
  BY DEF OpenTypeOK, Indexes
<1>2. index.groups[i] \in GroupDescs
  BY <1>1, LenProperties, ElementOfSeq
<1> QED
  BY <1>2 DEF GroupDescs

\* The tables are sequences.
LEMMA TableTypes ==
    ASSUME OpenTypeOK
    PROVE  /\ index.groups \in Seq(GroupDescs) /\ Len(index.groups) \in Nat
           /\ DOMAIN index.groups = 1..Len(index.groups)
           /\ index.chunks \in Seq(ChunkDescs) /\ Len(index.chunks) \in Nat
           /\ DOMAIN index.chunks = 1..Len(index.chunks)
           /\ index.stats \in Seq(StatDescs) /\ Len(index.stats) \in Nat
           /\ DOMAIN index.stats = 1..Len(index.stats)
<1>1. /\ index.groups \in Seq(GroupDescs) /\ index.chunks \in Seq(ChunkDescs)
      /\ index.stats \in Seq(StatDescs)
  BY DEF OpenTypeOK, Indexes
<1> QED
  BY <1>1, LenProperties

\* Descriptors of different columns are at different places.
LEMMA DistinctColumns ==
    ASSUME NEW t, Distinct(FieldValues(t, "column"))
    PROVE  \A i, j \in DOMAIN t : t[i].column = t[j].column => i = j
BY DEF Distinct, FieldValues

\* A group that passes its checks owns what it claims.
LEMMA SoundGroupOwns ==
    ASSUME OpenTypeOK, NEW i \in DOMAIN index.groups, NEW earlier,
           GroupSound(index.groups[i], earlier)
    PROVE  GroupOwns(i)
<1>1. PICK g : g = index.groups[i]
  OBVIOUS
<1>2. /\ g.chunkBegin \in Nat /\ g.chunkCount \in Nat
      /\ g.statBegin \in Nat /\ g.statCount \in Nat
  BY <1>1, GroupTypes
<1>3. /\ g.chunkBegin + g.chunkCount <= Len(index.chunks)
      /\ g.statBegin + g.statCount <= Len(index.stats)
  BY <1>1 DEF GroupSound, ChunksInBounds, StatsInBounds
<1>4. PICK t : t = ChunksOf(g)
  OBVIOUS
<1>5. PICK u : u = StatsOf(g)
  OBVIOUS
<1>6. /\ DOMAIN t = 1..g.chunkCount
      /\ \A j \in 1..g.chunkCount : t[j] = index.chunks[g.chunkBegin + j]
      /\ \A k \in Claimed(g.chunkBegin, g.chunkCount) :
           k - g.chunkBegin \in 1..g.chunkCount /\ t[k - g.chunkBegin] = index.chunks[k]
  <2>1. PICK s \in Seq(ChunkDescs), b \in Nat, n \in Nat :
          s = index.chunks /\ b = g.chunkBegin /\ n = g.chunkCount
    BY <1>2, TableTypes
  <2>2. t = Slice(s, b, n) /\ b + n <= Len(s)
    BY <1>3, <1>4, <2>1 DEF ChunksOf
  <2>3. /\ DOMAIN t = 1..n
        /\ \A j \in 1..n : t[j] = s[b + j]
        /\ \A k \in Claimed(b, n) : k - b \in 1..n /\ t[k - b] = s[k]
    BY <2>2, SliceParts
  <2> QED
    BY <2>1, <2>3
<1>7. /\ DOMAIN u = 1..g.statCount
      /\ \A k \in Claimed(g.statBegin, g.statCount) :
           k - g.statBegin \in 1..g.statCount /\ u[k - g.statBegin] = index.stats[k]
  <2>1. PICK s \in Seq(StatDescs), b \in Nat, n \in Nat :
          s = index.stats /\ b = g.statBegin /\ n = g.statCount
    BY <1>2, TableTypes
  <2>2. u = Slice(s, b, n) /\ b + n <= Len(s)
    BY <1>3, <1>5, <2>1 DEF StatsOf
  <2>3. /\ DOMAIN u = 1..n
        /\ \A j \in 1..n : u[j] = s[b + j]
        /\ \A k \in Claimed(b, n) : k - b \in 1..n /\ u[k - b] = s[k]
    BY <2>2, SliceParts
  <2> QED
    BY <2>1, <2>3
<1>8. /\ \A j \in DOMAIN t : t[j].group = g.id
      /\ \A j, l \in DOMAIN t : t[j].column = t[l].column => j = l
      /\ \A c \in ColumnIds : \E j \in DOMAIN t : t[j].column = c
  <2>1. /\ \A chunk \in Range(t) : validate_chunk_desc(g, chunk)
        /\ Distinct(FieldValues(t, "column"))
        /\ {c.column : c \in Range(t)} = ColumnIds
    BY <1>1, <1>4, Zenon DEF GroupSound
  <2>2. \A j \in DOMAIN t : t[j] \in Range(t)
    BY DEF Range
  <2>3. \A j \in DOMAIN t : t[j].group = g.id
    BY <2>1, <2>2 DEF validate_chunk_desc
  <2>4. \A j, l \in DOMAIN t : t[j].column = t[l].column => j = l
    BY <2>1, DistinctColumns
  <2>5. \A c \in ColumnIds : \E j \in DOMAIN t : t[j].column = c
    BY <2>1 DEF Range
  <2> QED
    BY <2>3, <2>4, <2>5
<1>9. /\ \A j \in DOMAIN u : u[j].group = g.id
      /\ \A j, l \in DOMAIN u : u[j].column = u[l].column => j = l
  <2>1. /\ \A stat \in Range(u) : validate_stat_desc(g, stat)
        /\ Distinct(FieldValues(u, "column"))
    BY <1>1, <1>5, Zenon DEF GroupSound
  <2>2. \A j \in DOMAIN u : u[j] \in Range(u)
    BY DEF Range
  <2>3. \A j \in DOMAIN u : u[j].group = g.id
    BY <2>1, <2>2 DEF validate_stat_desc
  <2>4. \A j, l \in DOMAIN u : u[j].column = u[l].column => j = l
    BY <2>1, DistinctColumns
  <2> QED
    BY <2>3, <2>4
<1>10. \A k \in Claimed(g.chunkBegin, g.chunkCount) : index.chunks[k].group = g.id
  BY <1>6, <1>8
<1>11. \A c \in ColumnIds : \E k \in Claimed(g.chunkBegin, g.chunkCount) : index.chunks[k].column = c
  <2> SUFFICES ASSUME NEW c \in ColumnIds
               PROVE  \E k \in Claimed(g.chunkBegin, g.chunkCount) : index.chunks[k].column = c
    OBVIOUS
  <2>1. PICK j \in 1..g.chunkCount : t[j].column = c
    BY <1>6, <1>8
  <2>2. g.chunkBegin + j \in Claimed(g.chunkBegin, g.chunkCount)
    BY <1>2 DEF Claimed
  <2>3. index.chunks[g.chunkBegin + j].column = c
    BY <1>6, <2>1
  <2> QED
    BY <2>2, <2>3
<1>12. \A k, l \in Claimed(g.chunkBegin, g.chunkCount) :
         index.chunks[k].column = index.chunks[l].column => k = l
  <2> SUFFICES ASSUME NEW k \in Claimed(g.chunkBegin, g.chunkCount),
                      NEW l \in Claimed(g.chunkBegin, g.chunkCount),
                      index.chunks[k].column = index.chunks[l].column
               PROVE  k = l
    OBVIOUS
  <2>1. k - g.chunkBegin = l - g.chunkBegin
    BY <1>6, <1>8
  <2>2. k \in Int /\ l \in Int
    BY DEF Claimed
  <2> QED
    BY <1>2, <2>1, <2>2
<1>13. \A k \in Claimed(g.statBegin, g.statCount) : index.stats[k].group = g.id
  BY <1>7, <1>9
<1>14. \A k, l \in Claimed(g.statBegin, g.statCount) :
         index.stats[k].column = index.stats[l].column => k = l
  <2> SUFFICES ASSUME NEW k \in Claimed(g.statBegin, g.statCount),
                      NEW l \in Claimed(g.statBegin, g.statCount),
                      index.stats[k].column = index.stats[l].column
               PROVE  k = l
    OBVIOUS
  <2>1. k - g.statBegin = l - g.statBegin
    BY <1>7, <1>9
  <2>2. k \in Int /\ l \in Int
    BY DEF Claimed
  <2> QED
    BY <1>2, <2>1, <2>2
<1> QED
  BY <1>1, <1>10, <1>11, <1>12, <1>13, <1>14, Zenon DEF GroupOwns

\* What is said of the visited groups keeps while the tables do.
LEMMA TablesKept ==
    ASSUME UNCHANGED <<file, index>>
    PROVE  /\ Bases' = Bases /\ RowCounts' = RowCounts
           /\ ChunkBegins' = ChunkBegins /\ ChunkCounts' = ChunkCounts
           /\ StatBegins' = StatBegins /\ StatCounts' = StatCounts
           /\ \A i : GroupOwns(i)' <=> GroupOwns(i)
<1>1. /\ Bases' = Bases /\ RowCounts' = RowCounts
      /\ ChunkBegins' = ChunkBegins /\ ChunkCounts' = ChunkCounts
      /\ StatBegins' = StatBegins /\ StatCounts' = StatCounts
  BY DEF Bases, RowCounts, ChunkBegins, ChunkCounts, StatBegins, StatCounts
<1>2. ColumnIds' = ColumnIds
  BY DEF ColumnIds
<1>3. \A i : GroupOwns(i)' <=> GroupOwns(i)
  BY <1>2 DEF GroupOwns
<1> QED
  BY <1>1, <1>3

\* So a step that visits no group and changes no table keeps it.
LEMMA LoopKept ==
    ASSUME RangesLaid, GroupsVisited, UNCHANGED <<file, index, position, expected>>
    PROVE  RangesLaid' /\ GroupsVisited'
<1>1. UNCHANGED <<file, index>>
  OBVIOUS
<1>2. RangesLaid'
  <2>1. /\ Bases' = Bases /\ RowCounts' = RowCounts
        /\ ChunkBegins' = ChunkBegins /\ ChunkCounts' = ChunkCounts
        /\ StatBegins' = StatBegins /\ StatCounts' = StatCounts
    BY <1>1, TablesKept
  <2> QED
    BY <2>1 DEF RangesLaid
<1>3. GroupsVisited'
  BY <1>1, TablesKept DEF GroupsVisited
<1> QED
  BY <1>2, <1>3

\* Before the loop no group is visited, whatever the tables are.
LEMMA LoopNotBegun ==
    ASSUME OpenTypeOK', position' = 0, expected' = [base |-> 0, chunk |-> 0, stat |-> 0]
    PROVE  RangesLaid' /\ GroupsVisited'
<1>1. expected'.base = 0 /\ expected'.chunk = 0 /\ expected'.stat = 0
  OBVIOUS
<1>2. index'.chunks \in Seq(ChunkDescs) /\ index'.stats \in Seq(StatDescs)
  BY DEF OpenTypeOK, Indexes
<1>3. Len(index'.chunks) >= 0 /\ Len(index'.stats) >= 0
  BY <1>2, LenProperties
<1>4. 1..0 = {}
  OBVIOUS
<1>5. SumFunctionOnSet(RowCounts', 1..0) = 0
  BY <1>4, SumOfNothing
<1>6. /\ Laid(Bases', RowCounts', 0, 0) /\ Laid(ChunkBegins', ChunkCounts', 0, 0)
      /\ Laid(StatBegins', StatCounts', 0, 0)
  BY LaidNone
<1>7. RangesLaid'
  BY <1>1, <1>3, <1>5, <1>6 DEF RangesLaid
<1>8. GroupsVisited'
  BY DEF GroupsVisited
<1> QED
  BY <1>7, <1>8

\* What the step of the loop does when the group passes.
GroupPasses(g) ==
  /\ phase = "groups" /\ position < Len(index.groups)
  /\ g = index.groups[position + 1]
  /\ GroupSound(g, {index.groups[i] : i \in 1..position})
  /\ expected' = [base |-> expected.base + g.rows, chunk |-> expected.chunk + g.chunkCount,
                  stat |-> expected.stat + g.statCount]
  /\ position' = position + 1
  /\ UNCHANGED <<file, index, proof, phase, verdict>>

\* The ranges of a group that passes are laid behind those before it.
LEMMA PassedGroupIsLaid ==
    ASSUME OpenTypeOK, RangesLaid, GroupsVisited, NEW g, GroupPasses(g)
    PROVE  RangesLaid' /\ GroupsVisited'
<1> DEFINE n == position
           i == position + 1
<1>1. n \in Nat /\ i \in DOMAIN index.groups /\ g = index.groups[i]
  BY TableTypes DEF OpenTypeOK, GroupPasses
<1>2. /\ g.base \in Nat /\ g.rows \in Nat /\ g.chunkBegin \in Nat /\ g.chunkCount \in Nat
      /\ g.statBegin \in Nat /\ g.statCount \in Nat
  BY <1>1, GroupTypes
<1>3. expected.base \in Nat /\ expected.chunk \in Nat /\ expected.stat \in Nat
  BY DEF OpenTypeOK
<1>4. /\ \A e \in {index.groups[k] : k \in 1..n} : e.id # g.id
      /\ g.base = expected.base /\ g.chunkBegin = expected.chunk /\ g.statBegin = expected.stat
      /\ g.chunkBegin + g.chunkCount <= Len(index.chunks)
      /\ g.statBegin + g.statCount <= Len(index.stats)
  BY DEF GroupPasses, GroupSound, GroupDescFollows, ChunksInBounds, StatsInBounds
<1>5. \A k \in 1..n + 1 : k \in DOMAIN index.groups
  BY <1>1, TableTypes DEF OpenTypeOK
<1>6. \A k \in 1..n + 1 :
        /\ Bases[k] \in Nat /\ RowCounts[k] \in Nat
        /\ ChunkBegins[k] \in Nat /\ ChunkCounts[k] \in Nat
        /\ StatBegins[k] \in Nat /\ StatCounts[k] \in Nat
  BY <1>5, GroupTypes
  DEF Bases, RowCounts, ChunkBegins, ChunkCounts, StatBegins, StatCounts
<1>7. /\ Bases[n + 1] = g.base /\ RowCounts[n + 1] = g.rows
      /\ ChunkBegins[n + 1] = g.chunkBegin /\ ChunkCounts[n + 1] = g.chunkCount
      /\ StatBegins[n + 1] = g.statBegin /\ StatCounts[n + 1] = g.statCount
  BY <1>1 DEF Bases, RowCounts, ChunkBegins, ChunkCounts, StatBegins, StatCounts
<1>8. /\ expected'.base = expected.base + g.rows
      /\ expected'.chunk = expected.chunk + g.chunkCount
      /\ expected'.stat = expected.stat + g.statCount
      /\ position' = n + 1
  BY DEF GroupPasses
<1>9. UNCHANGED <<file, index>>
  BY DEF GroupPasses
<1> HIDE DEF n, i
<1>10. Laid(Bases, RowCounts, n + 1, expected.base + g.rows)
  BY <1>1, <1>3, <1>4, <1>6, <1>7, LaidOneMore DEF RangesLaid, n
<1>11. Laid(ChunkBegins, ChunkCounts, n + 1, expected.chunk + g.chunkCount)
  BY <1>1, <1>3, <1>4, <1>6, <1>7, LaidOneMore DEF RangesLaid, n
<1>12. Laid(StatBegins, StatCounts, n + 1, expected.stat + g.statCount)
  BY <1>1, <1>3, <1>4, <1>6, <1>7, LaidOneMore DEF RangesLaid, n
<1>13. expected.base + g.rows = SumFunctionOnSet(RowCounts, 1..n + 1)
  <2>1. 1..n + 1 = (1..n) \cup {n + 1} /\ n + 1 \notin 1..n
    BY <1>1
  <2>2. IsFiniteSet(1..n)
    BY <1>1, FS_Interval
  <2>3. \A k \in (1..n) \cup {n + 1} : RowCounts[k] \in Int
    BY <1>6, <2>1
  <2>4. SumFunctionOnSet(RowCounts, (1..n) \cup {n + 1}) =
          RowCounts[n + 1] + SumFunctionOnSet(RowCounts, 1..n)
    BY <2>1, <2>2, <2>3, SumAdd
  <2>5. expected.base = SumFunctionOnSet(RowCounts, 1..n)
    BY DEF RangesLaid, n
  <2>6. SumFunctionOnSet(RowCounts, 1..n + 1) = g.rows + expected.base
    BY <1>7, <2>1, <2>4, <2>5, Zenon
  <2> QED
    BY <1>2, <1>3, <2>6
<1>14. RangesLaid'
  <2>1. /\ Bases' = Bases /\ RowCounts' = RowCounts
        /\ ChunkBegins' = ChunkBegins /\ ChunkCounts' = ChunkCounts
        /\ StatBegins' = StatBegins /\ StatCounts' = StatCounts
    BY <1>9, TablesKept
  <2>2. expected'.chunk <= Len(index'.chunks) /\ expected'.stat <= Len(index'.stats)
    BY <1>4, <1>8, <1>9
  <2> QED
    BY <1>8, <1>10, <1>11, <1>12, <1>13, <2>1, <2>2 DEF RangesLaid
<1>15. GroupOwns(n + 1)
  BY <1>1, SoundGroupOwns DEF GroupPasses, n, i
<1>16. \A k \in 1..n + 1 : k = n + 1 \/ k \in 1..n
  BY <1>1
<1>17. GroupsVisited'
  <2>1. \A k \in 1..n : index.groups[k].id # g.id
    BY <1>4
  <2>2. g = index.groups[n + 1]
    BY <1>1 DEF n, i
  <2>3. \A k, l \in 1..n + 1 : index.groups[k].id = index.groups[l].id => k = l
    BY <1>16, <2>1, <2>2 DEF GroupsVisited, n
  <2>4. \A k \in 1..n + 1 : GroupOwns(k)
    BY <1>15, <1>16 DEF GroupsVisited, n
  <2>5. \A k \in 1..n + 1 : GroupOwns(k)'
    BY <1>9, <2>4, TablesKept
  <2> QED
    BY <1>8, <1>9, <2>3, <2>5 DEF GroupsVisited
<1> QED
  BY <1>14, <1>17

----------------------------------------------------------------------------
(***************************************************************************)
(* What the finished loop says of the tables.                              *)
(***************************************************************************)
\* The ranges of all groups, and their numbers.
LEMMA AllRanges ==
    ASSUME OpenTypeOK, NEW i \in DOMAIN index.groups
    PROVE  /\ Bases[i] = index.groups[i].base /\ RowCounts[i] = index.groups[i].rows
           /\ ChunkBegins[i] = index.groups[i].chunkBegin
           /\ ChunkCounts[i] = index.groups[i].chunkCount
           /\ StatBegins[i] = index.groups[i].statBegin
           /\ StatCounts[i] = index.groups[i].statCount
           /\ Bases[i] \in Nat /\ RowCounts[i] \in Nat
           /\ ChunkBegins[i] \in Nat /\ ChunkCounts[i] \in Nat
           /\ StatBegins[i] \in Nat /\ StatCounts[i] \in Nat
BY GroupTypes DEF Bases, RowCounts, ChunkBegins, ChunkCounts, StatBegins, StatCounts

\* A claimed place is a place of the table between the bounds of the range.
LEMMA ClaimedPlaces ==
    ASSUME NEW b \in Nat, NEW n \in Nat, NEW k \in Nat \ {0}
    PROVE  k \in Claimed(b, n) <=> b <= k - 1 /\ k - 1 < b + n
BY DEF Claimed

\* The rows are tiled.
LEMMA LoopTilesRows ==
    ASSUME OpenTypeOK, RangesLaid, PhaseSound, phase = "ordering"
    PROVE  RowsTiled
<1>1. PICK n \in Nat : n = position /\ 1..n = DOMAIN index.groups
  BY TableTypes DEF OpenTypeOK, PhaseSound
<1>2. PICK e \in Nat : e = expected.base
  BY DEF OpenTypeOK
<1>3. e = file.root.rows
  <2>1. expected.base = SumFunctionOnSet(RowCounts, 1..n)
    BY <1>1 DEF RangesLaid
  <2>2. RowTotal(index.groups) = SumFunctionOnSet(RowCounts, 1..n)
    BY <1>1 DEF RowTotal, RowCounts
  <2>3. RowTotal(index.groups) = file.root.rows
    BY DEF PhaseSound, AfterCounts
  <2> QED
    BY <1>2, <2>1, <2>2, <2>3
<1>4. Laid(Bases, RowCounts, n, e)
  BY <1>1, <1>2 DEF RangesLaid
<1>5. \A i \in 1..n : Bases[i] \in Nat /\ RowCounts[i] \in Nat
  BY <1>1, AllRanges
<1>6. ASSUME NEW row \in 0..e - 1
      PROVE  Once({i \in DOMAIN index.groups :
                     row \in index.groups[i].base..(index.groups[i].base + index.groups[i].rows - 1)})
  <2>1. PICK i \in 1..n : /\ Bases[i] <= row /\ row < Bases[i] + RowCounts[i]
                          /\ \A j \in 1..n : Bases[j] <= row /\ row < Bases[j] + RowCounts[j] => j = i
    BY <1>4, <1>5, LaidOnce
  <2>2. ASSUME NEW j \in 1..n
        PROVE  row \in index.groups[j].base..(index.groups[j].base + index.groups[j].rows - 1)
                 <=> Bases[j] <= row /\ row < Bases[j] + RowCounts[j]
    <3>1. PICK b \in Nat, c \in Nat : /\ b = Bases[j] /\ c = RowCounts[j]
                                      /\ b = index.groups[j].base /\ c = index.groups[j].rows
      BY <1>1, AllRanges
    <3>2. row \in b..(b + c - 1) <=> b <= row /\ row < b + c
      OBVIOUS
    <3> QED
      BY <3>1, <3>2
  <2> DEFINE S == {j \in DOMAIN index.groups :
                     row \in index.groups[j].base..(index.groups[j].base + index.groups[j].rows - 1)}
  <2>3. i \in S /\ \A j \in S : j = i
    BY <1>1, <2>1, <2>2
  <2> HIDE DEF S
  <2>4. Once(S)
    BY <2>3, OneElement
  <2> QED
    BY <2>4 DEF S
<1> QED
  BY <1>3, <1>6 DEF RowsTiled

\* Each place of a table is claimed by one group.
LEMMA PlacesClaimedOnce ==
    ASSUME NEW n \in Nat, NEW e \in Nat, NEW b, NEW c,
           \A i \in 1..n : b[i] \in Nat /\ c[i] \in Nat, Laid(b, c, n, e), NEW k \in 1..e
    PROVE  \E i \in 1..n : /\ k \in Claimed(b[i], c[i])
                           /\ \A j \in 1..n : k \in Claimed(b[j], c[j]) => j = i
<1>1. k - 1 \in 0..e - 1 /\ k \in Nat \ {0}
  OBVIOUS
<1>2. PICK i \in 1..n : /\ b[i] <= k - 1 /\ k - 1 < b[i] + c[i]
                        /\ \A j \in 1..n : b[j] <= k - 1 /\ k - 1 < b[j] + c[j] => j = i
  BY <1>1, LaidOnce
<1>3. \A j \in 1..n : k \in Claimed(b[j], c[j]) <=> b[j] <= k - 1 /\ k - 1 < b[j] + c[j]
  BY <1>1, ClaimedPlaces
<1> QED
  BY <1>2, <1>3

\* The chunks are tiled.
LEMMA LoopTilesChunks ==
    ASSUME OpenTypeOK, RangesLaid, GroupsVisited, PhaseSound, phase = "ordering"
    PROVE  ChunksTiled
<1>1. PICK n \in Nat : n = position /\ 1..n = DOMAIN index.groups
  BY TableTypes DEF OpenTypeOK, PhaseSound
<1>2. PICK e \in Nat : e = Len(index.chunks) /\ 1..e = DOMAIN index.chunks
  BY TableTypes
<1>3. Laid(ChunkBegins, ChunkCounts, n, e)
  BY <1>1, <1>2 DEF RangesLaid, PhaseSound
<1>4. \A i \in 1..n : /\ ChunkBegins[i] \in Nat /\ ChunkCounts[i] \in Nat
                      /\ ChunkBegins[i] = index.groups[i].chunkBegin
                      /\ ChunkCounts[i] = index.groups[i].chunkCount
  BY <1>1, AllRanges
<1>5. ASSUME NEW k \in 1..e
      PROVE  Once({i \in 1..n : k \in Claimed(index.groups[i].chunkBegin, index.groups[i].chunkCount)})
  <2>1. PICK i \in 1..n : /\ k \in Claimed(ChunkBegins[i], ChunkCounts[i])
                          /\ \A j \in 1..n : k \in Claimed(ChunkBegins[j], ChunkCounts[j]) => j = i
    <3>1. PICK b, c : b = ChunkBegins /\ c = ChunkCounts
      OBVIOUS
    <3>2. Laid(b, c, n, e) /\ \A i \in 1..n : b[i] \in Nat /\ c[i] \in Nat
      BY <1>3, <1>4, <3>1
    <3>3. \E i \in 1..n : /\ k \in Claimed(b[i], c[i])
                         /\ \A j \in 1..n : k \in Claimed(b[j], c[j]) => j = i
      BY <3>2, PlacesClaimedOnce
    <3> QED
      BY <3>1, <3>3
  <2>2. i \in {j \in 1..n : k \in Claimed(index.groups[j].chunkBegin, index.groups[j].chunkCount)}
        /\ \A l \in {j \in 1..n : k \in Claimed(index.groups[j].chunkBegin, index.groups[j].chunkCount)} :
             l = i
    BY <1>4, <2>1
  <2> QED
    BY <2>2, OneElement
<1>6. ASSUME NEW i \in 1..n, NEW c \in ColumnIds
      PROVE  Once({k \in 1..e :
                     /\ k \in Claimed(index.groups[i].chunkBegin, index.groups[i].chunkCount)
                     /\ index.chunks[k].group = index.groups[i].id
                     /\ index.chunks[k].column = c})
  <2>1. GroupOwns(i)
    BY <1>1 DEF GroupsVisited
  <2> DEFINE claimed == Claimed(index.groups[i].chunkBegin, index.groups[i].chunkCount)
             S == {k \in 1..e : /\ k \in claimed /\ index.chunks[k].group = index.groups[i].id
                                /\ index.chunks[k].column = c}
  <2>2. PICK k \in claimed : index.chunks[k].column = c
    BY <2>1, Zenon DEF GroupOwns
  <2>3. index.chunks[k].group = index.groups[i].id
    BY <2>1, <2>2, Zenon DEF GroupOwns
  <2>4. \A l \in claimed : index.chunks[l].column = c => l = k
    BY <2>1, <2>2, Zenon DEF GroupOwns
  <2>5. k \in 1..e
    <3>1. PICK b \in Nat, m \in Nat : /\ b = index.groups[i].chunkBegin
                                      /\ m = index.groups[i].chunkCount /\ b + m <= e
      BY <1>3, <1>4 DEF Laid
    <3>2. k \in Claimed(b, m)
      BY <2>2, <3>1
    <3> QED
      BY <3>1, <3>2 DEF Claimed
  <2> HIDE DEF claimed
  <2>6. k \in S /\ \A l \in S : l = k
    BY <2>2, <2>3, <2>4, <2>5
  <2>7. Once(S)
    <3> HIDE DEF S
    <3> QED
      BY <2>6, OneElement
  <2> QED
    BY <2>7 DEF claimed
<1>7. \A i \in DOMAIN index.groups, c \in ColumnIds :
         Once({k \in DOMAIN index.chunks :
                 /\ k \in Claimed(index.groups[i].chunkBegin, index.groups[i].chunkCount)
                 /\ index.chunks[k].group = index.groups[i].id
                 /\ index.chunks[k].column = c})
  BY <1>1, <1>2, <1>6, Zenon
<1>8. \A k \in DOMAIN index.chunks :
         Once({i \in DOMAIN index.groups :
                 k \in Claimed(index.groups[i].chunkBegin, index.groups[i].chunkCount)})
  BY <1>1, <1>2, <1>5, Zenon
<1> QED
  BY <1>7, <1>8, Zenon DEF ChunksTiled

\* The statistics are tiled.
LEMMA LoopTilesStats ==
    ASSUME OpenTypeOK, RangesLaid, GroupsVisited, PhaseSound, phase = "ordering"
    PROVE  StatsTiled
<1>1. PICK n \in Nat : n = position /\ 1..n = DOMAIN index.groups
  BY TableTypes DEF OpenTypeOK, PhaseSound
<1>2. PICK e \in Nat : e = Len(index.stats) /\ 1..e = DOMAIN index.stats
  BY TableTypes
<1>3. Laid(StatBegins, StatCounts, n, e)
  BY <1>1, <1>2 DEF RangesLaid, PhaseSound
<1>4. \A i \in 1..n : /\ StatBegins[i] \in Nat /\ StatCounts[i] \in Nat
                      /\ StatBegins[i] = index.groups[i].statBegin
                      /\ StatCounts[i] = index.groups[i].statCount
  BY <1>1, AllRanges
<1> DEFINE Of(i) == Claimed(index.groups[i].statBegin, index.groups[i].statCount)
<1>5. \A k \in 1..e : \E i \in 1..n : k \in Of(i) /\ \A j \in 1..n : k \in Of(j) => j = i
  <2> SUFFICES ASSUME NEW k \in 1..e
               PROVE  \E i \in 1..n : k \in Of(i) /\ \A j \in 1..n : k \in Of(j) => j = i
    OBVIOUS
  <2>1. PICK i \in 1..n : /\ k \in Claimed(StatBegins[i], StatCounts[i])
                          /\ \A j \in 1..n : k \in Claimed(StatBegins[j], StatCounts[j]) => j = i
    <3>1. PICK b, c : b = StatBegins /\ c = StatCounts
      OBVIOUS
    <3>2. Laid(b, c, n, e) /\ \A i \in 1..n : b[i] \in Nat /\ c[i] \in Nat
      BY <1>3, <1>4, <3>1
    <3>3. \E i \in 1..n : /\ k \in Claimed(b[i], c[i])
                         /\ \A j \in 1..n : k \in Claimed(b[j], c[j]) => j = i
      BY <3>2, PlacesClaimedOnce
    <3> QED
      BY <3>1, <3>3
  <2> QED
    BY <1>4, <2>1
<1>6. \A i \in 1..n : /\ \A k \in Of(i) : index.stats[k].group = index.groups[i].id
                      /\ \A k, l \in Of(i) : index.stats[k].column = index.stats[l].column => k = l
  BY <1>1, Zenon DEF GroupsVisited, GroupOwns
<1> HIDE DEF Of
<1>7. ASSUME NEW k \in 1..e
      PROVE  /\ Once({i \in 1..n : k \in Of(i) /\ index.groups[i].id = index.stats[k].group})
             /\ Once({j \in 1..e : /\ index.stats[j].group = index.stats[k].group
                                   /\ index.stats[j].column = index.stats[k].column})
  <2>1. PICK i \in 1..n : k \in Of(i) /\ \A j \in 1..n : k \in Of(j) => j = i
    BY <1>5
  <2> DEFINE S == {h \in 1..n : k \in Of(h) /\ index.groups[h].id = index.stats[k].group}
             R == {j \in 1..e : /\ index.stats[j].group = index.stats[k].group
                                /\ index.stats[j].column = index.stats[k].column}
  <2>2. i \in S /\ \A h \in S : h = i
    BY <1>6, <2>1
  <2>3. ASSUME NEW j \in R PROVE j = k
    <3>1. PICK h \in 1..n : j \in Of(h)
      BY <1>5
    <3>2. index.stats[j].group = index.groups[h].id /\ index.stats[k].group = index.groups[i].id
      BY <1>6, <2>1, <3>1
    <3>3. h = i
      BY <1>1, <3>2 DEF GroupsVisited
    <3> QED
      BY <1>6, <2>1, <3>1, <3>3
  <2>4. k \in R
    OBVIOUS
  <2> HIDE DEF S, R
  <2>5. Once(S) /\ Once(R)
    BY <2>2, <2>3, <2>4, OneElement
  <2> QED
    BY <2>5 DEF S, R
<1> QED
  BY <1>1, <1>2, <1>7 DEF StatsTiled, Of

\* An ordering proof that covers the groups speaks once of each.
LEMMA ProofsTile ==
    ASSUME \A p \in Range(proof) : OrderingCovers(p)
    PROVE  ProofTiled
<1> SUFFICES ASSUME NEW p \in Range(proof), NEW i \in DOMAIN index.groups
             PROVE  Once({q \in DOMAIN p.groups : p.groups[q].id = index.groups[i].id})
  BY DEF ProofTiled
<1>1. /\ Distinct(FieldValues(p.groups, "id"))
      /\ {q.id : q \in Range(p.groups)} = {g.id : g \in Range(index.groups)}
  BY DEF OrderingCovers
<1>2. \A q, r \in DOMAIN p.groups : p.groups[q].id = p.groups[r].id => q = r
  BY <1>1 DEF Distinct, FieldValues
<1>3. \E q \in DOMAIN p.groups : p.groups[q].id = index.groups[i].id
  <2>1. index.groups[i].id \in {g.id : g \in Range(index.groups)}
    BY DEF Range
  <2>2. index.groups[i].id \in {q.id : q \in Range(p.groups)}
    BY <1>1, <2>1
  <2> QED
    BY <2>2 DEF Range
<1>4. PICK q \in DOMAIN p.groups : p.groups[q].id = index.groups[i].id
  BY <1>3
<1>5. /\ q \in {r \in DOMAIN p.groups : p.groups[r].id = index.groups[i].id}
      /\ \A r \in {r \in DOMAIN p.groups : p.groups[r].id = index.groups[i].id} : r = q
  BY <1>2, <1>4
<1> QED
  BY <1>5, OneElement

----------------------------------------------------------------------------
(***************************************************************************)
(* The steps of an open.                                                   *)
(***************************************************************************)
NoneExpected == [base |-> 0, chunk |-> 0, stat |-> 0]

\* A step before the loop: no group is visited yet.
LEMMA EarlyStep ==
    ASSUME OpenTypeOK', position' = 0, expected' = NoneExpected,
           phase' \in BeforeGroups \cup {"groups"}, verdict' = "none",
           phase' \in AfterCounts => RowTotal(index'.groups) = file'.root.rows
    PROVE  OpenIInv'
<1>1. RangesLaid' /\ GroupsVisited'
  BY LoopNotBegun DEF NoneExpected
<1>2. PhaseSound'
  BY DEF PhaseSound, BeforeGroups, NoneExpected
<1>3. AcceptedGraphTiles'
  BY DEF AcceptedGraphTiles
<1> QED
  BY <1>1, <1>2, <1>3 DEF OpenIInv

\* What is known before the loop.
LEMMA EarlyState ==
    ASSUME OpenIInv, phase \in BeforeGroups
    PROVE  /\ OpenTypeOK /\ position = 0 /\ expected = NoneExpected /\ verdict = "none"
           /\ phase \in AfterCounts => RowTotal(index.groups) = file.root.rows
BY DEF OpenIInv, PhaseSound, BeforeGroups, NoneExpected

\* A file as it was written, before any step.
LEMMA OpenInitially == OpenInit => OpenIInv
<1> SUFFICES ASSUME OpenInit PROVE OpenIInv
  OBVIOUS
<1>1. file \in DecodedFiles
  BY MetadataGraphAssumption DEF OpenInit
<1>2. /\ <<>> \in Seq(GroupDescs) /\ <<>> \in Seq(ChunkDescs) /\ <<>> \in Seq(StatDescs)
      /\ proof \in Seq(OrderingProofs)
  BY DEF OpenInit
<1>3. index \in Indexes /\ Len(index.groups) = 0
  BY <1>2 DEF OpenInit, Indexes
<1>4. Len(index.chunks) = 0 /\ Len(index.stats) = 0
  BY DEF OpenInit
<1>5. /\ expected.base = 0 /\ expected.chunk = 0 /\ expected.stat = 0
      /\ expected \in [base : Nat, chunk : Nat, stat : Nat] /\ position = 0
  BY DEF OpenInit
<1>6. OpenTypeOK
  BY <1>1, <1>2, <1>3, <1>5 DEF OpenTypeOK, OpenInit, BeforeGroups, Verdicts
<1>7. RangesLaid
  <2>1. SumFunctionOnSet(RowCounts, 1..0) = 0
    <3>1. 1..0 = {}
      OBVIOUS
    <3> QED
      BY <3>1, SumOfNothing
  <2>2. /\ Laid(Bases, RowCounts, 0, 0) /\ Laid(ChunkBegins, ChunkCounts, 0, 0)
        /\ Laid(StatBegins, StatCounts, 0, 0)
    BY LaidNone
  <2> QED
    BY <1>4, <1>5, <2>1, <2>2 DEF RangesLaid
<1>8. GroupsVisited
  BY <1>5 DEF GroupsVisited
<1>9. PhaseSound /\ AcceptedGraphTiles
  BY DEF OpenInit, PhaseSound, AfterCounts, AcceptedGraphTiles
<1> QED
  BY <1>6, <1>7, <1>8, <1>9 DEF OpenIInv

\* A refusal ends the open and accepts nothing.
LEMMA RefuseStep ==
    ASSUME OpenIInv, NEW r \in {"corrupt", "limit"}, Refuse(r)
    PROVE  OpenIInv'
<1>1. /\ verdict' = r /\ phase' = "done"
      /\ UNCHANGED <<file, index, proof, expected, position>>
  BY DEF Refuse, Conclude
<1>2. OpenTypeOK'
  BY <1>1 DEF OpenIInv, OpenTypeOK, Verdicts
<1>3. RangesLaid' /\ GroupsVisited'
  BY <1>1, LoopKept DEF OpenIInv
<1>4. PhaseSound' /\ AcceptedGraphTiles'
  BY <1>1 DEF PhaseSound, AcceptedGraphTiles, BeforeGroups, AfterCounts
<1> QED
  BY <1>2, <1>3, <1>4 DEF OpenIInv

\* A step before the loop that changes neither the file nor the tables.
LEMMA EarlyCheck ==
    ASSUME OpenIInv, phase \in BeforeGroups,
           UNCHANGED <<file, index, proof, expected, position, verdict>>,
           phase' \in BeforeGroups \cup {"groups"},
           phase' \in AfterCounts => RowTotal(index.groups) = file.root.rows
    PROVE  OpenIInv'
<1>1. OpenTypeOK /\ position = 0 /\ expected = NoneExpected /\ verdict = "none"
  BY EarlyState
<1>2. OpenTypeOK'
  BY <1>1 DEF OpenTypeOK
<1>3. RowTotal(index'.groups) = RowTotal(index.groups) /\ file'.root.rows = file.root.rows
  OBVIOUS
<1> QED
  BY <1>1, <1>2, <1>3, EarlyStep

\* Altering the file.
LEMMA AlterStep == OpenIInv /\ Alter => OpenIInv'
<1> SUFFICES ASSUME OpenIInv, Alter PROVE OpenIInv'
  OBVIOUS
<1>1. /\ phase = "load" /\ phase' = "load" /\ file' \in DecodedFiles
      /\ UNCHANGED <<index, proof, expected, position, verdict>>
  BY DEF Alter
<1>2. OpenTypeOK /\ position = 0 /\ expected = NoneExpected /\ verdict = "none"
  BY <1>1, EarlyState DEF BeforeGroups
<1>3. OpenTypeOK'
  BY <1>1, <1>2 DEF OpenTypeOK
<1> QED
  BY <1>1, <1>2, <1>3, EarlyStep DEF BeforeGroups, AfterCounts

\* Loading the metadata objects.
LEMMA LoadStep == OpenIInv /\ Load => OpenIInv'
<1> SUFFICES ASSUME OpenIInv, Load PROVE OpenIInv'
  OBVIOUS
<1>1. CASE Refuse("limit")
  BY <1>1, RefuseStep
<1>2. CASE /\ index' = file.base /\ proof' = file.proof
           /\ phase' = IF version = 2 THEN "delta" ELSE "counts"
           /\ UNCHANGED <<file, expected, position, verdict>>
  <2>1. phase = "load"
    BY DEF Load
  <2>2. OpenTypeOK /\ position = 0 /\ expected = NoneExpected /\ verdict = "none"
    BY <2>1, EarlyState DEF BeforeGroups
  <2>3. phase' \in {"delta", "counts"}
    BY <1>2
  <2>4. file \in DecodedFiles /\ index' \in Indexes /\ proof' \in Seq(OrderingProofs)
    BY <1>2, <2>2 DEF OpenTypeOK, DecodedFiles
  <2>5. Len(index'.groups) \in Nat
    BY <2>4, LenProperties DEF Indexes
  <2>6. OpenTypeOK'
    BY <1>2, <2>2, <2>3, <2>4, <2>5 DEF OpenTypeOK, BeforeGroups
  <2> QED
    BY <1>2, <2>2, <2>3, <2>6, EarlyStep DEF BeforeGroups, AfterCounts
<1> QED
  BY <1>1, <1>2 DEF Load

\* A check before the loop.
LEMMA CheckStep ==
    ASSUME OpenIInv, NEW step \in BeforeGroups, NEW next \in BeforeGroups, NEW holds,
           Check(step, next, holds),
           step \notin AfterCounts /\ next \in AfterCounts =>
             (holds => RowTotal(index.groups) = file.root.rows)
    PROVE  OpenIInv'
<1>1. CASE Refuse("corrupt")
  BY <1>1, RefuseStep
<1>2. CASE /\ phase = step /\ holds /\ phase' = next
           /\ UNCHANGED <<file, index, proof, expected, position, verdict>>
  <2>1. step \in AfterCounts => RowTotal(index.groups) = file.root.rows
    BY <1>2, EarlyState
  <2> QED
    BY <1>2, <2>1, EarlyCheck
<1> QED
  BY <1>1, <1>2 DEF Check

\* The checks of the root and the schema.
LEMMA CheckSteps ==
    OpenIInv /\ (ValidateRootSemantics \/ ValidateRootCounts \/ ValidateSchema) => OpenIInv'
<1>1. ASSUME OpenIInv, ValidateRootSemantics PROVE OpenIInv'
  <2>1. PICK holds : Check("root", "counts", holds)
    BY <1>1 DEF ValidateRootSemantics
  <2> QED
    BY <1>1, <2>1, CheckStep DEF BeforeGroups, AfterCounts
<1>2. ASSUME OpenIInv, ValidateRootCounts PROVE OpenIInv'
  <2>1. PICK holds : /\ Check("counts", "schema", holds)
                     /\ holds => RowTotal(index.groups) = file.root.rows
    BY <1>2 DEF ValidateRootCounts
  <2> QED
    BY <1>2, <2>1, CheckStep DEF BeforeGroups
<1>3. ASSUME OpenIInv, ValidateSchema PROVE OpenIInv'
  <2>1. PICK holds : Check("schema", "preflight", holds)
    BY <1>3 DEF ValidateSchema
  <2> QED
    BY <1>3, <2>1, CheckStep DEF BeforeGroups, AfterCounts
<1> QED
  BY <1>1, <1>2, <1>3

\* The auxiliary references and the dictionaries.
LEMMA AuxiliarySteps == OpenIInv /\ (Preflight \/ ValidateDictionaries) => OpenIInv'
<1>1. ASSUME OpenIInv, Preflight PROVE OpenIInv'
  <2>1. phase = "preflight"
    BY <1>1 DEF Preflight
  <2>2. CASE Refuse("corrupt") \/ Refuse("limit")
    BY <1>1, <2>2, RefuseStep
  <2>3. CASE /\ phase' = "dictionaries"
             /\ UNCHANGED <<file, index, proof, expected, position, verdict>>
    <3>1. RowTotal(index.groups) = file.root.rows
      BY <1>1, <2>1 DEF OpenIInv, PhaseSound, AfterCounts
    <3> QED
      BY <1>1, <2>1, <2>3, <3>1, EarlyCheck DEF BeforeGroups
  <2> QED
    BY <1>1, <2>2, <2>3 DEF Preflight
<1>2. ASSUME OpenIInv, ValidateDictionaries PROVE OpenIInv'
  <2>1. phase = "dictionaries"
    BY <1>2 DEF ValidateDictionaries
  <2>2. CASE Refuse("corrupt") \/ Refuse("limit")
    BY <1>2, <2>2, RefuseStep
  <2>3. CASE /\ phase' = "groups"
             /\ UNCHANGED <<file, index, proof, expected, position, verdict>>
    <3>1. RowTotal(index.groups) = file.root.rows
      BY <1>2, <2>1 DEF OpenIInv, PhaseSound, AfterCounts
    <3> QED
      BY <1>2, <2>1, <2>3, <3>1, EarlyCheck DEF BeforeGroups
  <2> QED
    BY <1>2, <2>2, <2>3, Zenon DEF ValidateDictionaries
<1> QED
  BY <1>1, <1>2

\* Joining a delta to its base index keeps the tables' types.
LEMMA DeltaTypes ==
    ASSUME OpenTypeOK, NEW delta \in Deltas,
           index' = [index EXCEPT !.groups = @ \o delta.groups, !.chunks = @ \o delta.chunks,
                                  !.stats = @ \o delta.stats],
           proof' = IF delta.proofs = <<>> THEN proof
                    ELSE <<[proof[1] EXCEPT !.groups = @ \o delta.proofs]>>,
           delta.proofs # <<>> => proof # <<>>
    PROVE  index' \in Indexes /\ proof' \in Seq(OrderingProofs)
<1>1. index \in Indexes /\ proof \in Seq(OrderingProofs)
  BY DEF OpenTypeOK
<1>2. /\ delta.groups \in Seq(GroupDescs) /\ delta.chunks \in Seq(ChunkDescs)
      /\ delta.stats \in Seq(StatDescs) /\ delta.proofs \in Seq(GroupProofs)
  BY DEF Deltas
<1>3. index' \in Indexes
  <2>1. PICK g \in Seq(GroupDescs) : g = index.groups \o delta.groups
    BY <1>1, <1>2, ConcatProperties DEF Indexes
  <2>2. PICK c \in Seq(ChunkDescs) : c = index.chunks \o delta.chunks
    BY <1>1, <1>2, ConcatProperties DEF Indexes
  <2>3. PICK s \in Seq(StatDescs) : s = index.stats \o delta.stats
    BY <1>1, <1>2, ConcatProperties DEF Indexes
  <2>4. index' = [index EXCEPT !.groups = g, !.chunks = c, !.stats = s]
    BY <1>1, <2>1, <2>2, <2>3 DEF Indexes
  <2> QED
    BY <1>1, <2>4 DEF Indexes
<1>4. CASE delta.proofs = <<>>
  BY <1>1, <1>3, <1>4
<1>5. CASE delta.proofs # <<>>
  <2>1. proof[1] \in OrderingProofs
    <3>1. Len(proof) \in Nat \ {0}
      BY <1>1, <1>5, EmptySeq
    <3> QED
      BY <1>1, <3>1, ElementOfSeq
  <2>2. PICK g \in Seq(GroupProofs) : g = proof[1].groups \o delta.proofs
    BY <1>2, <2>1, ConcatProperties DEF OrderingProofs
  <2>3. PICK p \in OrderingProofs : p = [proof[1] EXCEPT !.groups = g]
    BY <2>1 DEF OrderingProofs
  <2>4. proof' = <<p>>
    BY <1>5, <2>1, <2>2, <2>3 DEF OrderingProofs
  <2>5. <<p>> \in Seq(OrderingProofs)
    BY <2>3
  <2> QED
    BY <1>3, <2>4, <2>5, Zenon
<1> QED
  BY <1>4, <1>5

\* Applying the delta.
LEMMA ApplyDeltaStep == OpenIInv /\ ApplyDelta => OpenIInv'
<1> SUFFICES ASSUME OpenIInv, ApplyDelta PROVE OpenIInv'
  OBVIOUS
<1>1. phase = "delta"
  BY DEF ApplyDelta
<1>2. OpenTypeOK /\ position = 0 /\ expected = NoneExpected /\ verdict = "none"
  BY <1>1, EarlyState DEF BeforeGroups
<1>3. CASE Refuse("limit") \/ Refuse("corrupt")
  BY <1>3, RefuseStep
<1>4. CASE phase' = "root" /\ UNCHANGED <<file, index, proof, expected, position, verdict>>
  BY <1>1, <1>4, EarlyCheck DEF BeforeGroups, AfterCounts
<1>5. ASSUME NEW delta \in Range(file.delta), OrderingDeltaMatches(delta),
             index' = [index EXCEPT !.groups = @ \o delta.groups, !.chunks = @ \o delta.chunks,
                                    !.stats = @ \o delta.stats],
             proof' = IF delta.proofs = <<>> THEN proof
                      ELSE <<[proof[1] EXCEPT !.groups = @ \o delta.proofs]>>,
             phase' = "root", UNCHANGED <<file, expected, position, verdict>>
      PROVE  OpenIInv'
  <2>1. file.delta \in Seq(Deltas)
    BY <1>2 DEF OpenTypeOK, DecodedFiles
  <2>2. delta \in Deltas
    BY <2>1, LenProperties, ElementOfSeq DEF Range
  <2>3. delta.proofs # <<>> => proof # <<>>
    BY <1>5 DEF OrderingDeltaMatches
  <2>4. index' \in Indexes /\ proof' \in Seq(OrderingProofs)
    BY <1>2, <1>5, <2>2, <2>3, DeltaTypes
  <2>5. Len(index'.groups) \in Nat
    BY <2>4, LenProperties DEF Indexes
  <2>6. OpenTypeOK'
    <3>1. position' \in Nat /\ position' <= Len(index'.groups)
      <4>1. position = 0 /\ position' = position
        BY <1>2, <1>5 DEF BeforeGroups
      <4> QED
        BY <2>5, <4>1
    <3>2. verdict' \in Verdicts /\ expected' \in [base : Nat, chunk : Nat, stat : Nat]
      BY <1>2, <1>5 DEF OpenTypeOK
    <3>3. file' \in DecodedFiles
      BY <1>2, <1>5 DEF OpenTypeOK
    <3>4. phase' \in BeforeGroups \cup {"groups", "ordering", "done"}
      BY <1>5 DEF BeforeGroups
    <3> QED
      BY <2>4, <3>1, <3>2, <3>3, <3>4, Zenon DEF OpenTypeOK
  <2> QED
    BY <1>2, <1>5, <2>6, EarlyStep DEF BeforeGroups, AfterCounts
<1> QED
  BY <1>3, <1>4, <1>5, Zenon DEF ApplyDelta

\* What is found at a body is one of three.
LEMMA BodyVerdicts == ASSUME NEW r PROVE BodyCheck(r) \in {"open", "limit", "corrupt"}
BY DEF BodyCheck

\* And what is found wrong with a group one of two.
LEMMA FaultVerdicts == ASSUME NEW g PROVE GroupFaults(g) \subseteq {"corrupt", "limit"}
<1> SUFFICES ASSUME NEW fault \in GroupFaults(g) PROVE fault \in {"corrupt", "limit"}
  OBVIOUS
<1>2. fault # "open"
  BY DEF GroupFaults
<1>3. CASE fault \in {BodyCheck(r) : r \in KeysOf(g.key)}
  BY <1>2, <1>3, BodyVerdicts
<1>4. CASE fault \in {IF ChunkOverLimit(c) THEN "limit"
                      ELSE IF mode.validation = "full" /\ ~PayloadsIntact(c) THEN "corrupt"
                      ELSE "open" : c \in Range(ChunksOf(g))}
  BY <1>2, <1>4
<1> QED
  BY <1>3, <1>4, Zenon DEF GroupFaults

\* A row group is visited.
LEMMA ValidateRowGroupStep == OpenIInv /\ ValidateRowGroup => OpenIInv'
<1> SUFFICES ASSUME OpenIInv, ValidateRowGroup PROVE OpenIInv'
  OBVIOUS
<1>1. OpenTypeOK /\ RangesLaid /\ GroupsVisited /\ PhaseSound
  BY DEF OpenIInv
<1>2. PICK g : g = index.groups[position + 1]
  OBVIOUS
<1>3. CASE Refuse("corrupt")
  BY <1>3, RefuseStep
<1>4. CASE \E fault \in GroupFaults(g) : Refuse(fault)
  BY <1>4, FaultVerdicts, RefuseStep
<1>5. CASE GroupPasses(g)
  <2>1. RangesLaid' /\ GroupsVisited'
    BY <1>1, <1>5, PassedGroupIsLaid
  <2>2. position + 1 \in DOMAIN index.groups
    BY <1>1, <1>5, TableTypes DEF OpenTypeOK, GroupPasses
  <2>3. g.rows \in Nat /\ g.chunkCount \in Nat /\ g.statCount \in Nat
    BY <1>1, <1>2, <2>2, GroupTypes
  <2>4. expected' \in [base : Nat, chunk : Nat, stat : Nat]
    <3>1. expected.base \in Nat /\ expected.chunk \in Nat /\ expected.stat \in Nat
      BY <1>1 DEF OpenTypeOK
    <3>2. PICK a \in Nat, b \in Nat, c \in Nat :
            a = expected.base + g.rows /\ b = expected.chunk + g.chunkCount
            /\ c = expected.stat + g.statCount
      BY <2>3, <3>1
    <3>3. expected' = [base |-> a, chunk |-> b, stat |-> c]
      BY <1>2, <1>5, <3>2 DEF GroupPasses
    <3> QED
      BY <3>2, <3>3
  <2>5. position' \in Nat /\ position' <= Len(index'.groups)
    BY <1>1, <1>5, <2>2, TableTypes DEF OpenTypeOK, GroupPasses
  <2>6. OpenTypeOK'
    BY <1>1, <1>5, <2>4, <2>5 DEF OpenTypeOK, GroupPasses
  <2>7. phase = "groups" /\ phase' = "groups" /\ UNCHANGED <<file, index, verdict>>
    BY <1>5 DEF GroupPasses
  <2>8. PhaseSound'
    BY <1>1, <2>7 DEF PhaseSound, BeforeGroups, AfterCounts
  <2>9. verdict' = "none"
    BY <1>1, <2>7 DEF PhaseSound
  <2>10. AcceptedGraphTiles'
    BY <2>9 DEF AcceptedGraphTiles
  <2> QED
    BY <2>1, <2>6, <2>8, <2>10 DEF OpenIInv
<1>6. Refuse("corrupt") \/ (\E fault \in GroupFaults(g) : Refuse(fault)) \/ GroupPasses(g)
  <2>1. CASE ~GroupSound(g, {index.groups[i] : i \in 1..position}) /\ Refuse("corrupt")
    BY <2>1
  <2>2. CASE \E fault \in GroupFaults(g) : Refuse(fault)
    BY <2>2
  <2>3. CASE /\ GroupSound(g, {index.groups[i] : i \in 1..position})
             /\ expected' = [base |-> expected.base + g.rows,
                             chunk |-> expected.chunk + g.chunkCount,
                             stat |-> expected.stat + g.statCount]
             /\ position' = position + 1
             /\ UNCHANGED <<file, alterations, mode, phase, index, proof, budget, verdict>>
    <3>1. phase = "groups" /\ position < Len(index.groups)
      BY DEF ValidateRowGroup
    <3>2. UNCHANGED <<file, index, proof, phase, verdict>>
      BY <2>3
    <3> QED
      BY <1>2, <2>3, <3>1, <3>2, Zenon DEF GroupPasses
  <2> QED
    BY <1>2, <2>1, <2>2, <2>3, Zenon DEF ValidateRowGroup
<1> QED
  BY <1>3, <1>4, <1>5, <1>6

\* The loop ends with the tables covered.
LEMMA EndRowGroupsStep == OpenIInv /\ EndRowGroups => OpenIInv'
<1> SUFFICES ASSUME OpenIInv, EndRowGroups PROVE OpenIInv'
  OBVIOUS
<1>1. CASE Refuse("corrupt")
  BY <1>1, RefuseStep
<1>2. CASE /\ phase = "groups" /\ TablesCovered /\ phase' = "ordering"
           /\ UNCHANGED <<file, index, proof, expected, position, verdict>>
  <2>1. OpenTypeOK'
    BY <1>2 DEF OpenIInv, OpenTypeOK
  <2>2. RangesLaid' /\ GroupsVisited'
    BY <1>2, LoopKept DEF OpenIInv
  <2>3. position = Len(index.groups)
    BY DEF EndRowGroups
  <2>4. RowTotal(index.groups) = file.root.rows /\ verdict = "none"
    BY <1>2 DEF OpenIInv, PhaseSound, AfterCounts
  <2>5. PhaseSound'
    BY <1>2, <2>3, <2>4 DEF PhaseSound, BeforeGroups, TablesCovered
  <2>6. AcceptedGraphTiles'
    BY <1>2, <2>4 DEF AcceptedGraphTiles
  <2> QED
    BY <2>1, <2>2, <2>5, <2>6 DEF OpenIInv
<1> QED
  BY <1>1, <1>2 DEF EndRowGroups, Check

\* The ordering proof is validated and the snapshot opened.
LEMMA ValidateOrderingStep == OpenIInv /\ ValidateOrdering => OpenIInv'
<1> SUFFICES ASSUME OpenIInv, ValidateOrdering PROVE OpenIInv'
  OBVIOUS
<1>1. CASE Refuse("corrupt")
  BY <1>1, RefuseStep
<1>2. CASE \E fault \in {"corrupt", "limit"} : Refuse(fault)
  BY <1>2, RefuseStep
<1>3. CASE /\ phase = "ordering" /\ \A p \in Range(proof) : OrderingCovers(p)
           /\ verdict' = "open" /\ phase' = "done"
           /\ UNCHANGED <<file, index, proof, expected, position>>
  <2>1. OpenTypeOK'
    BY <1>3 DEF OpenIInv, OpenTypeOK, Verdicts
  <2>2. RangesLaid' /\ GroupsVisited'
    BY <1>3, LoopKept DEF OpenIInv
  <2>3. PhaseSound'
    BY <1>3 DEF PhaseSound, BeforeGroups, AfterCounts
  <2>4. RowsTiled /\ ChunksTiled /\ StatsTiled /\ ProofTiled
    BY <1>3, LoopTilesRows, LoopTilesChunks, LoopTilesStats, ProofsTile DEF OpenIInv
  <2>5. RowsTiled'
    BY <1>3, <2>4 DEF RowsTiled
  <2>6. ChunksTiled'
    <3>1. ColumnIds' = ColumnIds
      BY <1>3 DEF ColumnIds
    <3>2. index' = index
      BY <1>3
    <3>3. ChunksTiled' <=> ChunksTiled
      BY <3>1, <3>2 DEF ChunksTiled
    <3> QED
      BY <2>4, <3>3
  <2>7. StatsTiled'
    BY <1>3, <2>4 DEF StatsTiled
  <2>8. ProofTiled'
    BY <1>3, <2>4 DEF ProofTiled
  <2>9. AcceptedGraphTiles'
    BY <2>5, <2>6, <2>7, <2>8 DEF AcceptedGraphTiles
  <2> QED
    BY <2>1, <2>2, <2>3, <2>9 DEF OpenIInv
<1>4. \/ Refuse("corrupt")
      \/ \E fault \in {"corrupt", "limit"} : Refuse(fault)
      \/ /\ phase = "ordering" /\ \A p \in Range(proof) : OrderingCovers(p)
         /\ verdict' = "open" /\ phase' = "done"
         /\ UNCHANGED <<file, index, proof, expected, position>>
  <2> DEFINE bodies == {BodyCheck(r) : r \in {k \in ProofKeyTuples \cup RootKeyTuples : ~IsNull(k)}}
  <2>1. bodies \ {"open"} \subseteq {"corrupt", "limit"}
    BY BodyVerdicts
  <2>2. CASE Refuse("corrupt")
    BY <2>2
  <2>3. CASE \E fault \in bodies \ {"open"} : Refuse(fault)
    <3> HIDE DEF bodies
    <3> QED
      BY <2>1, <2>3
  <2>4. CASE /\ \A p \in Range(proof) : OrderingCovers(p)
             /\ Conclude("open")
             /\ UNCHANGED <<file, alterations, mode, index, proof, budget, expected, position>>
    <3>1. phase = "ordering"
      BY DEF ValidateOrdering
    <3> QED
      BY <2>4, <3>1 DEF Conclude
  <2> QED
    BY <2>2, <2>3, <2>4, Zenon DEF ValidateOrdering
<1> QED
  BY <1>1, <1>2, <1>3, <1>4

\* Every step keeps the invariant.
LEMMA OpenInductive == OpenIInv /\ [OpenNext]_openVars => OpenIInv'
<1> SUFFICES ASSUME OpenIInv, [OpenNext]_openVars PROVE OpenIInv'
  OBVIOUS
<1>1. CASE UNCHANGED openVars
  <2>1. UNCHANGED <<file, index, proof, expected, position, phase, verdict>>
    BY <1>1 DEF openVars
  <2>2. OpenTypeOK' /\ PhaseSound'
    BY <2>1 DEF OpenIInv, OpenTypeOK, PhaseSound
  <2>3. RangesLaid' /\ GroupsVisited'
    BY <2>1, LoopKept DEF OpenIInv
  <2>4. AcceptedGraphTiles'
    <3>1. ColumnIds' = ColumnIds
      BY <2>1 DEF ColumnIds
    <3>2. (RowsTiled' <=> RowsTiled) /\ (StatsTiled' <=> StatsTiled) /\ (ProofTiled' <=> ProofTiled)
      BY <2>1 DEF RowsTiled, StatsTiled, ProofTiled
    <3>3. ChunksTiled' <=> ChunksTiled
      BY <2>1, <3>1 DEF ChunksTiled
    <3> QED
      BY <2>1, <3>2, <3>3 DEF OpenIInv, AcceptedGraphTiles
  <2> QED
    BY <2>2, <2>3, <2>4 DEF OpenIInv
<1>2. CASE OpenNext
  BY <1>2, AlterStep, LoadStep, ApplyDeltaStep, CheckSteps, AuxiliarySteps,
     ValidateRowGroupStep, EndRowGroupsStep, ValidateOrderingStep DEF OpenNext
<1> QED
  BY <1>1, <1>2

\* A snapshot that is opened, whatever its metadata objects hold, has an
\* index in which every row lies in one row group, every chunk descriptor and
\* statistic belongs to one, every group has one chunk of each column, and an
\* ordering proof speaks once of each group: the running expectations of
\* validate_row_group_graph and the totals of validate_root_counts leave no
\* other content.
THEOREM OpenedGraphTiles == OpenSpec => []AcceptedGraphTiles
<1>1. OpenSpec => []OpenIInv
  BY OpenInitially, OpenInductive, PTL DEF OpenSpec
<1>2. OpenIInv => AcceptedGraphTiles
  BY DEF OpenIInv
<1> QED
  BY <1>1, <1>2, PTL

-----------------------------------------------------------------------------
(***************************************************************************)
(* Footprints and their sums.                                              *)
(***************************************************************************)
Measures == [compressed : Nat, decoded : Nat, rows : Nat]
Measured == {Ok(f) : f \in Measures} \cup {Err("corrupt"), Err("invalid")}

\* A measurement either has a footprint or is one of two errors.
LEMMA MeasuredParts ==
    ASSUME NEW r \in Measured
    PROVE  /\ IsOk(r) => r.value \in Measures /\ r = Ok(r.value)
           /\ ~IsOk(r) => r \in {Err("corrupt"), Err("invalid")}
BY DEF Measured, Ok, Err, IsOk

\* The footprints that are accepted.
LEMMA OkMeasured ==
    ASSUME NEW f \in Measures
    PROVE  Ok(f) \in Measured /\ IsOk(Ok(f)) /\ Ok(f).value = f
BY DEF Measured, Ok, IsOk

\* The errors are not.
LEMMA ErrMeasured ==
    \A e \in {"corrupt", "invalid"} : Err(e) \in Measured /\ ~IsOk(Err(e))
BY DEF Measured, Err, IsOk

\* Steps that each measure on from an accepted result, or keep a failure,
\* define a sequence of measurements.
MeasureStep(step, n) == \A i \in 1 .. n, f \in Measures : step[i][f] \in Measured
Chains(g, n, base, step) ==
    /\ g \in [0 .. n -> Measured]
    /\ g[0] = base
    /\ \A i \in 1 .. n : g[i] = IF IsOk(g[i - 1]) THEN step[i][g[i - 1].value] ELSE g[i - 1]

\* There is such a sequence.
LEMMA ChainDefined ==
    ASSUME NEW n \in Nat, NEW base \in Measured, NEW step, MeasureStep(step, n)
    PROVE  \E g : Chains(g, n, base, step)
<1> DEFINE then == [i \in 1 .. n |-> [r \in Measured |->
                       IF IsOk(r) THEN step[i][r.value] ELSE r]]
<1>1. \A i \in 1 .. n, r \in Measured :
         then[i][r] = IF IsOk(r) THEN step[i][r.value] ELSE r
  OBVIOUS
<1>2. StepsStay(then, n, Measured)
  BY <1>1, MeasuredParts DEF StepsStay, MeasureStep
<1> HIDE DEF then
<1>3. PICK g : Iterates(g, n, Measured, base, then)
  BY <1>2, RecursionDefined
<1>4. \A i \in 1 .. n : g[i - 1] \in Measured
  BY <1>3 DEF Iterates
<1>5. Chains(g, n, base, step)
  BY <1>1, <1>3, <1>4 DEF Iterates, Chains
<1> QED
  BY <1>5

Run(a, n) == a + 1 .. a + n

\* A sum over no numbers.
LEMMA EmptyRun == ASSUME NEW a \in Nat, NEW f PROVE SumFunctionOnSet(f, Run(a, 0)) = 0
<1>1. Run(a, 0) = {}
  BY DEF Run
<1> QED
  BY <1>1, SumOfNothing

\* A sum over consecutive numbers, a number at a time.
LEMMA LongerRun ==
    ASSUME NEW a \in Nat, NEW n \in Nat, NEW f, \A i \in Run(a, n + 1) : f[i] \in Int
    PROVE  SumFunctionOnSet(f, Run(a, n + 1))
              = f[a + n + 1] + SumFunctionOnSet(f, Run(a, n))
<1>1. Run(a, n + 1) = Run(a, n) \cup {a + n + 1}
  BY DEF Run
<1>2. a + n + 1 \notin Run(a, n) /\ IsFiniteSet(Run(a, n))
  BY FS_Interval DEF Run
<1>3. \A i \in Run(a, n) \cup {a + n + 1} : f[i] \in Int
  BY <1>1
<1>4. SumFunctionOnSet(f, Run(a, n) \cup {a + n + 1})
         = f[a + n + 1] + SumFunctionOnSet(f, Run(a, n))
  <2> HIDE DEF Run
  <2> QED
    BY <1>2, <1>3, SumAdd
<1> QED
  BY <1>1, <1>4

\* An accepted addition adds.
LEMMA CheckedAddAdds ==
    ASSUME NEW f \in Measures, NEW c \in Nat, NEW d \in Nat
    PROVE  /\ CheckedAdd(f, c, d) \in Measured
           /\ IsOk(CheckedAdd(f, c, d)) =>
                 CheckedAdd(f, c, d).value = Footprint(f.compressed + c, f.decoded + d, f.rows)
BY DEF CheckedAdd, Require, Footprint, Ok, Err, IsOk, Measures, Measured

\* Each step of a chain adds the parts of its place.
StepAdds(step, n, c, d) ==
    \A i \in 1 .. n, t \in Measures :
        /\ step[i][t] \in Measured
        /\ IsOk(step[i][t]) =>
              step[i][t].value = Footprint(t.compressed + c[i], t.decoded + d[i], t.rows)

\* The parts are numbers.
Parts(n, c, d) == \A i \in 1 .. n : c[i] \in Nat /\ d[i] \in Nat

Empty(rows) == Footprint(0, 0, rows)

\* The end of a chain that is accepted is the sum of the parts.
LEMMA ChainSums ==
    ASSUME NEW n \in Nat, NEW rows \in Nat, NEW g, NEW step,
           Chains(g, n, Ok(Empty(rows)), step),
           NEW c, NEW d, StepAdds(step, n, c, d), Parts(n, c, d)
    PROVE  IsOk(g[n]) => g[n].value = Footprint(SumFunctionOnSet(c, Run(0, n)),
                                                SumFunctionOnSet(d, Run(0, n)), rows)
<1> DEFINE Sum(f, k) == SumFunctionOnSet(f, Run(0, k))
           T == {k \in 0 .. n :
                   IsOk(g[k]) => g[k].value = Footprint(Sum(c, k), Sum(d, k), rows)}
<1>1. \A k \in 0 .. n : g[k] \in Measured
  BY DEF Chains
<1>2. 0 \in T
  <2>1. g[0] = Ok(Empty(rows))
    BY DEF Chains
  <2>2. Sum(c, 0) = 0 /\ Sum(d, 0) = 0
    BY EmptyRun
  <2> HIDE DEF Sum
  <2> QED
    BY <2>1, <2>2 DEF Ok, Empty
<1>3. ASSUME NEW k \in 0 .. n - 1, k \in T PROVE k + 1 \in T
  <2>1. /\ k + 1 \in 0 .. n /\ k + 1 \in 1 .. n /\ k + 1 - 1 = k
        /\ k \in 0 .. n /\ k \in Nat
    OBVIOUS
  <2>2. g[k + 1] = IF IsOk(g[k]) THEN step[k + 1][g[k].value] ELSE g[k]
    BY <2>1 DEF Chains
  <2>3. CASE ~IsOk(g[k])
    BY <1>3, <2>1, <2>2, <2>3
  <2>4. CASE IsOk(g[k])
    <3>1. g[k].value \in Measures
      BY <1>1, <2>1, <2>4, MeasuredParts
    <3>2. g[k].value = Footprint(Sum(c, k), Sum(d, k), rows)
      BY <1>3, <2>4
    <3>3. Sum(c, k + 1) = c[k + 1] + Sum(c, k) /\ Sum(d, k + 1) = d[k + 1] + Sum(d, k)
      <4>1. \A i \in Run(0, k + 1) : c[i] \in Int /\ d[i] \in Int
        BY DEF Parts, Run
      <4>2. 0 + k + 1 = k + 1
        BY <2>1
      <4> QED
        BY <2>1, <4>1, <4>2, LongerRun
    <3> HIDE DEF Sum
    <3>4. ASSUME IsOk(g[k + 1])
          PROVE  g[k + 1].value = Footprint(Sum(c, k + 1), Sum(d, k + 1), rows)
      <4>1. g[k + 1].value = Footprint(g[k].value.compressed + c[k + 1],
                                       g[k].value.decoded + d[k + 1], g[k].value.rows)
        BY <2>1, <2>2, <2>4, <3>1, <3>4 DEF StepAdds
      <4>2. /\ g[k].value.compressed = Sum(c, k) /\ g[k].value.decoded = Sum(d, k)
            /\ g[k].value.rows = rows
        BY <3>2 DEF Footprint
      <4>3. Sum(c, k) \in Nat /\ Sum(d, k) \in Nat
        BY <3>1, <4>2 DEF Measures
      <4>4. c[k + 1] \in Nat /\ d[k + 1] \in Nat
        BY <2>1 DEF Parts
      <4>5. Sum(c, k) + c[k + 1] = Sum(c, k + 1) /\ Sum(d, k) + d[k + 1] = Sum(d, k + 1)
        BY <3>3, <4>3, <4>4
      <4> QED
        BY <4>1, <4>2, <4>5
    <3> QED
      BY <2>1, <3>4
  <2> QED
    BY <2>3, <2>4
<1>4. 0 .. n \subseteq T
  <2> HIDE DEF T
  <2> QED
    BY <1>2, <1>3, IntervalInduction
<1>5. n \in T
  BY <1>4
<1> QED
  BY <1>5

Recurs(h, n, base, step) ==
    /\ DOMAIN h = 0 .. n
    /\ h[0] = base
    /\ \A i \in 1 .. n :
          /\ IsOk(h[i - 1]) /\ h[i - 1].value \in Measures => h[i] = step[i][h[i - 1].value]
          /\ ~IsOk(h[i - 1]) => h[i] = h[i - 1]

\* A recursive function that goes on with the steps chains them.
LEMMA RecursionChains ==
    ASSUME NEW n \in Nat, NEW base \in Measured, NEW step, MeasureStep(step, n),
           NEW h, h = [i \in 0 .. n |-> h[i]], Recurs(h, n, base, step)
    PROVE  Chains(h, n, base, step)
<1>1. PICK g : Chains(g, n, base, step)
  BY ChainDefined
<1>2. ASSUME NEW i \in 1 .. n, g[i - 1] = h[i - 1] PROVE g[i] = h[i]
  <2>1. g[i - 1] \in Measured
    BY <1>1, i - 1 \in 0 .. n DEF Chains
  <2>2. IsOk(g[i - 1]) => g[i - 1].value \in Measures
    BY <2>1, MeasuredParts
  <2> QED
    BY <1>1, <1>2, <2>2 DEF Chains, Recurs
<1>3. GoAlike(n, g, h)
  BY <1>1, <1>2 DEF GoAlike, Chains, Recurs
<1>4. \A i \in 0 .. n : g[i] = h[i]
  BY <1>3, SameRecursion
<1>5. h \in [0 .. n -> Measured]
  BY <1>1, <1>4 DEF Chains
<1>6. \A i \in 1 .. n : i - 1 \in 0 .. n /\ i \in 0 .. n
  OBVIOUS
<1> QED
  BY <1>1, <1>4, <1>5, <1>6 DEF Chains

\* c and d number the parts of a window of a list from one.
Numbered(fps, skip, count, c, d) ==
    \A i \in 1 .. count : /\ fps[skip + i] \in Measures
                          /\ c[i] = fps[skip + i].compressed
                          /\ d[i] = fps[skip + i].decoded
\* The window's total, when it is accepted, sums those parts.
Totalled(fps, skip, count, c, d) ==
    /\ CheckedTotal(fps, skip, count) \in Measured
    /\ IsOk(CheckedTotal(fps, skip, count)) =>
          CheckedTotal(fps, skip, count).value
             = Footprint(SumFunctionOnSet(c, Run(0, count)),
                         SumFunctionOnSet(d, Run(0, count)), 0)

\* An accepted total is the sum of the footprints.
LEMMA TotalIsSum ==
    ASSUME NEW fps, NEW skip \in Nat, NEW count \in Nat, NEW c, NEW d,
           Numbered(fps, skip, count, c, d)
    PROVE  Totalled(fps, skip, count, c, d)
<1> DEFINE Add(i, t) == CheckedAdd(t, fps[skip + i].compressed, fps[skip + i].decoded)
           step == [i \in 1 .. count |-> [t \in Measures |-> Add(i, t)]]
           Unfolds(g) == g = [n \in 0 .. count |->
                                IF n = 0 THEN Ok(Footprint(0, 0, 0))
                                ELSE IF IsOk(g[n - 1]) THEN Add(n, g[n - 1].value) ELSE g[n - 1]]
           total == CHOOSE g : Unfolds(g)
<1> USE DEF Numbered
<1>1. ASSUME NEW i \in 1 .. count, NEW t \in Measures
      PROVE  /\ step[i][t] = Add(i, t) /\ Add(i, t) \in Measured
             /\ IsOk(Add(i, t)) => Add(i, t).value
                   = Footprint(t.compressed + c[i], t.decoded + d[i], t.rows)
  <2>1. step[i][t] = Add(i, t)
    OBVIOUS
  <2>2. fps[skip + i].compressed \in Nat /\ fps[skip + i].decoded \in Nat
    BY DEF Measures
  <2> QED
    BY <2>1, <2>2, CheckedAddAdds
<1>2. Ok(Empty(0)) \in Measured /\ Ok(Empty(0)) = Ok(Footprint(0, 0, 0))
  BY DEF Empty, Footprint, Measures, Ok, Measured
<1> HIDE DEF step, Add
<1>3. MeasureStep(step, count) /\ StepAdds(step, count, c, d) /\ Parts(count, c, d)
  <2>1. \A i \in 1 .. count : c[i] \in Nat /\ d[i] \in Nat
    BY DEF Measures
  <2> QED
    BY <1>1, <2>1 DEF MeasureStep, StepAdds, Parts
<1>4. PICK g : Chains(g, count, Ok(Empty(0)), step)
  BY <1>2, <1>3, ChainDefined
<1>5. Unfolds(g)
  <2>1. ASSUME NEW i \in 1 .. count, IsOk(g[i - 1])
        PROVE  step[i][g[i - 1].value] = Add(i, g[i - 1].value)
    BY <1>1, <1>4, <2>1, MeasuredParts, i - 1 \in 0 .. count DEF Chains
  <2>2. ASSUME NEW i \in 0 .. count
        PROVE  g[i] = IF i = 0 THEN Ok(Footprint(0, 0, 0))
                      ELSE IF IsOk(g[i - 1]) THEN Add(i, g[i - 1].value) ELSE g[i - 1]
    <3>1. i = 0 \/ (i \in 1 .. count /\ i # 0)
      OBVIOUS
    <3> QED
      BY <1>2, <1>4, <2>1, <3>1, Zenon DEF Chains
  <2> QED
    BY <1>4, <2>2 DEF Chains
<1>6. Unfolds(total)
  <2> HIDE DEF Unfolds
  <2> QED
    BY <1>5
<1>7. CheckedTotal(fps, skip, count) = total[count]
  BY DEF CheckedTotal, Add, Then
<1> HIDE DEF total
<1>8. total = [i \in 0 .. count |-> total[i]]
  BY <1>6
<1>9. Recurs(total, count, Ok(Empty(0)), step)
  <2>1. DOMAIN total = 0 .. count /\ total[0] = Ok(Empty(0))
    BY <1>2, <1>6
  <2>2. ASSUME NEW i \in 1 .. count
        PROVE  total[i] = IF IsOk(total[i - 1]) THEN Add(i, total[i - 1].value)
                          ELSE total[i - 1]
    BY ONLY <1>6, i \in 1 .. count
  <2> QED
    BY <1>1, <2>1, <2>2 DEF Recurs
<1>10. Chains(total, count, Ok(Empty(0)), step)
  BY <1>2, <1>3, <1>8, <1>9, RecursionChains
<1>11. total[count] \in Measured
  BY <1>10, count \in 0 .. count DEF Chains
<1> HIDE DEF Numbered
<1> QED
  BY <1>3, <1>7, <1>10, <1>11, ChainSums DEF Totalled

\* c numbers from one what f numbers from a + 1.
Shifts(c, f, a, n) == \A i \in 1 .. n : c[i] \in Int /\ c[i] = f[a + i]

\* Parts in another numbering have the same sum.
LEMMA ShiftedRun ==
    ASSUME NEW a \in Nat, NEW n \in Nat, NEW c, NEW f, Shifts(c, f, a, n)
    PROVE  SumFunctionOnSet(c, Run(0, n)) = SumFunctionOnSet(f, Run(a, n))
<1>0. \A i \in 1 .. n : c[i] \in Int /\ c[i] = f[a + i]
  BY DEF Shifts
<1> DEFINE T == {k \in 0 .. n : SumFunctionOnSet(c, Run(0, k)) = SumFunctionOnSet(f, Run(a, k))}
<1>1. 0 \in T
  BY EmptyRun
<1>2. ASSUME NEW k \in 0 .. n - 1, k \in T PROVE k + 1 \in T
  <2>1. k \in Nat /\ k + 1 \in 0 .. n /\ k + 1 \in 1 .. n /\ a + (k + 1) = a + k + 1
    OBVIOUS
  <2>2. \A i \in Run(0, k + 1) : c[i] \in Int
    BY <1>0 DEF Run
  <2>3. \A i \in Run(a, k + 1) : f[i] \in Int
    <3> SUFFICES ASSUME NEW i \in Run(a, k + 1) PROVE f[i] \in Int
      OBVIOUS
    <3>1. i - a \in 1 .. n /\ a + (i - a) = i
      BY DEF Run
    <3> QED
      BY <1>0, <3>1
  <2>4. SumFunctionOnSet(c, Run(0, k + 1)) = c[k + 1] + SumFunctionOnSet(c, Run(0, k))
    <3>1. 0 + k + 1 = k + 1
      OBVIOUS
    <3> QED
      BY <2>1, <2>2, <3>1, LongerRun
  <2>5. SumFunctionOnSet(f, Run(a, k + 1)) = f[a + k + 1] + SumFunctionOnSet(f, Run(a, k))
    BY <2>1, <2>3, LongerRun
  <2>6. c[k + 1] = f[a + k + 1]
    BY <1>0, <2>1
  <2> QED
    BY <1>2, <2>1, <2>4, <2>5, <2>6
<1>3. 0 .. n \subseteq T
  <2> HIDE DEF T
  <2> QED
    BY <1>1, <1>2, IntervalInduction
<1> QED
  BY <1>3

\* The run that begins and ends one later.
LEMMA NextRun ==
    ASSUME NEW a \in Nat, NEW n \in Nat, NEW f, \A i \in Run(a, n + 1) : f[i] \in Int
    PROVE  SumFunctionOnSet(f, Run(a + 1, n))
              = SumFunctionOnSet(f, Run(a, n)) - f[a + 1] + f[a + n + 1]
<1>1. SumFunctionOnSet(f, Run(a, n + 1)) = f[a + n + 1] + SumFunctionOnSet(f, Run(a, n))
  BY LongerRun
<1>2. SumFunctionOnSet(f, Run(a, n + 1)) = f[a + 1] + SumFunctionOnSet(f, Run(a + 1, n))
  <2>1. Run(a, n + 1) = Run(a + 1, n) \cup {a + 1} /\ a + 1 \notin Run(a + 1, n)
    BY DEF Run
  <2>2. IsFiniteSet(Run(a + 1, n))
    BY FS_Interval DEF Run
  <2> QED
    BY <2>1, <2>2, SumAdd
<1>3. /\ SumFunctionOnSet(f, Run(a + 1, n)) \in Int /\ SumFunctionOnSet(f, Run(a, n)) \in Int
      /\ f[a + 1] \in Int /\ f[a + n + 1] \in Int
  <2>1. Run(a + 1, n) \subseteq Run(a, n + 1) /\ Run(a, n) \subseteq Run(a, n + 1)
    BY DEF Run
  <2>2. a + 1 \in Run(a, n + 1) /\ a + n + 1 \in Run(a, n + 1)
    BY DEF Run
  <2>3. IsFiniteSet(Run(a + 1, n)) /\ IsFiniteSet(Run(a, n))
    BY FS_Interval DEF Run
  <2> QED
    BY <2>1, <2>2, <2>3, SumIsInteger
<1> DEFINE x == SumFunctionOnSet(f, Run(a, n))
           y == SumFunctionOnSet(f, Run(a + 1, n))
           p == f[a + 1]
           q == f[a + n + 1]
<1>4. x \in Int /\ y \in Int /\ p \in Int /\ q \in Int /\ q + x = p + y
  BY <1>1, <1>2, <1>3
<1>5. y = x - p + q
  <2> HIDE DEF x, y, p, q
  <2> QED
    BY <1>4
<1> QED
  BY <1>5

\* A run within another sums up to no more.
LEMMA InnerRun ==
    ASSUME NEW a \in Nat, NEW n \in Nat, NEW f, \A i \in Run(a, n) : f[i] \in Nat,
           NEW S \in SUBSET Run(a, n)
    PROVE  SumFunctionOnSet(f, S) <= SumFunctionOnSet(f, Run(a, n))
<1>1. IsFiniteSet(Run(a, n))
  BY FS_Interval DEF Run
<1> QED
  BY <1>1, SumOfPart

\* The larger of two numbers.
LEMMA LargerOfTwo ==
    ASSUME NEW a \in Int, NEW b \in Int
    PROVE  Max({a, b}) = IF a >= b THEN a ELSE b
<1> DEFINE m == IF a >= b THEN a ELSE b
<1>1. m \in {a, b} /\ \A y \in {a, b} : m >= y
  OBVIOUS
<1>2. \A x \in {a, b} : (\A y \in {a, b} : x >= y) => x = m
  OBVIOUS
<1> HIDE DEF m
<1>3. Max({a, b}) = m
  BY <1>1, <1>2 DEF Max
<1> QED
  BY <1>3 DEF m

\* And the smaller.
LEMMA SmallerOfTwo ==
    ASSUME NEW a \in Int, NEW b \in Int
    PROVE  Min({a, b}) = IF a <= b THEN a ELSE b
<1> DEFINE m == IF a <= b THEN a ELSE b
<1>1. m \in {a, b} /\ \A y \in {a, b} : m <= y
  OBVIOUS
<1>2. \A x \in {a, b} : (\A y \in {a, b} : x <= y) => x = m
  OBVIOUS
<1> HIDE DEF m
<1>3. Min({a, b}) = m
  BY <1>1, <1>2 DEF Min
<1> QED
  BY <1>3 DEF m

\* What the footprints of a list come to.
Compressed(fps) == [i \in DOMAIN fps |-> fps[i].compressed]
Decoded(fps) == [i \in DOMAIN fps |-> fps[i].decoded]
SumOf(fps, a, n) == Footprint(SumFunctionOnSet(Compressed(fps), Run(a, n)),
                              SumFunctionOnSet(Decoded(fps), Run(a, n)), 0)
WindowFits(fps, a, n) ==
    /\ SumFunctionOnSet(Compressed(fps), Run(a, n)) <= Limits.compressed
    /\ SumFunctionOnSet(Decoded(fps), Run(a, n)) <= Limits.decoded

\* The members of a run of a list.
LEMMA RunMembers ==
    ASSUME NEW fps \in Seq(Measures), NEW a \in Nat, NEW n \in Nat, a + n <= Len(fps)
    PROVE  /\ Run(a, n) \subseteq DOMAIN fps
           /\ \A i \in Run(a, n) : /\ fps[i] \in Measures
                                   /\ Compressed(fps)[i] = fps[i].compressed
                                   /\ Decoded(fps)[i] = fps[i].decoded
                                   /\ Compressed(fps)[i] \in Nat /\ Decoded(fps)[i] \in Nat
           /\ \A i \in 1 .. n : a + i \in Run(a, n)
<1>1. Run(a, n) \subseteq DOMAIN fps
  BY DEF Run
<1>2. \A i \in DOMAIN fps : fps[i] \in Measures
  OBVIOUS
<1>3. ASSUME NEW i \in DOMAIN fps
      PROVE  /\ Compressed(fps)[i] = fps[i].compressed
             /\ Decoded(fps)[i] = fps[i].decoded
  BY DEF Compressed, Decoded
<1>4. ASSUME NEW f \in Measures PROVE f.compressed \in Nat /\ f.decoded \in Nat
  BY DEF Measures
<1>5. \A i \in 1 .. n : a + i \in Run(a, n)
  BY DEF Run
<1>6. ASSUME NEW i \in Run(a, n)
      PROVE  /\ fps[i] \in Measures
             /\ Compressed(fps)[i] = fps[i].compressed
             /\ Decoded(fps)[i] = fps[i].decoded
             /\ Compressed(fps)[i] \in Nat /\ Decoded(fps)[i] \in Nat
  <2>1. i \in DOMAIN fps
    BY <1>1
  <2>2. fps[i] \in Measures
    BY <1>2, <2>1
  <2>3. fps[i].compressed \in Nat /\ fps[i].decoded \in Nat
    BY <1>4, <2>2
  <2> QED
    BY <1>3, <2>1, <2>2, <2>3
<1> QED
  BY <1>1, <1>5, <1>6

\* What is accepted as a total fits.
LEMMA FittingTotals ==
    ASSUME NEW f \in Measures
    PROVE  /\ validate_footprint_totals(f) \in Measured
           /\ IsOk(validate_footprint_totals(f)) =>
                 /\ validate_footprint_totals(f).value = f
                 /\ f.compressed <= Limits.compressed /\ f.decoded <= Limits.decoded
BY DEF validate_footprint_totals, Require, Ok, Err, IsOk, Measured

\* A window that is admitted has been summed and fits.
LEMMA AdmittedWindow ==
    ASSUME NEW fps \in Seq(Measures), NEW a \in Nat, NEW n \in Nat, a + n <= Len(fps)
    PROVE  /\ AdmitWindow(fps, a, n) \in Measured
           /\ IsOk(AdmitWindow(fps, a, n)) =>
                 AdmitWindow(fps, a, n).value = SumOf(fps, a, n) /\ WindowFits(fps, a, n)
<1> DEFINE c == [i \in 1 .. n |-> Compressed(fps)[a + i]]
           d == [i \in 1 .. n |-> Decoded(fps)[a + i]]
           r == CheckedTotal(fps, a, n)
<1>1. \A i \in 1 .. n : /\ fps[a + i] \in Measures
                        /\ c[i] = fps[a + i].compressed /\ d[i] = fps[a + i].decoded
                        /\ c[i] = Compressed(fps)[a + i] /\ d[i] = Decoded(fps)[a + i]
                        /\ c[i] \in Int /\ d[i] \in Int
  <2> SUFFICES ASSUME NEW i \in 1 .. n
               PROVE  /\ fps[a + i] \in Measures
                      /\ c[i] = fps[a + i].compressed /\ d[i] = fps[a + i].decoded
                      /\ c[i] = Compressed(fps)[a + i] /\ d[i] = Decoded(fps)[a + i]
                      /\ c[i] \in Int /\ d[i] \in Int
    BY Zenon
  <2>1. c[i] = Compressed(fps)[a + i] /\ d[i] = Decoded(fps)[a + i]
    OBVIOUS
  <2> HIDE DEF c, d
  <2>2. a + i \in Run(a, n)
    BY RunMembers
  <2> QED
    BY <2>1, <2>2, RunMembers
<1> HIDE DEF c, d
<1>2. /\ r \in Measured
      /\ IsOk(r) => r.value = Footprint(SumFunctionOnSet(c, Run(0, n)),
                                        SumFunctionOnSet(d, Run(0, n)), 0)
  <2>1. Numbered(fps, a, n, c, d)
    BY <1>1 DEF Numbered
  <2>2. Totalled(fps, a, n, c, d)
    BY <2>1, TotalIsSum, Zenon
  <2> QED
    BY <2>2 DEF Totalled
<1>3. /\ SumFunctionOnSet(c, Run(0, n)) = SumFunctionOnSet(Compressed(fps), Run(a, n))
      /\ SumFunctionOnSet(d, Run(0, n)) = SumFunctionOnSet(Decoded(fps), Run(a, n))
  <2>1. Shifts(c, Compressed(fps), a, n)
    BY <1>1 DEF Shifts
  <2>2. Shifts(d, Decoded(fps), a, n)
    BY <1>1 DEF Shifts
  <2>3. SumFunctionOnSet(c, Run(0, n)) = SumFunctionOnSet(Compressed(fps), Run(a, n))
    BY <2>1, ShiftedRun, Zenon
  <2>4. SumFunctionOnSet(d, Run(0, n)) = SumFunctionOnSet(Decoded(fps), Run(a, n))
    BY <2>2, ShiftedRun, Zenon
  <2> QED
    BY <2>3, <2>4
<1>4. IsOk(r) => r.value = SumOf(fps, a, n) /\ r.value \in Measures
  BY <1>2, <1>3, MeasuredParts DEF SumOf
<1>5. AdmitWindow(fps, a, n) = IF IsOk(r) THEN validate_footprint_totals(r.value) ELSE r
  BY DEF AdmitWindow, Then
<1> HIDE DEF r
<1>6. CASE IsOk(r)
  <2>1. /\ AdmitWindow(fps, a, n) = validate_footprint_totals(SumOf(fps, a, n))
        /\ SumOf(fps, a, n) \in Measures
    BY <1>4, <1>5, <1>6
  <2>2. /\ SumOf(fps, a, n).compressed = SumFunctionOnSet(Compressed(fps), Run(a, n))
        /\ SumOf(fps, a, n).decoded = SumFunctionOnSet(Decoded(fps), Run(a, n))
    BY DEF SumOf, Footprint
  <2> QED
    BY <2>1, <2>2, FittingTotals DEF WindowFits
<1> QED
  BY <1>2, <1>5, <1>6

----------------------------------------------------------------------------
(***************************************************************************)
(* What a row group's footprint measures.                                  *)
(***************************************************************************)
ChunkSizes(chunk) == chunk.object \in Nat /\ chunk.decoded \in Nat /\ chunk.validity \in Nat

\* An accepted chunk is added whole.
LEMMA AddChunkAdds ==
    ASSUME NEW f \in Measures, NEW chunk, ChunkSizes(chunk), chunk.object >= ObjectOverhead
    PROVE  /\ AddChunk(f, chunk) \in Measured
           /\ IsOk(AddChunk(f, chunk)) =>
                 AddChunk(f, chunk).value =
                    Footprint(f.compressed + (chunk.object - ObjectOverhead + chunk.validity),
                              f.decoded + (chunk.decoded + chunk.validity), f.rows)
<1> DEFINE p == chunk.object - ObjectOverhead
           r == CheckedAdd(f, p, chunk.decoded)
           q == CheckedAdd(r.value, chunk.validity, chunk.validity)
<1>1. p \in Nat /\ chunk.decoded \in Nat /\ chunk.validity \in Nat
  BY LimitsAssumption DEF ChunkSizes, LimitsAssumption
<1>2. /\ r \in Measured
      /\ IsOk(r) => /\ r.value = Footprint(f.compressed + p, f.decoded + chunk.decoded, f.rows)
                    /\ r.value \in Measures
  <2> HIDE DEF p
  <2> QED
    BY <1>1, CheckedAddAdds, MeasuredParts
<1>3. \/ AddChunk(f, chunk) = Err("invalid")
      \/ ~IsOk(r) /\ AddChunk(f, chunk) = r
      \/ IsOk(r) /\ AddChunk(f, chunk) = q
  BY DEF AddChunk, Then, Require
<1> HIDE DEF r
<1>4. IsOk(r) => /\ q \in Measured
                 /\ IsOk(q) => q.value = Footprint(r.value.compressed + chunk.validity,
                                                   r.value.decoded + chunk.validity, r.value.rows)
  BY <1>1, <1>2, CheckedAddAdds
<1>5. IsOk(r) /\ IsOk(q) =>
         q.value = Footprint(f.compressed + (p + chunk.validity),
                             f.decoded + (chunk.decoded + chunk.validity), f.rows)
  <2> SUFFICES ASSUME IsOk(r), IsOk(q)
               PROVE  q.value = Footprint(f.compressed + (p + chunk.validity),
                                          f.decoded + (chunk.decoded + chunk.validity), f.rows)
    OBVIOUS
  <2>1. /\ r.value.compressed = f.compressed + p /\ r.value.decoded = f.decoded + chunk.decoded
        /\ r.value.rows = f.rows
    BY <1>2 DEF Footprint
  <2>2. f.compressed \in Nat /\ f.decoded \in Nat
    BY DEF Measures
  <2> HIDE DEF p, q
  <2>3. /\ r.value.compressed + chunk.validity = f.compressed + (p + chunk.validity)
        /\ r.value.decoded + chunk.validity = f.decoded + (chunk.decoded + chunk.validity)
    BY <1>1, <2>1, <2>2
  <2> QED
    BY <1>4, <2>1, <2>3
<1> HIDE DEF q
<1> QED
  BY <1>2, <1>3, <1>4, <1>5, ErrMeasured

\* The footprint of a row group is what its chunks of the columns occupy.
LEMMA FootprintMeasures ==
    ASSUME NEW group, NEW columns, Sequence(columns), group.row_count \in Nat,
           \A c \in DOMAIN group.chunks : ChunkSizes(group.chunks[c]),
           NEW r, r = selected_resource_footprint_for_row_group_desc(group, columns)
    PROVE  /\ r \in Measured
           /\ IsOk(r) => r.value = Footprint(EncodedBytes(group, columns),
                                            DecodedBytes(group, columns), group.row_count)
<1> DEFINE n == Len(columns)
           rows == group.row_count
           Chunk(i) == group.chunks[columns[i]]
           c == [i \in 1 .. n |-> Chunk(i).object - ObjectOverhead + Chunk(i).validity]
           d == [i \in 1 .. n |-> Chunk(i).decoded + Chunk(i).validity]
           Add(i, t) == AddChunk(t, Chunk(i))
           step == [i \in 1 .. n |-> [t \in Measures |-> Add(i, t)]]
           Unfolds(g) == g = [k \in 0 .. n |->
                                IF k = 0 THEN Ok(Footprint(0, 0, rows))
                                ELSE IF IsOk(g[k - 1]) THEN Add(k, g[k - 1].value) ELSE g[k - 1]]
           measured == CHOOSE g : Unfolds(g)
<1>1. n \in Nat /\ DOMAIN columns = 1 .. n
  BY DEF Sequence
<1>2. /\ EncodedBytes(group, columns) = SumFunctionOnSet(c, Run(0, n))
      /\ DecodedBytes(group, columns) = SumFunctionOnSet(d, Run(0, n))
  <2>1. Run(0, n) = 1 .. n /\ DOMAIN c = 1 .. n /\ DOMAIN d = 1 .. n
    BY <1>1 DEF Run
  <2> QED
    BY <1>1, <2>1 DEF EncodedBytes, DecodedBytes, SumFunction
<1>3. \/ r = Err("corrupt")
      \/ /\ \A i \in 1 .. n : ChunkSizes(Chunk(i)) /\ Chunk(i).object >= ObjectOverhead
         /\ r = IF IsOk(measured[n])
                THEN Require(measured[n].value.decoded <= Limits.projected, "invalid",
                             Ok(measured[n].value))
                ELSE measured[n]
  <2> HIDE DEF measured
  <2>1. r = IF \E i \in 1 .. n : columns[i] \notin DOMAIN group.chunks \/ Malformed(Chunk(i), rows)
            THEN Err("corrupt")
            ELSE IF IsOk(measured[n])
                 THEN Require(measured[n].value.decoded <= Limits.projected, "invalid",
                              Ok(measured[n].value))
                 ELSE measured[n]
    BY <1>1 DEF selected_resource_footprint_for_row_group_desc, Then, measured
  <2>2. CASE \E i \in 1 .. n : columns[i] \notin DOMAIN group.chunks \/ Malformed(Chunk(i), rows)
    BY <2>1, <2>2
  <2>3. CASE \A i \in 1 .. n : columns[i] \in DOMAIN group.chunks /\ ~Malformed(Chunk(i), rows)
    <3>1. \A i \in 1 .. n : ChunkSizes(Chunk(i)) /\ Chunk(i).object >= ObjectOverhead
      <4> SUFFICES ASSUME NEW i \in 1 .. n
                   PROVE  ChunkSizes(Chunk(i)) /\ Chunk(i).object >= ObjectOverhead
        OBVIOUS
      <4>1. ChunkSizes(Chunk(i)) /\ ~Malformed(Chunk(i), rows)
        BY <2>3
      <4> QED
        <5>1. ObjectOverhead \in Nat
          BY LimitsAssumption
        <5> QED
          BY <4>1, <5>1 DEF ChunkSizes, Malformed
    <3> QED
      BY <2>1, <2>3, <3>1
  <2> QED
    BY <2>2, <2>3
<1> SUFFICES ASSUME r # Err("corrupt")
             PROVE  /\ r \in Measured
                    /\ IsOk(r) => r.value = Footprint(SumFunctionOnSet(c, Run(0, n)),
                                                     SumFunctionOnSet(d, Run(0, n)), rows)
  BY <1>2, ErrMeasured
<1>4. \A i \in 1 .. n : ChunkSizes(Chunk(i)) /\ Chunk(i).object >= ObjectOverhead
  BY <1>3
<1>5. ASSUME NEW i \in 1 .. n, NEW t \in Measures
      PROVE  /\ step[i][t] = Add(i, t) /\ Add(i, t) \in Measured
             /\ IsOk(Add(i, t)) => Add(i, t).value
                   = Footprint(t.compressed + c[i], t.decoded + d[i], t.rows)
  <2>1. step[i][t] = Add(i, t)
    OBVIOUS
  <2>2. /\ c[i] = Chunk(i).object - ObjectOverhead + Chunk(i).validity
        /\ d[i] = Chunk(i).decoded + Chunk(i).validity
    OBVIOUS
  <2>3. ChunkSizes(Chunk(i)) /\ Chunk(i).object >= ObjectOverhead
    BY <1>4
  <2> HIDE DEF Chunk, c, d
  <2> QED
    BY <2>1, <2>2, <2>3, AddChunkAdds
<1>6. Parts(n, c, d)
  <2> SUFFICES ASSUME NEW i \in 1 .. n PROVE c[i] \in Nat /\ d[i] \in Nat
    BY DEF Parts
  <2>1. /\ c[i] = Chunk(i).object - ObjectOverhead + Chunk(i).validity
        /\ d[i] = Chunk(i).decoded + Chunk(i).validity
    OBVIOUS
  <2>2. ChunkSizes(Chunk(i)) /\ Chunk(i).object >= ObjectOverhead
    BY <1>4
  <2>3. ObjectOverhead \in Nat
    BY LimitsAssumption DEF LimitsAssumption
  <2> HIDE DEF Chunk, c, d
  <2>4. Chunk(i).object \in Nat /\ Chunk(i).decoded \in Nat /\ Chunk(i).validity \in Nat
    BY <2>2 DEF ChunkSizes
  <2>5. c[i] \in Nat
    <3>1. PICK x \in Nat, v \in Nat : x = Chunk(i).object /\ v = Chunk(i).validity
      BY <2>4, Zenon
    <3>2. c[i] = x - ObjectOverhead + v /\ x >= ObjectOverhead
      BY <2>1, <2>2, <3>1, Zenon
    <3> QED
      BY <2>3, <3>2
  <2>6. d[i] \in Nat
    BY <2>1, <2>4
  <2> QED
    BY <2>5, <2>6
<1>7. Ok(Empty(rows)) \in Measured /\ Ok(Empty(rows)) = Ok(Footprint(0, 0, rows))
  BY DEF Empty, Footprint, Measures, Ok, Measured
<1> HIDE DEF step, Add, c, d
<1>8. MeasureStep(step, n) /\ StepAdds(step, n, c, d)
  BY <1>5 DEF MeasureStep, StepAdds
<1>9. PICK g : Chains(g, n, Ok(Empty(rows)), step)
  BY <1>1, <1>7, <1>8, ChainDefined
<1>10. Unfolds(g)
  <2>1. ASSUME NEW i \in 1 .. n, IsOk(g[i - 1])
        PROVE  step[i][g[i - 1].value] = Add(i, g[i - 1].value)
    BY <1>1, <1>5, <1>9, <2>1, MeasuredParts, i - 1 \in 0 .. n DEF Chains
  <2>2. ASSUME NEW i \in 0 .. n
        PROVE  g[i] = IF i = 0 THEN Ok(Footprint(0, 0, rows))
                      ELSE IF IsOk(g[i - 1]) THEN Add(i, g[i - 1].value) ELSE g[i - 1]
    <3>1. i = 0 \/ (i \in 1 .. n /\ i # 0)
      BY <1>1
    <3> QED
      BY <1>7, <1>9, <2>1, <3>1, Zenon DEF Chains
  <2> QED
    BY <1>9, <2>2 DEF Chains
<1>11. Unfolds(measured)
  <2> HIDE DEF Unfolds
  <2> QED
    BY <1>10
<1> HIDE DEF measured
<1>12. measured = [i \in 0 .. n |-> measured[i]]
  BY <1>11
<1>13. Recurs(measured, n, Ok(Empty(rows)), step)
  <2>1. DOMAIN measured = 0 .. n /\ measured[0] = Ok(Empty(rows))
    BY <1>1, <1>7, <1>11
  <2>2. ASSUME NEW i \in 1 .. n
        PROVE  measured[i] = IF IsOk(measured[i - 1]) THEN Add(i, measured[i - 1].value)
                             ELSE measured[i - 1]
    BY ONLY <1>1, <1>11, i \in 1 .. n
  <2> QED
    BY <1>5, <2>1, <2>2 DEF Recurs
<1>14. Chains(measured, n, Ok(Empty(rows)), step)
  BY <1>1, <1>7, <1>8, <1>12, <1>13, RecursionChains
<1>15. measured[n] \in Measured
  BY <1>1, <1>14, n \in 0 .. n DEF Chains
<1>16. IsOk(measured[n]) => measured[n].value = Footprint(SumFunctionOnSet(c, Run(0, n)),
                                                          SumFunctionOnSet(d, Run(0, n)), rows)
  BY <1>1, <1>6, <1>8, <1>14, ChainSums
<1> QED
  <2>1. IsOk(measured[n]) => measured[n].value \in Measures
    BY <1>15, MeasuredParts
  <2> QED
    BY <1>3, <1>15, <1>16, <2>1, OkMeasured, ErrMeasured DEF Require

----------------------------------------------------------------------------
(***************************************************************************)
(* What each admission check has measured.                                 *)
(***************************************************************************)
WindowOf(fps, max) == Min({Max({max, 1}), Len(fps)})

\* The size of a window.
LEMMA WindowSize ==
    ASSUME NEW max \in Nat, NEW fps \in Seq(Measures), fps # <<>>
    PROVE  /\ WindowOf(fps, max) \in 1 .. Len(fps)
           /\ max > 0 => WindowOf(fps, max) = IF max <= Len(fps) THEN max ELSE Len(fps)
<1>1. Len(fps) \in Nat \ {0}
  BY EmptySeq, LenProperties
<1>2. Max({max, 1}) = IF max >= 1 THEN max ELSE 1
  BY LargerOfTwo
<1>3. Max({max, 1}) \in Nat \ {0}
  BY <1>2
<1>4. WindowOf(fps, max) = IF Max({max, 1}) <= Len(fps) THEN Max({max, 1}) ELSE Len(fps)
  <2>1. PICK big \in Nat : big = Max({max, 1})
    BY <1>3
  <2>2. Min({big, Len(fps)}) = IF big <= Len(fps) THEN big ELSE Len(fps)
    BY <1>1, SmallerOfTwo
  <2> QED
    BY <2>1, <2>2 DEF WindowOf
<1> QED
  BY <1>1, <1>2, <1>3, <1>4

\* A window that slides on has lost one footprint and gained one.
LEMMA SlideWindowSlides ==
    ASSUME NEW t \in Measures, NEW out \in Measures, NEW next \in Measures,
           NEW r, r = SlideWindow(t, out, next)
    PROVE  /\ r \in Measured
           /\ IsOk(r) =>
                 /\ r.value = Footprint(t.compressed - out.compressed + next.compressed,
                                        t.decoded - out.decoded + next.decoded, 0)
                 /\ r.value.compressed <= Limits.compressed /\ r.value.decoded <= Limits.decoded
<1>1. CASE t.compressed < out.compressed \/ t.decoded < out.decoded
  BY <1>1, ErrMeasured DEF SlideWindow
<1>2. CASE ~(t.compressed < out.compressed \/ t.decoded < out.decoded)
  <2> DEFINE f == Footprint(t.compressed - out.compressed, t.decoded - out.decoded, 0)
             q == CheckedAdd(f, next.compressed, next.decoded)
  <2>1. f \in Measures /\ next.compressed \in Nat /\ next.decoded \in Nat
    BY <1>2 DEF Footprint, Measures
  <2>2. r = IF IsOk(q) THEN validate_footprint_totals(q.value) ELSE q
    BY <1>2 DEF SlideWindow, Then
  <2>3. /\ f.compressed = t.compressed - out.compressed /\ f.decoded = t.decoded - out.decoded
        /\ f.rows = 0
    BY DEF Footprint
  <2> HIDE DEF f
  <2>4. /\ q \in Measured
        /\ IsOk(q) => q.value = Footprint(f.compressed + next.compressed,
                                          f.decoded + next.decoded, f.rows)
    BY <2>1, CheckedAddAdds
  <2>5. IsOk(q) => q.value \in Measures
    BY <2>4, MeasuredParts
  <2> HIDE DEF q
  <2> QED
    BY <2>2, <2>3, <2>4, <2>5, FittingTotals
<1> QED
  BY <1>1, <1>2

\* If the sliding check passes, every window of the list fits.
LEMMA SlidingWindowsFit ==
    ASSUME NEW max \in Nat, NEW fps \in Seq(Measures), fps # <<>>,
           NEW r, r = validate_sliding_resource_footprints(fps, max)
    PROVE  /\ r \in Measured
           /\ IsOk(r) => \A k \in 0 .. Len(fps) - WindowOf(fps, max) :
                            WindowFits(fps, k, WindowOf(fps, max))
<1> DEFINE w == WindowOf(fps, max)
           m == Len(fps) - w
           Slide(k, t) == SlideWindow(t, fps[k], fps[k + w])
           step == [k \in 1 .. m |-> [t \in Measures |-> Slide(k, t)]]
           base == AdmitWindow(fps, 0, w)
           Unfolds(g) == g = [k \in 0 .. m |->
                                IF k = 0 THEN base
                                ELSE IF IsOk(g[k - 1]) THEN Slide(k, g[k - 1].value) ELSE g[k - 1]]
           window == CHOOSE g : Unfolds(g)
<1>1. w \in 1 .. Len(fps) /\ w \in Nat /\ m \in Nat /\ Len(fps) \in Nat
  BY WindowSize, LenProperties
<1>2. r = window[m]
  BY DEF validate_sliding_resource_footprints, Slide, Then, WindowOf
<1> HIDE DEF w
<1>3. ASSUME NEW k \in 0 .. m, NEW j \in Nat, j <= w PROVE k + j <= Len(fps) /\ k \in Nat
  <2>1. PICK v \in Nat, l \in Nat : v = w /\ l = Len(fps)
    BY <1>1
  <2>2. k \in 0 .. l - v /\ j <= v
    BY <1>3, <2>1
  <2>3. k + j <= l /\ k \in Nat
    BY <2>2
  <2> QED
    BY <2>1, <2>3
<1>4. base \in Measured /\ (IsOk(base) => base.value = SumOf(fps, 0, w) /\ WindowFits(fps, 0, w))
  BY <1>1, <1>3, AdmittedWindow
<1>5. ASSUME NEW k \in 1 .. m, NEW t \in Measures
      PROVE  /\ step[k][t] = Slide(k, t) /\ Slide(k, t) \in Measured
             /\ IsOk(Slide(k, t)) =>
                   /\ Slide(k, t).value
                         = Footprint(t.compressed - fps[k].compressed + fps[k + w].compressed,
                                     t.decoded - fps[k].decoded + fps[k + w].decoded, 0)
                   /\ Slide(k, t).value.compressed <= Limits.compressed
                   /\ Slide(k, t).value.decoded <= Limits.decoded
  <2>1. step[k][t] = Slide(k, t)
    OBVIOUS
  <2>2. k \in 1 .. Len(fps) /\ k + w \in 1 .. Len(fps)
    BY <1>1
  <2>3. fps[k] \in Measures /\ fps[k + w] \in Measures
    BY <2>2
  <2> QED
    BY <2>1, <2>3, SlideWindowSlides
<1> HIDE DEF step, base
<1>6. MeasureStep(step, m)
  <2> HIDE DEF Slide, m
  <2> QED
    BY <1>5 DEF MeasureStep
<1>7. PICK g : Chains(g, m, base, step)
  BY <1>1, <1>4, <1>6, ChainDefined
<1>8. Unfolds(g)
  <2> HIDE DEF Slide, m
  <2>1. ASSUME NEW i \in 1 .. m, IsOk(g[i - 1])
        PROVE  step[i][g[i - 1].value] = Slide(i, g[i - 1].value)
    BY <1>1, <1>5, <1>7, <2>1, MeasuredParts, i - 1 \in 0 .. m DEF Chains
  <2>2. ASSUME NEW i \in 0 .. m
        PROVE  g[i] = IF i = 0 THEN base
                      ELSE IF IsOk(g[i - 1]) THEN Slide(i, g[i - 1].value) ELSE g[i - 1]
    <3>1. i = 0 \/ (i \in 1 .. m /\ i # 0)
      BY <1>1
    <3> QED
      BY <1>7, <2>1, <3>1, Zenon DEF Chains
  <2> QED
    BY <1>7, <2>2 DEF Chains
<1>9. Unfolds(window)
  <2> HIDE DEF Unfolds
  <2> QED
    BY <1>8
<1> HIDE DEF window
<1>10. window = [i \in 0 .. m |-> window[i]]
  BY <1>9
<1>11. Recurs(window, m, base, step)
  <2> HIDE DEF Slide, m
  <2>1. DOMAIN window = 0 .. m /\ window[0] = base
    BY <1>1, <1>9
  <2>2. ASSUME NEW i \in 1 .. m
        PROVE  window[i] = IF IsOk(window[i - 1]) THEN Slide(i, window[i - 1].value)
                           ELSE window[i - 1]
    BY ONLY <1>1, <1>9, i \in 1 .. m
  <2> QED
    BY <1>5, <2>1, <2>2 DEF Recurs
<1>12. Chains(window, m, base, step)
  BY <1>1, <1>4, <1>6, <1>10, <1>11, RecursionChains
<1> DEFINE T == {k \in 0 .. m : IsOk(window[k]) =>
                     /\ window[k].value = SumOf(fps, k, w)
                     /\ \A j \in 0 .. k : WindowFits(fps, j, w)}
<1>13. 0 \in T
  <2>1. window[0] = base
    BY <1>12 DEF Chains
  <2>2. 0 \in 0 .. m /\ \A j \in 0 .. 0 : j = 0
    BY <1>1
  <2> QED
    BY <1>4, <2>1, <2>2
<1>14. ASSUME NEW k \in 0 .. m - 1, k \in T PROVE k + 1 \in T
  <2>1. /\ k + 1 \in 0 .. m /\ k + 1 \in 1 .. m /\ k + 1 - 1 = k /\ k \in 0 .. m /\ k \in Nat
        /\ \A j \in 0 .. k + 1 : j = k + 1 \/ j \in 0 .. k
    BY <1>1
  <2>2. window[k + 1] = IF IsOk(window[k]) THEN step[k + 1][window[k].value] ELSE window[k]
    <3> HIDE DEF m
    <3> QED
      BY <1>12, <2>1 DEF Chains
  <2>3. SUFFICES ASSUME IsOk(window[k + 1])
                 PROVE  /\ window[k + 1].value = SumOf(fps, k + 1, w)
                        /\ \A j \in 0 .. k + 1 : WindowFits(fps, j, w)
    BY <2>1
  <2>4. IsOk(window[k]) /\ window[k].value \in Measures
    <3>1. window[k] \in Measured
      BY <1>12, <2>1 DEF Chains
    <3> QED
      BY <2>2, <2>3, <3>1, MeasuredParts
  <2>5. window[k].value = SumOf(fps, k, w) /\ \A j \in 0 .. k : WindowFits(fps, j, w)
    BY <1>14, <2>4
  <2>6. /\ window[k + 1].value = Footprint(
               window[k].value.compressed - fps[k + 1].compressed + fps[k + 1 + w].compressed,
               window[k].value.decoded - fps[k + 1].decoded + fps[k + 1 + w].decoded, 0)
        /\ window[k + 1].value.compressed <= Limits.compressed
        /\ window[k + 1].value.decoded <= Limits.decoded
    <3> HIDE DEF Slide, m
    <3> QED
      BY <1>5, <2>1, <2>2, <2>3, <2>4
  <2>7. window[k + 1].value = SumOf(fps, k + 1, w)
    <3>1. k + (w + 1) <= Len(fps) /\ w + 1 \in Nat
      <4>1. PICK v \in Nat, l \in Nat : v = w /\ l = Len(fps)
        BY <1>1
      <4>2. k \in 0 .. (l - v) - 1
        BY <4>1
      <4>3. k + (v + 1) <= l /\ v + 1 \in Nat
        BY <4>2
      <4> QED
        BY <4>1, <4>3
    <3> HIDE DEF m
    <3>2. \A i \in Run(k, w + 1) : /\ Compressed(fps)[i] = fps[i].compressed
                                   /\ Decoded(fps)[i] = fps[i].decoded
                                   /\ Compressed(fps)[i] \in Int /\ Decoded(fps)[i] \in Int
      <4>1. PICK n \in Nat : n = w + 1
        BY <3>1
      <4>2. \A i \in Run(k, n) : /\ Compressed(fps)[i] = fps[i].compressed
                                 /\ Decoded(fps)[i] = fps[i].decoded
                                 /\ Compressed(fps)[i] \in Nat /\ Decoded(fps)[i] \in Nat
        BY <2>1, <3>1, <4>1, RunMembers
      <4> QED
        BY <4>1, <4>2
    <3>3. k + 1 \in Run(k, w + 1) /\ k + w + 1 \in Run(k, w + 1) /\ k + w + 1 = k + 1 + w
      BY <1>1, <2>1 DEF Run
    <3>4. SumFunctionOnSet(Compressed(fps), Run(k + 1, w))
             = SumFunctionOnSet(Compressed(fps), Run(k, w))
                  - fps[k + 1].compressed + fps[k + 1 + w].compressed
      <4>1. SumFunctionOnSet(Compressed(fps), Run(k + 1, w))
               = SumFunctionOnSet(Compressed(fps), Run(k, w))
                    - Compressed(fps)[k + 1] + Compressed(fps)[k + w + 1]
        BY <1>1, <2>1, <3>2, NextRun
      <4> QED
        BY <3>2, <3>3, <4>1
    <3>5. SumFunctionOnSet(Decoded(fps), Run(k + 1, w))
             = SumFunctionOnSet(Decoded(fps), Run(k, w))
                  - fps[k + 1].decoded + fps[k + 1 + w].decoded
      <4>1. SumFunctionOnSet(Decoded(fps), Run(k + 1, w))
               = SumFunctionOnSet(Decoded(fps), Run(k, w))
                    - Decoded(fps)[k + 1] + Decoded(fps)[k + w + 1]
        BY <1>1, <2>1, <3>2, NextRun
      <4> QED
        BY <3>2, <3>3, <4>1
    <3>6. /\ window[k].value.compressed = SumFunctionOnSet(Compressed(fps), Run(k, w))
          /\ window[k].value.decoded = SumFunctionOnSet(Decoded(fps), Run(k, w))
      BY <2>5 DEF SumOf, Footprint
    <3> QED
      BY <2>6, <3>4, <3>5, <3>6 DEF SumOf
  <2>8. WindowFits(fps, k + 1, w)
    BY <2>6, <2>7 DEF SumOf, Footprint, WindowFits
  <2> QED
    BY <2>1, <2>5, <2>7, <2>8
<1>15. 0 .. m \subseteq T
  <2> HIDE DEF T, m
  <2> QED
    BY <1>1, <1>13, <1>14, IntervalInduction
<1>16. m \in 0 .. m
  BY <1>1
<1>17. window[m] \in Measured
  <2> HIDE DEF m
  <2> QED
    BY <1>12, <1>16 DEF Chains
<1> QED
  BY <1>2, <1>15, <1>16, <1>17 DEF w

\* Division by a positive number.
LEMMA Quotient ==
    ASSUME NEW x \in Nat, NEW w \in Nat \ {0}
    PROVE  /\ x \div w \in Nat /\ (x \div w) * w <= x
           /\ \A q \in Nat : q * w <= x => q <= x \div w
<1>1. x \div w \in Nat /\ (x \div w) * w <= x /\ x < (x \div w) * w + w
  OBVIOUS
<1>2. ASSUME NEW q \in Nat, q * w <= x, x \div w < q PROVE FALSE
  <2>1. PICK d \in Nat : d = x \div w
    BY <1>1
  <2>2. PICK r \in Nat : q = d + 1 + r
    <3>1. q - d - 1 \in Nat /\ q = d + 1 + (q - d - 1)
      BY <1>2, <2>1
    <3> QED
      BY <3>1
  <2>3. q * w = d * w + w + r * w /\ r * w \in Nat /\ d * w \in Nat
    BY <2>2
  <2> QED
    BY <1>1, <1>2, <2>1, <2>3
<1> QED
  BY <1>1, <1>2

\* A list of results is collected to its values, or to the first failure.
LEMMA CollectedOrRefused ==
    ASSUME NEW n \in Nat, NEW results, DOMAIN results = 1 .. n
    PROVE  \/ /\ \A i \in 1 .. n : IsOk(results[i])
              /\ Collect(results) = Ok([i \in 1 .. n |-> results[i].value])
           \/ \E k \in 1 .. n : ~IsOk(results[k]) /\ Collect(results) = results[k]
<1> DEFINE Refused == {i \in 1 .. n : ~IsOk(results[i])}
           First(i) == ~IsOk(results[i]) /\ \A j \in 1 .. i - 1 : IsOk(results[j])
<1>1. CASE Refused = {}
  BY <1>1 DEF Collect
<1>2. CASE Refused # {}
  <2>1. PICK m \in Refused : \A i \in Refused : m <= i
    <3>1. Refused \in SUBSET Nat
      OBVIOUS
    <3> HIDE DEF Refused
    <3> QED
      BY <1>2, <3>1, LeastNumber
  <2>2. \A j \in 1 .. m - 1 : IsOk(results[j])
    <3> SUFFICES ASSUME NEW j \in 1 .. m - 1, ~IsOk(results[j]) PROVE FALSE
      OBVIOUS
    <3>1. j \in Refused /\ j < m
      OBVIOUS
    <3>2. m <= j
      BY <2>1, <3>1
    <3> QED
      BY <3>1, <3>2
  <2>3. m \in 1 .. n /\ First(m)
    BY <2>2
  <2> DEFINE k == CHOOSE i \in 1 .. n : First(i)
  <2>4. k \in 1 .. n /\ First(k)
    <3> HIDE DEF First
    <3> QED
      BY <2>3
  <2>5. Collect(results) = results[k]
    BY <2>3 DEF Collect
  <2> HIDE DEF k
  <2> QED
    BY <2>4, <2>5
<1> QED
  BY <1>1, <1>2

\* If it is accepted, each of them is.
LEMMA CollectedAreAccepted ==
    ASSUME NEW n \in Nat, NEW results, DOMAIN results = 1 .. n, IsOk(Collect(results))
    PROVE  /\ \A i \in 1 .. n : IsOk(results[i])
           /\ Collect(results).value = [i \in 1 .. n |-> results[i].value]
BY CollectedOrRefused DEF Ok

\* The window an executor keeps, whatever the list.
AtMost(n, max) == IF max <= n THEN max ELSE n

\* If the check of consecutive windows passes, every one of them fits.
LEMMA ContiguousWindowsFit ==
    ASSUME NEW max \in Nat \ {0}, NEW fps \in Seq(Measures),
           IsOk(validate_contiguous_in_flight_plan_resource_limits(fps, max))
    PROVE  \A k \in Nat : k * max < Len(fps) =>
              WindowFits(fps, k * max, AtMost(Len(fps) - k * max, max))
<1> DEFINE n == Len(fps)
           waves == (n + max - 1) \div max
           Skip(k) == (k - 1) * max
           admitted == [k \in 1 .. waves |-> AdmitWindow(fps, Skip(k), Min({max, n - Skip(k)}))]
<1>1. n \in Nat /\ n + max - 1 \in Nat
  BY LenProperties
<1>2. waves \in Nat /\ \A q \in Nat : q * max <= n + max - 1 => q <= waves
  <2>1. PICK x \in Nat : x = n + max - 1
    BY <1>1
  <2> HIDE DEF n
  <2> QED
    BY <2>1, Quotient
<1>3. Max({max, 1}) = max
  BY LargerOfTwo
<1>4. IsOk(Collect(admitted))
  BY <1>3 DEF validate_contiguous_in_flight_plan_resource_limits
<1>5. \A k \in 1 .. waves : IsOk(admitted[k])
  <2>1. DOMAIN admitted = 1 .. waves
    OBVIOUS
  <2> HIDE DEF admitted, waves
  <2> QED
    BY <1>2, <1>4, <2>1, CollectedAreAccepted
<1> SUFFICES ASSUME NEW k \in Nat, k * max < n
             PROVE  WindowFits(fps, k * max, AtMost(n - k * max, max))
  OBVIOUS
<1>6. PICK a \in Nat : a = k * max /\ a < n
  BY <1>1
<1>7. k + 1 \in 1 .. waves
  <2>1. (k + 1) * max = a + max /\ k + 1 \in Nat
    BY <1>6
  <2>2. (k + 1) * max <= n + max - 1
    BY <1>1, <1>6, <2>1
  <2>3. k + 1 <= waves
    BY <1>2, <2>1, <2>2
  <2> HIDE DEF waves
  <2> QED
    BY <1>2, <2>3
<1>8. Skip(k + 1) = a
  BY <1>6
<1>9. Min({max, n - a}) = AtMost(n - a, max)
  <2>1. PICK b \in Nat : b = n - a
    BY <1>1, <1>6
  <2> QED
    BY <2>1, SmallerOfTwo DEF AtMost
<1>10. IsOk(AdmitWindow(fps, a, AtMost(n - a, max)))
  <2>1. IsOk(admitted[k + 1])
    BY <1>5, <1>7
  <2>2. admitted[k + 1] = AdmitWindow(fps, Skip(k + 1), Min({max, n - Skip(k + 1)}))
    BY <1>7
  <2> QED
    BY <1>8, <1>9, <2>1, <2>2
<1>11. AtMost(n - a, max) \in Nat /\ a + AtMost(n - a, max) <= n
  <2>1. PICK b \in Nat : b = n - a
    BY <1>1, <1>6
  <2>2. AtMost(b, max) \in Nat /\ AtMost(b, max) <= b
    BY DEF AtMost
  <2> HIDE DEF n
  <2> QED
    BY <1>1, <2>1, <2>2
<1> QED
  BY <1>6, <1>10, <1>11, AdmittedWindow

----------------------------------------------------------------------------
(***************************************************************************)
(* Planning a read: what is proved of every plan and every read of it.     *)
(***************************************************************************)
\* A list is the members of a set among the first n of another, in their order.
PicksFrom(kept, s, n, S) ==
    \E e \in [1 .. Len(kept) -> 1 .. n] :
        /\ \A i, j \in 1 .. Len(kept) : i < j => e[i] < e[j]
        /\ \A i \in 1 .. Len(kept) : kept[i] = s[e[i]] /\ s[e[i]] \in S
        /\ \A k \in 1 .. n : s[k] \in S => \E i \in 1 .. Len(kept) : e[i] = k
Picks(kept, s, S) == PicksFrom(kept, s, Len(s), S)

\* The plan is well formed, and no row it asks for is in a group it leaves out.
PlanWellFormed ==
    Sequence(plan.ids) /\ Sequence(plan.columns) /\ plan.threads \in Nat
PlanComplete ==
    \A i \in DOMAIN plan.on :
        (\E row \in Range(plan.on[i].rows) : \A p \in Range(plan.predicates) : Satisfies(row, p))
        => plan.on[i].id \in Range(plan.ids)

Modes == {"none", "owned", "visit", "into", "sliding"}
ReadWellFormed ==
    /\ snapshot \in Files \cup OtherFiles
    /\ pool.slots \in Nat
    /\ DOMAIN exec = {"mode", "ids", "columns", "window", "launched", "asked"}
    /\ exec.mode \in Modes /\ exec.launched \in Nat
    /\ Sequence(exec.ids) /\ Sequence(delivered)
    /\ IF exec.mode = "none" THEN outcome # "running" /\ exec.launched = 0
                             ELSE outcome = "running"

\* A read and one that is done follow the plan.
ReadFollowsPlan ==
    outcome \in {"running", "done"} =>
        /\ IsInjective(plan.ids) /\ Range(plan.ids) \subseteq Ids(snapshot.groups)
        /\ Range(exec.asked) \subseteq Range(plan.ids)
        /\ Picks(exec.ids, plan.ids, Range(exec.asked))
        /\ Len(delivered) <= Len(exec.ids)
        /\ \A i \in 1 .. Len(delivered) : delivered[i] = exec.ids[i]
        /\ outcome = "done" => Len(delivered) = Len(exec.ids)

\* How far a read under way has started.
WithinWave(done, launched, window) ==
    \E k \in Nat : k * window <= done /\ launched <= k * window + window
ReadInWindow ==
    exec.mode # "none" =>
        /\ exec.window \in Nat \ {0}
        /\ Len(delivered) <= exec.launched /\ exec.launched <= Len(exec.ids)
        /\ exec.mode = "sliding" => exec.launched <= Len(delivered) + exec.window
        /\ exec.mode \in {"visit", "into"} =>
              WithinWave(Len(delivered), exec.launched, exec.window)

\* The encoded and the decoded bytes of each row group of the read.
Encoded(groups, ids, columns) ==
    [i \in DOMAIN ids |-> EncodedBytes(GroupById(groups, ids[i]), columns)]
DecodedOf(groups, ids, columns) ==
    [i \in DOMAIN ids |-> DecodedBytes(GroupById(groups, ids[i]), columns)]
RunFits(c, d, a, n) ==
    /\ SumFunctionOnSet(c, Run(a, n)) <= Limits.compressed
    /\ SumFunctionOnSet(d, Run(a, n)) <= Limits.decoded
AllFits(c, d, n) == RunFits(c, d, 0, n)
SlidesFit(c, d, n, w) == \A k \in 0 .. n - AtMost(n, w) : RunFits(c, d, k, AtMost(n, w))
WavesFit(c, d, n, w) ==
    \A k \in Nat : k * w < n => RunFits(c, d, k * w, AtMost(n - k * w, w))
Admitted(way, groups, ids, columns, window) ==
    ids # <<>> =>
        LET c == Encoded(groups, ids, columns)
            d == DecodedOf(groups, ids, columns)
            n == Len(ids)
        IN /\ \A i \in 1 .. n : c[i] \in Nat /\ d[i] \in Nat
           /\ way = "owned" => AllFits(c, d, n)
           /\ way = "sliding" => SlidesFit(c, d, n, window)
           /\ way \in {"visit", "into"} => WavesFit(c, d, n, window)
ReadAdmitted ==
    exec.mode # "none" =>
        Admitted(exec.mode, snapshot.groups, exec.ids, exec.columns, exec.window)

PlanIInv ==
    /\ PlanWellFormed /\ PlanComplete /\ ReadWellFormed /\ ReadFollowsPlan
    /\ ReadInWindow /\ ReadAdmitted

----------------------------------------------------------------------------
\* What a function on the first numbers is as a sequence.
LEMMA SequenceMade ==
    ASSUME NEW n \in Nat, NEW s, s = [i \in 1 .. n |-> s[i]]
    PROVE  Sequence(s) /\ Len(s) = n /\ DOMAIN s = 1 .. n
<1>1. DOMAIN s = 1 .. n
  OBVIOUS
<1>2. \A i \in 1 .. n : s[i] \in Range(s)
  BY <1>1 DEF Range
<1>3. s \in [1 .. n -> Range(s)]
  BY <1>2
<1>4. s \in Seq(Range(s))
  BY <1>3
<1> QED
  BY <1>1, <1>4 DEF Sequence

\* The domain of a sequence.
LEMMA SequenceDomain ==
    ASSUME NEW s, Sequence(s)
    PROVE  Len(s) \in Nat /\ DOMAIN s = 1 .. Len(s)
BY DEF Sequence

\* The groups of a file: their statistics bound their cells, and their chunks have lengths.
WellFormedGroup(g) ==
    /\ StatisticsBound(g) /\ g.row_count \in Nat
    /\ \A c \in DOMAIN g.chunks : ChunkSizes(g.chunks[c])

\* What is assumed of a file.
LEMMA FileGroups ==
    ASSUME NEW f \in Files \cup OtherFiles
    PROVE  /\ Sequence(f.groups) /\ Sequence(f.keys)
           /\ \A i \in DOMAIN f.groups : WellFormedGroup(f.groups[i])
BY ReadPlanningAssumption DEF WellFormedGroup, ChunkSizes, ReadPlanningAssumption

\* A group found by its id is one of the groups.
LEMMA GroupFound ==
    ASSUME NEW groups, NEW id \in Ids(groups)
    PROVE  \E i \in DOMAIN groups : GroupById(groups, id) = groups[i] /\ groups[i].id = id
<1> DEFINE i == CHOOSE i \in DOMAIN groups : groups[i].id = id
<1>1. i \in DOMAIN groups /\ groups[i].id = id
  BY DEF Ids
<1>2. GroupById(groups, id) = groups[i]
  BY DEF GroupById
<1> QED
  BY <1>1, <1>2

\* If the footprints of a selection are accepted, they are what its groups occupy.
LEMMA FootprintsOfPlan ==
    ASSUME NEW f \in Files \cup OtherFiles, NEW ids, Sequence(ids),
           NEW columns, Sequence(columns),
           NEW r, r = selected_resource_footprints_for_plan(f.groups, ids, columns), IsOk(r)
    PROVE  /\ r.value \in Seq(Measures) /\ Len(r.value) = Len(ids)
           /\ Compressed(r.value) = Encoded(f.groups, ids, columns)
           /\ Decoded(r.value) = DecodedOf(f.groups, ids, columns)
           /\ \A i \in 1 .. Len(ids) : /\ Encoded(f.groups, ids, columns)[i] \in Nat
                                       /\ DecodedOf(f.groups, ids, columns)[i] \in Nat
<1> DEFINE n == Len(ids)
           Group(i) == GroupById(f.groups, ids[i])
           Size(i) == selected_resource_footprint_for_row_group_desc(Group(i), columns)
           prints == [i \in 1 .. n |-> Size(i)]
<1>1. n \in Nat /\ DOMAIN ids = 1 .. n
  BY SequenceDomain
<1>2. Range(ids) \subseteq Ids(f.groups) /\ r = Collect(prints)
  <2>1. \/ r = Err("invalid")
        \/ /\ Range(ids) \subseteq Ids(f.groups)
           /\ r = Collect([i \in DOMAIN [i \in DOMAIN ids |-> Group(i)] |->
                 selected_resource_footprint_for_row_group_desc(
                    [j \in DOMAIN ids |-> Group(j)][i], columns)])
    BY DEF selected_resource_footprints_for_plan, selected_row_groups_for_plan,
           Then, Ok, Err, IsOk
  <2>2. r # Err("invalid")
    BY DEF Err, IsOk
  <2>3. [i \in DOMAIN [i \in DOMAIN ids |-> Group(i)] |->
            selected_resource_footprint_for_row_group_desc(
               [j \in DOMAIN ids |-> Group(j)][i], columns)] = prints
    BY <1>1
  <2> QED
    BY <2>1, <2>2, <2>3
<1>3. /\ \A i \in 1 .. n : IsOk(prints[i])
      /\ r.value = [i \in 1 .. n |-> prints[i].value]
  <2>1. DOMAIN prints = 1 .. n
    OBVIOUS
  <2> HIDE DEF prints
  <2> QED
    BY <1>1, <1>2, <2>1, CollectedAreAccepted
<1>4. ASSUME NEW i \in 1 .. n
      PROVE  /\ prints[i].value \in Measures
             /\ prints[i].value.compressed = EncodedBytes(Group(i), columns)
             /\ prints[i].value.decoded = DecodedBytes(Group(i), columns)
  <2>1. ids[i] \in Ids(f.groups)
    BY <1>1, <1>2 DEF Range
  <2>2. WellFormedGroup(Group(i))
    BY <2>1, GroupFound, FileGroups
  <2>3. prints[i] = Size(i) /\ IsOk(prints[i])
    BY <1>3
  <2>4. /\ Size(i) \in Measured
        /\ IsOk(Size(i)) => Size(i).value
              = Footprint(EncodedBytes(Group(i), columns), DecodedBytes(Group(i), columns),
                          Group(i).row_count)
    <3> HIDE DEF Group
    <3>1. \A c \in DOMAIN Group(i).chunks : ChunkSizes(Group(i).chunks[c])
      BY <2>2 DEF WellFormedGroup
    <3>2. Group(i).row_count \in Nat
      BY <2>2 DEF WellFormedGroup
    <3> QED
      BY <3>1, <3>2, FootprintMeasures
  <2> QED
    BY <2>3, <2>4, MeasuredParts DEF Footprint
<1> HIDE DEF prints
<1>5. r.value \in Seq(Measures) /\ Len(r.value) = n /\ DOMAIN r.value = 1 .. n
  <2>1. r.value \in [1 .. n -> Measures]
    BY <1>3, <1>4
  <2> QED
    BY <1>1, <2>1
<1>6. \A i \in 1 .. n : /\ r.value[i] \in Measures
                        /\ r.value[i].compressed = EncodedBytes(Group(i), columns)
                        /\ r.value[i].decoded = DecodedBytes(Group(i), columns)
  BY <1>3, <1>4
<1>7. Compressed(r.value) = Encoded(f.groups, ids, columns)
  BY <1>1, <1>5, <1>6 DEF Compressed, Encoded
<1>8. Decoded(r.value) = DecodedOf(f.groups, ids, columns)
  BY <1>1, <1>5, <1>6 DEF Decoded, DecodedOf
<1>9. \A i \in 1 .. n : /\ Encoded(f.groups, ids, columns)[i] \in Nat
                        /\ DecodedOf(f.groups, ids, columns)[i] \in Nat
  <2> SUFFICES ASSUME NEW i \in 1 .. n
               PROVE  /\ Encoded(f.groups, ids, columns)[i] \in Nat
                      /\ DecodedOf(f.groups, ids, columns)[i] \in Nat
    OBVIOUS
  <2>1. r.value[i].compressed \in Nat /\ r.value[i].decoded \in Nat
    BY <1>6 DEF Measures
  <2>2. /\ Compressed(r.value)[i] = r.value[i].compressed
        /\ Decoded(r.value)[i] = r.value[i].decoded
    BY <1>5 DEF Compressed, Decoded
  <2> QED
    BY <1>7, <1>8, <2>1, <2>2
<1> QED
  BY <1>5, <1>7, <1>8, <1>9

\* No member of a set is among no elements.
LEMMA PicksNone == ASSUME NEW s, NEW S PROVE PicksFrom(<<>>, s, 0, S)
<1> DEFINE e == [i \in 1 .. 0 |-> 0]
<1>1. e \in [1 .. Len(<<>>) -> 1 .. 0] /\ Len(<<>>) = 0
  OBVIOUS
<1>2. 1 .. 0 = {}
  OBVIOUS
<1> HIDE DEF e
<1> QED
  BY <1>1, <1>2 DEF PicksFrom

KeptOn(x, s, k, S) == IF s[k] \in S THEN Append(x, s[k]) ELSE x

\* One element further, which is in the set or is not.
LEMMA PicksNext ==
    ASSUME NEW s, NEW S, NEW k \in Nat, NEW T, NEW x \in Seq(T), PicksFrom(x, s, k, S),
           s[k + 1] \in T,
           NEW y, y = KeptOn(x, s, k + 1, S)
    PROVE  y \in Seq(T) /\ PicksFrom(y, s, k + 1, S)
<1> USE DEF KeptOn
<1> DEFINE n == Len(x)
           Enumerates(e) ==
              /\ \A i, j \in 1 .. n : i < j => e[i] < e[j]
              /\ \A i \in 1 .. n : x[i] = s[e[i]] /\ s[e[i]] \in S
              /\ \A j \in 1 .. k : s[j] \in S => \E i \in 1 .. n : e[i] = j
<1>1. PICK e \in [1 .. n -> 1 .. k] : Enumerates(e)
  BY DEF PicksFrom
<1>2. n \in Nat /\ \A j \in 1 .. k + 1 : j = k + 1 \/ j \in 1 .. k
  OBVIOUS
<1>3. \A i \in 1 .. n : e[i] \in 1 .. k /\ e[i] < k + 1 /\ e[i] \in 1 .. k + 1
  BY <1>1
<1>4. CASE s[k + 1] \notin S
  <2>1. e \in [1 .. n -> 1 .. k + 1]
    BY <1>1, <1>3
  <2>2. \A j \in 1 .. k + 1 : s[j] \in S => \E i \in 1 .. n : e[i] = j
    BY <1>1, <1>2, <1>4
  <2>3. PicksFrom(x, s, k + 1, S)
    BY <1>1, <2>1, <2>2 DEF PicksFrom
  <2> QED
    BY <1>4, <2>3
<1>5. CASE s[k + 1] \in S
  <2> DEFINE u == [i \in 1 .. n + 1 |-> IF i = n + 1 THEN k + 1 ELSE e[i]]
  <2>1. /\ y = Append(x, s[k + 1]) /\ y \in Seq(T) /\ Len(y) = n + 1
        /\ y[n + 1] = s[k + 1] /\ \A i \in 1 .. n : y[i] = x[i]
    BY <1>5
  <2>2. /\ n + 1 \in 1 .. n + 1 /\ u[n + 1] = k + 1
        /\ \A i \in 1 .. n : i \in 1 .. n + 1 /\ i # n + 1 /\ u[i] = e[i]
        /\ \A i \in 1 .. n + 1 : i = n + 1 \/ i \in 1 .. n
    BY <1>2
  <2>3. u \in [1 .. n + 1 -> 1 .. k + 1]
    BY <1>3
  <2> HIDE DEF u, n
  <2>4. \A i, j \in 1 .. n + 1 : i < j => u[i] < u[j]
    <3> SUFFICES ASSUME NEW i \in 1 .. n + 1, NEW j \in 1 .. n + 1, i < j PROVE u[i] < u[j]
      OBVIOUS
    <3>1. i \in 1 .. n
      BY <1>2
    <3>2. j \in 1 .. n \/ j = n + 1
      BY <2>2
    <3> QED
      BY <1>1, <1>3, <2>2, <3>1, <3>2
  <2>5. \A i \in 1 .. n + 1 : y[i] = s[u[i]] /\ s[u[i]] \in S
    BY <1>1, <1>5, <2>1, <2>2
  <2>6. \A j \in 1 .. k + 1 : s[j] \in S => \E i \in 1 .. n + 1 : u[i] = j
    BY <1>1, <1>2, <2>2
  <2>7. PicksFrom(y, s, k + 1, S)
    <3>1. Len(y) = n + 1
      BY <2>1
    <3>2. /\ u \in [1 .. Len(y) -> 1 .. k + 1]
          /\ \A i, j \in 1 .. Len(y) : i < j => u[i] < u[j]
          /\ \A i \in 1 .. Len(y) : y[i] = s[u[i]] /\ s[u[i]] \in S
          /\ \A j \in 1 .. k + 1 : s[j] \in S => \E i \in 1 .. Len(y) : u[i] = j
      BY <2>3, <2>4, <2>5, <2>6, <3>1, Zenon
    <3> QED
      BY <3>2, Zenon DEF PicksFrom
  <2> QED
    BY <2>1, <2>7
<1> QED
  BY <1>4, <1>5

\* What is kept of a list are its members of the set, in their order.
LEMMA KeptPicks ==
    ASSUME NEW s, Sequence(s), NEW S
    PROVE  Kept(s, S) \in Seq(Range(s)) /\ Picks(Kept(s, S), s, S)
<1> DEFINE n == Len(s)
           A == Seq(Range(s))
           Add(i, x) == IF s[i] \in S THEN Append(x, s[i]) ELSE x
           step == [i \in 1 .. n |-> [x \in A |-> Add(i, x)]]
           Unfolds(g) == g = [k \in 0 .. n |-> IF k = 0 THEN <<>>
                                ELSE IF s[k] \in S THEN Append(g[k - 1], s[k]) ELSE g[k - 1]]
           kept == CHOOSE g : Unfolds(g)
<1>1. n \in Nat /\ \A i \in 1 .. n : s[i] \in Range(s)
  BY SequenceDomain DEF Range
<1>2. ASSUME NEW i \in 1 .. n, NEW x \in A PROVE step[i][x] = Add(i, x) /\ Add(i, x) \in A
  BY <1>1
<1>3. <<>> \in A
  OBVIOUS
<1> HIDE DEF step
<1>4. StepsStay(step, n, A)
  BY <1>2, Zenon DEF StepsStay
<1>5. PICK g : Iterates(g, n, A, <<>>, step)
  <2> HIDE DEF A, n
  <2> QED
    BY <1>1, <1>3, <1>4, RecursionDefined
<1>6. Unfolds(g)
  <2>1. ASSUME NEW i \in 0 .. n
        PROVE  g[i] = IF i = 0 THEN <<>>
                      ELSE IF s[i] \in S THEN Append(g[i - 1], s[i]) ELSE g[i - 1]
    <3>1. i = 0 \/ (i \in 1 .. n /\ i # 0 /\ i - 1 \in 0 .. n)
      BY <1>1
    <3>2. ASSUME i \in 1 .. n PROVE g[i] = Add(i, g[i - 1])
      <4>1. g[i] = step[i][g[i - 1]]
        BY <1>5, <3>2 DEF Iterates
      <4>2. g[i - 1] \in A
        BY <1>5, <3>1, <3>2 DEF Iterates
      <4> HIDE DEF A, Add
      <4> QED
        BY <1>2, <3>2, <4>1, <4>2
    <3> QED
      BY <1>5, <3>1, <3>2 DEF Iterates
  <2> QED
    BY <1>5, <2>1 DEF Iterates
<1>7. Unfolds(kept)
  <2> HIDE DEF Unfolds
  <2> QED
    BY <1>6
<1>8. Kept(s, S) = kept[n]
  BY DEF Kept
<1> HIDE DEF kept
<1>9. kept[0] = <<>> /\ \A i \in 1 .. n : kept[i] = Add(i, kept[i - 1])
  <2>1. kept[0] = <<>>
    BY <1>1, <1>7
  <2>2. ASSUME NEW i \in 1 .. n PROVE kept[i] = Add(i, kept[i - 1])
    <3>1. i \in 0 .. n /\ i # 0
      BY <1>1
    <3> HIDE DEF n
    <3> QED
      BY <1>7, <3>1
  <2> QED
    BY <2>1, <2>2
<1> DEFINE T == {k \in 0 .. n : kept[k] \in A /\ PicksFrom(kept[k], s, k, S)}
<1>10. 0 \in T
  <2>1. kept[0] = <<>> /\ PicksFrom(<<>>, s, 0, S)
    BY <1>9, PicksNone
  <2>2. kept[0] \in A /\ PicksFrom(kept[0], s, 0, S)
    BY <1>3, <2>1
  <2> QED
    BY <1>1, <2>2
<1>11. ASSUME NEW k \in 0 .. n - 1, k \in T PROVE k + 1 \in T
  <2>1. k \in Nat /\ k + 1 \in 1 .. n /\ k + 1 \in 0 .. n /\ k + 1 - 1 = k
    BY <1>1
  <2>2. kept[k + 1] = IF s[k + 1] \in S THEN Append(kept[k], s[k + 1]) ELSE kept[k]
    BY <1>9, <2>1
  <2>3. s[k + 1] \in Range(s)
    BY <1>1, <2>1
  <2>4. kept[k] \in Seq(Range(s)) /\ PicksFrom(kept[k], s, k, S)
    BY <1>11
  <2>5. kept[k + 1] \in Seq(Range(s)) /\ PicksFrom(kept[k + 1], s, k + 1, S)
    <3>1. PICK x, y : x = kept[k] /\ y = kept[k + 1]
      OBVIOUS
    <3>2. /\ x \in Seq(Range(s)) /\ PicksFrom(x, s, k, S)
          /\ y = KeptOn(x, s, k + 1, S)
      BY <2>2, <2>4, <3>1 DEF KeptOn
    <3>3. y \in Seq(Range(s)) /\ PicksFrom(y, s, k + 1, S)
      BY <2>1, <2>3, <3>2, PicksNext
    <3> QED
      BY <3>1, <3>3
  <2> QED
    BY <2>1, <2>5
<1>12. 0 .. n \subseteq T
  <2> HIDE DEF T, n
  <2> QED
    BY <1>1, <1>10, <1>11, IntervalInduction
<1>13. n \in 0 .. n
  BY <1>1
<1> QED
  BY <1>8, <1>12, <1>13 DEF Picks

----------------------------------------------------------------------------
(***************************************************************************)
(* Resolving a request and pruning.                                        *)
(***************************************************************************)
\* The columns a request resolves to are a list.
LEMMA ProjectionResolved ==
    ASSUME NEW projection, Sequence(projection),
           NEW r, r = resolve_projection(projection), IsOk(r)
    PROVE  Sequence(r.value)
<1>1. Sequence(Columns)
  BY ReadPlanningAssumption DEF ReadPlanningAssumption
<1>2. CASE projection = <<"*">>
  <2> DEFINE s == [i \in 1 .. Len(Columns) |-> i]
  <2>1. Len(Columns) \in Nat /\ DOMAIN Columns = 1 .. Len(Columns)
    BY <1>1, SequenceDomain
  <2>2. r.value = s
    BY <1>2, <2>1 DEF resolve_projection, Ok
  <2>3. s = [i \in 1 .. Len(Columns) |-> s[i]]
    OBVIOUS
  <2> HIDE DEF s
  <2> QED
    BY <2>1, <2>2, <2>3, SequenceMade
<1>3. CASE projection # <<"*">>
  <2> DEFINE s == [i \in 1 .. Len(projection) |-> ColumnId(projection[i])]
  <2>1. Len(projection) \in Nat /\ DOMAIN projection = 1 .. Len(projection)
    BY SequenceDomain
  <2>2. r.value = s
    BY <1>3, <2>1 DEF resolve_projection, Require, Ok, Err, IsOk
  <2>3. s = [i \in 1 .. Len(projection) |-> s[i]]
    OBVIOUS
  <2> HIDE DEF s
  <2> QED
    BY <2>1, <2>2, <2>3, SequenceMade
<1> QED
  BY <1>2, <1>3

AllBounded(predicates) ==
    Sequence(predicates) /\ \A i \in DOMAIN predicates : Bounded(predicates[i])

\* Resolved predicates have the bounds of the request.
LEMMA PredicatesResolved ==
    ASSUME NEW predicates, AllBounded(predicates),
           NEW r, r = resolve_predicates(predicates), IsOk(r)
    PROVE  AllBounded(r.value)
<1> DEFINE n == Len(predicates)
           s == [i \in 1 .. n |-> [column |-> ColumnId(predicates[i].column),
                                   lower |-> predicates[i].lower, upper |-> predicates[i].upper]]
<1>1. n \in Nat /\ DOMAIN predicates = 1 .. n
  BY SequenceDomain DEF AllBounded
<1>2. r.value = s
  BY <1>1 DEF resolve_predicates, Require, Ok, Err, IsOk
<1>3. s = [i \in 1 .. n |-> s[i]]
  OBVIOUS
<1>4. ASSUME NEW i \in 1 .. n PROVE Bounded(s[i])
  <2>1. Bounded(predicates[i])
    BY <1>1 DEF AllBounded
  <2>2. s[i].lower = predicates[i].lower /\ s[i].upper = predicates[i].upper
    OBVIOUS
  <2> HIDE DEF s
  <2> QED
    BY <2>1, <2>2 DEF Bounded
<1> HIDE DEF s
<1>5. Sequence(s) /\ DOMAIN s = 1 .. n
  BY <1>1, <1>3, SequenceMade
<1> QED
  BY <1>2, <1>4, <1>5 DEF AllBounded

\* Predicates made of key ranges have the bounds of the ranges.
LEMMA RangesResolved ==
    ASSUME NEW keys, Sequence(keys), NEW ranges, \A i \in DOMAIN ranges : Bounded(ranges[i]),
           NEW r, r = from_ordering_key_ranges(keys, ranges), IsOk(r)
    PROVE  AllBounded(r.value)
<1> DEFINE n == Len(keys)
           numbers == [k \in DOMAIN keys |-> k]
           S == {ranges[i].key : i \in DOMAIN ranges}
           ranged == Kept(numbers, S)
           RangeOf(k) == ranges[CHOOSE i \in DOMAIN ranges : ranges[i].key = k]
           ps == [i \in DOMAIN ranged |->
                     [column |-> Columns[keys[ranged[i]]].name,
                      lower |-> RangeOf(ranged[i]).lower, upper |-> RangeOf(ranged[i]).upper]]
<1>1. n \in Nat /\ DOMAIN keys = 1 .. n
  BY SequenceDomain
<1>2. r.value = ps
  BY DEF from_ordering_key_ranges, Require, Ok, Err, IsOk
<1>3. Sequence(numbers)
  <2>1. numbers = [k \in 1 .. n |-> numbers[k]]
    BY <1>1
  <2> HIDE DEF numbers
  <2> QED
    BY <1>1, <2>1, SequenceMade
<1>4. ranged \in Seq(Range(numbers)) /\ Picks(ranged, numbers, S)
  <2> HIDE DEF numbers, S
  <2> QED
    BY <1>3, KeptPicks
<1>5. /\ Len(ranged) \in Nat /\ DOMAIN ranged = 1 .. Len(ranged)
      /\ \A i \in 1 .. Len(ranged) : ranged[i] \in S
  <2> HIDE DEF ranged, numbers, S
  <2> QED
    BY <1>4 DEF Picks, PicksFrom
<1> HIDE DEF ranged
<1>6. ASSUME NEW i \in 1 .. Len(ranged) PROVE Bounded(ps[i])
  <2> DEFINE k == ranged[i]
             j == CHOOSE x \in DOMAIN ranges : ranges[x].key = k
  <2>1. j \in DOMAIN ranges
    <3>1. \E x \in DOMAIN ranges : ranges[x].key = k
      BY <1>5
    <3> QED
      BY <3>1
  <2>2. ps[i].lower = ranges[j].lower /\ ps[i].upper = ranges[j].upper
    BY <1>5
  <2> HIDE DEF ps, j
  <2>3. Bounded(ranges[j])
    BY <2>1
  <2> QED
    BY <2>2, <2>3 DEF Bounded
<1>7. ps = [i \in 1 .. Len(ranged) |-> ps[i]]
  BY <1>5
<1> HIDE DEF ps
<1>8. Sequence(ps) /\ DOMAIN ps = 1 .. Len(ranged)
  BY <1>5, <1>7, SequenceMade
<1> QED
  BY <1>2, <1>6, <1>8 DEF AllBounded

\* The statistics of a column do not exclude a group with a row that satisfies
\* the predicate on it.
LEMMA StatisticsKeep ==
    ASSUME NEW group, StatisticsBound(group), NEW p, Bounded(p), p.column \in DOMAIN group.stats,
           NEW i \in DOMAIN group.rows, Satisfies(group.rows[i], p)
    PROVE  StatExcludes(group, p) \in {Ok(FALSE), Err("invalid")}
<1> DEFINE s == group.stats[p.column]
           cell == group.rows[i][p.column]
           upper == IF ~Present(p.upper) THEN Ok(FALSE)
                    ELSE Then(cmp_same_type(s.min, p.upper.value), LAMBDA o : Ok(o = "greater"))
<1>1. /\ s.min \in Int /\ s.max \in Int /\ cell \in Int /\ cell \notin {Null, NaN}
      /\ s.min # NaN => s.min <= cell
      /\ s.max # NaN => cell <= s.max
  BY DEF StatisticsBound, Satisfies
<1>2. /\ Present(p.lower) => cell >= p.lower.value
      /\ Present(p.upper) => cell <= p.upper.value
      /\ p.lower.value \in Int /\ p.upper.value \in Int
  BY DEF Satisfies, Bounded
<1>3. StatExcludes(group, p) =
        IF ~Present(p.lower) THEN upper
        ELSE Then(cmp_same_type(s.max, p.lower.value),
                  LAMBDA o : IF o = "less" THEN Ok(TRUE) ELSE upper)
  BY DEF StatExcludes
<1> HIDE DEF cell
<1>4. upper \in {Ok(FALSE), Err("invalid")}
  <2>1. CASE ~Present(p.upper)
    BY <2>1
  <2>2. CASE Present(p.upper) /\ NaN \in {s.min, p.upper.value}
    <3>1. cmp_same_type(s.min, p.upper.value) = Err("invalid")
      BY <2>2 DEF cmp_same_type
    <3> QED
      BY <2>2, <3>1 DEF Then, IsOk, Err
  <2>3. CASE Present(p.upper) /\ NaN \notin {s.min, p.upper.value}
    <3>1. s.min <= p.upper.value
      BY <1>1, <1>2, <2>3
    <3>2. \/ cmp_same_type(s.min, p.upper.value) = Ok("less")
          \/ cmp_same_type(s.min, p.upper.value) = Ok("equal")
      BY <1>1, <1>2, <2>3, <3>1 DEF cmp_same_type
    <3>3. upper = Ok("less" = "greater") \/ upper = Ok("equal" = "greater")
      BY <2>3, <3>2 DEF Then, IsOk, Ok
    <3>4. ("less" = "greater") = FALSE /\ ("equal" = "greater") = FALSE
      OBVIOUS
    <3> HIDE DEF upper
    <3> QED
      BY <3>3, <3>4
  <2> QED
    BY <2>1, <2>2, <2>3
<1> HIDE DEF upper
<1>5. CASE ~Present(p.lower)
  BY <1>3, <1>4, <1>5
<1>6. CASE Present(p.lower) /\ NaN \in {s.max, p.lower.value}
  <2>1. cmp_same_type(s.max, p.lower.value) = Err("invalid")
    BY <1>6 DEF cmp_same_type
  <2> QED
    BY <1>3, <1>6, <2>1 DEF Then, IsOk, Err
<1>7. CASE Present(p.lower) /\ NaN \notin {s.max, p.lower.value}
  <2>1. p.lower.value <= s.max
    BY <1>1, <1>2, <1>7
  <2>2. \/ cmp_same_type(s.max, p.lower.value) = Ok("greater")
        \/ cmp_same_type(s.max, p.lower.value) = Ok("equal")
    BY <1>1, <1>2, <1>7, <2>1 DEF cmp_same_type
  <2> QED
    BY <1>3, <1>4, <1>7, <2>2 DEF Then, IsOk, Ok
<1> QED
  BY <1>5, <1>6, <1>7

HasRow(group, predicates) ==
    \E row \in Range(group.rows) : \A p \in Range(predicates) : Satisfies(row, p)

\* Nor do all the predicates together, if their answer is no error.
LEMMA MatchingKeeps ==
    ASSUME NEW group, StatisticsBound(group), NEW predicates, AllBounded(predicates),
           HasRow(group, predicates),
           NEW r, r = row_group_matches_predicates(group, predicates), IsOk(r)
    PROVE  r = Ok(TRUE)
<1> DEFINE ruling == [j \in DOMAIN predicates |->
                          IF predicates[j].column \in DOMAIN group.stats
                          THEN StatExcludes(group, predicates[j]) ELSE Ok(FALSE)]
           decisive == {j \in DOMAIN predicates : IsOk(ruling[j]) => ruling[j].value}
<1>1. DOMAIN predicates \subseteq Nat
  BY SequenceDomain DEF AllBounded
<1>2. PICK i \in DOMAIN group.rows : \A p \in Range(predicates) : Satisfies(group.rows[i], p)
  BY DEF HasRow, Range
<1>3. ASSUME NEW j \in DOMAIN predicates PROVE ruling[j] \in {Ok(FALSE), Err("invalid")}
  <2>1. Bounded(predicates[j]) /\ predicates[j] \in Range(predicates)
    BY DEF AllBounded, Range
  <2> QED
    BY <1>2, <2>1, StatisticsKeep
<1>4. r = IF decisive = {} THEN Ok(TRUE)
          ELSE IF IsOk(ruling[Min(decisive)]) THEN Ok(FALSE) ELSE ruling[Min(decisive)]
  BY DEF row_group_matches_predicates, Then
<1> HIDE DEF ruling
<1>5. \A j \in decisive : ruling[j] = Err("invalid")
  <2> SUFFICES ASSUME NEW j \in DOMAIN predicates, IsOk(ruling[j]) => ruling[j].value
               PROVE  ruling[j] = Err("invalid")
    OBVIOUS
  <2>1. ruling[j] # Ok(FALSE)
    BY DEF Ok, IsOk
  <2> QED
    BY <1>3, <2>1
<1>6. CASE decisive # {}
  <2>1. decisive \in SUBSET Nat
    BY <1>1
  <2> HIDE DEF decisive
  <2>2. \E m \in decisive : \A k \in decisive : m <= k
    BY <1>6, <2>1, LeastNumber
  <2>3. Min(decisive) \in decisive
    BY <2>2 DEF Min
  <2>4. ruling[Min(decisive)] = Err("invalid")
    BY <1>5, <2>3
  <2>5. ~IsOk(ruling[Min(decisive)])
    BY <2>4, ErrMeasured
  <2>6. r = ruling[Min(decisive)]
    BY <1>4, <1>6, <2>5
  <2> QED
    BY <2>5, <2>6
<1> QED
  BY <1>4, <1>6

\* No group with a row that satisfies all predicates is left out.
LEMMA SelectionKeeps ==
    ASSUME NEW f \in Files \cup OtherFiles, NEW predicates, AllBounded(predicates),
           NEW r, r = SelectedIds(f.groups, predicates), IsOk(r)
    PROVE  /\ Sequence(r.value)
           /\ \A i \in DOMAIN f.groups :
                 HasRow(f.groups[i], predicates) => f.groups[i].id \in Range(r.value)
<1> DEFINE groups == f.groups
           n == Len(groups)
           matching == [i \in DOMAIN groups |-> row_group_matches_predicates(groups[i], predicates)]
           matches == Collect(matching).value
           numbers == [i \in DOMAIN groups |-> i]
           S == {i \in DOMAIN groups : matches[i]}
           kept == Kept(numbers, S)
           ids == [k \in DOMAIN kept |-> groups[kept[k]].id]
<1>1. n \in Nat /\ DOMAIN groups = 1 .. n
  BY FileGroups, SequenceDomain
<1>2. IsOk(Collect(matching)) /\ r.value = ids
  BY DEF SelectedIds, Then, Ok
<1>3. /\ \A i \in 1 .. n : IsOk(matching[i])
      /\ matches = [i \in 1 .. n |-> matching[i].value]
  <2>1. DOMAIN matching = 1 .. n
    BY <1>1
  <2> HIDE DEF matching
  <2> QED
    BY <1>1, <1>2, <2>1, CollectedAreAccepted
<1>4. ASSUME NEW i \in 1 .. n, HasRow(groups[i], predicates) PROVE matches[i]
  <2>1. StatisticsBound(groups[i])
    BY <1>1, FileGroups DEF WellFormedGroup
  <2>2. matching[i] = row_group_matches_predicates(groups[i], predicates) /\ IsOk(matching[i])
    BY <1>1, <1>3
  <2>3. matching[i] = Ok(TRUE)
    BY <1>4, <2>1, <2>2, MatchingKeeps
  <2>4. Ok(TRUE).value
    BY DEF Ok
  <2> QED
    BY <1>3, <2>3, <2>4
<1> HIDE DEF matches
<1>5. Sequence(numbers) /\ DOMAIN numbers = 1 .. n /\ Len(numbers) = n
  <2>1. numbers = [k \in 1 .. n |-> numbers[k]]
    BY <1>1
  <2> HIDE DEF numbers
  <2> QED
    BY <1>1, <2>1, SequenceMade
<1>6. kept \in Seq(Range(numbers)) /\ Picks(kept, numbers, S)
  <2> HIDE DEF numbers, S
  <2> QED
    BY <1>5, KeptPicks
<1>7. Len(kept) \in Nat /\ DOMAIN kept = 1 .. Len(kept)
  <2> HIDE DEF kept, numbers, S
  <2> QED
    BY <1>6
<1>8. PICK e \in [1 .. Len(kept) -> 1 .. n] :
         /\ \A i \in 1 .. Len(kept) : kept[i] = numbers[e[i]]
         /\ \A k \in 1 .. n : numbers[k] \in S => \E i \in 1 .. Len(kept) : e[i] = k
  <2> HIDE DEF kept, numbers, S
  <2> QED
    BY <1>5, <1>6 DEF Picks, PicksFrom
<1> HIDE DEF kept
<1>9. Sequence(ids) /\ DOMAIN ids = 1 .. Len(kept)
  <2>1. ids = [k \in 1 .. Len(kept) |-> ids[k]]
    BY <1>7
  <2> HIDE DEF ids
  <2> QED
    BY <1>7, <2>1, SequenceMade
<1>10. ASSUME NEW i \in DOMAIN groups, HasRow(groups[i], predicates)
       PROVE  groups[i].id \in Range(ids)
  <2>1. i \in 1 .. n /\ numbers[i] = i /\ i \in S
    BY <1>1, <1>4, <1>10
  <2>2. PICK k \in 1 .. Len(kept) : e[k] = i
    BY <1>8, <2>1
  <2>3. kept[k] = i
    BY <1>8, <2>1, <2>2
  <2>4. ids[k] = groups[i].id
    BY <1>7, <2>3
  <2> HIDE DEF ids
  <2> QED
    BY <1>9, <2>4 DEF Range
<1> QED
  BY <1>2, <1>9, <1>10

\* What the planners compute from a well formed request.
LEMMA PlannedIsSound ==
    ASSUME NEW request, Sequence(request.projection), AllBounded(request.predicates),
           request.options.threads \in Nat, snapshot \in Files \cup OtherFiles,
           NEW strict \in BOOLEAN, NEW cap,
           NEW r, r = Planned(request, strict, cap), IsOk(r)
    PROVE  /\ Sequence(r.value.ids) /\ Sequence(r.value.columns) /\ r.value.threads \in Nat
           /\ r.value.on = snapshot.groups
           /\ \A i \in DOMAIN snapshot.groups :
                 HasRow(snapshot.groups[i], r.value.predicates)
                 => snapshot.groups[i].id \in Range(r.value.ids)
<1> DEFINE options == validate_read_options(request.options)
           columns == resolve_projection(request.projection)
           predicates == resolve_predicates(request.predicates)
           available == IF strict THEN require_predicate_stats_available(snapshot.groups, predicates.value)
                        ELSE Ok(<<>>)
           ids == SelectedIds(snapshot.groups, predicates.value)
           p == [ids |-> ids.value, columns |-> columns.value, threads |-> request.options.threads,
                 predicates |-> predicates.value, on |-> snapshot.groups]
           capped == Require(~strict \/ Len(ids.value) <= cap, "invalid", Ok(p))
<1>1. r = IF ~IsOk(options) THEN options ELSE IF ~IsOk(columns) THEN columns
          ELSE IF ~IsOk(predicates) THEN predicates ELSE IF ~IsOk(available) THEN available
          ELSE IF ~IsOk(ids) THEN ids ELSE capped
  BY DEF Planned, Then
<1>2. capped = Ok(p) \/ capped = Err("invalid")
  BY DEF Require
<1> HIDE DEF options, columns, predicates, available, ids, capped, p
<1>3. IsOk(columns) /\ IsOk(predicates) /\ IsOk(ids) /\ r = capped
  BY <1>1
<1>4. r = Ok(p)
  BY <1>2, <1>3, ErrMeasured
<1>5. /\ r.value.ids = ids.value /\ r.value.columns = columns.value
      /\ r.value.threads = request.options.threads
      /\ r.value.predicates = predicates.value /\ r.value.on = snapshot.groups
  BY <1>4 DEF Ok, p
<1>6. Sequence(columns.value)
  BY <1>3, ProjectionResolved DEF columns
<1>7. AllBounded(predicates.value)
  BY <1>3, PredicatesResolved DEF predicates
<1>8. /\ Sequence(ids.value)
      /\ \A i \in DOMAIN snapshot.groups :
            HasRow(snapshot.groups[i], predicates.value) => snapshot.groups[i].id \in Range(ids.value)
  BY <1>3, <1>7, SelectionKeeps DEF ids
<1> QED
  BY <1>5, <1>6, <1>8

\* A plan that is accepted selects groups of the snapshot, each once.
LEMMA AcceptedPlan ==
    ASSUME NEW p, NEW r, r = validate_read_plan(p), IsOk(r)
    PROVE  /\ r.value = p.ids /\ IsInjective(p.ids)
           /\ Range(p.ids) \subseteq Ids(snapshot.groups)
BY DEF validate_read_plan, Require, Ok, Err, IsOk

\* A subset that is accepted is read in the order of the plan.
LEMMA AcceptedSubset ==
    ASSUME NEW p, Sequence(p.ids), NEW subset,
           NEW r, r = planned_row_group_subset(p, subset), IsOk(r)
    PROVE  /\ Range(subset) \subseteq Range(p.ids)
           /\ Sequence(r.value) /\ Picks(r.value, p.ids, Range(subset))
<1>1. Range(subset) \subseteq Range(p.ids) /\ r.value = Kept(p.ids, Range(subset))
  BY DEF planned_row_group_subset, Require, Ok, Err, IsOk
<1>2. r.value \in Seq(Range(p.ids)) /\ Picks(r.value, p.ids, Range(subset))
  BY <1>1, KeptPicks
<1>3. r.value \in Seq(Range(r.value))
  BY <1>2 DEF Range
<1> QED
  BY <1>1, <1>2, <1>3 DEF Sequence

\* So is the whole plan.
LEMMA WholePlan ==
    ASSUME NEW ids, Sequence(ids)
    PROVE  Picks(ids, ids, Range(ids))
<1> DEFINE n == Len(ids)
           e == [i \in 1 .. n |-> i]
<1>1. n \in Nat /\ \A i \in 1 .. n : ids[i] \in Range(ids)
  BY SequenceDomain DEF Range
<1>2. e \in [1 .. n -> 1 .. n] /\ \A i \in 1 .. n : e[i] = i
  OBVIOUS
<1> HIDE DEF e
<1>3. /\ \A i, j \in 1 .. n : i < j => e[i] < e[j]
      /\ \A i \in 1 .. n : ids[i] = ids[e[i]] /\ ids[e[i]] \in Range(ids)
      /\ \A k \in 1 .. n : ids[k] \in Range(ids) => \E i \in 1 .. n : e[i] = k
  BY <1>1, <1>2
<1> QED
  BY <1>2, <1>3 DEF Picks, PicksFrom

----------------------------------------------------------------------------
(***************************************************************************)
(* What calls answer.                                                      *)
(***************************************************************************)
Kinds == {"ok", "invalid", "unimplemented", "corrupt"}
Answered(r) == r.kind \in Kinds

\* Accepted values and errors are answers.
LEMMA OkAnswered == ASSUME NEW v PROVE Answered(Ok(v))
BY DEF Answered, Ok, Kinds

\* So is each of the errors.
LEMMA ErrAnswered ==
    /\ Answered(Err("invalid")) /\ Answered(Err("unimplemented")) /\ Answered(Err("corrupt"))
BY DEF Answered, Err, Kinds

\* So is every measurement.
LEMMA MeasuredAnswered == ASSUME NEW r \in Measured PROVE Answered(r)
BY DEF Measured, Answered, Kinds, Ok, Err

\* A list of answers is collected to an answer.
LEMMA CollectAnswered ==
    ASSUME NEW n \in Nat, NEW results, DOMAIN results = 1 .. n,
           \A i \in 1 .. n : Answered(results[i])
    PROVE  Answered(Collect(results))
BY CollectedOrRefused, OkAnswered

\* Pruning a group gives an answer.
LEMMA MatchAnswered ==
    ASSUME NEW group, NEW predicates, Sequence(predicates)
    PROVE  Answered(row_group_matches_predicates(group, predicates))
<1> DEFINE ruling == [j \in DOMAIN predicates |->
                          IF predicates[j].column \in DOMAIN group.stats
                          THEN StatExcludes(group, predicates[j]) ELSE Ok(FALSE)]
           decisive == {j \in DOMAIN predicates : IsOk(ruling[j]) => ruling[j].value}
           r == row_group_matches_predicates(group, predicates)
<1>1. decisive \in SUBSET Nat
  <2>1. DOMAIN predicates \subseteq Nat
    BY SequenceDomain
  <2> HIDE DEF ruling
  <2> QED
    BY <2>1
<1>2. r = IF decisive = {} THEN Ok(TRUE)
          ELSE IF IsOk(ruling[Min(decisive)]) THEN Ok(FALSE) ELSE ruling[Min(decisive)]
  BY DEF row_group_matches_predicates, Then
<1>3. ASSUME NEW j \in DOMAIN predicates PROVE Answered(ruling[j])
  <2>1. Answered(StatExcludes(group, predicates[j]))
    BY DEF StatExcludes, Then, cmp_same_type, IsOk, Ok, Err, Answered, Kinds
  <2> QED
    BY <2>1, OkAnswered
<1>4. ASSUME decisive # {} PROVE Min(decisive) \in DOMAIN predicates
  <2> HIDE DEF decisive
  <2>1. \E m \in decisive : \A k \in decisive : m <= k
    BY <1>1, <1>4, LeastNumber
  <2>2. Min(decisive) \in decisive
    BY <2>1 DEF Min
  <2> QED
    BY <2>2 DEF decisive
<1> HIDE DEF ruling, decisive
<1> QED
  BY <1>2, <1>3, <1>4, OkAnswered

\* Planning gives an answer.
LEMMA PlannedAnswered ==
    ASSUME NEW request, AllBounded(request.predicates), snapshot \in Files \cup OtherFiles,
           NEW strict \in BOOLEAN, NEW cap
    PROVE  Answered(Planned(request, strict, cap))
<1> DEFINE options == validate_read_options(request.options)
           columns == resolve_projection(request.projection)
           predicates == resolve_predicates(request.predicates)
           available == IF strict THEN require_predicate_stats_available(snapshot.groups, predicates.value)
                        ELSE Ok(<<>>)
           ids == SelectedIds(snapshot.groups, predicates.value)
           p == [ids |-> ids.value, columns |-> columns.value, threads |-> request.options.threads,
                 predicates |-> predicates.value, on |-> snapshot.groups]
           capped == Require(~strict \/ Len(ids.value) <= cap, "invalid", Ok(p))
<1>1. Planned(request, strict, cap) =
          IF ~IsOk(options) THEN options ELSE IF ~IsOk(columns) THEN columns
          ELSE IF ~IsOk(predicates) THEN predicates ELSE IF ~IsOk(available) THEN available
          ELSE IF ~IsOk(ids) THEN ids ELSE capped
  BY DEF Planned, Then
<1>2. Answered(options) /\ Answered(columns) /\ Answered(predicates) /\ Answered(available)
      /\ Answered(capped)
  BY DEF validate_read_options, resolve_projection, resolve_predicates,
         require_predicate_stats_available, Require, Ok, Err, Answered, Kinds
<1>3. ASSUME IsOk(predicates) PROVE Answered(ids)
  <2> DEFINE groups == snapshot.groups
             matching == [i \in DOMAIN groups |->
                             row_group_matches_predicates(groups[i], predicates.value)]
  <2>1. Sequence(predicates.value)
    <3> HIDE DEF predicates
    <3>1. AllBounded(predicates.value)
      BY <1>3, PredicatesResolved DEF predicates
    <3> QED
      BY <3>1 DEF AllBounded
  <2>2. Len(groups) \in Nat /\ DOMAIN groups = 1 .. Len(groups)
    BY FileGroups, SequenceDomain
  <2> HIDE DEF predicates
  <2>3. /\ DOMAIN matching = 1 .. Len(groups)
        /\ \A i \in 1 .. Len(groups) : Answered(matching[i])
    BY <2>1, <2>2, MatchAnswered
  <2>4. ids = IF IsOk(Collect(matching)) THEN Ok(ids.value) ELSE Collect(matching)
    BY DEF SelectedIds, Then, Ok
  <2> HIDE DEF matching, groups, ids
  <2>5. Answered(Collect(matching))
    BY <2>2, <2>3, CollectAnswered
  <2> QED
    BY <2>4, <2>5, OkAnswered
<1> HIDE DEF options, columns, predicates, available, ids, capped, p
<1> QED
  BY <1>1, <1>2, <1>3

\* So does measuring a selection.
LEMMA FootprintsAnswered ==
    ASSUME NEW f \in Files \cup OtherFiles, NEW ids, Sequence(ids),
           NEW columns, Sequence(columns)
    PROVE  Answered(selected_resource_footprints_for_plan(f.groups, ids, columns))
<1> DEFINE n == Len(ids)
           Group(i) == GroupById(f.groups, ids[i])
           Size(i) == selected_resource_footprint_for_row_group_desc(Group(i), columns)
           sizes == [i \in 1 .. n |-> Size(i)]
           r == selected_resource_footprints_for_plan(f.groups, ids, columns)
<1>1. n \in Nat /\ DOMAIN ids = 1 .. n
  BY SequenceDomain
<1>2. \/ r = Err("invalid")
      \/ Range(ids) \subseteq Ids(f.groups) /\ r = Collect(sizes)
  <2>1. \/ r = Err("invalid")
        \/ /\ Range(ids) \subseteq Ids(f.groups)
           /\ r = Collect([i \in DOMAIN [i \in DOMAIN ids |-> Group(i)] |->
                 selected_resource_footprint_for_row_group_desc(
                    [j \in DOMAIN ids |-> Group(j)][i], columns)])
    BY DEF selected_resource_footprints_for_plan, selected_row_groups_for_plan,
           Then, Ok, Err, IsOk
  <2>2. [i \in DOMAIN [i \in DOMAIN ids |-> Group(i)] |->
            selected_resource_footprint_for_row_group_desc(
               [j \in DOMAIN ids |-> Group(j)][i], columns)] = sizes
    BY <1>1
  <2> QED
    BY <2>1, <2>2
<1>3. ASSUME Range(ids) \subseteq Ids(f.groups), NEW i \in 1 .. n PROVE Answered(sizes[i])
  <2>1. ids[i] \in Ids(f.groups)
    BY <1>1, <1>3 DEF Range
  <2>2. WellFormedGroup(Group(i))
    BY <2>1, GroupFound, FileGroups
  <2> HIDE DEF Group
  <2>3. \A c \in DOMAIN Group(i).chunks : ChunkSizes(Group(i).chunks[c])
    BY <2>2 DEF WellFormedGroup
  <2>4. Group(i).row_count \in Nat
    BY <2>2 DEF WellFormedGroup
  <2>5. Size(i) \in Measured
    BY <2>3, <2>4, FootprintMeasures
  <2> QED
    BY <2>5, MeasuredAnswered
<1>4. DOMAIN sizes = 1 .. n
  OBVIOUS
<1> HIDE DEF sizes, r
<1>5. ASSUME Range(ids) \subseteq Ids(f.groups) PROVE Answered(Collect(sizes))
  BY <1>1, <1>3, <1>4, <1>5, CollectAnswered
<1> QED
  BY <1>2, <1>5, ErrAnswered DEF r

----------------------------------------------------------------------------
(***************************************************************************)
(* What each way of reading has admitted.                                  *)
(***************************************************************************)
\* The check of consecutive windows gives an answer.
LEMMA ContiguousAnswered ==
    ASSUME NEW max \in Nat \ {0}, NEW fps \in Seq(Measures)
    PROVE  Answered(validate_contiguous_in_flight_plan_resource_limits(fps, max))
<1> DEFINE n == Len(fps)
           waves == (n + max - 1) \div max
           Skip(k) == (k - 1) * max
           Size(k) == Min({max, n - Skip(k)})
           admitted == [k \in 1 .. waves |-> AdmitWindow(fps, Skip(k), Size(k))]
<1>1. n \in Nat /\ n + max - 1 \in Nat
  BY LenProperties
<1>2. waves \in Nat /\ waves * max <= n + max - 1
  <2>1. PICK x \in Nat : x = n + max - 1
    BY <1>1
  <2> HIDE DEF n
  <2> QED
    BY <2>1, Quotient
<1>3. Max({max, 1}) = max
  BY LargerOfTwo
<1>4. validate_contiguous_in_flight_plan_resource_limits(fps, max) = Collect(admitted)
  BY <1>3 DEF validate_contiguous_in_flight_plan_resource_limits
<1> HIDE DEF n, waves
<1>5. ASSUME NEW k \in 1 .. waves PROVE Answered(admitted[k])
  <2>1. PICK v \in Nat : v = waves
    BY <1>2
  <2>2. PICK r \in Nat : v = k + r /\ k \in Nat
    <3>1. v - k \in Nat /\ v = k + (v - k) /\ k \in Nat
      BY <2>1
    <3> QED
      BY <3>1
  <2>3. v * max = k * max + r * max /\ r * max \in Nat /\ k * max \in Nat
    BY <2>2
  <2>4. k * max = Skip(k) + max /\ Skip(k) \in Nat
    <3>1. PICK j \in Nat : k = j + 1
      <4>1. k - 1 \in Nat /\ k = (k - 1) + 1
        OBVIOUS
      <4> QED
        BY <4>1
    <3>2. Skip(k) = j * max /\ j * max \in Nat /\ k * max = j * max + max
      BY <3>1
    <3> QED
      BY <3>2
  <2>5. Skip(k) < n
    <3> HIDE DEF Skip
    <3> QED
      BY <1>1, <1>2, <2>1, <2>3, <2>4
  <2>6. PICK a \in Nat : a = Skip(k) /\ a < n
    BY <2>4, <2>5
  <2>7. Size(k) \in Nat /\ a + Size(k) <= n
    <3>1. PICK b \in Nat : b = n - a
      BY <1>1, <2>6
    <3>2. Size(k) = IF max <= b THEN max ELSE b
      BY <2>6, <3>1, SmallerOfTwo
    <3> HIDE DEF Size
    <3> QED
      BY <1>1, <3>1, <3>2
  <2> HIDE DEF Size
  <2>8. AdmitWindow(fps, a, Size(k)) \in Measured
    BY <2>7, AdmittedWindow DEF n
  <2> QED
    BY <2>6, <2>8, MeasuredAnswered
<1>6. DOMAIN admitted = 1 .. waves
  OBVIOUS
<1> HIDE DEF admitted
<1> QED
  BY <1>2, <1>4, <1>5, <1>6, CollectAnswered

\* The footprints of a selection of the snapshot.
SelectionOf(groups, ids, columns, fps) ==
    /\ fps \in Seq(Measures) /\ Len(fps) = Len(ids)
    /\ Compressed(fps) = Encoded(groups, ids, columns)
    /\ Decoded(fps) = DecodedOf(groups, ids, columns)
    /\ \A i \in 1 .. Len(ids) : /\ Encoded(groups, ids, columns)[i] \in Nat
                                /\ DecodedOf(groups, ids, columns)[i] \in Nat

\* A read that keeps every batch was summed up whole.
LEMMA OwnedAdmitted ==
    ASSUME NEW groups, NEW ids, NEW columns, NEW fps, SelectionOf(groups, ids, columns, fps),
           NEW r, r = validate_owned_plan_resource_limits(fps), NEW window
    PROVE  /\ Answered(r)
           /\ IsOk(r) => Admitted("owned", groups, ids, columns, window)
<1>1. fps \in Seq(Measures) /\ Len(fps) \in Nat /\ 0 + Len(fps) <= Len(fps)
  BY LenProperties DEF SelectionOf
<1>2. /\ AdmitWindow(fps, 0, Len(fps)) \in Measured
      /\ IsOk(AdmitWindow(fps, 0, Len(fps))) => WindowFits(fps, 0, Len(fps))
  BY <1>1, AdmittedWindow
<1>3. r \in Measured /\ (IsOk(r) => WindowFits(fps, 0, Len(fps)))
  BY <1>2 DEF validate_owned_plan_resource_limits
<1>4. WindowFits(fps, 0, Len(fps)) => Admitted("owned", groups, ids, columns, window)
  BY DEF SelectionOf, WindowFits, Admitted, AllFits, RunFits
<1> QED
  BY <1>3, <1>4, MeasuredAnswered

\* A sliding read had every position of its window summed up.
LEMMA SlidingAdmitted ==
    ASSUME NEW groups, NEW ids, NEW columns, NEW fps, SelectionOf(groups, ids, columns, fps),
           NEW max \in Nat, NEW r, r = validate_sliding_resource_footprints(fps, max)
    PROVE  /\ Answered(r)
           /\ IsOk(r) /\ max # 0 => Admitted("sliding", groups, ids, columns, max)
<1>1. CASE fps = <<>>
  <2>1. r = Ok(<<>>)
    BY <1>1 DEF validate_sliding_resource_footprints
  <2>2. Len(ids) = 0
    BY <1>1 DEF SelectionOf
  <2>3. AtMost(0, max) = 0
    BY DEF AtMost
  <2>4. SlidesFit(Encoded(groups, ids, columns), DecodedOf(groups, ids, columns), 0, max)
    <3>1. SumFunctionOnSet(Encoded(groups, ids, columns), Run(0, 0)) = 0
      BY EmptyRun
    <3>2. SumFunctionOnSet(DecodedOf(groups, ids, columns), Run(0, 0)) = 0
      BY EmptyRun
    <3>3. Limits.compressed \in Nat /\ Limits.decoded \in Nat
      BY LimitsAssumption DEF LimitsAssumption
    <3>4. \A k \in 0 .. 0 - 0 : k = 0
      OBVIOUS
    <3> QED
      BY <2>3, <3>1, <3>2, <3>3, <3>4 DEF SlidesFit, RunFits
  <2>5. Admitted("sliding", groups, ids, columns, max)
    BY <2>2, <2>4 DEF Admitted, SelectionOf
  <2> QED
    BY <2>1, <2>5, OkAnswered
<1>2. CASE fps # <<>>
  <2> DEFINE n == Len(fps)
             w == WindowOf(fps, max)
  <2>1. /\ fps \in Seq(Measures) /\ n = Len(ids)
        /\ Compressed(fps) = Encoded(groups, ids, columns)
        /\ Decoded(fps) = DecodedOf(groups, ids, columns)
    BY DEF SelectionOf
  <2>2. /\ r \in Measured
        /\ IsOk(r) => \A k \in 0 .. n - w : WindowFits(fps, k, w)
    BY <1>2, <2>1, SlidingWindowsFit
  <2>3. max # 0 => w = AtMost(n, max)
    BY <1>2, <2>1, WindowSize DEF AtMost
  <2> HIDE DEF n, w
  <2>4. ASSUME IsOk(r), max # 0 PROVE Admitted("sliding", groups, ids, columns, max)
    <3>1. \A k \in 0 .. n - AtMost(n, max) : WindowFits(fps, k, AtMost(n, max))
      BY <2>2, <2>3, <2>4
    <3>2. SlidesFit(Encoded(groups, ids, columns), DecodedOf(groups, ids, columns), n, max)
      BY <2>1, <3>1 DEF SlidesFit, WindowFits, RunFits
    <3> QED
      BY <2>1, <3>2 DEF Admitted, SelectionOf
  <2> QED
    BY <2>2, <2>4, MeasuredAnswered
<1> QED
  BY <1>1, <1>2

\* A visit had every wave summed up.
LEMMA WavesAdmitted ==
    ASSUME NEW groups, NEW ids, NEW columns, NEW fps, SelectionOf(groups, ids, columns, fps),
           NEW way \in {"visit", "into"}, NEW wave \in Nat \ {0},
           NEW r, r = validate_contiguous_in_flight_plan_resource_limits(fps, wave)
    PROVE  /\ Answered(r)
           /\ IsOk(r) => Admitted(way, groups, ids, columns, wave)
<1>1. /\ fps \in Seq(Measures) /\ Len(fps) = Len(ids)
      /\ Compressed(fps) = Encoded(groups, ids, columns)
      /\ Decoded(fps) = DecodedOf(groups, ids, columns)
  BY DEF SelectionOf
<1>2. Answered(r)
  BY <1>1, ContiguousAnswered
<1>3. ASSUME IsOk(r) PROVE Admitted(way, groups, ids, columns, wave)
  <2>1. \A k \in Nat : k * wave < Len(fps) =>
           WindowFits(fps, k * wave, AtMost(Len(fps) - k * wave, wave))
    BY <1>1, <1>3, ContiguousWindowsFit
  <2>2. WavesFit(Encoded(groups, ids, columns), DecodedOf(groups, ids, columns), Len(ids), wave)
    BY <1>1, <2>1 DEF WavesFit, WindowFits, RunFits
  <2> QED
    BY <2>2 DEF Admitted, SelectionOf
<1> QED
  BY <1>2, <1>3

\* The footprints a plan's selection is measured to have.
LEMMA SelectionMeasured ==
    ASSUME snapshot \in Files \cup OtherFiles, Sequence(plan.columns),
           NEW ids, Sequence(ids), NEW r, r = Footprints(ids)
    PROVE  /\ Answered(r)
           /\ IsOk(r) => SelectionOf(snapshot.groups, ids, plan.columns, r.value)
<1>1. r = selected_resource_footprints_for_plan(snapshot.groups, ids, plan.columns)
  BY DEF Footprints
<1>2. Answered(r)
  BY <1>1, FootprintsAnswered
<1>3. IsOk(r) => SelectionOf(snapshot.groups, ids, plan.columns, r.value)
  BY <1>1, FootprintsOfPlan DEF SelectionOf
<1> QED
  BY <1>2, <1>3

----------------------------------------------------------------------------
(***************************************************************************)
(* The invariant.  First what all answers, and all reads that begin, have   *)
(* in common.                                                              *)
(***************************************************************************)
\* A call that reads nothing leaves no read.
LEMMA AnswerKeeps ==
    ASSUME NEW result, result \in Kinds \cup {"failed", "none"}, Answer(result),
           snapshot' \in Files \cup OtherFiles, pool'.slots \in Nat,
           PlanWellFormed', PlanComplete'
    PROVE  PlanIInv'
<1>1. /\ exec' = [mode |-> "none", ids |-> <<>>, columns |-> <<>>, window |-> 0,
                  launched |-> 0, asked |-> <<>>]
      /\ delivered' = <<>> /\ outcome' \notin {"running", "done"}
  BY DEF Answer, NoExec, Kinds
<1>2. Sequence(<<>>)
  BY DEF Sequence
<1>3. ReadWellFormed'
  BY <1>1, <1>2 DEF ReadWellFormed, Modes
<1>4. ReadFollowsPlan' /\ ReadInWindow' /\ ReadAdmitted'
  BY <1>1 DEF ReadFollowsPlan, ReadInWindow, ReadAdmitted
<1> QED
  BY <1>3, <1>4 DEF PlanIInv

\* One that began a read admitted what it reads.
LEMMA BeginKeeps ==
    ASSUME PlanIInv, NEW way \in Modes \ {"none"}, NEW ids, Sequence(ids),
           NEW window \in Nat \ {0}, NEW asked, Begin(way, ids, window, asked),
           UNCHANGED <<snapshot, plan, pool>>,
           IsInjective(plan.ids), Range(plan.ids) \subseteq Ids(snapshot.groups),
           Range(asked) \subseteq Range(plan.ids), Picks(ids, plan.ids, Range(asked)),
           Admitted(way, snapshot.groups, ids, plan.columns, window)
    PROVE  PlanIInv'
<1>1. /\ exec' = [mode |-> way, ids |-> ids, columns |-> plan.columns, window |-> window,
                  launched |-> 0, asked |-> asked]
      /\ delivered' = <<>> /\ outcome' = "running"
  BY DEF Begin
<1>2. Sequence(<<>>) /\ Len(<<>>) = 0 /\ Len(ids) \in Nat
  BY SequenceDomain DEF Sequence
<1>3. PlanWellFormed' /\ PlanComplete'
  BY DEF PlanIInv, PlanWellFormed, PlanComplete
<1>4. ReadWellFormed'
  BY <1>1, <1>2 DEF PlanIInv, ReadWellFormed
<1>5. ReadFollowsPlan'
  BY <1>1, <1>2 DEF ReadFollowsPlan
<1>6. ReadInWindow'
  <2>1. WithinWave(0, 0, window)
    <3>1. 0 * window <= 0 /\ 0 <= 0 * window + window
      OBVIOUS
    <3> QED
      BY <3>1 DEF WithinWave
  <2> QED
    BY <1>1, <1>2, <2>1 DEF ReadInWindow
<1>7. ReadAdmitted'
  <2>1. Admitted(way, snapshot.groups', ids, plan.columns, window)
    OBVIOUS
  <2>2. /\ exec'.mode = way /\ exec'.ids = ids /\ exec'.columns = plan.columns
        /\ exec'.window = window
    BY <1>1
  <2> QED
    BY <2>1, <2>2 DEF ReadAdmitted
<1> QED
  BY <1>3, <1>4, <1>5, <1>6, <1>7 DEF PlanIInv

\* What a caller asks of a plan: all of it, or a subset.
Chosen(asked, subset) ==
    \/ asked = plan.ids /\ subset = Ok(plan.ids)
    \/ subset = planned_row_group_subset(plan, asked)

\* A choice is answered, and one that is accepted follows the plan.
LEMMA ChosenFollows ==
    ASSUME PlanWellFormed, NEW asked, NEW subset, Chosen(asked, subset)
    PROVE  /\ Answered(subset)
           /\ IsOk(subset) =>
                 /\ Range(asked) \subseteq Range(plan.ids)
                 /\ Sequence(subset.value) /\ Picks(subset.value, plan.ids, Range(asked))
<1>1. Sequence(plan.ids)
  BY DEF PlanWellFormed
<1>2. CASE asked = plan.ids /\ subset = Ok(plan.ids)
  <2>1. subset.value = plan.ids
    BY <1>2 DEF Ok
  <2> QED
    BY <1>1, <1>2, <2>1, OkAnswered, WholePlan
<1>3. CASE subset = planned_row_group_subset(plan, asked)
  <2>1. Answered(subset)
    BY <1>3 DEF planned_row_group_subset, Require, Ok, Err, Answered, Kinds
  <2> QED
    BY <1>1, <1>3, <2>1, AcceptedSubset
<1> QED
  BY <1>2, <1>3 DEF Chosen

\* So is the check of a plan.
LEMMA PlanAnswered == ASSUME NEW p PROVE Answered(validate_read_plan(p))
BY DEF validate_read_plan, Require, Ok, Err, Answered, Kinds

\* The least of some positive numbers, and the number of threads, are positive.
LEMMA LeastIsPositive ==
    ASSUME NEW S \in SUBSET (Nat \ {0}), S # {} PROVE Min(S) \in Nat \ {0}
<1>1. \E m \in S : \A k \in S : m <= k
  <2>1. S \in SUBSET Nat
    OBVIOUS
  <2> QED
    BY <2>1, LeastNumber
<1>2. Min(S) \in S
  BY <1>1 DEF Min
<1> QED
  BY <1>2

\* There is always a thread.
LEMMA ThreadsPositive ==
    ASSUME NEW requested \in Nat, NEW selected \in Nat
    PROVE  EffectiveThreads(requested, selected) \in Nat \ {0}
<1>1. CASE requested <= 1 \/ selected <= 1
  BY <1>1 DEF EffectiveThreads
<1>2. CASE ~(requested <= 1 \/ selected <= 1)
  <2>1. {requested, selected} \in SUBSET (Nat \ {0}) /\ {requested, selected} # {}
    BY <1>2
  <2> QED
    BY <1>2, <2>1, LeastIsPositive DEF EffectiveThreads
<1> QED
  BY <1>1, <1>2

\* Reading with every batch kept.
LEMMA ReadOwnedKeeps ==
    ASSUME PlanIInv, NEW asked, NEW subset, Chosen(asked, subset), ReadOwned(asked, subset)
    PROVE  PlanIInv'
<1> DEFINE v == validate_read_plan(plan)
           ids == IF IsOk(v) THEN subset ELSE v
           fps == Footprints(ids.value)
           admitted == validate_owned_plan_resource_limits(fps.value)
           r == IF ~IsOk(ids) THEN ids ELSE IF ~IsOk(fps) THEN fps ELSE admitted
           threads == EffectiveThreads(plan.threads, Len(ids.value))
<1>1. /\ PlanWellFormed /\ PlanComplete /\ snapshot \in Files \cup OtherFiles
      /\ pool.slots \in Nat /\ Sequence(plan.columns) /\ plan.threads \in Nat
  BY DEF PlanIInv, ReadWellFormed, PlanWellFormed
<1>2. /\ UNCHANGED <<snapshot, plan, pool>>
      /\ IF IsOk(r) THEN Begin("owned", ids.value, threads, asked) ELSE Answer(r.kind)
  BY DEF ReadOwned, Then
<1>3. Answered(v) /\ (IsOk(v) => /\ IsInjective(plan.ids)
                                /\ Range(plan.ids) \subseteq Ids(snapshot.groups))
  BY PlanAnswered, AcceptedPlan
<1>4. /\ Answered(subset)
      /\ IsOk(subset) =>
            /\ Range(asked) \subseteq Range(plan.ids)
            /\ Sequence(subset.value) /\ Picks(subset.value, plan.ids, Range(asked))
  BY <1>1, ChosenFollows
<1> HIDE DEF v
<1>5. /\ Answered(ids)
      /\ IsOk(ids) => IsOk(v) /\ ids = subset /\ IsOk(subset)
  BY <1>3, <1>4
<1> HIDE DEF ids
<1>6. IsOk(ids) =>
         /\ Answered(fps)
         /\ IsOk(fps) => SelectionOf(snapshot.groups, ids.value, plan.columns, fps.value)
  BY <1>1, <1>4, <1>5, SelectionMeasured
<1> HIDE DEF fps
<1>7. IsOk(ids) /\ IsOk(fps) =>
         /\ Answered(admitted)
         /\ IsOk(admitted) => Admitted("owned", snapshot.groups, ids.value, plan.columns, threads)
  BY <1>6, OwnedAdmitted
<1> HIDE DEF admitted
<1>8. CASE IsOk(r)
  <2>1. IsOk(ids) /\ IsOk(fps) /\ IsOk(admitted)
    BY <1>8
  <2>2. threads \in Nat \ {0}
    <3>1. Len(ids.value) \in Nat
      BY <1>4, <1>5, <2>1, SequenceDomain
    <3> QED
      BY <1>1, <3>1, ThreadsPositive
  <2>3. Begin("owned", ids.value, threads, asked)
    BY <1>2, <1>8
  <2>4. "owned" \in Modes \ {"none"}
    BY DEF Modes
  <2> HIDE DEF threads, r
  <2> QED
    BY <1>2, <1>3, <1>4, <1>5, <1>7, <2>1, <2>2, <2>3, <2>4, BeginKeeps
<1>9. CASE ~IsOk(r)
  <2>1. Answered(r)
    BY <1>5, <1>6, <1>7
  <2>2. Answer(r.kind) /\ r.kind \in Kinds \cup {"failed", "none"}
    BY <1>2, <1>9, <2>1 DEF Answered
  <2>3. PlanWellFormed' /\ PlanComplete'
    BY <1>1, <1>2 DEF PlanWellFormed, PlanComplete
  <2> HIDE DEF r
  <2> QED
    BY <1>1, <1>2, <2>2, <2>3, AnswerKeeps
<1> QED
  BY <1>8, <1>9

\* The pool's slots bound the wave of one kind of visit.
VisitMode(way, slots) ==
    \/ way = "visit" /\ slots = {}
    \/ way = "into" /\ slots = {pool.slots}

\* Visiting.
LEMMA VisitKeeps ==
    ASSUME PlanIInv, NEW way, NEW slots, VisitMode(way, slots),
           NEW asked, NEW subset, Chosen(asked, subset), NEW max \in InFlight, NEW ordered \in BOOLEAN,
           Visit(way, asked, subset, max, ordered, slots)
    PROVE  PlanIInv'
<1> USE DEF VisitMode
<1> DEFINE v == validate_read_plan(plan)
           o == validate_read_cursor_options(max, ordered)
           ids == IF ~IsOk(v) THEN v ELSE IF ~IsOk(o) THEN o ELSE subset
           wave == Min({EffectiveThreads(plan.threads, Len(ids.value)), max} \union slots)
           pooled == way = "visit" \/ IsOk(validate_reusable_buffer_pool(plan))
           fps == Footprints(ids.value)
           admitted == validate_contiguous_in_flight_plan_resource_limits(fps.value, wave)
           r == IF ~IsOk(ids) THEN ids ELSE IF ~pooled THEN Err("invalid")
                ELSE IF ids.value = <<>> THEN Ok(ids.value)
                ELSE IF ~IsOk(fps) THEN fps ELSE admitted
<1>1. /\ PlanWellFormed /\ PlanComplete /\ snapshot \in Files \cup OtherFiles
      /\ pool.slots \in Nat /\ Sequence(plan.columns) /\ plan.threads \in Nat
  BY DEF PlanIInv, ReadWellFormed, PlanWellFormed
<1>2. /\ UNCHANGED <<snapshot, plan, pool>>
      /\ IF IsOk(r) THEN Begin(way, ids.value, wave, asked) ELSE Answer(r.kind)
  BY DEF Visit, Then
<1>3. Answered(v) /\ (IsOk(v) => /\ IsInjective(plan.ids)
                                /\ Range(plan.ids) \subseteq Ids(snapshot.groups))
  BY PlanAnswered, AcceptedPlan
<1>4. /\ Answered(subset)
      /\ IsOk(subset) =>
            /\ Range(asked) \subseteq Range(plan.ids)
            /\ Sequence(subset.value) /\ Picks(subset.value, plan.ids, Range(asked))
  BY <1>1, ChosenFollows
<1>5. Answered(o) /\ (IsOk(o) => max # 0)
  BY DEF validate_read_cursor_options, Require, Ok, Err, IsOk, Answered, Kinds
<1>6. pooled => way = "visit" \/ pool.slots > 0
  BY DEF validate_reusable_buffer_pool, Require, Err, IsOk
<1> HIDE DEF v, o, pooled
<1>7. /\ Answered(ids)
      /\ IsOk(ids) => IsOk(v) /\ IsOk(o) /\ ids = subset /\ IsOk(subset)
  BY <1>3, <1>4, <1>5
<1> HIDE DEF ids
<1>8. ASSUME IsOk(ids), pooled PROVE wave \in Nat \ {0}
  <2>1. Len(ids.value) \in Nat
    BY <1>4, <1>7, <1>8, SequenceDomain
  <2>2. EffectiveThreads(plan.threads, Len(ids.value)) \in Nat \ {0}
    BY <1>1, <2>1, ThreadsPositive
  <2>3. max \in Nat \ {0}
    BY <1>5, <1>7, <1>8, ReadPlanningAssumption DEF ReadPlanningAssumption
  <2>4. slots \in SUBSET (Nat \ {0})
    BY <1>1, <1>6, <1>8
  <2>5. /\ {EffectiveThreads(plan.threads, Len(ids.value)), max} \union slots \in SUBSET (Nat \ {0})
        /\ {EffectiveThreads(plan.threads, Len(ids.value)), max} \union slots # {}
    BY <2>2, <2>3, <2>4
  <2> QED
    BY <2>5, LeastIsPositive
<1>9. IsOk(ids) =>
         /\ Answered(fps)
         /\ IsOk(fps) => SelectionOf(snapshot.groups, ids.value, plan.columns, fps.value)
  BY <1>1, <1>4, <1>7, SelectionMeasured
<1> HIDE DEF fps, wave
<1>10. IsOk(ids) /\ pooled /\ IsOk(fps) =>
          /\ Answered(admitted)
          /\ IsOk(admitted) => Admitted(way, snapshot.groups, ids.value, plan.columns, wave)
  BY <1>8, <1>9, WavesAdmitted
<1> HIDE DEF admitted
<1>11. CASE IsOk(r)
  <2>1. IsOk(ids) /\ pooled
    BY <1>11, ErrMeasured
  <2>2. Admitted(way, snapshot.groups, ids.value, plan.columns, wave)
    <3>1. CASE ids.value = <<>>
      BY <3>1 DEF Admitted
    <3>2. CASE ids.value # <<>>
      BY <1>10, <1>11, <2>1, <3>2
    <3> QED
      BY <3>1, <3>2
  <2>3. Begin(way, ids.value, wave, asked)
    BY <1>2, <1>11
  <2>4. way \in Modes \ {"none"}
    BY DEF Modes
  <2>5. wave \in Nat \ {0}
    BY <1>8, <2>1
  <2> HIDE DEF r
  <2> QED
    BY <1>2, <1>3, <1>4, <1>7, <2>1, <2>2, <2>3, <2>4, <2>5, BeginKeeps
<1>12. CASE ~IsOk(r)
  <2>1. Answered(r)
    BY <1>7, <1>9, <1>10, OkAnswered, ErrAnswered
  <2>2. Answer(r.kind) /\ r.kind \in Kinds \cup {"failed", "none"}
    BY <1>2, <1>12, <2>1 DEF Answered
  <2>3. PlanWellFormed' /\ PlanComplete'
    BY <1>1, <1>2 DEF PlanWellFormed, PlanComplete
  <2> HIDE DEF r
  <2> QED
    BY <1>1, <1>2, <2>2, <2>3, AnswerKeeps
<1> QED
  BY <1>11, <1>12

\* Preparing in parallel.
LEMMA PrepareKeeps ==
    ASSUME PlanIInv, NEW subset \in Subsets, NEW max \in InFlight,
           parallel_prepare_plan_row_groups(subset, max)
    PROVE  PlanIInv'
<1> DEFINE v == validate_read_plan(plan)
           chosen == planned_row_group_subset(plan, subset)
           ids == IF ~IsOk(v) THEN v ELSE chosen
           fps == Footprints(ids.value)
           admitted == validate_sliding_resource_footprints(fps.value, max)
           final == Require(max # 0, "invalid", Ok(ids.value))
           r == IF ~IsOk(ids) THEN ids ELSE IF ~IsOk(fps) THEN fps
                ELSE IF ~IsOk(admitted) THEN admitted ELSE final
<1>1. /\ PlanWellFormed /\ PlanComplete /\ snapshot \in Files \cup OtherFiles
      /\ pool.slots \in Nat /\ Sequence(plan.columns) /\ max \in Nat
  BY ReadPlanningAssumption DEF PlanIInv, ReadWellFormed, PlanWellFormed, ReadPlanningAssumption
<1>2. /\ UNCHANGED <<snapshot, plan, pool>>
      /\ IF IsOk(r) THEN Begin("sliding", ids.value, max, subset) ELSE Answer(r.kind)
  BY DEF parallel_prepare_plan_row_groups, Then
<1>3. Answered(v) /\ (IsOk(v) => /\ IsInjective(plan.ids)
                                /\ Range(plan.ids) \subseteq Ids(snapshot.groups))
  BY PlanAnswered, AcceptedPlan
<1>4. /\ Answered(chosen)
      /\ IsOk(chosen) =>
            /\ Range(subset) \subseteq Range(plan.ids)
            /\ Sequence(chosen.value) /\ Picks(chosen.value, plan.ids, Range(subset))
  BY <1>1, ChosenFollows DEF Chosen
<1>5. Answered(final) /\ (IsOk(final) => max # 0)
  BY DEF Require, Ok, Err, IsOk, Answered, Kinds
<1> HIDE DEF v, chosen, final
<1>6. /\ Answered(ids)
      /\ IsOk(ids) => IsOk(v) /\ ids = chosen /\ IsOk(chosen)
  BY <1>3, <1>4
<1> HIDE DEF ids
<1>7. IsOk(ids) =>
         /\ Answered(fps)
         /\ IsOk(fps) => SelectionOf(snapshot.groups, ids.value, plan.columns, fps.value)
  BY <1>1, <1>4, <1>6, SelectionMeasured
<1> HIDE DEF fps
<1>8. IsOk(ids) /\ IsOk(fps) =>
         /\ Answered(admitted)
         /\ IsOk(admitted) /\ max # 0 =>
               Admitted("sliding", snapshot.groups, ids.value, plan.columns, max)
  BY <1>1, <1>7, SlidingAdmitted
<1> HIDE DEF admitted
<1>9. CASE IsOk(r)
  <2>1. IsOk(ids) /\ IsOk(fps) /\ IsOk(admitted) /\ max # 0 /\ max \in Nat \ {0}
    BY <1>1, <1>5, <1>9
  <2>2. Admitted("sliding", snapshot.groups, ids.value, plan.columns, max)
    BY <1>8, <2>1
  <2>3. Begin("sliding", ids.value, max, subset)
    BY <1>2, <1>9
  <2>4. "sliding" \in Modes \ {"none"}
    BY DEF Modes
  <2> HIDE DEF r
  <2> QED
    BY <1>2, <1>3, <1>4, <1>6, <2>1, <2>2, <2>3, <2>4, BeginKeeps
<1>10. CASE ~IsOk(r)
  <2>1. Answered(r)
    BY <1>5, <1>6, <1>7, <1>8
  <2>2. Answer(r.kind) /\ r.kind \in Kinds \cup {"failed", "none"}
    BY <1>2, <1>10, <2>1 DEF Answered
  <2>3. PlanWellFormed' /\ PlanComplete'
    BY <1>1, <1>2 DEF PlanWellFormed, PlanComplete
  <2> HIDE DEF r
  <2> QED
    BY <1>1, <1>2, <2>2, <2>3, AnswerKeeps
<1> QED
  BY <1>9, <1>10

\* Making a pool of reusable buffers.
LEMMA PoolKeeps ==
    ASSUME PlanIInv, NEW max \in InFlight, NEW nulls \in BOOLEAN,
           reusable_buffer_pool_for_plan(max, nulls)
    PROVE  PlanIInv'
<1> DEFINE v == validate_read_plan(plan)
           rows == max_row_count_for_plan(plan)
           fps == Footprints(plan.ids)
           slid == validate_sliding_resource_footprints(fps.value, max)
           measured == IF ~IsOk(fps) THEN fps ELSE slid
           final == validate_reusable_pool_allocation_resource_limits(
                       Widths(plan.columns), rows.value, max, nulls)
           r == IF ~IsOk(v) \/ max = 0 THEN Err("invalid")
                ELSE IF ~IsOk(rows) THEN rows
                ELSE IF ~IsOk(measured) THEN measured ELSE final
<1>1. /\ PlanWellFormed /\ PlanComplete /\ snapshot \in Files \cup OtherFiles
      /\ pool.slots \in Nat /\ Sequence(plan.columns) /\ Sequence(plan.ids) /\ max \in Nat
  BY ReadPlanningAssumption DEF PlanIInv, ReadWellFormed, PlanWellFormed, ReadPlanningAssumption
<1>2. /\ UNCHANGED <<snapshot, plan>>
      /\ pool' = IF IsOk(r) THEN [slots |-> max, columns |-> plan.columns] ELSE pool
      /\ Answer(r.kind)
  BY DEF reusable_buffer_pool_for_plan, Then
<1>3. Answered(rows)
  BY DEF max_row_count_for_plan, selected_row_groups_for_plan, Then, Ok, Err, IsOk, Answered, Kinds
<1>4. Answered(fps) /\ (IsOk(fps) => SelectionOf(snapshot.groups, plan.ids, plan.columns, fps.value))
  BY <1>1, SelectionMeasured
<1>5. IsOk(fps) => Answered(slid)
  BY <1>1, <1>4, SlidingAdmitted
<1>6. Answered(final)
  BY DEF validate_reusable_pool_allocation_resource_limits, Require, Ok, Err, Answered, Kinds
<1> HIDE DEF v, rows, fps, slid, final
<1>7. Answered(r)
  BY <1>3, <1>4, <1>5, <1>6, ErrAnswered
<1> HIDE DEF r
<1>8. r.kind \in Kinds \cup {"failed", "none"}
  BY <1>7 DEF Answered
<1>9. pool'.slots \in Nat
  BY <1>1, <1>2
<1>10. PlanWellFormed' /\ PlanComplete'
  BY <1>1, <1>2 DEF PlanWellFormed, PlanComplete
<1> QED
  BY <1>1, <1>2, <1>8, <1>9, <1>10, AnswerKeeps

\* A plan that is made has every group with a row that is asked for.
LEMMA MadePlanKeeps ==
    ASSUME PlanIInv, NEW request, Sequence(request.projection), AllBounded(request.predicates),
           request.options.threads \in Nat, NEW strict \in BOOLEAN, NEW cap,
           NEW p, Answered(p), IsOk(p) => p = Planned(request, strict, cap),
           plan' = (IF IsOk(p) THEN p.value ELSE plan),
           Answer(p.kind), UNCHANGED <<snapshot, pool>>
    PROVE  PlanIInv'
<1>1. /\ PlanWellFormed /\ PlanComplete /\ snapshot \in Files \cup OtherFiles
      /\ pool.slots \in Nat
  BY DEF PlanIInv, ReadWellFormed
<1>2. p.kind \in Kinds \cup {"failed", "none"}
  BY DEF Answered
<1>3. PlanWellFormed' /\ PlanComplete'
  <2>1. CASE IsOk(p)
    <3>1. /\ Sequence(p.value.ids) /\ Sequence(p.value.columns) /\ p.value.threads \in Nat
          /\ p.value.on = snapshot.groups
          /\ \A i \in DOMAIN snapshot.groups :
                HasRow(snapshot.groups[i], p.value.predicates)
                => snapshot.groups[i].id \in Range(p.value.ids)
      BY <1>1, <2>1, PlannedIsSound
    <3>2. plan' = p.value
      BY <2>1
    <3> QED
      BY <3>1, <3>2 DEF PlanWellFormed, PlanComplete, HasRow
  <2>2. CASE ~IsOk(p)
    BY <1>1, <2>2 DEF PlanWellFormed, PlanComplete
  <2> QED
    BY <2>1, <2>2
<1> QED
  BY <1>1, <1>2, <1>3, AnswerKeeps

\* A request and key ranges have bounds that are numbers.
LEMMA RequestBounds ==
    ASSUME NEW request \in Requests
    PROVE  /\ DOMAIN request = {"projection", "predicates", "options"}
           /\ Sequence(request.projection) /\ AllBounded(request.predicates)
           /\ request.options.threads \in Nat
BY ReadPlanningAssumption DEF ReadPlanningAssumption, AllBounded

\* Planning a request.
LEMMA PlanKeeps ==
    ASSUME PlanIInv, NEW request \in Requests, NEW strict \in BOOLEAN, NEW cap,
           Plan(request, strict, cap)
    PROVE  PlanIInv'
<1> DEFINE p == Planned(request, strict, cap)
<1>1. /\ plan' = (IF IsOk(p) THEN p.value ELSE plan)
      /\ Answer(p.kind) /\ UNCHANGED <<snapshot, pool>>
  BY DEF Plan
<1>2. snapshot \in Files \cup OtherFiles
  BY DEF PlanIInv, ReadWellFormed
<1>3. Answered(p)
  BY <1>2, RequestBounds, PlannedAnswered
<1>4. IsOk(p) => p = Planned(request, strict, cap)
  OBVIOUS
<1> HIDE DEF p
<1> QED
  BY <1>1, <1>3, <1>4, RequestBounds, MadePlanKeeps

\* Planning a request made of key ranges.
LEMMA PlanFromKeyRangesKeeps ==
    ASSUME PlanIInv, NEW request \in Requests, NEW ranges \in KeyRanges,
           PlanFromKeyRanges(request, ranges)
    PROVE  PlanIInv'
<1> DEFINE ps == from_ordering_key_ranges(snapshot.keys, ranges)
           made == [request EXCEPT !.predicates = ps.value]
           planned == Planned(made, FALSE, 0)
           p == IF ~IsOk(ps) THEN ps ELSE planned
<1>1. /\ plan' = (IF IsOk(p) THEN p.value ELSE plan)
      /\ Answer(p.kind) /\ UNCHANGED <<snapshot, pool>>
  BY DEF PlanFromKeyRanges, Then
<1>2. snapshot \in Files \cup OtherFiles
  BY DEF PlanIInv, ReadWellFormed
<1>3. Sequence(snapshot.keys) /\ \A i \in DOMAIN ranges : Bounded(ranges[i])
  BY <1>2, FileGroups, ReadPlanningAssumption DEF ReadPlanningAssumption
<1>4. Answered(ps)
  BY DEF from_ordering_key_ranges, Require, Ok, Err, Answered, Kinds
<1>5. IsOk(ps) => AllBounded(ps.value)
  BY <1>3, RangesResolved
<1> HIDE DEF ps
<1>6. /\ made.projection = request.projection /\ made.predicates = ps.value
      /\ made.options = request.options
  BY RequestBounds
<1> HIDE DEF made
<1>7. IsOk(ps) => Answered(planned)
  BY <1>2, <1>5, <1>6, PlannedAnswered
<1>8. Answered(p) /\ (IsOk(p) => IsOk(ps) /\ p = Planned(made, FALSE, 0))
  BY <1>4, <1>7
<1> HIDE DEF planned, p
<1>9. CASE IsOk(p)
  <2>1. Sequence(made.projection) /\ AllBounded(made.predicates) /\ made.options.threads \in Nat
    BY <1>5, <1>6, <1>8, <1>9, RequestBounds
  <2> QED
    BY <1>1, <1>8, <2>1, MadePlanKeeps
<1>10. CASE ~IsOk(p)
  <2>1. PlanWellFormed' /\ PlanComplete' /\ pool'.slots \in Nat
    BY <1>1, <1>10 DEF PlanIInv, PlanWellFormed, PlanComplete, ReadWellFormed
  <2>2. p.kind \in Kinds \cup {"failed", "none"}
    BY <1>8 DEF Answered
  <2> QED
    BY <1>1, <1>2, <2>1, <2>2, AnswerKeeps
<1> QED
  BY <1>9, <1>10

\* Opening another snapshot.
LEMMA ReopenKeeps ==
    ASSUME PlanIInv, NEW f \in OtherFiles, Reopen(f)
    PROVE  PlanIInv'
<1>1. /\ snapshot' \in Files \cup OtherFiles /\ Answer("none") /\ UNCHANGED <<plan, pool>>
  BY DEF Reopen
<1>2. PlanWellFormed' /\ PlanComplete' /\ pool'.slots \in Nat
  BY <1>1 DEF PlanIInv, PlanWellFormed, PlanComplete, ReadWellFormed
<1> QED
  BY <1>1, <1>2, AnswerKeeps

\* A read that fails.
LEMMA ReadFailsKeeps ==
    ASSUME PlanIInv, ReadFails
    PROVE  PlanIInv'
<1>1. Answer("failed") /\ UNCHANGED <<snapshot, plan, pool>>
  BY DEF ReadFails
<1>2. /\ PlanWellFormed' /\ PlanComplete' /\ pool'.slots \in Nat
      /\ snapshot' \in Files \cup OtherFiles
  BY <1>1 DEF PlanIInv, PlanWellFormed, PlanComplete, ReadWellFormed
<1> QED
  BY <1>1, <1>2, AnswerKeeps

\* Starting a group.
LEMMA LaunchKeeps ==
    ASSUME PlanIInv, Launch
    PROVE  PlanIInv'
<1> DEFINE done == Len(delivered)
           w == exec.window
           l == exec.launched
<1>1. /\ exec.mode # "none" /\ l < Len(exec.ids)
      /\ l < (IF exec.mode = "sliding" THEN done + w ELSE (done \div w + 1) * w)
      /\ UNCHANGED <<snapshot, plan, pool, delivered, outcome>>
      /\ exec' = [exec EXCEPT !.launched = @ + 1]
  BY DEF Launch
<1>2. /\ PlanWellFormed /\ PlanComplete /\ ReadWellFormed /\ ReadFollowsPlan
      /\ ReadInWindow /\ ReadAdmitted
  BY DEF PlanIInv
<1>3. /\ exec'.mode = exec.mode /\ exec'.ids = exec.ids /\ exec'.columns = exec.columns
      /\ exec'.window = exec.window /\ exec'.asked = exec.asked /\ exec'.launched = l + 1
      /\ DOMAIN exec' = DOMAIN exec
  BY <1>1, <1>2 DEF ReadWellFormed
<1>4. PlanWellFormed' /\ PlanComplete'
  BY <1>1, <1>2 DEF PlanWellFormed, PlanComplete
<1>5. ReadWellFormed'
  BY <1>1, <1>2, <1>3 DEF ReadWellFormed
<1>6. ReadFollowsPlan'
  BY <1>1, <1>2, <1>3 DEF ReadFollowsPlan
<1>7. ReadAdmitted'
  BY <1>1, <1>2, <1>3 DEF ReadAdmitted
<1>8. /\ w \in Nat \ {0} /\ done \in Nat /\ l \in Nat /\ Len(exec.ids) \in Nat
      /\ done <= l
  <2>1. Sequence(delivered) /\ Sequence(exec.ids)
    BY <1>2 DEF ReadWellFormed
  <2> QED
    BY <1>1, <1>2, <2>1, SequenceDomain DEF ReadInWindow, ReadWellFormed
<1> HIDE DEF done, w, l
<1>9. ReadInWindow'
  <2>1. done <= l + 1 /\ l + 1 <= Len(exec.ids)
    BY <1>1, <1>8
  <2>2. exec.mode = "sliding" => l + 1 <= done + w
    BY <1>1, <1>8
  <2>3. exec.mode \in {"visit", "into"} => WithinWave(done, l + 1, w)
    <3> SUFFICES ASSUME exec.mode \in {"visit", "into"} PROVE WithinWave(done, l + 1, w)
      OBVIOUS
    <3>1. PICK k \in Nat : k = done \div w /\ k * w <= done
      BY <1>8, Quotient
    <3>2. l < (k + 1) * w
      BY <1>1, <3>1
    <3>3. (k + 1) * w = k * w + w /\ k * w \in Nat
      BY <1>8
    <3>4. l + 1 <= k * w + w
      BY <1>8, <3>2, <3>3
    <3> QED
      BY <3>1, <3>4 DEF WithinWave
  <2> QED
    BY <1>1, <1>2, <1>3, <2>1, <2>2, <2>3 DEF ReadInWindow, done, w, l
<1> QED
  BY <1>4, <1>5, <1>6, <1>7, <1>9 DEF PlanIInv

\* Delivering a group.
LEMMA DeliverKeeps ==
    ASSUME PlanIInv, NEW stop \in BOOLEAN, Deliver(stop)
    PROVE  PlanIInv'
<1> DEFINE done == Len(delivered)
           next == exec.ids[done + 1]
<1>1. /\ done < exec.launched
      /\ delivered' = Append(delivered, next)
      /\ IF stop THEN outcome' = "stopped" /\ exec' = NoExec ELSE UNCHANGED <<outcome, exec>>
      /\ UNCHANGED <<snapshot, plan, pool>>
  BY DEF Deliver
<1>2. /\ PlanWellFormed /\ PlanComplete /\ ReadWellFormed /\ ReadFollowsPlan
      /\ ReadInWindow /\ ReadAdmitted
  BY DEF PlanIInv
<1>3. PlanWellFormed' /\ PlanComplete'
  BY <1>1, <1>2 DEF PlanWellFormed, PlanComplete
<1>4. /\ done \in Nat /\ delivered \in Seq(Range(delivered)) /\ exec.launched \in Nat
      /\ Sequence(exec.ids)
  BY <1>2, SequenceDomain DEF ReadWellFormed, Sequence
<1>5. /\ Len(delivered') = done + 1 /\ Sequence(delivered')
      /\ \A i \in 1 .. done : delivered'[i] = delivered[i]
      /\ delivered'[done + 1] = next
  <2> HIDE DEF next
  <2>1. /\ Len(delivered') = done + 1 /\ DOMAIN delivered' = 1 .. done + 1
        /\ \A i \in 1 .. done : delivered'[i] = delivered[i]
        /\ delivered'[done + 1] = next
    BY <1>1, <1>4
  <2>2. delivered' \in Seq(Range(delivered) \cup {next})
    BY <1>1, <1>4
  <2>3. delivered' = [i \in 1 .. done + 1 |-> delivered'[i]]
    BY <2>1, <2>2
  <2>4. Sequence(delivered')
    <3>1. PICK n \in Nat : n = done + 1
      BY <1>4
    <3>2. PICK d : d = delivered'
      OBVIOUS
    <3> HIDE DEF done
    <3>3. d = [i \in 1 .. n |-> d[i]]
      BY <2>3, <3>1, <3>2
    <3> QED
      BY <3>2, <3>3, SequenceMade
  <2> QED
    BY <2>1, <2>4
<1>6. exec.mode # "none" /\ outcome = "running"
  BY <1>1, <1>2, <1>4 DEF ReadWellFormed
<1>7. CASE stop
  <2>1. /\ exec' = [mode |-> "none", ids |-> <<>>, columns |-> <<>>, window |-> 0,
                    launched |-> 0, asked |-> <<>>]
        /\ outcome' = "stopped"
    BY <1>1, <1>7 DEF NoExec
  <2>2. Sequence(<<>>)
    BY DEF Sequence
  <2>3. ReadWellFormed'
    BY <1>1, <1>2, <1>5, <2>1, <2>2 DEF ReadWellFormed, Modes
  <2>4. ReadFollowsPlan' /\ ReadInWindow' /\ ReadAdmitted'
    BY <2>1 DEF ReadFollowsPlan, ReadInWindow, ReadAdmitted
  <2> QED
    BY <1>3, <2>3, <2>4 DEF PlanIInv
<1>8. CASE ~stop
  <2>1. UNCHANGED <<outcome, exec, snapshot, plan, pool>>
    BY <1>1, <1>8
  <2>2. ReadWellFormed'
    BY <1>2, <1>5, <2>1 DEF ReadWellFormed
  <2>3. ReadAdmitted'
    BY <1>2, <2>1 DEF ReadAdmitted
  <2>4. exec.launched <= Len(exec.ids) /\ Len(exec.ids) \in Nat
    BY <1>2, <1>4, <1>6, SequenceDomain DEF ReadInWindow
  <2>5. ReadFollowsPlan'
    <3>1. /\ IsInjective(plan.ids) /\ Range(plan.ids) \subseteq Ids(snapshot.groups)
          /\ Range(exec.asked) \subseteq Range(plan.ids)
          /\ Picks(exec.ids, plan.ids, Range(exec.asked))
          /\ \A i \in 1 .. done : delivered[i] = exec.ids[i]
      BY <1>2, <1>6 DEF ReadFollowsPlan
    <3>2. done + 1 <= Len(exec.ids)
      BY <1>1, <1>4, <2>4
    <3>3. \A i \in 1 .. done + 1 : delivered'[i] = exec.ids[i]
      <4>1. \A i \in 1 .. done + 1 : i = done + 1 \/ i \in 1 .. done
        BY <1>4
      <4> QED
        BY <1>5, <3>1, <4>1
    <3>4. outcome' # "done"
      BY <1>6, <2>1
    <3> HIDE DEF done
    <3> QED
      BY <1>5, <2>1, <3>1, <3>2, <3>3, <3>4 DEF ReadFollowsPlan
  <2>6. ReadInWindow'
    <3>1. exec.window \in Nat \ {0}
      BY <1>2, <1>6 DEF ReadInWindow
    <3>2. done + 1 <= exec.launched /\ exec.launched <= Len(exec.ids)
      BY <1>1, <1>4, <2>4
    <3>3. exec.mode = "sliding" => exec.launched <= (done + 1) + exec.window
      BY <1>2, <1>4, <1>6, <3>1 DEF ReadInWindow
    <3>4. exec.mode \in {"visit", "into"} => WithinWave(done + 1, exec.launched, exec.window)
      <4> SUFFICES ASSUME exec.mode \in {"visit", "into"}
                   PROVE  WithinWave(done + 1, exec.launched, exec.window)
        OBVIOUS
      <4>1. PICK k \in Nat : /\ k * exec.window <= done
                             /\ exec.launched <= k * exec.window + exec.window
        BY <1>2, <1>6 DEF ReadInWindow, WithinWave
      <4>2. k * exec.window \in Nat
        BY <3>1
      <4>3. k * exec.window <= done + 1
        BY <1>4, <4>1, <4>2
      <4> QED
        BY <4>1, <4>3 DEF WithinWave
    <3> HIDE DEF done
    <3> QED
      BY <1>5, <2>1, <3>1, <3>2, <3>3, <3>4 DEF ReadInWindow
  <2> QED
    BY <1>3, <2>2, <2>3, <2>5, <2>6 DEF PlanIInv
<1> QED
  BY <1>7, <1>8

\* Ending a read.
LEMMA FinishKeeps ==
    ASSUME PlanIInv, Finish
    PROVE  PlanIInv'
<1>1. /\ exec.mode # "none" /\ Len(delivered) = Len(exec.ids) /\ outcome' = "done"
      /\ UNCHANGED <<snapshot, plan, pool, delivered>>
      /\ exec' = [mode |-> "none", ids |-> exec.ids, columns |-> <<>>, window |-> 0,
                  launched |-> 0, asked |-> exec.asked]
  BY DEF Finish, NoExec
<1>2. /\ PlanWellFormed /\ PlanComplete /\ ReadWellFormed /\ ReadFollowsPlan
  BY DEF PlanIInv
<1>3. PlanWellFormed' /\ PlanComplete'
  BY <1>1, <1>2 DEF PlanWellFormed, PlanComplete
<1>4. ReadWellFormed'
  BY <1>1, <1>2 DEF ReadWellFormed, Modes
<1>5. outcome = "running"
  BY <1>1, <1>2 DEF ReadWellFormed
<1>6. ReadFollowsPlan'
  BY <1>1, <1>2, <1>5 DEF ReadFollowsPlan
<1>7. ReadInWindow' /\ ReadAdmitted'
  BY <1>1 DEF ReadInWindow, ReadAdmitted
<1> QED
  BY <1>3, <1>4, <1>6, <1>7 DEF PlanIInv

\* Nothing is planned or read at first.
LEMMA PlanInitKeeps == Init => PlanIInv
<1> SUFFICES ASSUME Init PROVE PlanIInv
  OBVIOUS
<1>1. /\ snapshot \in Files /\ plan.ids = <<>> /\ plan.columns = <<>> /\ plan.threads = 0
      /\ plan.on = <<>> /\ pool.slots = 0 /\ delivered = <<>> /\ outcome = "none"
      /\ exec = [mode |-> "none", ids |-> <<>>, columns |-> <<>>, window |-> 0,
                 launched |-> 0, asked |-> <<>>]
  BY DEF Init, NoPlan, NoPool, NoExec
<1>2. Sequence(<<>>) /\ DOMAIN <<>> = {}
  BY DEF Sequence
<1>3. PlanWellFormed /\ PlanComplete
  BY <1>1, <1>2 DEF PlanWellFormed, PlanComplete
<1>4. ReadWellFormed
  BY <1>1, <1>2 DEF ReadWellFormed, Modes
<1>5. ReadFollowsPlan /\ ReadInWindow /\ ReadAdmitted
  BY <1>1 DEF ReadFollowsPlan, ReadInWindow, ReadAdmitted
<1> QED
  BY <1>3, <1>4, <1>5 DEF PlanIInv

\* Every step keeps the invariant.
LEMMA PlanNextKeeps == PlanIInv /\ [Next]_vars => PlanIInv'
<1> SUFFICES ASSUME PlanIInv, [Next]_vars PROVE PlanIInv'
  OBVIOUS
<1>1. ASSUME NEW request \in Requests, plan_read(request) PROVE PlanIInv'
  BY <1>1, PlanKeeps DEF plan_read
<1>2. ASSUME NEW request \in Requests, NEW cap \in SelectionCaps, plan_read_strict(request, cap)
      PROVE  PlanIInv'
  BY <1>2, PlanKeeps DEF plan_read_strict
<1>3. ASSUME NEW request \in Requests, NEW ranges \in KeyRanges, PlanFromKeyRanges(request, ranges)
      PROVE  PlanIInv'
  BY <1>3, PlanFromKeyRangesKeeps
<1>4. ASSUME NEW f \in OtherFiles, Reopen(f) PROVE PlanIInv'
  BY <1>4, ReopenKeeps
<1>5. ASSUME NEW max \in InFlight, NEW nulls \in BOOLEAN, reusable_buffer_pool_for_plan(max, nulls)
      PROVE  PlanIInv'
  BY <1>5, PoolKeeps
<1>6. ASSUME read_plan_batches PROVE PlanIInv'
  <2>1. Chosen(plan.ids, Ok(plan.ids)) /\ ReadOwned(plan.ids, Ok(plan.ids))
    BY <1>6 DEF read_plan_batches, Chosen
  <2> QED
    BY <2>1, ReadOwnedKeeps
<1>7. ASSUME NEW max \in InFlight, NEW ordered \in BOOLEAN, visit_plan_batches(max, ordered)
      PROVE  PlanIInv'
  <2>1. /\ Chosen(plan.ids, Ok(plan.ids))
        /\ Visit("visit", plan.ids, Ok(plan.ids), max, ordered, {})
    BY <1>7 DEF visit_plan_batches, Chosen
  <2>2. VisitMode("visit", {}) /\ TRUE \in BOOLEAN
    BY DEF VisitMode
  <2> QED
    BY <2>1, <2>2, VisitKeeps
<1>8. ASSUME NEW subset \in Subsets, read_plan_row_groups(subset) PROVE PlanIInv'
  <2>1. /\ Chosen(subset, planned_row_group_subset(plan, subset))
        /\ ReadOwned(subset, planned_row_group_subset(plan, subset))
    BY <1>8 DEF read_plan_row_groups, Chosen
  <2> QED
    BY <2>1, ReadOwnedKeeps
<1>9. ASSUME NEW subset \in Subsets, NEW max \in InFlight, visit_plan_row_groups(subset, max, TRUE)
      PROVE  PlanIInv'
  <2>1. /\ Chosen(subset, planned_row_group_subset(plan, subset))
        /\ Visit("visit", subset, planned_row_group_subset(plan, subset), max, TRUE, {})
    BY <1>9 DEF visit_plan_row_groups, Chosen
  <2>2. VisitMode("visit", {}) /\ TRUE \in BOOLEAN
    BY DEF VisitMode
  <2> QED
    BY <2>1, <2>2, VisitKeeps
<1>10. ASSUME NEW subset \in Subsets, NEW max \in InFlight,
              visit_plan_row_groups_into(subset, max, TRUE)
       PROVE  PlanIInv'
  <2>1. /\ Chosen(subset, planned_row_group_subset(plan, subset))
        /\ Visit("into", subset, planned_row_group_subset(plan, subset), max, TRUE, {pool.slots})
    BY <1>10 DEF visit_plan_row_groups_into, Chosen
  <2>2. VisitMode("into", {pool.slots}) /\ TRUE \in BOOLEAN
    BY DEF VisitMode
  <2> QED
    BY <2>1, <2>2, VisitKeeps
<1>11. ASSUME NEW subset \in Subsets, NEW max \in InFlight,
              parallel_prepare_plan_row_groups(subset, max)
       PROVE  PlanIInv'
  BY <1>11, PrepareKeeps
<1>12. ASSUME Launch PROVE PlanIInv'
  BY <1>12, LaunchKeeps
<1>13. ASSUME NEW stop \in BOOLEAN, Deliver(stop) PROVE PlanIInv'
  BY <1>13, DeliverKeeps
<1>14. ASSUME ReadFails PROVE PlanIInv'
  BY <1>14, ReadFailsKeeps
<1>15. ASSUME Finish PROVE PlanIInv'
  BY <1>15, FinishKeeps
<1>16. ASSUME UNCHANGED vars PROVE PlanIInv'
  BY <1>16 DEF vars, PlanIInv, PlanWellFormed, PlanComplete, ReadWellFormed, ReadFollowsPlan,
               ReadInWindow, ReadAdmitted
<1> QED
  BY <1>1, <1>2, <1>3, <1>4, <1>5, <1>6, <1>7, <1>8, <1>9, <1>10, <1>11, <1>12, <1>13,
     <1>14, <1>15, <1>16 DEF Next

DrawnOnce(kept, ids, S) ==
    /\ \A a, b \in 1 .. Len(kept) : kept[a] = kept[b] => a = b
    /\ \A a \in 1 .. Len(kept) : kept[a] \in S /\ kept[a] \in Range(ids)
    /\ \A i, j \in 1 .. Len(ids), b \in 1 .. Len(kept) :
          i < j /\ ids[i] \in S /\ kept[b] = ids[j] =>
             \E a \in 1 .. Len(kept) : a < b /\ kept[a] = ids[i]
    /\ \A x \in Range(ids) \cap S : \E a \in 1 .. Len(kept) : kept[a] = x

\* A list that picks distinct members repeats none, keeps their order, and has what
\* is picked.
LEMMA PickedOnce ==
    ASSUME NEW ids, NEW S, NEW kept, Sequence(kept), Sequence(ids), Picks(kept, ids, S),
           IsInjective(ids)
    PROVE  DrawnOnce(kept, ids, S)
<1> DEFINE n == Len(kept)
           m == Len(ids)
<1>1. n \in Nat /\ m \in Nat /\ DOMAIN ids = 1 .. m
  BY SequenceDomain
<1>2. \A i, j \in 1 .. m : ids[i] = ids[j] => i = j
  BY <1>1 DEF IsInjective
<1>3. PICK e \in [1 .. n -> 1 .. m] :
         /\ \A i, j \in 1 .. n : i < j => e[i] < e[j]
         /\ \A i \in 1 .. n : kept[i] = ids[e[i]] /\ ids[e[i]] \in S
         /\ \A k \in 1 .. m : ids[k] \in S => \E i \in 1 .. n : e[i] = k
  BY DEF Picks, PicksFrom
<1> HIDE DEF n, m
<1>4. \A i \in 1 .. n : e[i] \in 1 .. m
  BY <1>3
<1>5. ASSUME NEW a \in 1 .. n, NEW b \in 1 .. n, kept[a] = kept[b] PROVE a = b
  <2>1. e[a] = e[b]
    BY <1>2, <1>3, <1>4, <1>5
  <2>2. ~(a < b) /\ ~(b < a)
    BY <1>1, <1>3, <1>4, <2>1
  <2> QED
    BY <1>1, <2>2
<1>6. ASSUME NEW a \in 1 .. n PROVE kept[a] \in S /\ kept[a] \in Range(ids)
  BY <1>1, <1>3, <1>4 DEF Range
<1>7. ASSUME NEW i \in 1 .. m, NEW j \in 1 .. m, NEW b \in 1 .. n,
             i < j, ids[i] \in S, kept[b] = ids[j]
      PROVE  \E a \in 1 .. n : a < b /\ kept[a] = ids[i]
  <2>1. e[b] = j
    BY <1>2, <1>3, <1>4, <1>7
  <2>2. PICK a \in 1 .. n : e[a] = i
    BY <1>3, <1>7
  <2>3. ~(b < a) /\ a # b
    BY <1>1, <1>3, <1>7, <2>1, <2>2
  <2>4. a < b
    BY <1>1, <2>3
  <2> QED
    BY <1>3, <2>2, <2>4
<1>8. ASSUME NEW x \in Range(ids) \cap S PROVE \E a \in 1 .. n : kept[a] = x
  <2>1. PICK k \in 1 .. m : ids[k] = x
    BY <1>1 DEF Range
  <2>2. PICK a \in 1 .. n : e[a] = k
    BY <1>3, <2>1
  <2> QED
    BY <1>3, <2>1, <2>2
<1> QED
  BY <1>5, <1>6, <1>7, <1>8 DEF n, m, DrawnOnce

\* What is delivered follows the plan.
LEMMA InvariantFollowsPlan == PlanIInv => SubsetFollowsPlan
<1> SUFFICES ASSUME PlanIInv, outcome \in {"running", "done"}
             PROVE  /\ IsInjective(delivered)
                    /\ Range(delivered) \subseteq Range(exec.asked) \cap Ids(snapshot.groups)
                    /\ \A i, j \in DOMAIN plan.ids :
                          i < j /\ plan.ids[i] \in Range(exec.asked)
                                /\ plan.ids[j] \in Range(delivered) =>
                              \E a, b \in DOMAIN delivered :
                                 a < b /\ delivered[a] = plan.ids[i] /\ delivered[b] = plan.ids[j]
                    /\ outcome = "done" => Range(delivered) = Range(exec.asked)
  BY DEF SubsetFollowsPlan
<1> DEFINE S == Range(exec.asked)
           n == Len(delivered)
<1>1. Sequence(plan.ids) /\ Sequence(exec.ids) /\ Sequence(delivered)
  BY DEF PlanIInv, PlanWellFormed, ReadWellFormed
<1>2. /\ IsInjective(plan.ids) /\ Range(plan.ids) \subseteq Ids(snapshot.groups)
      /\ S \subseteq Range(plan.ids) /\ Picks(exec.ids, plan.ids, S)
      /\ n <= Len(exec.ids)
      /\ \A i \in 1 .. n : delivered[i] = exec.ids[i]
      /\ outcome = "done" => n = Len(exec.ids)
  BY DEF PlanIInv, ReadFollowsPlan
<1> HIDE DEF S
<1>3. /\ n \in Nat /\ DOMAIN delivered = 1 .. n /\ DOMAIN plan.ids = 1 .. Len(plan.ids)
      /\ Len(exec.ids) \in Nat /\ \A i \in 1 .. n : i \in 1 .. Len(exec.ids)
  BY <1>1, <1>2, SequenceDomain
<1>4. /\ \A a, b \in 1 .. Len(exec.ids) : exec.ids[a] = exec.ids[b] => a = b
      /\ \A a \in 1 .. Len(exec.ids) : exec.ids[a] \in S /\ exec.ids[a] \in Range(plan.ids)
      /\ \A i, j \in 1 .. Len(plan.ids), b \in 1 .. Len(exec.ids) :
            i < j /\ plan.ids[i] \in S /\ exec.ids[b] = plan.ids[j] =>
               \E a \in 1 .. Len(exec.ids) : a < b /\ exec.ids[a] = plan.ids[i]
      /\ \A x \in Range(plan.ids) \cap S : \E a \in 1 .. Len(exec.ids) : exec.ids[a] = x
  <2>1. DrawnOnce(exec.ids, plan.ids, S)
    BY <1>1, <1>2, PickedOnce
  <2> QED
    BY <2>1 DEF DrawnOnce
<1>5. IsInjective(delivered)
  BY <1>2, <1>3, <1>4 DEF IsInjective
<1>6. Range(delivered) \subseteq S \cap Ids(snapshot.groups)
  BY <1>2, <1>3, <1>4 DEF Range
<1>7. ASSUME NEW i \in DOMAIN plan.ids, NEW j \in DOMAIN plan.ids,
             i < j, plan.ids[i] \in S, plan.ids[j] \in Range(delivered)
      PROVE  \E a, b \in DOMAIN delivered :
                a < b /\ delivered[a] = plan.ids[i] /\ delivered[b] = plan.ids[j]
  <2>1. PICK b \in 1 .. n : delivered[b] = plan.ids[j]
    BY <1>3, <1>7 DEF Range
  <2>2. PICK a \in 1 .. Len(exec.ids) : a < b /\ exec.ids[a] = plan.ids[i]
    BY <1>2, <1>3, <1>4, <1>7, <2>1
  <2>3. a \in 1 .. n
    BY <1>3, <2>1, <2>2
  <2>4. delivered[a] = plan.ids[i]
    BY <1>2, <2>2, <2>3
  <2> QED
    BY <1>3, <2>1, <2>2, <2>3, <2>4
<1>8. ASSUME outcome = "done" PROVE Range(delivered) = S
  <2>1. S \subseteq Range(delivered)
    <3> SUFFICES ASSUME NEW x \in S PROVE x \in Range(delivered)
      OBVIOUS
    <3>1. PICK a \in 1 .. Len(exec.ids) : exec.ids[a] = x
      BY <1>2, <1>4
    <3> QED
      BY <1>2, <1>3, <1>8, <3>1 DEF Range
  <2> QED
    BY <1>6, <2>1
<1> QED
  BY <1>5, <1>6, <1>7, <1>8 DEF S

\* No row that is asked for is lost.
LEMMA InvariantLosesNoRow == PlanIInv => PruningLosesNoRow
<1> SUFFICES ASSUME PlanIInv, NEW i \in DOMAIN plan.on, HasRow(plan.on[i], plan.predicates)
             PROVE  /\ plan.on[i].id \in Range(plan.ids)
                    /\ outcome = "done" /\ snapshot.groups = plan.on /\ exec.asked = plan.ids
                       => plan.on[i].id \in Range(delivered)
  BY DEF PruningLosesNoRow, HasRow
<1>1. plan.on[i].id \in Range(plan.ids)
  BY DEF PlanIInv, PlanComplete, HasRow
<1>2. outcome = "done" => Range(delivered) = Range(exec.asked)
  BY InvariantFollowsPlan DEF SubsetFollowsPlan
<1> QED
  BY <1>1, <1>2

\* A part of a sum that fits is within a window that was summed.
LEMMA HeldFits ==
    ASSUME NEW c, NEW a \in Nat, NEW n \in Nat, NEW from \in Nat, NEW to \in Nat,
           a < from, to <= a + n, \A i \in Run(a, n) : c[i] \in Nat,
           NEW limit \in Nat, SumFunctionOnSet(c, Run(a, n)) <= limit
    PROVE  SumFunctionOnSet(c, from .. to) <= limit
<1>1. from .. to \in SUBSET Run(a, n)
  BY DEF Run
<1>2. SumFunctionOnSet(c, from .. to) <= SumFunctionOnSet(c, Run(a, n))
  BY <1>1, InnerRun
<1>3. /\ IsFiniteSet(Run(a, n)) /\ IsFiniteSet(from .. to)
      /\ \A i \in from .. to : c[i] \in Int
  BY <1>1, FS_Interval DEF Run
<1>4. SumFunctionOnSet(c, from .. to) \in Int /\ SumFunctionOnSet(c, Run(a, n)) \in Int
  BY <1>3, SumIsInteger
<1> DEFINE x == SumFunctionOnSet(c, from .. to)
           y == SumFunctionOnSet(c, Run(a, n))
<1>5. x \in Int /\ y \in Int /\ x <= y /\ y <= limit
  BY <1>2, <1>4
<1>6. x <= limit
  <2> HIDE DEF x, y
  <2> QED
    BY <1>5
<1> QED
  BY <1>6

\* The groups a read holds are within a window that was admitted.
LEMMA HeldInWindow ==
    ASSUME PlanIInv, exec.mode # "none", HeldFrom <= exec.launched,
           NEW c, c = Encoded(snapshot.groups, exec.ids, exec.columns),
           NEW d, d = DecodedOf(snapshot.groups, exec.ids, exec.columns)
    PROVE  \E a, n \in Nat : /\ a < HeldFrom /\ exec.launched <= a + n /\ a + n <= Len(exec.ids)
                             /\ RunFits(c, d, a, n)
<1> DEFINE done == Len(delivered)
           total == Len(exec.ids)
           w == exec.window
           l == exec.launched
<1>1. Sequence(exec.ids) /\ Sequence(delivered)
  BY DEF PlanIInv, ReadWellFormed
<1>2. /\ total \in Nat /\ done \in Nat /\ l \in Nat /\ w \in Nat \ {0}
      /\ done <= l /\ l <= total
  BY <1>1, SequenceDomain DEF PlanIInv, ReadInWindow, ReadWellFormed
<1>3. HeldFrom = (IF exec.mode = "owned" THEN 1 ELSE done + 1)
  BY DEF HeldFrom
<1>4. exec.ids # <<>>
  <2>1. l >= 1
    BY <1>2, <1>3
  <2>2. Len(<<>>) = 0
    OBVIOUS
  <2> QED
    BY <1>2, <2>1, <2>2
<1>5. /\ exec.mode = "owned" => AllFits(c, d, total)
      /\ exec.mode = "sliding" => SlidesFit(c, d, total, w)
      /\ exec.mode \in {"visit", "into"} => WavesFit(c, d, total, w)
  BY <1>4 DEF PlanIInv, ReadAdmitted, Admitted
<1>6. /\ exec.mode = "sliding" => l <= done + w
      /\ exec.mode \in {"visit", "into"} => WithinWave(done, l, w)
  BY DEF PlanIInv, ReadInWindow
<1>7. exec.mode \in {"owned", "visit", "into", "sliding"} /\ HeldFrom <= l
  BY DEF PlanIInv, ReadWellFormed, Modes
<1> HIDE DEF done, total, w, l
<1> SUFFICES \E a, n \in Nat : a < HeldFrom /\ l <= a + n /\ a + n <= total /\ RunFits(c, d, a, n)
  BY DEF l, total
<1>8. CASE exec.mode = "owned"
  <2>1. RunFits(c, d, 0, total)
    BY <1>5, <1>8 DEF AllFits
  <2>2. 0 < HeldFrom /\ l <= 0 + total /\ 0 + total <= total
    BY <1>2, <1>3, <1>8
  <2> QED
    BY <1>2, <2>1, <2>2
<1>9. CASE exec.mode = "sliding"
  <2> DEFINE k == IF done + w <= total THEN done
                  ELSE IF w <= total THEN total - w ELSE 0
             n == AtMost(total, w)
  <2>1. /\ n \in Nat /\ k \in Nat /\ k <= done /\ k + n <= total /\ k \in 0 .. total - n
        /\ l <= k + n
    BY <1>2, <1>6, <1>9 DEF AtMost
  <2>2. RunFits(c, d, k, n)
    <3> HIDE DEF k
    <3> QED
      BY <1>5, <1>9, <2>1 DEF SlidesFit
  <2> HIDE DEF k, n
  <2>3. k < HeldFrom
    BY <1>2, <1>3, <1>9, <2>1
  <2> QED
    BY <2>1, <2>2, <2>3
<1>10. CASE exec.mode \in {"visit", "into"}
  <2>1. PICK k \in Nat : k * w <= done /\ l <= k * w + w
    BY <1>6, <1>10 DEF WithinWave
  <2>2. PICK a \in Nat : a = k * w
    BY <1>2
  <2>3. /\ a <= done /\ l <= a + w /\ a < total
    BY <1>2, <1>3, <1>7, <1>10, <2>1, <2>2
  <2> DEFINE n == AtMost(total - a, w)
  <2>4. RunFits(c, d, a, n)
    BY <1>5, <1>10, <2>2, <2>3 DEF WavesFit
  <2>5. n \in Nat /\ a + n <= total /\ l <= a + n
    BY <1>2, <2>3 DEF AtMost
  <2>6. a < HeldFrom
    BY <1>2, <1>3, <1>10, <2>3
  <2> HIDE DEF n
  <2> QED
    BY <2>4, <2>5, <2>6
<1> QED
  BY <1>7, <1>8, <1>9, <1>10

\* What a read holds fits.
LEMMA InvariantReadsFit == PlanIInv => AdmittedReadsFit
<1> SUFFICES ASSUME PlanIInv, exec.mode # "none"
             PROVE  /\ HeldBytes([i \in DOMAIN exec.ids |->
                                    EncodedBytes(Reading(i), exec.columns)]) <= Limits.compressed
                    /\ HeldBytes([i \in DOMAIN exec.ids |->
                                    DecodedBytes(Reading(i), exec.columns)]) <= Limits.decoded
  BY DEF AdmittedReadsFit
<1> DEFINE c == Encoded(snapshot.groups, exec.ids, exec.columns)
           d == DecodedOf(snapshot.groups, exec.ids, exec.columns)
<1>1. /\ c = [i \in DOMAIN exec.ids |-> EncodedBytes(Reading(i), exec.columns)]
      /\ d = [i \in DOMAIN exec.ids |-> DecodedBytes(Reading(i), exec.columns)]
  BY DEF Encoded, DecodedOf, Reading
<1>2. Sequence(exec.ids) /\ Sequence(delivered) /\ exec.launched \in Nat
  BY DEF PlanIInv, ReadWellFormed
<1>3. HeldFrom \in Nat /\ Limits.compressed \in Nat /\ Limits.decoded \in Nat
  BY <1>2, SequenceDomain, LimitsAssumption DEF HeldFrom, LimitsAssumption
<1> HIDE DEF c, d
<1>4. CASE ~(HeldFrom <= exec.launched)
  <2>1. HeldFrom .. exec.launched = {}
    BY <1>2, <1>3, <1>4
  <2>2. /\ SumFunctionOnSet(c, HeldFrom .. exec.launched) = 0
        /\ SumFunctionOnSet(d, HeldFrom .. exec.launched) = 0
    BY <2>1, SumOfNothing
  <2>3. HeldBytes(c) <= Limits.compressed /\ HeldBytes(d) <= Limits.decoded
    BY <1>3, <2>2 DEF HeldBytes
  <2> QED
    BY <1>1, <2>3
<1>5. CASE HeldFrom <= exec.launched
  <2>1. PICK a \in Nat, n \in Nat : /\ a < HeldFrom /\ exec.launched <= a + n
                                    /\ a + n <= Len(exec.ids) /\ RunFits(c, d, a, n)
    BY <1>5, HeldInWindow DEF c, d
  <2>2. Len(exec.ids) \in Nat /\ exec.ids # <<>>
    <3>1. Len(exec.ids) \in Nat
      BY <1>2, SequenceDomain
    <3>2. Len(exec.ids) >= 1 /\ Len(<<>>) = 0
      BY <1>2, <1>3, <1>5, <2>1, <3>1
    <3> QED
      BY <3>1, <3>2
  <2>3. \A i \in 1 .. Len(exec.ids) : c[i] \in Nat /\ d[i] \in Nat
    BY <2>2 DEF PlanIInv, ReadAdmitted, Admitted, c, d
  <2>4. \A i \in Run(a, n) : i \in 1 .. Len(exec.ids)
    BY <2>1, <2>2 DEF Run
  <2>5. \A i \in Run(a, n) : c[i] \in Nat /\ d[i] \in Nat
    BY <2>3, <2>4
  <2>6. SumFunctionOnSet(c, HeldFrom .. exec.launched) <= Limits.compressed
    BY <1>2, <1>3, <2>1, <2>5, HeldFits DEF RunFits
  <2>7. SumFunctionOnSet(d, HeldFrom .. exec.launched) <= Limits.decoded
    BY <1>2, <1>3, <2>1, <2>5, HeldFits DEF RunFits
  <2> QED
    BY <1>1, <2>6, <2>7 DEF HeldBytes
<1> QED
  BY <1>4, <1>5

\* The invariant holds.
THEOREM PlanInvariantHolds == Spec => []PlanIInv
<1> QED
  BY PlanInitKeeps, PlanNextKeeps, PTL DEF Spec

\* Pruning never drops a row group that holds a row which satisfies every predicate
\* of the request, whatever statistics the files have, and a finished read of the
\* whole plan has delivered it.
THEOREM PrunedPlansAreComplete == Spec => []PruningLosesNoRow
<1> QED
  BY PlanInvariantHolds, InvariantLosesNoRow, PTL

\* A read delivers what the caller asked for, in the order of the plan, without gap
\* or repetition, for any file, plan and subset.
THEOREM ReadsFollowPlans == Spec => []SubsetFollowsPlan
<1> QED
  BY PlanInvariantHolds, InvariantFollowsPlan, PTL

\* The row groups any admitted read holds at any moment fit the limits: the windows
\* the admission checks measure are the ones the read can reach.
THEOREM AdmissionBoundsReads == Spec => []AdmittedReadsFit
<1> QED
  BY PlanInvariantHolds, InvariantReadsFit, PTL

=============================================================================
