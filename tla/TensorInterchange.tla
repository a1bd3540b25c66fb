------------------------- MODULE TensorInterchange -------------------------
(* Tensors written to CSV, Parquet and Arrow and read back, with payloads   *)
(* that lose, repeat, exchange or regroup rows in between.  A payload is    *)
(* its metadata and its groups of rows: the one run of records of a CSV     *)
(* text, the row groups of a Parquet file, the record batches of an Arrow   *)
(* file.  The parsers and writers of the three formats are external; text   *)
(* is represented by what it parses to.                                     *)
EXTENDS Integers, Sequences, SequencesExt, Joining

CONSTANTS
    Originals,   \* tensors that are written
    MaxFaults,   \* changes to a payload
    MaxUsize,    \* largest usize
    MaxEntries,  \* largest u32: rows of an Arrow batch
    MaxWidth     \* largest i32: width of an Arrow row

(* An element is an integer here, whatever its dtype.                       *)
ASSUME InterchangeAssumption ==
    /\ Originals \subseteq [dtype : STRING, shape : Seq(Nat), data : Seq(Int)]
    /\ MaxFaults \in Nat /\ MaxUsize \in Nat /\ MaxEntries \in Nat /\ MaxWidth \in Nat

VARIABLES
    original,   \* the tensor
    written,    \* the payload; <<>> before writing
    faults,     \* changes so far
    stripped,   \* the shape metadata was dropped on the way
    decoded     \* the result of reading; <<>> before

interchangeVars == <<original, written, faults, stripped, decoded>>

Success(value) == [err |-> FALSE, value |-> value]
Rejected == [err |-> TRUE, value |-> <<>>]

Overflow == -1
checked_mul(a, b) == IF a = Overflow \/ a * b > MaxUsize THEN Overflow ELSE a * b

(* For each a, the product of the first a dimensions.                       *)
Products(shape) ==
    LET upto[a \in 0..Len(shape)] == IF a = 0 THEN 1 ELSE checked_mul(upto[a - 1], shape[a])
    IN  upto
shape_element_len(shape) == Products(shape)[Len(shape)]
validate_tensor(t) == Len(t.shape) >= 1 /\ shape_element_len(t.shape) = Len(t.data)

(* from_dense: the shape and the values must agree.                         *)
from_dense(dtype, shape, data) ==
    LET t == [dtype |-> dtype, shape |-> shape, data |-> data]
    IN  IF validate_tensor(t) THEN Success(t) ELSE Rejected

Rows(data) == [k \in DOMAIN data |-> [index |-> k - 1, value |-> data[k]]]
Meta(t) == [dtype |-> t.dtype, shape |-> t.shape, order |-> "row-major"]
Written(format, t, width, groups) ==
    Success([format |-> format, meta |-> Meta(t), width |-> width, groups |-> groups])

(* ---- CSV ----------------------------------------------------------------- *)

tensor_to_csv_string(t) ==
    IF validate_tensor(t) THEN Written("csv", t, 1, <<Rows(t.data)>>) ELSE Rejected

Ordered(rows, from) == \A k \in DOMAIN rows : rows[k].index = from + k - 1
Values(rows) == [k \in DOMAIN rows |-> rows[k].value]

tensor_shape_from_string(shape) == IF shape = <<>> THEN Rejected ELSE Success(shape)

(* The metadata record first, then value records that count up from zero    *)
(* and are as many as the shape has elements.                               *)
tensor_from_csv_bytes(p) ==
    LET rows == Flat(p.groups)
    IN  IF \/ tensor_shape_from_string(p.meta.shape).err
           \/ p.meta.order # "row-major"
           \/ shape_element_len(p.meta.shape) = Overflow
           \/ ~Ordered(rows, 0)
           \/ Len(rows) # shape_element_len(p.meta.shape)
        THEN Rejected
        ELSE from_dense(p.meta.dtype, p.meta.shape, Values(rows))

(* ---- Parquet ------------------------------------------------------------- *)

tensor_to_parquet_bytes(t) ==
    IF validate_tensor(t) THEN Written("parquet", t, 1, <<Rows(t.data)>>) ELSE Rejected

parquet_tensor_metadata(p) ==
    IF tensor_shape_from_string(p.meta.shape).err \/ p.meta.order # "row-major"
    THEN Rejected ELSE Success(p.meta)

RestartedIndices(groups) == \A g \in DOMAIN groups : Ordered(groups[g], 0)

(* The flat indices run on from one row group to the next.                  *)
parquet_validate_flat_indices(groups) ==
    \A g \in DOMAIN groups :
       Ordered(groups[g], Len(Joined(groups)[g - 1]))

parquet_read_tensor_column_values(p, expected_len) ==
    IF ~parquet_validate_flat_indices(p.groups) \/ Len(Flat(p.groups)) # expected_len
    THEN Rejected ELSE Success(Values(Flat(p.groups)))

(* num_rows is the file's own count of the rows it holds.                   *)
tensor_from_parquet_bytes(p) ==
    LET expected_len == shape_element_len(p.meta.shape)
        values == parquet_read_tensor_column_values(p, expected_len)
    IN  IF \/ parquet_tensor_metadata(p).err \/ expected_len = Overflow
           \/ Len(Flat(p.groups)) # expected_len \/ values.err
        THEN Rejected
        ELSE from_dense(p.meta.dtype, p.meta.shape, values.value)

(* ---- Arrow --------------------------------------------------------------- *)

arrow_row_width_for_shape(shape) == shape_element_len(Tail(shape))

(* One row per index of the first axis, holding the rest of the tensor.     *)
Slices(t, width) ==
    [r \in 1..t.shape[1] |->
        [index |-> r - 1, value |-> SubSeq(t.data, (r - 1) * width + 1, r * width)]]

tensor_to_arrow_record_batch(t) ==
    LET width == arrow_row_width_for_shape(t.shape)
    IN  IF ~validate_tensor(t) THEN Rejected
        ELSE IF width \in {0, Overflow} \/ t.shape[1] > MaxEntries \/ width > MaxWidth
        THEN Rejected
        ELSE Written("arrow", t, width, <<Slices(t, width)>>)

FlattenedDims(dims, entry_count, list_size) == Success(<<entry_count, list_size>>)

arrow_parse_dim_lens(dims, entry_count, list_size) ==
    IF dims[1] # entry_count \/ shape_element_len(Tail(dims)) # list_size
    THEN Rejected ELSE Success(dims)

arrow_infer_shape(entry_count, list_size) ==
    IF list_size <= 1 THEN Success(<<entry_count>>) ELSE Success(<<entry_count, list_size>>)

(* time_id must be 0, 1, .. in row order; without shape metadata the shape  *)
(* is inferred from the batch itself.                                       *)
tensor_from_arrow_record_batch(p, rows) ==
    LET shape == IF p.meta.shape = <<>> THEN arrow_infer_shape(Len(rows), p.width)
                 ELSE arrow_parse_dim_lens(p.meta.shape, Len(rows), p.width)
    IN  IF ~Ordered(rows, 0) \/ p.width = 0 \/ shape.err THEN Rejected
        ELSE from_dense(p.meta.dtype, shape.value, Flat(Values(rows)))

(* The file must hold exactly one batch.                                    *)
from_arrow_ipc(p) ==
    IF Len(p.groups) # 1 THEN Rejected
    ELSE tensor_from_arrow_record_batch(p, p.groups[1])

(* ---- The machine --------------------------------------------------------- *)

InterchangeInit ==
    /\ original \in Originals
    /\ written = <<>> /\ faults = 0 /\ stripped = FALSE /\ decoded = <<>>

Write ==
    /\ written = <<>>
    /\ \E p \in {tensor_to_csv_string(original), tensor_to_parquet_bytes(original),
                 tensor_to_arrow_record_batch(original)} :
          /\ ~p.err
          /\ written' = p.value
    /\ UNCHANGED <<original, faults, stripped, decoded>>

Changes(groups) ==
    /\ written # <<>> /\ decoded = <<>> /\ faults < MaxFaults
    /\ written' = [written EXCEPT !.groups = groups]
    /\ faults' = faults + 1
    /\ UNCHANGED <<original, stripped, decoded>>

LoseRow ==
    written # <<>> /\ \E g \in DOMAIN written.groups : \E k \in DOMAIN written.groups[g] :
       Changes([written.groups EXCEPT ![g] = RemoveAt(@, k)])

RepeatRow ==
    written # <<>> /\ \E g \in DOMAIN written.groups : \E k \in DOMAIN written.groups[g] :
       Changes([written.groups EXCEPT ![g] = InsertAt(@, k, @[k])])

Exchanged(rows, j, k) == [rows EXCEPT ![j] = rows[k], ![k] = rows[j]]

ExchangeRows ==
    written # <<>> /\ \E g \in DOMAIN written.groups : \E j, k \in DOMAIN written.groups[g] :
       j < k /\ Changes([written.groups EXCEPT ![g] = Exchanged(@, j, k)])

(* A writer in between may cut a group in two; a CSV has no groups.         *)
Regroup ==
    written # <<>> /\ \E g \in DOMAIN written.groups : \E k \in 0..Len(written.groups[g]) :
       /\ written.format # "csv"
       /\ Changes(SubSeq(written.groups, 1, g - 1)
            \o <<SubSeq(written.groups[g], 1, k),
                 SubSeq(written.groups[g], k + 1, Len(written.groups[g]))>>
            \o SubSeq(written.groups, g + 1, Len(written.groups)))

StripShape ==
    /\ written # <<>> /\ decoded = <<>> /\ ~stripped /\ faults < MaxFaults
    /\ written' = [written EXCEPT !.meta.shape = <<>>]
    /\ stripped' = TRUE
    /\ faults' = faults + 1
    /\ UNCHANGED <<original, decoded>>

Decoding(p) ==
    IF p.format = "csv" THEN tensor_from_csv_bytes(p)
    ELSE IF p.format = "parquet" THEN tensor_from_parquet_bytes(p)
    ELSE from_arrow_ipc(p)

Read ==
    /\ written # <<>> /\ decoded = <<>>
    /\ decoded' = Decoding(written)
    /\ UNCHANGED <<original, written, faults, stripped>>

InterchangeNext == Write \/ LoseRow \/ RepeatRow \/ ExchangeRows \/ Regroup \/ StripShape \/ Read

InterchangeSpec == InterchangeInit /\ [][InterchangeNext]_interchangeVars

----------------------------------------------------------------------------
(* What was written is read back unchanged: dtype, shape (empty axes        *)
(* included) and every value.                                               *)
RoundTrips == faults = 0 /\ decoded # <<>> => decoded = Success(original)

(* Rows lost, repeated, exchanged or regrouped on the way never give a      *)
(* different tensor: the payload is refused, or what is read is what was    *)
(* written.  Without its shape metadata only an Arrow file is still read,   *)
(* and then every value read is one that was written, in the same order.    *)
RowFaultsNeverPass ==
    decoded # <<>> /\ ~decoded.err =>
       IF stripped THEN written.format = "arrow" /\ IsPrefix(decoded.value.data, original.data)
       ELSE decoded.value = original
=============================================================================
