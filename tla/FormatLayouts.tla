--------------------------- MODULE FormatLayouts ---------------------------
(* The fields of every object of a column bundle file, in the order they    *)
(* are written and read.  A field has a role: a code of an enumeration, a   *)
(* record count, the parts of a body reference, a reserved word that is      *)
(* written as zero and not kept when read, or a word that stands for one or  *)
(* more fields the codec passes on as they are.                             *)
EXTENDS Integers, Sequences

Field(role) == [role |-> role, kinds |-> {}, required |-> FALSE]
Fields(roles) == [i \in DOMAIN roles |-> Field(roles[i])]
BodyKinds == 0..12
Ref(kinds, required) ==
    <<Field("word"), Field("length"),
      [role |-> "body", kinds |-> kinds, required |-> required], Field("sum")>>

ColumnDesc == Fields(<<"word", "physical", "logical", "word", "dictionary", "word",
                       "nullability", "word", "width">>)
DictionaryDesc == Fields(<<"word", "physical", "dictkind", "word">>) \o Ref({4}, TRUE)
                  \o Fields(<<"word", "word">>)
StatScalar == Fields(<<"scalar", "reserved", "word", "reserved">>)
ColumnStats == Fields(<<"word", "physical", "word">>) \o StatScalar \o StatScalar
RowGroupDesc == Fields(<<"word", "word", "reserved", "word", "reserved">>)
                \o Ref(BodyKinds, FALSE) \o Ref(BodyKinds, FALSE)
ColumnChunkDesc == Fields(<<"word", "physical", "codec", "word">>) \o Ref({7}, TRUE)
                   \o Ref({10}, FALSE) \o Fields(<<"word", "word">>)
OrderingKey == Fields(<<"word", "direction", "nullorder", "word">>)
RowGroupOrderingProof == Fields(<<"word">>) \o Ref({11}, FALSE) \o Ref({11}, FALSE)

BootstrapV1 == Fields(<<"word", "word">>) \o Ref({1}, FALSE) \o Fields(<<"reserved">>)
BootstrapV2 == Fields(<<"word", "word", "reserved", "slot", "slot", "reserved">>)
RootSlot == Fields(<<"slotid", "word", "word">>) \o Ref({1}, FALSE) \o Fields(<<"word">>)
            \o Ref({1}, FALSE) \o Ref({9, 12}, FALSE) \o Fields(<<"word", "word", "reserved">>)
RootV1 == Fields(<<"word", "word", "word", "reserved">>) \o Ref({2}, TRUE) \o Ref({3}, FALSE)
          \o Ref({5}, TRUE) \o Ref({6}, FALSE) \o Ref({9}, FALSE) \o Fields(<<"word", "word">>)
RootV2 == Fields(<<"word", "word", "word">>) \o Ref({1}, FALSE)
          \o Fields(<<"append_base_row", "append_row_count", "append_base_row_group",
                      "append_row_group_count", "row_count", "word", "row_group_count", "word">>)
          \o Ref({2}, TRUE) \o Ref({3}, FALSE) \o Ref({5}, TRUE) \o Ref({6}, FALSE)
          \o Ref({9}, FALSE) \o Ref({11}, FALSE) \o Ref({11}, FALSE) \o Ref({11}, FALSE)
          \o Ref({11}, FALSE) \o Ref({9, 12}, FALSE) \o Fields(<<"word", "word", "reserved">>)
StringTable == Fields(<<"count", "reserved">>)
Schema == Fields(<<"count">>) \o Ref({8}, TRUE) \o Fields(<<"reserved">>)
DictionaryIndex == Fields(<<"count", "reserved">>)
DictionaryValues == Fields(<<"dictkind", "reserved", "count", "width", "bytes", "reserved">>)
RowGroupIndex == Fields(<<"count", "count", "count", "word", "reserved">>)
RowGroupIndexDelta == Fields(<<"word", "count", "count", "count", "count", "reserved",
                               "count", "word", "reserved">>)
OrderingProof == Fields(<<"count", "word", "count", "reserved">>)
ColumnChunk == Fields(<<"physical", "codec", "word", "rows", "value_bytes">>)

Object(magic, version, fixed, header, tables) ==
    [magic |-> magic, version |-> version, fixed |-> fixed, header |-> header, tables |-> tables]
Layout ==
    [bootstrap1 |-> Object(1, 1, TRUE, BootstrapV1, <<>>),
     bootstrap2 |-> Object(2, 2, TRUE, BootstrapV2, <<>>),
     root1 |-> Object(3, 1, TRUE, RootV1, <<>>),
     root2 |-> Object(4, 2, TRUE, RootV2, <<>>),
     slot |-> Object(5, 2, TRUE, RootSlot, <<>>),
     schema |-> Object(6, 1, FALSE, Schema, <<ColumnDesc>>),
     strings |-> Object(7, 1, FALSE, StringTable, <<>>),
     dictionaries |-> Object(8, 1, FALSE, DictionaryIndex, <<DictionaryDesc>>),
     values |-> Object(9, 1, FALSE, DictionaryValues, <<>>),
     groups |-> Object(10, 1, FALSE, RowGroupIndex,
                       <<RowGroupDesc, ColumnChunkDesc, ColumnStats>>),
     delta |-> Object(11, 1, FALSE, RowGroupIndexDelta,
                      <<RowGroupDesc, ColumnChunkDesc, ColumnStats, OrderingKey,
                        RowGroupOrderingProof>>),
     ordering |-> Object(12, 1, FALSE, OrderingProof, <<OrderingKey, RowGroupOrderingProof>>),
     chunk |-> Object(13, 1, FALSE, ColumnChunk, <<>>)]
=============================================================================
