--------------------------- MODULE Certification ---------------------------
(***************************************************************************)
(* Certifying a channel-sharded compact-L2 artifact: the manifest's own     *)
(* invariants (manifest.rs), the two certifiers (certification.rs), one for *)
(* files of 168-byte payload records and one for files split into           *)
(* physical-v2 lanes, and the conversions between a record and its lanes    *)
(* (compact_l2.rs).  How an artifact's path becomes a handle, and its       *)
(* hashes, are in ManifestBinding; reading the row groups in RowGroupRead.  *)
(*                                                                          *)
(* A payload record is [day, channel, biz, nano, ordinal, kind, body,       *)
(* envelope]: body says that the bytes the lanes keep (source family,       *)
(* exchange, variant padding) are legal, envelope that the bytes they drop  *)
(* (magic, version, lengths, reserved bytes) are.  A row of lanes is the    *)
(* same record without envelope.                                            *)
(***************************************************************************)
EXTENDS Integers, Sequences, FiniteSets, SequencesExt, Joining

CONSTANTS
    Manifest,       \* the manifest as it was published
    Payloads,       \* channel index -> [groups, width, nullable]
    Width,          \* bytes of a payload record
    MaxKey,         \* largest u64
    MaxChannel,     \* largest i32
    GroupRows,      \* rows whose payload fits max_projected_row_group_bytes
    RowCaps,        \* values of max_rows
    Absent,
    MaxEdits        \* bound on edits

MaybeInt == Int \cup {Absent}
Kinds == {"order", "trade"}
PrefixScopes == {"full-day", "contiguous-prefix"}

(* The fields of a manifest, and of a payload record; the last of each set  *)
(* of names stands for every other one.                                     *)
Formats == {"fixed-binary-v1", "physical-v2", "other"}
Scopes == PrefixScopes \cup {"declared-subset", "none"}
ChannelEntries ==
    [id : Int, rows : Int, groups : Int, first : Int, last : Int,
     orders : MaybeInt, trades : MaybeInt, least : MaybeInt, greatest : MaybeInt]
Counts == [channels : MaybeInt, rows : MaybeInt, orders : MaybeInt, trades : MaybeInt]
Manifests ==
    [version : Int, day : Int, format : Formats, width : MaybeInt,
     indivisible : BOOLEAN \cup {Absent}, claims : BOOLEAN, scope : Scopes,
     counts : Counts, channels : Seq(ChannelEntries)]
RowKinds == Kinds \cup {"other"}
PayloadRows ==
    [day : Int, channel : Int, biz : Int, nano : Int, ordinal : Int, kind : RowKinds,
     body : BOOLEAN, envelope : BOOLEAN]
PayloadFiles == [groups : Seq(Seq(PayloadRows)), width : Int, nullable : BOOLEAN]

(* What is published has the types of the format, and a file for each of    *)
(* its channels, of which there is one.                                     *)
ASSUME CertificationAssumption ==
    /\ MaxEdits \in Nat /\ GroupRows \in Nat /\ MaxKey \in Nat /\ MaxChannel \in Nat
    /\ Width \in Nat
    /\ Absent \notin Int /\ Absent \notin BOOLEAN /\ Absent \notin Seq(PayloadRows)
    /\ RowCaps \subseteq Nat \cup {Absent}
    /\ Manifest \in Manifests
    /\ Payloads \in Seq(PayloadFiles)
    /\ Len(Payloads) = Len(Manifest.channels) /\ Len(Payloads) > 0

VARIABLES
    manifest,  \* the manifest as it is read
    payload,   \* the payload files
    lanes,     \* the physical-v2 files, or Absent before the split
    edits,
    run        \* the last certification: [how, options, result]

certifyVars == <<manifest, payload, lanes, edits, run>>

Ok(value) == [ok |-> TRUE, value |-> value]
Err(kind) == [ok |-> FALSE, kind |-> kind]
NoRun == [how |-> "none", options |-> Absent, result |-> Err("none")]

Sum(seq) == FoldLeft(LAMBDA a, b : a + b, 0, seq)
Given(expected, holds) == expected = Absent \/ holds
Unless(holds, kind) == IF holds THEN "none" ELSE kind
(* The first fault that is one is the error: faults are "none" or a kind.   *)
FirstFailure(faults) ==
    LET failed == {i \in DOMAIN faults : faults[i] # "none"} IN
    IF failed = {} THEN "none" ELSE faults[CHOOSE i \in failed : \A j \in failed : i <= j]
Worst(fault, later) == IF fault # "none" THEN fault ELSE later

-----------------------------------------------------------------------------
(* The manifest on its own. *)

Span(entry) == entry.last - entry.first + 1

validate_manifest_only(entry, scope) ==
    /\ entry.id # 0
    /\ entry.rows # 0
    /\ entry.first >= 1 /\ entry.last >= entry.first
    /\ scope \in PrefixScopes => entry.first = 1
    /\ Span(entry) <= MaxKey
    /\ IF scope = "declared-subset" THEN entry.rows <= Span(entry) ELSE entry.rows = Span(entry)
    /\ entry.orders # Absent /\ entry.trades # Absent => entry.orders + entry.trades = entry.rows

(* Option-valued counts that are absent add nothing to the aggregate. *)
Counted(value) == IF value = Absent THEN 0 ELSE value
RowTotal(m) == Sum([i \in DOMAIN m.channels |-> m.channels[i].rows])

validate(m) ==
    IF m.version # 1 THEN "UnsupportedSchemaVersion"
    ELSE IF /\ m.day # 0
            /\ m.format \in {"fixed-binary-v1", "physical-v2"}
            /\ m.indivisible # FALSE
            /\ ~m.claims
            /\ m.channels # <<>>
            /\ Given(m.counts.channels, m.counts.channels = Len(m.channels))
            /\ \A i \in DOMAIN m.channels :
                 /\ validate_manifest_only(m.channels[i], m.scope)
                 /\ i > 1 => m.channels[i].id > m.channels[i - 1].id
            /\ RowTotal(m) <= MaxKey
            /\ Given(m.counts.rows, m.counts.rows = RowTotal(m))
            /\ Given(m.counts.orders,
                     m.counts.orders = Sum([i \in DOMAIN m.channels |-> Counted(m.channels[i].orders)]))
            /\ Given(m.counts.trades,
                     m.counts.trades = Sum([i \in DOMAIN m.channels |-> Counted(m.channels[i].trades)]))
    THEN "none" ELSE "InvalidManifest"

-----------------------------------------------------------------------------
(* Records and lanes. *)

decode_header(record) ==
    /\ record.envelope
    /\ record.kind \in Kinds
    /\ record.body
    /\ record.day # 0 /\ record.channel > 0 /\ record.biz > 0

(* from_fixed_binary_v1, and the row of lanes its caller writes. *)
from_fixed_binary_v1(record) ==
    [day |-> record.day, channel |-> record.channel, biz |-> record.biz, nano |-> record.nano,
     ordinal |-> record.ordinal, kind |-> record.kind, body |-> record.body]

(* write_fixed_binary_v1_payload_unchecked: the narrowing of the day key,   *)
(* the channel and the ordinal, then the header decoded as written. *)
Rebuilt(row) ==
    [day |-> row.day, channel |-> row.channel, biz |-> row.biz, nano |-> row.nano,
     ordinal |-> row.ordinal, kind |-> row.kind, body |-> row.body, envelope |-> TRUE]
Rebuilds(row) ==
    /\ row.day >= 0
    /\ row.channel \in (-MaxChannel)..MaxChannel
    /\ row.ordinal >= 0
    /\ decode_header(Rebuilt(row))

(* The rows of a file.                                                      *)
RowsOf(file) == Flat(file.groups)
RowCount(file) == Len(RowsOf(file))
CountOf(rows, kind) == Cardinality({i \in DOMAIN rows : rows[i].kind = kind})
Times(rows) == {rows[i].nano : i \in DOMAIN rows}

(* What a scan has gathered when every row passed. *)
Scanned(rows) ==
    [rows |-> Len(rows), orders |-> CountOf(rows, "order"), trades |-> CountOf(rows, "trade"),
     first |-> IF rows = <<>> THEN Absent ELSE rows[1].biz,
     last |-> IF rows = <<>> THEN Absent ELSE rows[Len(rows)].biz,
     least |-> IF rows = <<>> THEN Absent ELSE Min(Times(rows)),
     greatest |-> IF rows = <<>> THEN Absent ELSE Max(Times(rows))]

(* Fault: a key ahead of the expected one is let through. *)
OrderAlone(observed, expected) ==
    IF observed >= expected THEN "none"
    ELSE IF expected - observed = 1 THEN "BizIndexDuplicate" ELSE "BizIndexRegression"

(* The comparison both scans make between a key and the one they expect. *)
KeyFault(observed, expected) ==
    IF observed = expected THEN "none"
    ELSE IF observed > expected THEN "BizIndexGap"
    ELSE IF expected - observed = 1 THEN "BizIndexDuplicate" ELSE "BizIndexRegression"

-----------------------------------------------------------------------------
(* The payload-record certifier. *)

(* Row i is checked against the key that follows the rows before it. *)
scan_payload_headers(rows, entry, day) ==
    LET fault == [i \in DOMAIN rows |-> FirstFailure(<<
            Unless(decode_header(rows[i]), "PayloadHeaderMismatch"),
            Unless(rows[i].day = day, "PayloadHeaderMismatch"),
            Unless(rows[i].channel = entry.id, "ChannelIdMismatch"),
            KeyFault(rows[i].biz, entry.first + i - 1),
            Unless(rows[i].biz <= entry.last, "BizIndexGap"),
            Unless(entry.first + i <= MaxKey, "BizIndexGap") >>)]
    IN  Worst(FirstFailure(fault),
              Unless(entry.first + Len(rows) = entry.last + 1, "BizIndexGap"))

(* Without verify_payload_header the scan state is what the manifest says,  *)
(* with no receive times and no record counts. *)
Assumed(entry) ==
    [rows |-> entry.rows, orders |-> 0, trades |-> 0, first |-> entry.first, last |-> entry.last,
     least |-> Absent, greatest |-> Absent]

certify_channel_artifact(file, entry, day, options) ==
    LET fault == FirstFailure(<<
            Unless(RowCount(file) = entry.rows, "RowCountMismatch"),
            Unless(entry.groups \in {0, Len(file.groups)}, "RowCountMismatch"),
            Unless(file.width = Width, "FixedBinaryWidthMismatch"),
            Unless(~file.nullable, "PayloadHeaderMismatch") >>)
        scanned == IF options.header THEN scan_payload_headers(RowsOf(file), entry, day) ELSE "none"
        state == IF options.header THEN Scanned(RowsOf(file)) ELSE Assumed(entry)
        last == FirstFailure(<<
            Unless(state.rows = entry.rows, "RowCountMismatch"),
            Unless(state.first = entry.first /\ state.last = entry.last, "BizIndexGap"),
            Unless(Given(entry.least, state.least = entry.least), "PayloadHeaderMismatch"),
            Unless(Given(entry.greatest, state.greatest = entry.greatest), "PayloadHeaderMismatch"),
            Unless(Given(entry.orders, state.orders = entry.orders), "RowCountMismatch"),
            Unless(Given(entry.trades, state.trades = entry.trades), "RowCountMismatch") >>)
    IN  Worst(Worst(fault, scanned), last)

(* The checks both manifest certifiers make before they open an artifact. *)
Admitted(m, format, options) ==
    Worst(validate(m), FirstFailure(<<
        Unless(m.format = format, "UnsupportedFormat"),
        Unless(Given(m.width, m.width = Width), "FixedBinaryWidthMismatch"),
        Unless(Given(options.max, RowTotal(m) <= options.max), "RowCountMismatch") >>))

(* The channels in manifest order, the first failure ending the call. *)
Certified(m, admitted, fault) ==
    LET first == Worst(admitted, FirstFailure(fault)) IN
    IF first # "none" THEN Err(first)
    ELSE Ok([channels |-> Len(m.channels), rows |-> RowTotal(m)])

certify_channel_sharded_artifact_v1(m, files, options) ==
    LET fault == [i \in DOMAIN m.channels |->
                    certify_channel_artifact(files[i], m.channels[i], m.day, options)]
    IN  Certified(m, Admitted(m, "fixed-binary-v1", options), fault)

-----------------------------------------------------------------------------
(* The physical-v2 certifier. *)

(* expect: [rows, day, channel, first, last, hash, max], each maybe Absent. *)
certify_physical_v2_row_group_summaries(file) ==
    FirstFailure(<<
        Unless(file.columns, "InvalidManifest"),
        Unless(~file.nullable, "PayloadHeaderMismatch"),
        Unless(file.typed, "FixedBinaryWidthMismatch") >>)

(* The row at index i of the file, in whichever row group it lies. *)
scan_row(rows, expect, i) ==
    LET expected == IF i > 1 THEN rows[i - 1].biz + 1
                    ELSE IF expect.first = Absent THEN rows[1].biz ELSE expect.first
    IN  FirstFailure(<<
        Unless(rows[i].day >= 0, "PayloadHeaderMismatch"),
        Unless(Given(expect.day, rows[i].day = expect.day), "PayloadHeaderMismatch"),
        Unless(rows[i].channel >= 0, "ChannelIdMismatch"),
        Unless(Given(expect.channel, rows[i].channel = expect.channel), "ChannelIdMismatch"),
        Unless(rows[i].biz >= 0, "PayloadHeaderMismatch"),
        KeyFault(rows[i].biz, expected),
        Unless(rows[i].biz < MaxKey, "BizIndexGap"),
        Unless(rows[i].kind \in Kinds, "PayloadHeaderMismatch") >>)

(* Row indexes of row group g. *)
IndexesOf(file, g) ==
    LET upto == Joined(file.groups) IN (Len(upto[g - 1]) + 1)..Len(upto[g])

(* The view over a batch asks for every lane by name and type again. *)
from_column_batch(file) ==
    FirstFailure(<< Unless(file.columns, "PayloadHeaderMismatch"),
                    Unless(file.typed, "FixedBinaryWidthMismatch") >>)

(* The payload of a rebuilt batch against the projected row-group limit. *)
FitsReconstruction(rows) == Len(rows) <= GroupRows

(* One batch: its view, its scan, then the reconstruction of its legacy records. *)
BatchFault(file, g, options, expect) ==
    LET scanned == [i \in IndexesOf(file, g) |-> scan_row(RowsOf(file), expect, i)]
        rebuilt == [i \in IndexesOf(file, g) |->
                       Unless(Rebuilds(RowsOf(file)[i]), "PayloadHeaderMismatch")]
    IN  Worst(from_column_batch(file),
        Worst(IF options.scalar THEN FirstFailure(scanned) ELSE "none",
              IF ~options.legacy THEN "none"
              ELSE Worst(Unless(FitsReconstruction(file.groups[g]), "InvalidInput"),
                         FirstFailure(rebuilt))))

LegacyRows(file) == [i \in DOMAIN RowsOf(file) |-> Rebuilt(RowsOf(file)[i])]

certify_compact_l2_physical_v2_file(file, options, expect) ==
    LET before == FirstFailure(<<
            Unless(Given(expect.rows, RowCount(file) = expect.rows), "RowCountMismatch"),
            Unless(Given(expect.max, RowCount(file) <= expect.max), "RowCountMismatch") >>)
        batches == [g \in DOMAIN file.groups |-> BatchFault(file, g, options, expect)]
        state == IF options.scalar THEN Scanned(RowsOf(file))
                 ELSE [first |-> Absent, last |-> Absent]
        after == FirstFailure(<<
            Unless(Given(expect.first, state.first = expect.first), "BizIndexGap"),
            Unless(Given(expect.last, state.last = expect.last), "BizIndexGap"),
            Unless(options.legacy => Given(expect.hash, LegacyRows(file) = expect.hash),
                   "ChecksumMismatch") >>)
    IN  Worst(Worst(Worst(before, certify_physical_v2_row_group_summaries(file)),
                    FirstFailure(batches)), after)

(* Fault: the channel's key range is not handed to the file certifier. *)
RangeNotExpected(m, entry, options) ==
    [rows |-> entry.rows, max |-> entry.rows, hash |-> Absent, first |-> Absent, last |-> Absent,
     day |-> IF options.scalar THEN m.day ELSE Absent,
     channel |-> IF options.scalar THEN entry.id ELSE Absent]

(* What the manifest certifier expects of a channel's file. *)
ExpectedOf(m, entry, options) ==
    [rows |-> entry.rows, max |-> entry.rows, hash |-> Absent,
     day |-> IF options.scalar THEN m.day ELSE Absent,
     channel |-> IF options.scalar THEN entry.id ELSE Absent,
     first |-> IF options.scalar THEN entry.first ELSE Absent,
     last |-> IF options.scalar THEN entry.last ELSE Absent]

certify_physical_v2_channel_artifact(file, m, entry, options) ==
    LET state == Scanned(RowsOf(file))
        last == FirstFailure(<<
            Unless(entry.groups \in {0, Len(file.groups)}, "RowCountMismatch"),
            Unless(options.scalar => Given(entry.least, state.least = entry.least),
                   "PayloadHeaderMismatch"),
            Unless(options.scalar => Given(entry.greatest, state.greatest = entry.greatest),
                   "PayloadHeaderMismatch"),
            Unless(options.scalar => Given(entry.orders, state.orders = entry.orders),
                   "RowCountMismatch"),
            Unless(options.scalar => Given(entry.trades, state.trades = entry.trades),
                   "RowCountMismatch") >>)
    IN  Worst(certify_compact_l2_physical_v2_file(file, options, ExpectedOf(m, entry, options)), last)

certify_compact_l2_physical_v2_manifest(m, files, options) ==
    LET fault == [i \in DOMAIN m.channels |->
                    certify_physical_v2_channel_artifact(files[i], m, m.channels[i], options)]
    IN  Certified(m, Admitted(m, "physical-v2", options), fault)

-----------------------------------------------------------------------------
(* Edits: a tool that writes, splits or republishes the files goes wrong.   *)

CertifyInit ==
    /\ manifest = Manifest /\ payload = Payloads /\ lanes = Absent
    /\ edits = 0 /\ run = NoRun

Editing == edits < MaxEdits /\ run = NoRun
Edited == edits' = edits + 1

(* A field altered: in a payload record, or in a row of lanes once split,   *)
(* whose integers are signed and wider than the record's.                   *)
FieldEdits(row, split) ==
    {[row EXCEPT !.day = d] : d \in {0, row.day + 1}}
    \cup {[row EXCEPT !.channel = c] : c \in {0, row.channel + 1}}
    \cup {[row EXCEPT !.biz = b] : b \in {row.biz - 1, row.biz + 1}}
    \cup {[row EXCEPT !.nano = row.nano + 1], [row EXCEPT !.body = FALSE]}
    \cup {[row EXCEPT !.kind = k] : k \in {"trade", "other"}}
    \cup IF split
         THEN {[row EXCEPT !.day = -1], [row EXCEPT !.ordinal = -1],
               [row EXCEPT !.channel = MaxChannel + 1]}
         ELSE {[row EXCEPT !.envelope = FALSE]}

(* A row lost, repeated, exchanged with the next one or altered.            *)
RowEdits(rows, split) ==
    {RemoveAt(rows, i) : i \in DOMAIN rows}
    \cup {InsertAt(rows, i, rows[i]) : i \in DOMAIN rows}
    \cup {[rows EXCEPT ![i] = rows[i + 1], ![i + 1] = rows[i]] : i \in 1..(Len(rows) - 1)}
    \cup UNION {{[rows EXCEPT ![i] = row] : row \in FieldEdits(rows[i], split)} : i \in DOMAIN rows}

(* A file's groups with one group's rows edited, or all rows in one group.  *)
GroupEdits(groups, split) ==
    {<<RowsOf([groups |-> groups])>>}
    \cup UNION {{[groups EXCEPT ![g] = rows] : rows \in RowEdits(groups[g], split)} : g \in DOMAIN groups}

EditPayload ==
    /\ Editing /\ lanes = Absent
    /\ \E i \in DOMAIN payload :
         payload' \in {[payload EXCEPT ![i].groups = groups] :
                           groups \in GroupEdits(payload[i].groups, FALSE)}
                      \cup {[payload EXCEPT ![i].width = Width + 1],
                            [payload EXCEPT ![i].nullable = TRUE]}
    /\ Edited /\ UNCHANGED <<manifest, lanes, run>>

EditLanes ==
    /\ Editing /\ lanes # Absent
    /\ \E i \in DOMAIN lanes :
         lanes' \in {[lanes EXCEPT ![i].groups = groups] :
                         groups \in GroupEdits(lanes[i].groups, TRUE)}
                    \cup {[lanes EXCEPT ![i].columns = FALSE], [lanes EXCEPT ![i].typed = FALSE],
                          [lanes EXCEPT ![i].nullable = TRUE]}
    /\ Edited /\ UNCHANGED <<manifest, payload, run>>

EntryEdits(entry) ==
    {[entry EXCEPT !.id = v] : v \in {0, entry.id + 1}}
    \cup {[entry EXCEPT !.rows = v] : v \in {entry.rows - 1, entry.rows + 1}}
    \cup {[entry EXCEPT !.first = v] : v \in {entry.first - 1, entry.first + 1}}
    \cup {[entry EXCEPT !.last = v] : v \in {entry.last - 1, entry.last + 1}}
    \cup {[entry EXCEPT !.groups = v] : v \in {0, entry.groups + 1}}
    \cup {[entry EXCEPT !.orders = v] : v \in {Absent, 0}}
    \cup {[entry EXCEPT !.trades = Absent], [entry EXCEPT !.least = Absent],
          [entry EXCEPT !.greatest = 0]}

EditManifest ==
    /\ Editing
    /\ \/ \E i \in DOMAIN manifest.channels : \E entry \in EntryEdits(manifest.channels[i]) :
            manifest' = [manifest EXCEPT !.channels[i] = entry]
       \/ manifest' \in
            {[manifest EXCEPT !.version = 2], [manifest EXCEPT !.day = 0],
             [manifest EXCEPT !.format = "other"], [manifest EXCEPT !.format = "physical-v2"],
             [manifest EXCEPT !.indivisible = FALSE], [manifest EXCEPT !.claims = TRUE],
             [manifest EXCEPT !.width = Absent], [manifest EXCEPT !.width = Width + 1],
             [manifest EXCEPT !.scope = "declared-subset"], [manifest EXCEPT !.scope = "full-day"],
             [manifest EXCEPT !.counts.channels = 0], [manifest EXCEPT !.counts.rows = Absent],
             [manifest EXCEPT !.counts.orders = 0], [manifest EXCEPT !.counts.trades = Absent]}
    /\ Edited /\ UNCHANGED <<payload, lanes, run>>

(* Every record is split; one that does not decode ends the conversion. *)
Split ==
    /\ lanes = Absent /\ run = NoRun
    /\ \A i \in DOMAIN payload : \A j \in DOMAIN RowsOf(payload[i]) :
         decode_header(RowsOf(payload[i])[j])
    /\ lanes' = [i \in DOMAIN payload |->
         [groups |-> [g \in DOMAIN payload[i].groups |->
                        [j \in DOMAIN payload[i].groups[g] |->
                           from_fixed_binary_v1(payload[i].groups[g][j])]],
          columns |-> TRUE, typed |-> TRUE, nullable |-> FALSE]]
    /\ UNCHANGED <<manifest, payload, edits, run>>

CertifyPayload ==
    /\ run = NoRun
    /\ \E header \in BOOLEAN, max \in RowCaps :
         LET options == [header |-> header, max |-> max] IN
         run' = [how |-> "payload", options |-> options,
                 result |-> certify_channel_sharded_artifact_v1(manifest, payload, options)]
    /\ UNCHANGED <<manifest, payload, lanes, edits>>

CertifyLanes ==
    /\ run = NoRun /\ lanes # Absent
    /\ \E scalar, legacy \in BOOLEAN, max \in RowCaps :
         LET options == [scalar |-> scalar, legacy |-> legacy, max |-> max]
             published == IF manifest.format = "fixed-binary-v1"
                          THEN [manifest EXCEPT !.format = "physical-v2"] ELSE manifest
         IN
         run' = [how |-> "lanes", options |-> options,
                 result |-> certify_compact_l2_physical_v2_manifest(published, lanes, options)]
    /\ UNCHANGED <<manifest, payload, lanes, edits>>

(* One file on its own, against nothing but the hash of the legacy records. *)
NoExpectation ==
    [rows |-> Absent, day |-> Absent, channel |-> Absent, first |-> Absent, last |-> Absent,
     hash |-> Absent, max |-> Absent]

CertifyFile ==
    /\ run = NoRun /\ lanes # Absent
    /\ \E scalar \in BOOLEAN :
         LET options == [scalar |-> scalar, legacy |-> TRUE]
             fault == certify_compact_l2_physical_v2_file(lanes[1], options,
                          [NoExpectation EXCEPT !.hash = RowsOf(payload[1])])
         IN
         run' = [how |-> "file", options |-> options,
                 result |-> IF fault = "none" THEN Ok(RowCount(lanes[1])) ELSE Err(fault)]
    /\ UNCHANGED <<manifest, payload, lanes, edits>>

CertifyNext == EditPayload \/ EditLanes \/ EditManifest \/ Split
        \/ CertifyPayload \/ CertifyLanes \/ CertifyFile

CertifySpec == CertifyInit /\ [][CertifyNext]_certifyVars

-----------------------------------------------------------------------------
(* The rows of one channel are the rows of this channel and day, whose keys *)
(* are first..last, each once and in order, with the counts and the receive *)
(* times the manifest states. *)
Tiles(rows, entry, day) ==
    /\ Len(rows) = entry.rows
    /\ {rows[i].biz : i \in DOMAIN rows} = entry.first..entry.last
    /\ Cardinality(entry.first..entry.last) = Len(rows)
    /\ \A i, j \in DOMAIN rows : i < j => rows[i].biz < rows[j].biz
    /\ \A i \in DOMAIN rows : rows[i].day = day /\ rows[i].channel = entry.id
    /\ Given(entry.orders, entry.orders = Cardinality({i \in DOMAIN rows : rows[i].kind = "order"}))
    /\ Given(entry.trades, entry.trades = Cardinality({i \in DOMAIN rows : rows[i].kind = "trade"}))
    /\ LET times == {rows[i].nano : i \in DOMAIN rows} IN
       /\ Given(entry.least, entry.least \in times /\ \A n \in times : entry.least <= n)
       /\ Given(entry.greatest, entry.greatest \in times /\ \A n \in times : n <= entry.greatest)

(* A certified artifact holds what its manifest promises: with the header   *)
(* or scalar scan on, every channel's file is exactly the declared run of   *)
(* keys, whatever rows were lost, repeated, exchanged or altered, and the   *)
(* report's total is the number of rows in the files.  Two lists of checks, *)
(* several hundred lines apart, have to be complete for this. *)
CertifiedMeansTiled ==
    LET files == IF run.how = "payload" THEN payload ELSE lanes
        scanned == \/ run.how = "payload" /\ run.options.header
                   \/ run.how = "lanes" /\ run.options.scalar
    IN
    run.how \in {"payload", "lanes"} /\ run.result.ok =>
        /\ run.result.value.rows = Sum([i \in DOMAIN files |-> RowCount(files[i])])
        /\ scanned => \A i \in DOMAIN manifest.channels :
                         Tiles(RowsOf(files[i]), manifest.channels[i], manifest.day)

Legacy(file) ==
    [groups |-> [g \in DOMAIN file.groups |->
                   [j \in DOMAIN file.groups[g] |-> Rebuilt(file.groups[g][j])]],
     width |-> Width, nullable |-> FALSE]
(* A run of the lane certifier that checks as much as the other one can. *)
Comparable ==
    /\ run.how = "lanes" /\ run.options.scalar /\ run.options.legacy
    /\ manifest.format = "fixed-binary-v1"
    /\ \A i \in DOMAIN lanes :
         /\ lanes[i].columns /\ lanes[i].typed /\ ~lanes[i].nullable
         /\ \A g \in DOMAIN lanes[i].groups : FitsReconstruction(lanes[i].groups[g])
PayloadsCertify ==
    /\ \A i \in DOMAIN lanes : \A j \in DOMAIN RowsOf(lanes[i]) : Rebuilds(RowsOf(lanes[i])[j])
    /\ certify_channel_sharded_artifact_v1(manifest, [i \in DOMAIN lanes |-> Legacy(lanes[i])],
                                           [header |-> TRUE, max |-> run.options.max]).ok
(* The two certifiers agree: lanes certified with their legacy records      *)
(* rebuilt are exactly the ones whose rebuilt payload files certify, and a  *)
(* file whose rebuilt hash matches has lost no byte of the payload (the     *)
(* reconstruction limit aside, which only the lane certifier has). *)
LayoutsAgree ==
    /\ Comparable => run.result.ok = PayloadsCertify
    /\ run.how = "file" /\ run.result.ok =>
         RowsOf(lanes[1]) = [j \in DOMAIN RowsOf(payload[1]) |->
                               from_fixed_binary_v1(RowsOf(payload[1])[j])]
=============================================================================
