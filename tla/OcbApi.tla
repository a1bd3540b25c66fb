------------------------------- MODULE OcbApi -------------------------------
(* The functions of the OCB wrapper as scripts of NativeSteps: opening and  *)
(* reading a column bundle, read plans and parallel read sessions, writing, *)
(* maintenance and manifests.                                               *)
EXTENDS NativeSteps

LOCAL INSTANCE TensorFileApi

(* ---- Requests: what the caller's values are checked for ------------------ *)

validate_write_spec ==
    <<Check("fixed-binary columns"), Check("fixed-binary chunks")>>
RawWriteSpec ==
    <<Check("column names"), Check("dictionary names")>> \o validate_write_spec
RawReadRequest == <<Check("projection names"), Check("predicate columns")>>
RawFillRequest == <<Check("buffers"), Check("fill columns")>>
RawManifestBuildOptions == <<Check("generated by")>>
RawManifest ==
    <<Check("schema and tool"), Check("entry strings"), Check("issue strings")>>
ensure_plan_belongs_to_file == <<Check("plan of this file")>>

(* ---- Conversions of native outputs --------------------------------------- *)

(* A conversion refuses a null where data is due, a count that does not fit *)
(* or match, text that is not UTF-8 and values outside the contract.  It    *)
(* borrows the guarded output and copies what it returns.                   *)
metadata_from_raw == <<CopyOut({"metadata"})>>
dictionary_values_from_raw == <<CopyOut({"dictionary"})>>
row_group_summaries_from_raw == <<CopyOut({"summaries"})>>
column_batch_from_raw == <<CopyOut({"batch"})>>
read_outcome_from_raw == <<CopyOut({"outcome"})>>
read_attribution_from_raw == <<CopyOut({"attribution"})>>
read_cursor_report_from_raw == <<CopyOut({"cursor report"})>>
read_report_from_raw == <<CopyOut({"read report"})>>
parallel_read_report_from_raw == <<CopyOut({"parallel report"})>>
certification_report_from_raw == <<CopyOut({"certification"})>>
maintenance_report_from_raw == <<CopyOut({"maintenance"})>>
cleanup_report_from_raw == <<CopyOut({"cleanup"})>>
snapshot_export_report_from_raw == <<CopyOut({"export"})>>
manifest_from_raw == <<CopyOut({"manifest"})>>
manifest_validation_report_from_raw == <<CopyOut({"validation"})>>

(* Reports that own nothing are plain locals.                               *)
read_fill_report_from_raw == <<Decode("fill report")>>

(* The guard of an output is built right after the native call, so it also  *)
(* releases what a failed call left.                                        *)
GuardedCall(step, outs, from_raw) == <<Hold(outs), step, Raise>> \o from_raw

(* A handle that is returned when the call succeeded; a null handle reads   *)
(* the last error like a failed status.                                     *)
Handle(step, owner) == <<Hold({owner}), step, Raise, Give({owner})>>

(* ---- Opening -------------------------------------------------------------- *)

open_with_options ==
    <<Gate>> \o path_to_cstring
    \o Handle(Call("ocb_open_with_options", {"column bundle"}), "column bundle")
open_with_options_and_resource_limits ==
    <<Gate>> \o path_to_cstring
    \o Handle(Call("ocb_open_with_options_and_resource_limits", {"column bundle"}),
              "column bundle")
clone_reader == Handle(Call("ocb_reader_clone", {"column bundle"}), "column bundle")

(* ---- Reading -------------------------------------------------------------- *)

metadata == GuardedCall(Call("ocb_metadata", {"metadata"}), {"metadata"},
                        metadata_from_raw)
dictionary_values ==
    GuardedCall(Call("ocb_dictionary_values", {"dictionary"}), {"dictionary"},
                dictionary_values_from_raw)
row_group_summaries ==
    GuardedCall(Call("ocb_row_group_summaries", {"summaries"}), {"summaries"},
                row_group_summaries_from_raw)
read_plan_row_group_summaries ==
    GuardedCall(Call("ocb_read_plan_row_group_summaries", {"summaries"}),
                {"summaries"}, row_group_summaries_from_raw)
read_batches ==
    RawReadRequest
    \o GuardedCall(Call("ocb_read_batches", {"outcome"}), {"outcome"},
                   read_outcome_from_raw)
read_batches_with_attribution ==
    RawReadRequest
    \o GuardedCall(Call("ocb_read_batches_with_attribution", {"outcome", "attribution"}),
                   {"outcome", "attribution"},
                   read_outcome_from_raw \o read_attribution_from_raw)

(* visit_trampoline: the batch is a view that the library keeps, copied for *)
(* the visitor.  Its error or panic leaves the callback only as an error    *)
(* code, by which the native call fails.                                    *)
visit_batches ==
    RawReadRequest
    \o GuardedCall(Call("ocb_visit_batches", {"cursor report"}), {"cursor report"},
                   read_cursor_report_from_raw)
read_row_group_into ==
    RawFillRequest \o Ask("ocb_read_row_group_into") \o read_fill_report_from_raw

(* ---- Plans ---------------------------------------------------------------- *)

read_plan_report ==
    GuardedCall(Call("ocb_read_plan_report", {"read report"}), {"read report"},
                read_report_from_raw)
(* The length first, then the identifiers into a buffer of that length.     *)
read_plan_ids == Ask("ocb_read_plan_ids") \o Ask("ocb_read_plan_ids")

(* The plan stays under its guard through the queries that describe it.     *)
plan_read ==
    RawReadRequest
    \o <<Hold({"read plan"}), Call("ocb_plan_read", {"read plan"}), Raise>>
    \o read_plan_report \o read_plan_ids \o read_plan_ids
    \o <<Give({"read plan"})>>

read_batches_from_plan ==
    GuardedCall(Call("ocb_read_batches_from_plan", {"outcome"}), {"outcome"},
                read_outcome_from_raw)
read_plan_batches == ensure_plan_belongs_to_file \o read_batches_from_plan
read_plan_row_groups == ensure_plan_belongs_to_file \o read_batches_from_plan

(* ---- Parallel read sessions ---------------------------------------------- *)

parallel_read_session ==
    RawReadRequest
    \o Handle(Call("ocb_parallel_read_session_create", {"session"}), "session")
(* A terminal status copies nothing and is returned; a batch is copied, and *)
(* an unknown status is refused like a batch that cannot be copied.         *)
next ==
    <<Hold({"batch"}), Call("ocb_parallel_read_session_next", {"batch"}), Raise>>
    \o Optional(column_batch_from_raw)
cancel == Ask("ocb_parallel_read_session_cancel")
report ==
    GuardedCall(Call("ocb_parallel_read_session_report", {"parallel report"}),
                {"parallel report"}, parallel_read_report_from_raw)

(* ---- Writing -------------------------------------------------------------- *)

write_path == path_to_cstring \o RawWriteSpec \o <<Edit("ocb_write", {}), Raise>>
write_path_report ==
    path_to_cstring \o RawWriteSpec \o <<Edit("ocb_write_with_report", {}), Raise>>

(* ---- Maintenance and manifests -------------------------------------------- *)

certify_compact_l2_physical_v2_artifact ==
    path_to_cstring \o <<Check("expected hash")>>
    \o GuardedCall(Call("ocb_certify", {"certification"}), {"certification"},
                   certification_report_from_raw)
cleanup_orphan_tail == path_to_cstring \o <<Edit("ocb_cleanup_orphan_tail", {}), Raise>>
maintenance_analyze ==
    path_to_cstring
    \o GuardedCall(Call("ocb_maintenance_analyze", {"maintenance"}), {"maintenance"},
                   maintenance_report_from_raw)
cleanup_orphan_tail_report ==
    path_to_cstring
    \o GuardedCall(Edit("ocb_cleanup_orphan_tail_report", {"cleanup"}), {"cleanup"},
                   cleanup_report_from_raw)
copy_selected_snapshot ==
    path_to_cstring \o <<Check("destination path"), Gate>>
    \o GuardedCall(Edit("ocb_copy_selected_snapshot", {"export"}), {"export"},
                   snapshot_export_report_from_raw)
build_manifest_from_files ==
    path_to_cstring \o <<Check("input paths"), Gate>> \o RawManifestBuildOptions
    \o GuardedCall(Call("ocb_manifest_build_from_files", {"manifest"}), {"manifest"},
                   manifest_from_raw)
validate_manifest_files ==
    path_to_cstring \o RawManifest
    \o GuardedCall(Call("ocb_manifest_validate_files", {"validation"}), {"validation"},
                   manifest_validation_report_from_raw)

(* ---- The tables ----------------------------------------------------------- *)

OcbFunctions == [
    ocb_open |-> open_with_options,
    ocb_open_with_limits |-> open_with_options_and_resource_limits,
    ocb_write |-> write_path, ocb_write_with_report |-> write_path_report,
    certify_compact_l2_physical_v2_artifact |-> certify_compact_l2_physical_v2_artifact,
    cleanup_orphan_tail |-> cleanup_orphan_tail,
    maintenance_analyze |-> maintenance_analyze,
    cleanup_orphan_tail_report |-> cleanup_orphan_tail_report,
    copy_selected_snapshot |-> copy_selected_snapshot,
    build_manifest_from_files |-> build_manifest_from_files,
    validate_manifest_files |-> validate_manifest_files]

ColumnBundleMethods == [
    clone_reader |-> clone_reader, metadata |-> metadata,
    dictionary_values |-> dictionary_values,
    row_group_summaries |-> row_group_summaries,
    read_batches |-> read_batches,
    read_batches_with_attribution |-> read_batches_with_attribution,
    visit_batches |-> visit_batches, read_row_group_into |-> read_row_group_into,
    plan_read |-> plan_read, parallel_read_session |-> parallel_read_session]

ReadPlanMethods == [
    read_plan_row_group_summaries |-> read_plan_row_group_summaries,
    read_plan_batches |-> read_plan_batches,
    read_plan_row_groups |-> read_plan_row_groups]

SessionMethods == [next |-> next, cancel |-> cancel, report |-> report]
=============================================================================
