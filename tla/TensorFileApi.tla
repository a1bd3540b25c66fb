--------------------------- MODULE TensorFileApi ---------------------------
(* The functions of TensorFile as scripts of NativeSteps.  Variants that    *)
(* differ only in the element type of the payload or in the name of the     *)
(* native function they call share one script.                              *)
EXTENDS NativeSteps

(* ---- Argument preparation ----------------------------------------------- *)

(* path_to_cstring: the path first, then the ABI gate.                      *)
path_to_cstring == <<Check("path"), Gate>>

(* PreparedCreate::new: what can be refused without the library comes       *)
(* before the gate; strings and coordinate descriptors after it.            *)
PreparedCreate ==
    <<Check("dims"), Check("append_dim"), Check("dim names"), Gate>>
    \o path_to_cstring
    \o <<Check("dim name strings"), Check("labels"), Check("user kv"),
         Check("coordinate axes"), Check("coordinate strings")>>

validate_create_policy == <<Check("append_dim"), Check("chunk policy")>>
validate_create_with_coordinates_v2_options == <<Check("coordinate options")>>
PreparedSelectors == <<Check("selectors")>>
PreparedSingleSelector == <<Check("selector range")>>
PreparedReadIndexItems == <<Check("ellipses"), Check("consumed axes"),
                            Check("output rank"), Check("index items")>>
PreparedReadOptions == <<Check("execution mode")>>
PreparedQueryTraceContext == <<Check("trace context")>>
PreparedStringList == <<Check("labels")>>
PreparedUserKvList == <<Check("user kv")>>

(* ---- Queries on an open file -------------------------------------------- *)

rank == Ask("rank")
dtype == Ask("dtype") \o <<Decode("dtype")>>
append_axis == Ask("append_axis")
dim_lens == rank \o Ask("dim_lens")
validate_axis == rank \o <<Check("axis")>>

validate_typed_payload ==
    dtype \o <<Check("payload dtype")>> \o rank
    \o <<Check("shape rank"), Check("element count")>>

validate_sparse_append ==
    validate_typed_payload \o append_axis \o <<Check("sparse rule")>>

prepare_selectors == rank \o PreparedSelectors

coordinate_axis_range_selectors ==
    rank \o <<Check("axis"), Decode("range order")>>

(* ---- Creation ------------------------------------------------------------ *)

(* from_raw_handle: a null handle reads the last error; otherwise the       *)
(* TensorFile owns the handle and closes it unless it is returned.          *)
from_raw_handle(step) == <<Hold({"tensor file"}), step, Raise>>

set_compression == <<Check("compression"), Edit("set_compression_config", {}), Raise>>

(* Every creator validates the compression before the native create and     *)
(* sets it after: a failure there closes the new file and is returned.  No  *)
(* compression asked for passes the check and skips the setting.            *)
CreateVia(f) ==
    <<Check("compression")>>
    \o from_raw_handle(Edit(f, {"tensor file"}))
    \o Optional(set_compression)
    \o <<Give({"tensor file"})>>

create == PreparedCreate \o CreateVia("create_with_coordinates")
create_with_coordinates_v2 ==
    validate_create_with_coordinates_v2_options \o PreparedCreate
    \o <<Check("coordinate inputs v2")>> \o CreateVia("create_with_coordinates_v2")
create_with_universe ==
    <<Check("no coordinates")>> \o PreparedCreate \o CreateVia("create_with_universe")
create_inferred == PreparedCreate \o CreateVia("create_inferred")
create_inferred_with_coordinates_v2 ==
    validate_create_with_coordinates_v2_options \o PreparedCreate
    \o <<Check("coordinate inputs v2")>> \o CreateVia("create_inferred_v2")
create_with_policy ==
    validate_create_policy \o PreparedCreate \o CreateVia("create_with_policy")
create_with_policy_with_coordinates_v2 ==
    validate_create_policy \o validate_create_with_coordinates_v2_options
    \o PreparedCreate \o <<Check("coordinate inputs v2")>>
    \o CreateVia("create_with_policy_v2")
create_with_policy_and_universe ==
    <<Check("no coordinates")>> \o validate_create_policy \o PreparedCreate
    \o CreateVia("create_with_policy_with_universe")

open ==
    <<Gate>> \o path_to_cstring \o from_raw_handle(Call("open", {"tensor file"}))
    \o <<Give({"tensor file"})>>

(* ---- Metadata ------------------------------------------------------------ *)

load_meta == path_to_cstring \o Guarded(Call("load_meta", {"meta"}), {"meta"})
load_coordinate_meta ==
    path_to_cstring \o Guarded(Call("load_coordinate_meta", {"meta"}), {"meta"})
coordinate_meta == Guarded(Call("coordinate_meta", {"meta"}), {"meta"})
chunk_plan == Guarded(Call("chunk_plan", {"plan"}), {"plan"})
path == Guarded(Call("path", {"string"}), {"string"})
(* The metadata setters: an argument check, then the mutation.              *)
index_checkpoint_every_commits == Ask("get_index_checkpoint_every_commits")
set_index_checkpoint_every_commits ==
    <<Check("interval"), Edit("set_index_checkpoint_every_commits", {}), Raise>>
set_dim_name == <<Check("dim name"), Edit("set_dim_name", {}), Raise>>
set_labels == PreparedStringList \o <<Edit("set_labels", {}), Raise>>
set_user_kv == PreparedUserKvList \o <<Edit("set_user_kv", {}), Raise>>

(* ---- Appending and rewriting -------------------------------------------- *)

append_with_range(f) == <<Edit(f, {}), Raise>>
append == validate_typed_payload \o append_with_range("append_with_range")
append_with_coordinates ==
    validate_typed_payload \o <<Check("append coordinates")>>
    \o append_with_range("append_with_coordinates_v2")
append_with_universe ==
    validate_typed_payload \o append_with_range("append_with_universe")

(* The error path frees first; take_sparse_append_analysis then owns the    *)
(* analysis with a guard of its own.                                        *)
analyze_sparse_append_with ==
    validate_sparse_append
    \o FreeFirst(Call("analyze_sparse_append", {"analysis"}), {"analysis"})
append_sparse_with == validate_sparse_append \o append_with_range("append_sparse")
append_sparse_with_range ==
    validate_sparse_append \o append_with_range("append_sparse_with_range")

(* The methods per element type.                                            *)
analyze_sparse_append == analyze_sparse_append_with
append_sparse_f32 == append_sparse_with
append_sparse_f64 == append_sparse_with
append_sparse_i32 == append_sparse_with_range

rewrite ==
    validate_typed_payload \o PreparedSingleSelector \o <<Edit("rewrite", {}), Raise>>
rewrite_slice ==
    validate_typed_payload \o rank \o <<Check("selector count")>>
    \o PreparedSelectors \o <<Edit("rewrite_slice", {}), Raise>>
clear_blocks == <<Edit("clear_blocks", {}), Raise>>

(* ---- History ------------------------------------------------------------- *)

head_commit == Ask("head_commit")
list_commits ==
    <<Check("limit")>> \o Guarded(Call("list_commits", {"commits"}), {"commits"})
pop == <<Edit("pop", {}), Raise>>
pop_batched == <<Check("count"), Edit("pop_batched", {}), Raise>>
revert_commit == <<Edit("revert_commit", {}), Raise>>

(* ---- Maintenance --------------------------------------------------------- *)

analyze_compaction == Ask("analyze_compaction")
v4_diagnostics == FreeFirst(Call("v4_diagnostics", {"report"}), {"report"})
analyze_v4_compaction ==
    FreeFirst(Call("analyze_v4_compaction", {"report"}), {"report"})
compact_to == path_to_cstring \o <<Edit("compact_to", {}), Raise>>
get_auto_compaction_config ==
    Ask("get_auto_compaction_config") \o Optional(<<Decode("config")>>)
set_auto_compaction_config == <<Edit("set_auto_compaction_config", {}), Raise>>
compaction_state == Ask("compaction_state")
maybe_compact_auto == <<Edit("maybe_compact_auto", {}), Raise>>
compact_v4_retained_history_to ==
    path_to_cstring
    \o FreeFirst(Edit("compact_v4_retained_history_to", {"report"}), {"report"})
reform_to == path_to_cstring \o <<Edit("reform_to", {}), Raise>>
reform_to_ex ==
    path_to_cstring
    \o <<Slot({"report"}), Edit("reform_to_ex", {"report"}), Save,
         CopyOnError({"report"}), FreeOnError({"report"}), RaiseSaved,
         CopyLater({"report"}), Free({"report"}), Unwrap>>

(* ---- Reads --------------------------------------------------------------- *)

read_tensor(f) == Guarded(Call(f, {"tensor"}), {"tensor"})
read_all == read_tensor("read_all")
read_values_arrow ==
    LET carriers == {"array", "schema"}
    IN  <<Slot(carriers), Call("read_values_arrow", carriers),
          FreeOnError(carriers), Raise, Give(carriers)>>
read_all_dense ==
    Guarded(Call("read_all_dense", {"tensor", "mask"}), {"tensor", "mask"})

ReadIndexVia(f, outs) ==
    rank \o PreparedReadIndexItems \o FreeFirst(Call(f, outs), outs)
read_index == ReadIndexVia("read_index", {"tensor", "report"})
read_index_dense == ReadIndexVia("read_index_dense", {"tensor", "mask", "report"})

(* With a shape policy, or at a retained commit, options follow the items.  *)
ReadIndexWith(f, outs) ==
    rank \o PreparedReadIndexItems \o PreparedReadOptions
    \o FreeFirst(Call(f, outs), outs)
read_index_with_shape_policy ==
    ReadIndexWith("read_index_with_shape_policy", {"tensor", "report"})
read_index_with_shape_policy_dense ==
    ReadIndexWith("read_index_with_shape_policy_dense", {"tensor", "mask", "report"})
read_index_at_commit_with_options ==
    ReadIndexWith("read_index_at_commit", {"tensor", "report"})
read_index_at_commit_with_options_dense ==
    ReadIndexWith("read_index_at_commit_dense", {"tensor", "mask", "report"})
read_index_at_commit_with_shape_policy ==
    ReadIndexWith("read_index_at_commit_with_shape_policy", {"tensor", "report"})
read_index_at_commit_with_shape_policy_dense ==
    ReadIndexWith("read_index_at_commit_with_shape_policy_dense",
                  {"tensor", "mask", "report"})

read_axis_range ==
    <<Check("range")>> \o validate_axis \o read_tensor("read_axis_range")
read_axis_take == validate_axis \o read_tensor("read_axis_take")
read_entry_range == <<Check("range")>> \o read_tensor("read_entry_range")
take_entries == read_tensor("take_entries")
read_axis_coordinates == validate_axis \o read_tensor("read_axis_coordinates")

(* Reads with options, attributed reads and reads with a shape policy: the  *)
(* selectors, the options, then the free-first pattern on every output.     *)
ReadWith(f, outs) ==
    prepare_selectors \o PreparedReadOptions \o FreeFirst(Call(f, outs), outs)
read_with_options == ReadWith("read_with_options", {"tensor", "report"})
read_with_options_dense ==
    ReadWith("read_with_options_dense", {"tensor", "mask", "report"})
AttributedRead(f, outs) ==
    prepare_selectors \o PreparedReadOptions \o PreparedQueryTraceContext
    \o FreeFirst(Call(f, outs), outs)
read_with_options_attributed ==
    AttributedRead("read_with_options_attributed", {"tensor", "report", "trace"})
read_with_options_dense_attributed ==
    AttributedRead("read_with_options_dense_attributed",
                   {"tensor", "mask", "report", "trace"})
read_with_shape_policy == ReadWith("read_with_shape_policy", {"tensor", "report"})
read_with_shape_policy_dense ==
    ReadWith("read_with_shape_policy_dense", {"tensor", "mask", "report"})

read_at_commit == prepare_selectors \o read_tensor("read_at_commit")
read_at_commit_dense ==
    prepare_selectors
    \o Guarded(Call("read_at_commit_dense", {"tensor", "mask"}), {"tensor", "mask"})
read_at_commit_with_options ==
    ReadWith("read_at_commit_with_options", {"tensor", "report"})
read_at_commit_with_options_dense ==
    ReadWith("read_at_commit_with_options_dense", {"tensor", "mask", "report"})
read_at_commit_with_shape_policy ==
    ReadWith("read_at_commit_with_shape_policy", {"tensor", "report"})
read_at_commit_with_shape_policy_dense ==
    ReadWith("read_at_commit_with_shape_policy_dense", {"tensor", "mask", "report"})

(* ---- Coordinates --------------------------------------------------------- *)

read_axis_coordinates_v2 ==
    validate_axis \o ErrorFirst(Call("read_axis_coordinates_v2", {"values"}), {"values"})
coordinate_dictionary_v2 ==
    validate_axis
    \o ErrorFirst(Call("coordinate_dictionary_v2", {"dictionary"}), {"dictionary"})
coordinate_lookup_v2 ==
    validate_axis \o <<Check("lookup key")>>
    \o ErrorFirst(Call("coordinate_lookup_v2", {"lookup"}), {"lookup"})
coordinate_lookup_range_v2 ==
    validate_axis \o <<Check("lookup key"), Check("upper key")>>
    \o ErrorFirst(Call("coordinate_lookup_range_v2", {"lookup"}), {"lookup"})

(* A lookup, and when it answers a position or a range, the read of it with *)
(* the function the variant names.  The end of a unique position is a       *)
(* checked addition.                                                        *)
ReadAtPosition(lookup, read) ==
    lookup \o Optional(<<Decode("range end")>>
                       \o coordinate_axis_range_selectors \o read)
ReadRange(lookup, read) ==
    lookup \o Optional(coordinate_axis_range_selectors \o read)

read_at_coordinate_v2 == ReadAtPosition(coordinate_lookup_v2, read_with_options)
read_coordinate_range_v2 == ReadRange(coordinate_lookup_range_v2, read_with_options)
read_at_coordinate_v2_dense ==
    ReadAtPosition(coordinate_lookup_v2, read_with_options_dense)
read_coordinate_range_v2_dense ==
    ReadRange(coordinate_lookup_range_v2, read_with_options_dense)
read_at_coordinate_v2_with_shape_policy ==
    ReadAtPosition(coordinate_lookup_v2, read_with_shape_policy)
read_coordinate_range_v2_with_shape_policy ==
    ReadRange(coordinate_lookup_range_v2, read_with_shape_policy)
read_at_coordinate_v2_with_shape_policy_dense ==
    ReadAtPosition(coordinate_lookup_v2, read_with_shape_policy_dense)
read_coordinate_range_v2_with_shape_policy_dense ==
    ReadRange(coordinate_lookup_range_v2, read_with_shape_policy_dense)

(* The historical variants look up and read at the same retained commit.    *)
coordinate_lookup_at_commit_v2 ==
    validate_axis \o <<Check("lookup key")>>
    \o ErrorFirst(Call("coordinate_lookup_at_commit_v2", {"lookup"}), {"lookup"})
coordinate_lookup_range_at_commit_v2 ==
    validate_axis \o <<Check("lookup key"), Check("upper key")>>
    \o ErrorFirst(Call("coordinate_lookup_range_at_commit_v2", {"lookup"}), {"lookup"})
read_at_coordinate_at_commit_v2 ==
    ReadAtPosition(coordinate_lookup_at_commit_v2, read_at_commit_with_options)
read_coordinate_range_at_commit_v2 ==
    ReadRange(coordinate_lookup_range_at_commit_v2, read_at_commit_with_options)
read_at_coordinate_at_commit_v2_dense ==
    ReadAtPosition(coordinate_lookup_at_commit_v2, read_at_commit_with_options_dense)
read_coordinate_range_at_commit_v2_dense ==
    ReadRange(coordinate_lookup_range_at_commit_v2, read_at_commit_with_options_dense)
read_at_coordinate_at_commit_v2_with_shape_policy ==
    ReadAtPosition(coordinate_lookup_at_commit_v2, read_at_commit_with_shape_policy)
read_coordinate_range_at_commit_v2_with_shape_policy ==
    ReadRange(coordinate_lookup_range_at_commit_v2, read_at_commit_with_shape_policy)
read_at_coordinate_at_commit_v2_with_shape_policy_dense ==
    ReadAtPosition(coordinate_lookup_at_commit_v2, read_at_commit_with_shape_policy_dense)
read_coordinate_range_at_commit_v2_with_shape_policy_dense ==
    ReadRange(coordinate_lookup_range_at_commit_v2, read_at_commit_with_shape_policy_dense)

coordinate_index == validate_axis \o Ask("coordinate_index")
coordinate_range == validate_axis \o Ask("coordinate_range")
read_at_coordinate == coordinate_index \o <<Decode("range end")>> \o read_axis_range
read_coordinate_range == coordinate_range \o read_axis_range

(* ---- The tables ---------------------------------------------------------- *)

TensorFileFunctions == [
    create |-> create,
    create_with_coordinates_v2 |-> create_with_coordinates_v2,
    create_with_universe |-> create_with_universe,
    create_inferred |-> create_inferred,
    create_inferred_with_coordinates_v2 |-> create_inferred_with_coordinates_v2,
    create_with_policy |-> create_with_policy,
    create_with_policy_with_coordinates_v2 |-> create_with_policy_with_coordinates_v2,
    create_with_policy_and_universe |-> create_with_policy_and_universe,
    open |-> open, load_meta |-> load_meta,
    load_coordinate_meta |-> load_coordinate_meta]

TensorFileMethods == [
    rank |-> rank, dtype |-> dtype, append_axis |-> append_axis,
    dim_lens |-> dim_lens, set_compression |-> set_compression,
    coordinate_meta |-> coordinate_meta, chunk_plan |-> chunk_plan,
    path |-> path,
    index_checkpoint_every_commits |-> index_checkpoint_every_commits,
    set_index_checkpoint_every_commits |-> set_index_checkpoint_every_commits,
    set_dim_name |-> set_dim_name, set_labels |-> set_labels,
    set_user_kv |-> set_user_kv, append |-> append,
    append_with_coordinates |-> append_with_coordinates,
    append_with_universe |-> append_with_universe,
    analyze_sparse_append |-> analyze_sparse_append,
    append_sparse_f32 |-> append_sparse_f32,
    append_sparse_f64 |-> append_sparse_f64,
    append_sparse_i32 |-> append_sparse_i32, rewrite |-> rewrite,
    rewrite_slice |-> rewrite_slice, clear_blocks |-> clear_blocks,
    head_commit |-> head_commit, list_commits |-> list_commits, pop |-> pop,
    pop_batched |-> pop_batched, revert_commit |-> revert_commit,
    analyze_compaction |-> analyze_compaction,
    v4_diagnostics |-> v4_diagnostics,
    analyze_v4_compaction |-> analyze_v4_compaction,
    compact_to |-> compact_to,
    get_auto_compaction_config |-> get_auto_compaction_config,
    set_auto_compaction_config |-> set_auto_compaction_config,
    compaction_state |-> compaction_state,
    maybe_compact_auto |-> maybe_compact_auto,
    compact_v4_retained_history_to |-> compact_v4_retained_history_to,
    reform_to |-> reform_to, reform_to_ex |-> reform_to_ex,
    read_all |-> read_all, read_values_arrow |-> read_values_arrow,
    read_all_dense |-> read_all_dense, read_index |-> read_index,
    read_index_dense |-> read_index_dense,
    read_index_with_shape_policy |-> read_index_with_shape_policy,
    read_index_with_shape_policy_dense |-> read_index_with_shape_policy_dense,
    read_index_at_commit_with_options |-> read_index_at_commit_with_options,
    read_index_at_commit_with_options_dense |-> read_index_at_commit_with_options_dense,
    read_index_at_commit_with_shape_policy |-> read_index_at_commit_with_shape_policy,
    read_index_at_commit_with_shape_policy_dense |-> read_index_at_commit_with_shape_policy_dense,
    read_axis_range |-> read_axis_range, read_axis_take |-> read_axis_take,
    read_entry_range |-> read_entry_range, take_entries |-> take_entries,
    read_axis_coordinates |-> read_axis_coordinates,
    read_with_options |-> read_with_options,
    read_with_options_dense |-> read_with_options_dense,
    read_with_options_attributed |-> read_with_options_attributed,
    read_with_options_dense_attributed |-> read_with_options_dense_attributed,
    read_with_shape_policy |-> read_with_shape_policy,
    read_with_shape_policy_dense |-> read_with_shape_policy_dense,
    read_at_commit |-> read_at_commit,
    read_at_commit_dense |-> read_at_commit_dense,
    read_at_commit_with_options |-> read_at_commit_with_options,
    read_at_commit_with_options_dense |-> read_at_commit_with_options_dense,
    read_at_commit_with_shape_policy |-> read_at_commit_with_shape_policy,
    read_at_commit_with_shape_policy_dense |-> read_at_commit_with_shape_policy_dense,
    read_axis_coordinates_v2 |-> read_axis_coordinates_v2,
    coordinate_dictionary_v2 |-> coordinate_dictionary_v2,
    coordinate_lookup_v2 |-> coordinate_lookup_v2,
    coordinate_lookup_range_v2 |-> coordinate_lookup_range_v2,
    read_at_coordinate_v2 |-> read_at_coordinate_v2,
    read_coordinate_range_v2 |-> read_coordinate_range_v2,
    read_at_coordinate_v2_dense |-> read_at_coordinate_v2_dense,
    read_coordinate_range_v2_dense |-> read_coordinate_range_v2_dense,
    read_at_coordinate_v2_with_shape_policy |-> read_at_coordinate_v2_with_shape_policy,
    read_coordinate_range_v2_with_shape_policy |-> read_coordinate_range_v2_with_shape_policy,
    read_at_coordinate_v2_with_shape_policy_dense |-> read_at_coordinate_v2_with_shape_policy_dense,
    read_coordinate_range_v2_with_shape_policy_dense |-> read_coordinate_range_v2_with_shape_policy_dense,
    coordinate_lookup_at_commit_v2 |-> coordinate_lookup_at_commit_v2,
    coordinate_lookup_range_at_commit_v2 |-> coordinate_lookup_range_at_commit_v2,
    read_at_coordinate_at_commit_v2 |-> read_at_coordinate_at_commit_v2,
    read_coordinate_range_at_commit_v2 |-> read_coordinate_range_at_commit_v2,
    read_at_coordinate_at_commit_v2_dense |-> read_at_coordinate_at_commit_v2_dense,
    read_coordinate_range_at_commit_v2_dense |-> read_coordinate_range_at_commit_v2_dense,
    read_at_coordinate_at_commit_v2_with_shape_policy |-> read_at_coordinate_at_commit_v2_with_shape_policy,
    read_coordinate_range_at_commit_v2_with_shape_policy |-> read_coordinate_range_at_commit_v2_with_shape_policy,
    read_at_coordinate_at_commit_v2_with_shape_policy_dense |-> read_at_coordinate_at_commit_v2_with_shape_policy_dense,
    read_coordinate_range_at_commit_v2_with_shape_policy_dense |-> read_coordinate_range_at_commit_v2_with_shape_policy_dense,
    coordinate_index |-> coordinate_index,
    coordinate_range |-> coordinate_range,
    read_at_coordinate |-> read_at_coordinate,
    read_coordinate_range |-> read_coordinate_range]
=============================================================================
