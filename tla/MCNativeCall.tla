---------------------------- MODULE MCNativeCall ----------------------------
(* Every function of the wrapper, one at a time and one after the other, in *)
(* one thread.                                                              *)
EXTENDS NativeCall, TLC

T == INSTANCE TensorFileApi
O == INSTANCE OcbApi

Borrowing(table, handles) == [name \in DOMAIN table |-> handles]

MCOperations ==
    T!TensorFileFunctions @@ T!TensorFileMethods @@ O!OcbFunctions
    @@ O!ColumnBundleMethods @@ O!ReadPlanMethods @@ O!SessionMethods

MCNeeds ==
    Borrowing(T!TensorFileFunctions, {})
    @@ Borrowing(T!TensorFileMethods, {"tensor file"})
    @@ Borrowing(O!OcbFunctions, {})
    @@ Borrowing(O!ColumnBundleMethods, {"column bundle"})
    @@ Borrowing(O!ReadPlanMethods, {"column bundle", "read plan"})
    @@ Borrowing(O!SessionMethods, {"session"})
=============================================================================
