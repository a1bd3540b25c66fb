---------------------------- MODULE NativeSteps ----------------------------
(* The vocabulary in which the safe wrapper's functions over the C ABI are  *)
(* described.  A wrapper function is a SCRIPT: the sequence of its steps    *)
(* that matter to ownership, to error reporting and to the order of checks  *)
(* and native calls.  NativeCall executes scripts.                          *)
EXTENDS Sequences

Step(do, what, outs) == [do |-> do, what |-> what, outs |-> outs]

(* ensure_native_abi: the cached compatibility verdict, or its error.       *)
Gate == Step("gate", "abi", {})

(* A check of the caller's argument `a`: passes or returns an argument      *)
(* error.  An argument that passed once passes again: it is immutable.      *)
Check(a) == Step("check", a, {})

(* Output storage for a native call: owned by a guard whose Drop frees it,  *)
(* or a plain local that the function itself must free.                     *)
Hold(outs) == Step("hold", "guard", outs)
Slot(outs) == Step("slot", "local", outs)

(* A status-returning native function; an Edit changes the file.            *)
Call(f, outs) == Step("call", f, outs)
Edit(f, outs) == Step("edit", f, outs)

(* `status_result(status, ..)?`: the last error, when the status failed.    *)
Raise == Step("raise", "last error", {})

(* The two manual error paths: free before reading the last error, or keep  *)
(* the error, free, and return what was kept.  A failed call's report may   *)
(* be read for detail before it is freed; it was initialised by the wrapper. *)
FreeOnError(outs) == Step("free_on_error", "free", outs)
Save == Step("save", "last error", {})
CopyOnError(outs) == Step("copy_on_error", "detail", outs)
RaiseSaved == Step("raise_saved", "saved error", {})

(* Conversions of a native output into owned Rust data.  CopyOut returns    *)
(* its error at once (guards clean up); CopyLater keeps the error until     *)
(* Unwrap, after the function has freed the outputs.  Decode is a           *)
(* conversion of a scalar that owns nothing.                                *)
CopyOut(outs) == Step("copy_out", "?", outs)
CopyLater(outs) == Step("copy_later", "later", outs)
Free(outs) == Step("free", "free", outs)
Unwrap == Step("unwrap", "?", {})
Decode(what) == Step("decode", what, {})

(* Ownership of an output moves into the returned value.                    *)
Give(outs) == Step("give", "return", outs)

(* The next n steps are taken or skipped: an optional argument, or an       *)
(* answer of the library that leaves nothing more to do.                    *)
Maybe(n) == Step("maybe", n, {})
Optional(script) == <<Maybe(Len(script))>> \o script

(* A query with a scalar answer.                                            *)
Ask(f) == <<Call(f, {}), Raise>>

(* The guard pattern: storage under a guard, the call, `?`, the copies.     *)
Guarded(step, outs) == <<Hold(outs), step, Raise, CopyOut(outs)>>

(* The manual pattern with the free before the read of the last error.      *)
FreeFirst(step, outs) ==
    <<Slot(outs), step, FreeOnError(outs), Raise,
      CopyLater(outs), Free(outs), Unwrap>>

(* The manual pattern with the error kept before the free.                  *)
ErrorFirst(step, outs) ==
    <<Slot(outs), step, Save, FreeOnError(outs), RaiseSaved,
      CopyLater(outs), Free(outs), Unwrap>>
=============================================================================
