---------------------------- MODULE ScriptRules ----------------------------
(* The rules the wrapper's functions are written by, as conditions on a     *)
(* script: what can be seen in the text of one function.  What they give at *)
(* run time, in any number of threads, is NativeCall's concern.             *)
EXTENDS NativeSteps, Integers

Steps(script, do) == {i \in DOMAIN script : script[i].do = do}
NativeCalls(script) == Steps(script, "call") \cup Steps(script, "edit")
OutputsOf(script) == UNION {script[i].outs : i \in DOMAIN script}
ArgumentsOf(script) == {script[i].what : i \in Steps(script, "check")}

(* Where an optional part that is skipped ends.                             *)
Landing(script, i) == script[i].what + i + 1

(* Every path to a later step takes step i; none enters i+1..j from before. *)
Unskipped(script, i) ==
    \A k \in Steps(script, "maybe") : k < i => Landing(script, k) <= i
EnteredAt(script, i, j) ==
    \A k \in Steps(script, "maybe") : k < i => Landing(script, k) \notin i+1..j

(* No native function before the gate, unless a handle is borrowed, which   *)
(* some function behind the gate has returned.                              *)
GatedFirst(script) ==
    \A j \in NativeCalls(script) \cup Steps(script, "give") :
       \E i \in Steps(script, "gate") : i < j /\ Unskipped(script, i)

(* An argument checked after the file may have changed was checked before.  *)
CheckedBeforeEdits(script) ==
    \A i \in Steps(script, "edit"), j \in Steps(script, "check") :
       i < j => \E k \in Steps(script, "check") :
                   k < i /\ script[k].what = script[j].what /\ Unskipped(script, k)

(* The error kept for a report is read after the last call before it.       *)
KeptAt(script, i, j) ==
    /\ i \in Steps(script, "save")
    /\ \A k \in i+1..j-1 : k \notin NativeCalls(script)
    /\ \A k \in Steps(script, "maybe") : Landing(script, k) \notin i+1..j
ErrorsKept(script) ==
    \A j \in Steps(script, "raise_saved") : \E i \in 1..j-1 : KeptAt(script, i, j)

(* The life of an output under a guard: storage, the call that fills it,    *)
(* `?`, and then only copies and perhaps the return of its ownership.       *)
Touching(script, o) == {i \in DOMAIN script : o \in script[i].outs}
GuardLife(script, o, i) ==
    /\ {i, i+1} \subseteq Touching(script, o)
    /\ i \in Steps(script, "hold")
    /\ i+1 \in NativeCalls(script)
    /\ i+2 \in Steps(script, "raise")
    /\ \A k \in Touching(script, o) :
          /\ k \in {i, i+1} \/ (k > i+2 /\ script[k].do \in {"copy_out", "give"})
          /\ EnteredAt(script, i, k)

(* The life of one in a local: the call, what the error path reads of it    *)
(* and its free there, the error's return, the copies and the free or the   *)
(* return at the end, with no way out between.                              *)
LocalLife(script, o, i, f, e) ==
    /\ {i, i+1, f, e} \subseteq Touching(script, o)
    /\ Touching(script, o) \subseteq i..e
    /\ i \in Steps(script, "slot")
    /\ i+1 \in NativeCalls(script)
    /\ \A k \in i+2..f-1 : script[k].do \in {"save", "copy_on_error"}
    /\ f > i+1 /\ f \in Steps(script, "free_on_error")
    /\ f+1 \in Steps(script, "raise") \cup Steps(script, "raise_saved")
    /\ \A k \in f+2..e-1 : script[k].do = "copy_later"
    /\ e > f+1 /\ e \in Steps(script, "free") \cup Steps(script, "give")
    /\ EnteredAt(script, i, e)

OutputsLive(script) ==
    \A o \in OutputsOf(script) :
       \/ \E i \in Touching(script, o) : GuardLife(script, o, i)
       \/ \E i, f, e \in Touching(script, o) : LocalLife(script, o, i, f, e)

(* Ownership is returned last: nothing can fail after it.                   *)
GivesLast(script) == \A i \in Steps(script, "give") : i = Len(script)

WellWritten(script) ==
    /\ Len(script) \in Nat /\ DOMAIN script = 1 .. Len(script)
    /\ \A i \in Steps(script, "maybe") : script[i].what \in Nat
    /\ CheckedBeforeEdits(script)
    /\ ErrorsKept(script)
    /\ OutputsLive(script)
    /\ GivesLast(script)
=============================================================================
