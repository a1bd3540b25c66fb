---------------------------- MODULE NativeCall ----------------------------
(* Execution of the safe wrapper's functions against the native library:    *)
(* the process-wide ABI gate, the guards and locals that own native         *)
(* outputs, the thread-local last error, and the early returns.             *)
(*                                                                          *)
(* The library is external.  What is assumed of it: a status-returning      *)
(* function that fails records its error as the thread's last error and may *)
(* leave outputs partly filled; a void function (every free, every release) *)
(* leaves the last error alone; a failing mutation has no effect.           *)
EXTENDS ScriptRules

CONSTANTS
    Threads,      \* threads of the process
    Operations,   \* name -> script
    Needs         \* name -> the handles the function borrows

(* The owners of native handles.  A ReadPlan borrows its file.              *)
Handles == {"tensor file", "column bundle", "read plan", "session"}

(* The functions follow the rules, and their names are names.               *)
ASSUME NativeCallAssumption ==
    /\ "idle" \notin DOMAIN Operations
    /\ Needs \in [DOMAIN Operations -> SUBSET Handles]
    /\ \A name \in DOMAIN Operations :
          /\ WellWritten(Operations[name])
          /\ Needs[name] = {} => GatedFirst(Operations[name])

VARIABLES
    abi,        \* what the linked library reports: a supported version or not
    gate,       \* the OnceLock<Result<AbiCompatible>>
    queries,    \* how often the closure of the gate ran
    frame,      \* per thread: the function being executed
    lastError,  \* per thread: the step that recorded the last error, 0 older
    handle      \* per thread: the handles that are open

callVars == <<abi, gate, queries, frame, lastError, handle>>

Idle == [op |-> "idle", pc |-> 0, out |-> <<>>, guards |-> {}, failed |-> 0,
         saved |-> 0, bad |-> FALSE, passed |-> {}, edited |-> FALSE,
         result |-> "none", of |-> 0]

Script(t) == Operations[frame[t].op]
Running(t) == frame[t].op # "idle" /\ frame[t].result = "none"
Ended(t) == frame[t].pc > Len(Script(t))
StepAt(t) == Script(t)[frame[t].pc]
Doing(t, do) == Running(t) /\ ~Ended(t) /\ StepAt(t).do = do

CallInit ==
    /\ abi \in {"supported", "other"}
    /\ gate = "empty"
    /\ queries = 0
    /\ frame = [t \in Threads |-> Idle]
    /\ lastError = [t \in Threads |-> 0]
    /\ handle = [t \in Threads |-> {}]

(* ---- Returning ---------------------------------------------------------- *)

(* Fault: a Drop that frees only what a native call has filled.             *)
FilledGuardsFree(f) ==
    [o \in DOMAIN f.out |->
        IF o \in f.guards /\ f.out[o] = "full" THEN "freed" ELSE f.out[o]]

(* Drop of NativeOutput, NativeArrayOutput, NativePointerOutput and of a    *)
(* handle owner that is not returned: every guard still owning an output    *)
(* frees it when the function returns.                                      *)
DropGuards(f) ==
    [o \in DOMAIN f.out |->
        IF o \in f.guards /\ f.out[o] # "given" THEN "freed" ELSE f.out[o]]

Returns(t, f, result, of) ==
    frame' = [frame EXCEPT ![t] =
                 [f EXCEPT !.out = DropGuards(f), !.guards = {},
                           !.result = result, !.of = of]]

Advances(t, f) == frame' = [frame EXCEPT ![t] = [f EXCEPT !.pc = @ + 1]]

WithOutputs(f, outs, state) ==
    [f EXCEPT !.out = [o \in DOMAIN f.out |->
                          IF o \in outs THEN state ELSE f.out[o]]]

(* ---- The steps ---------------------------------------------------------- *)

(* Fault: an incompatible verdict is not kept, and the library asked again. *)
ForgetRefusal(t) ==
    /\ Doing(t, "gate")
    /\ LET verdict == IF abi = "supported" THEN "compatible" ELSE "incompatible"
       IN  /\ gate' = IF verdict = "compatible" THEN verdict ELSE gate
           /\ queries' = queries + (IF gate = "empty" THEN 1 ELSE 0)
           /\ IF verdict = "compatible" THEN Advances(t, frame[t])
              ELSE Returns(t, frame[t], "incompatible", 0)
    /\ UNCHANGED <<abi, lastError, handle>>

(* AbiGate::get_or_query: the closure runs once in the process; its verdict *)
(* is cached, an incompatibility too.                                       *)
PassGate(t) ==
    /\ Doing(t, "gate")
    /\ LET verdict == IF gate # "empty" THEN gate
                      ELSE IF abi = "supported" THEN "compatible"
                      ELSE "incompatible"
       IN  /\ gate' = verdict
           /\ queries' = queries + (IF gate = "empty" THEN 1 ELSE 0)
           /\ IF verdict = "compatible" THEN Advances(t, frame[t])
              ELSE Returns(t, frame[t], "incompatible", 0)
    /\ UNCHANGED <<abi, lastError, handle>>

CheckArgument(t) ==
    /\ Doing(t, "check")
    /\ \/ Advances(t, [frame[t] EXCEPT !.passed = @ \cup {StepAt(t).what}])
       \/ /\ StepAt(t).what \notin frame[t].passed
          /\ Returns(t, frame[t], "argument", 0)
    /\ UNCHANGED <<abi, gate, queries, lastError, handle>>

Prepare(t) ==
    /\ \/ /\ Doing(t, "hold")
          /\ Advances(t, [WithOutputs(frame[t], StepAt(t).outs, "empty")
                             EXCEPT !.guards = @ \cup StepAt(t).outs])
       \/ /\ Doing(t, "slot")
          /\ Advances(t, WithOutputs(frame[t], StepAt(t).outs, "empty"))
    /\ UNCHANGED <<abi, gate, queries, lastError, handle>>

CallNative(t) ==
    /\ Doing(t, "call") \/ Doing(t, "edit")
    /\ \/ /\ Advances(t, [WithOutputs(frame[t], StepAt(t).outs, "full")
                             EXCEPT !.failed = 0,
                                    !.edited = @ \/ StepAt(t).do = "edit"])
          /\ UNCHANGED lastError
       \/ \E partial \in SUBSET StepAt(t).outs :
          /\ Advances(t, [WithOutputs(frame[t], partial, "partial")
                             EXCEPT !.failed = frame[t].pc])
          /\ lastError' = [lastError EXCEPT ![t] = frame[t].pc]
    /\ UNCHANGED <<abi, gate, queries, handle>>

(* Fault: both error paths return what is kept, although only one keeps it. *)
RaiseKeptError(t) ==
    /\ \/ /\ Doing(t, "raise") \/ Doing(t, "raise_saved")
          /\ frame[t].failed # 0
          /\ Returns(t, frame[t], "native", frame[t].saved)
       \/ /\ Doing(t, "unwrap") /\ frame[t].bad
          /\ Returns(t, frame[t], "conversion", 0)
       \/ /\ Doing(t, "copy_out") \/ Doing(t, "decode")
          /\ Returns(t, frame[t], "conversion", 0)
    /\ UNCHANGED <<abi, gate, queries, lastError, handle>>

(* status_result and the error exits of the manual patterns.                *)
RaiseError(t) ==
    /\ \/ /\ Doing(t, "raise") /\ frame[t].failed # 0
          /\ Returns(t, frame[t], "native", lastError[t])
       \/ /\ Doing(t, "raise_saved") /\ frame[t].failed # 0
          /\ Returns(t, frame[t], "native", frame[t].saved)
       \/ /\ Doing(t, "unwrap") /\ frame[t].bad
          /\ Returns(t, frame[t], "conversion", 0)
       \/ /\ Doing(t, "copy_out") \/ Doing(t, "decode")
          /\ Returns(t, frame[t], "conversion", 0)
    /\ UNCHANGED <<abi, gate, queries, lastError, handle>>

PassStatus(t) ==
    /\ \/ /\ Doing(t, "raise") \/ Doing(t, "raise_saved") \/ Doing(t, "free_on_error")
          /\ frame[t].failed = 0
          /\ Advances(t, frame[t])
       \/ /\ Doing(t, "free_on_error")
          /\ frame[t].failed # 0
          /\ Advances(t, WithOutputs(frame[t], StepAt(t).outs, "freed"))
       \/ /\ Doing(t, "copy_on_error")
          /\ Advances(t, frame[t])
       \/ /\ Doing(t, "save")
          /\ Advances(t, [frame[t] EXCEPT !.saved = lastError[t]])
       \/ /\ Doing(t, "unwrap")
          /\ ~frame[t].bad
          /\ Advances(t, frame[t])
    /\ UNCHANGED <<abi, gate, queries, lastError, handle>>

(* The copies: a conversion inspects the native value and may refuse it.    *)
CopyOutputs(t) ==
    /\ \/ Doing(t, "copy_out") \/ Doing(t, "decode")
       \/ Doing(t, "copy_later")
    /\ \/ Advances(t, frame[t])
       \/ /\ StepAt(t).do = "copy_later"
          /\ Advances(t, [frame[t] EXCEPT !.bad = TRUE])
    /\ UNCHANGED <<abi, gate, queries, lastError, handle>>

FreeOutputs(t) ==
    /\ Doing(t, "free")
    /\ Advances(t, WithOutputs(frame[t], StepAt(t).outs, "freed"))
    /\ UNCHANGED <<abi, gate, queries, lastError, handle>>

GiveOutputs(t) ==
    /\ Doing(t, "give")
    /\ Advances(t, WithOutputs(frame[t], StepAt(t).outs, "given"))
    /\ UNCHANGED <<abi, gate, queries, lastError, handle>>

Branch(t) ==
    /\ Doing(t, "maybe")
    /\ \E skipped \in {0, StepAt(t).what} :
          frame' = [frame EXCEPT ![t].pc = @ + 1 + skipped]
    /\ UNCHANGED <<abi, gate, queries, lastError, handle>>

Succeed(t) ==
    /\ Running(t) /\ Ended(t)
    /\ Returns(t, frame[t], "ok", 0)
    /\ UNCHANGED <<abi, gate, queries, lastError, handle>>

StepOf(t) ==
    \/ PassGate(t) \/ CheckArgument(t) \/ Prepare(t) \/ CallNative(t)
    \/ RaiseError(t) \/ PassStatus(t) \/ CopyOutputs(t) \/ FreeOutputs(t)
    \/ GiveOutputs(t) \/ Branch(t) \/ Succeed(t)

(* ---- The caller --------------------------------------------------------- *)

(* A method needs what it borrows; an earlier error of the thread is still  *)
(* in the last-error storage.                                               *)
Begin(t, name) ==
    /\ frame[t].op = "idle"
    /\ Needs[name] \subseteq handle[t]
    /\ frame' = [frame EXCEPT ![t] =
                    [Idle EXCEPT !.op = name, !.pc = 1,
                       !.out = [o \in OutputsOf(Operations[name]) |-> "absent"]]]
    /\ lastError' = [lastError EXCEPT ![t] = 0]
    /\ UNCHANGED <<abi, gate, queries, handle>>

(* The caller takes the result; a returned handle stays open with it.       *)
TakeResult(t) ==
    /\ frame[t].result # "none"
    /\ handle' = [handle EXCEPT ![t] =
                     @ \cup {o \in DOMAIN frame[t].out \cap Handles :
                               frame[t].out[o] = "given"}]
    /\ frame' = [frame EXCEPT ![t] = Idle]
    /\ UNCHANGED <<abi, gate, queries, lastError>>

(* Drop of TensorFile, ColumnBundleFile, ReadPlan and ParallelReadSession:  *)
(* the borrow keeps a file open as long as a plan of it.                    *)
DropHandle(t, h) ==
    /\ frame[t].op = "idle"
    /\ h \in handle[t]
    /\ h = "column bundle" => "read plan" \notin handle[t]
    /\ handle' = [handle EXCEPT ![t] = @ \ {h}]
    /\ UNCHANGED <<abi, gate, queries, frame, lastError>>

CallNext ==
    \E t \in Threads :
       \/ StepOf(t)
       \/ \E name \in DOMAIN Operations : Begin(t, name)
       \/ TakeResult(t)
       \/ \E h \in Handles : DropHandle(t, h)

CallSpec == CallInit /\ [][CallNext]_callVars

----------------------------------------------------------------------------
OutputStates == {"absent", "empty", "partial", "full", "freed", "given"}

(* Types of the variables.                                                  *)
TypeOK ==
    /\ abi \in {"supported", "other"}
    /\ gate \in {"empty", "compatible", "incompatible"}
    /\ queries \in Nat
    /\ handle \in [Threads -> SUBSET Handles]
    /\ \A t \in Threads :
          /\ frame[t].op \in DOMAIN Operations \cup {"idle"}
          /\ frame[t].result \in {"none", "ok", "argument", "native",
                                  "conversion", "incompatible"}
          /\ \A o \in DOMAIN frame[t].out : frame[t].out[o] \in OutputStates

(* A native output that received storage is released exactly once: freed on *)
(* every path out of the function, or handed to the caller of a function    *)
(* that succeeds; and nothing is freed that is not owned at that moment.    *)
OutputsReleasedOnce ==
    \A t \in Threads :
       /\ frame[t].result # "none" =>
             \A o \in DOMAIN frame[t].out :
                \/ frame[t].out[o] \in {"absent", "freed"}
                \/ frame[t].out[o] = "given" /\ frame[t].result = "ok"
       /\ Doing(t, "free") \/ (Doing(t, "free_on_error") /\ frame[t].failed # 0) =>
             \A o \in StepAt(t).outs \ frame[t].guards :
                frame[t].out[o] \in {"empty", "partial", "full"}
       /\ Doing(t, "free") \/ Doing(t, "free_on_error") =>
             StepAt(t).outs \cap frame[t].guards = {}

(* A conversion reads only outputs that the native call has filled and that *)
(* are still owned: never the remains of a failed call, never freed memory. *)
(* The detail taken from a failed call's report is taken before its free.   *)
ReadsOnlyFilled ==
    \A t \in Threads :
       /\ Doing(t, "copy_out") \/ Doing(t, "copy_later") \/ Doing(t, "give") =>
             \A o \in StepAt(t).outs : frame[t].out[o] = "full"
       /\ Doing(t, "copy_on_error") =>
             \A o \in StepAt(t).outs : frame[t].out[o] \notin {"absent", "freed"}

(* Between the call that fills it and the free that ends it, and only then, *)
(* a native output is read; and every one comes to that end.                *)
OutputLifetimesKept == TypeOK /\ OutputsReleasedOnce /\ ReadsOnlyFilled

(* The native error a function returns is the error of the call that failed *)
(* in it: not an older error of the thread, not one of a later call.        *)
OwnErrorReported ==
    \A t \in Threads :
       frame[t].result = "native" =>
          frame[t].of # 0 /\ frame[t].of = frame[t].failed

(* An argument error means that the file is as it was: every check of the   *)
(* caller's arguments comes before the first native call that changes it.   *)
(* An incompatible library is refused before any call but the version       *)
(* query, which runs once in the process.                                   *)
RefusedCallsHaveNoEffect ==
    /\ \A t \in Threads :
          /\ frame[t].result \in {"argument", "incompatible"} => ~frame[t].edited
          /\ Doing(t, "call") \/ Doing(t, "edit") => gate = "compatible"
    /\ queries <= 1
=============================================================================
