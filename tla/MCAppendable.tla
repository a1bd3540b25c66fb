---------------------------- MODULE MCAppendable ----------------------------
(***************************************************************************)
(* Writing an appendable file and selecting a root of one, each checked by *)
(* itself: `part' says which one runs, and the other one rests.            *)
(*                                                                         *)
(* Writing: two writer processes, so that a lock left behind by one stops  *)
(* the other.                                                              *)
(*                                                                         *)
(* Selection: four roots over five objects.  "old" and "new" share the     *)
(* dictionary "d" and each has key tuples of its own; "rival" claims the   *)
(* generation of "new" and refers to an object beyond the end of the file; *)
(* "odd" claims the generation of "old" and uses a dictionary as a key     *)
(* tuple.                                                                  *)
(***************************************************************************)
EXTENDS AppendableFile, RootSelection, TLC

VARIABLE part

Symmetry == Permutations(Writers)
MCMaxBatches == <<1, 2, 1>>

MCRootRefs == {"old", "new", "rival", "odd"}
MCObjects == {"d", "k", "m", "x", "chunk"}
MCGeneration ==
  [r \in MCRootRefs |-> CASE r = "old" -> 1 [] r = "odd" -> 1
                        [] r = "new" -> 2 [] r = "rival" -> 2]
MCKind ==
  [o \in MCObjects |-> CASE o = "d" -> "dictionary"
                       [] o \in {"k", "m", "x"} -> "keyTuple"
                       [] o = "chunk" -> "plain"]
MCLength == [o \in MCObjects |-> IF o = "d" THEN 2 ELSE 1]

As(o, kind) == [ref |-> o, as |-> kind]
MCInventory ==
  [r \in MCRootRefs |->
     CASE r = "old" -> <<As("d", "dictionary"), As("k", "keyTuple"), As("k", "keyTuple")>>
       [] r = "new" -> <<As("d", "dictionary"), As("m", "keyTuple"), As("chunk", "plain"),
                         As("m", "keyTuple")>>
       [] r = "rival" -> <<As("k", "keyTuple"), As("x", "keyTuple")>>
       [] r = "odd" -> <<As("k", "keyTuple"), As("d", "keyTuple")>>]

-----------------------------------------------------------------------------
MCInit ==
    \/ /\ part = "writing" /\ limit = 2
       /\ slotTable = [i \in TableSlot |-> [verdict |-> "corrupt"]]
       /\ Init /\ SelectionInit
    \/ part = "selection" /\ Init /\ SelectionInit

MCNext ==
    \/ part = "writing" /\ Next /\ UNCHANGED <<part, selectionVars>>
    \/ part = "selection" /\ SelectionNext /\ UNCHANGED <<part, vars>>

MCSpec == MCInit /\ [][MCNext]_<<part, vars, selectionVars>>
=============================================================================
