----------------------------- MODULE MCTensors -----------------------------
(***************************************************************************)
(* The two parts that work on an owned tensor, each checked by itself:     *)
(* `part' says which one runs, and the other one rests.                    *)
(*                                                                         *)
(* Operations: tensors of rank 1 to 3 with empty and unit axes, values     *)
(* near the limits of the integers, a float tensor and an ill-formed one.  *)
(* Twenty is the largest usize, so that <<0, 5, 5>> is a valid shape with  *)
(* a stride that overflows.                                                *)
(*                                                                         *)
(* Interchange: tensors with unit and empty axes and data that repeats, so *)
(* that rows can be alike.                                                 *)
(***************************************************************************)
EXTENDS TensorInterchange

VARIABLES part, held, last, steps

T(dtype, shape, data) == [dtype |-> dtype, shape |-> shape, data |-> data]

IllFormed == T("int", <<2, 2>>, <<1, 2, 3>>)
MCTensorValues ==
    {T("int", <<3>>, <<2, -1, 2>>),
     T("int", <<2, 3>>, <<1, 4, 2, 4, -5, 3>>),
     T("int", <<1, 3>>, <<0, 1, -2>>),
     T("float", <<2, 1, 2>>, <<1, 2, 3, 4>>),
     T("int", <<2, 0>>, <<>>),
     T("int", <<0, 5, 5>>, <<>>),
     IllFormed}

MCShapes == {<<>>, <<6>>, <<3, 2>>, <<2, 3>>, <<1, 1, 4>>, <<0, 3>>, <<4, 4, 4>>}

EmptyTensor == T("i64", <<0, 2>>, <<>>)
MCOriginals ==
    {T("i32", <<3>>, <<1, 1, 2>>),
     T("f64", <<2, 2>>, <<1, 2, 1, 2>>),
     T("f32", <<2, 1, 2>>, <<4, 3, 2, 1>>),
     T("i64", <<1, 3>>, <<7, 8, 9>>),
     EmptyTensor,
     T("i32", <<2, 0>>, <<>>)}

Ops == INSTANCE TensorOps WITH
    Tensors <- MCTensorValues, Shapes <- MCShapes,
    MaxUsize <- 20, MaxInt <- 5, MaxElements <- 8, MaxSteps <- 1

ASSUME Ops!TensorOpsAssumption

MCInit ==
    \/ part = "operations" /\ original = EmptyTensor /\ Ops!Init /\ InterchangeInit
    \/ part = "interchange" /\ held = IllFormed /\ Ops!Init /\ InterchangeInit

MCNext ==
    \/ /\ part = "operations" /\ Ops!Next
       /\ UNCHANGED <<part, interchangeVars>>
    \/ /\ part = "interchange" /\ InterchangeNext
       /\ UNCHANGED <<part, held, last, steps>>

MCSpec == MCInit /\ [][MCNext]_<<part, Ops!vars, interchangeVars>>

(* An operation that succeeds returns, at every index, the element its      *)
(* definition on multi-indices names; the checks behind the argument checks *)
(* never fire.                                                              *)
ElementsFollowDefinition == Ops!ElementsFollowDefinition

(* A reduction gives in every slot the value of exactly the elements that   *)
(* agree with the slot on the axes that stay.                               *)
ReductionsCoverTheirSlots == Ops!ReductionsCoverTheirSlots
=============================================================================
