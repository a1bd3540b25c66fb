----------------------------- MODULE TensorOps -----------------------------
(* The owned-tensor operations of ops.rs: how they validate, which elements *)
(* they move where, and how their checked arithmetic fails.  Tensors are    *)
(* row-major; the element types differ only in whether arithmetic is        *)
(* checked, so "int" stands for i32 and i64 and "float" for f32 and f64.    *)
(* A float is exact here: rounding is left out, and so are float division   *)
(* and square roots.                                                        *)
EXTENDS Integers, Sequences, FiniteSets, SequencesExt

CONSTANTS
    Tensors,      \* the tensors a caller starts from, ill-formed ones too
    Shapes,       \* target shapes of reshape and broadcast_to
    MaxUsize,     \* largest usize
    MaxInt,       \* largest value of an integer element
    MaxElements,  \* largest result that is operated on again
    MaxSteps      \* operations in a row

(* What the constants must be.                                              *)
TensorOpsAssumption ==
    /\ MaxUsize \in Nat /\ MaxInt \in Nat /\ MaxElements \in Nat /\ MaxSteps \in Nat

MaxIsize == MaxUsize \div 2

VARIABLES
    held,    \* the tensor the caller works on
    last,    \* the last operation: its name, arguments, operand and result
    steps    \* operations done

vars == <<held, last, steps>>

(* ---- Results ------------------------------------------------------------- *)

Ok(value) == [err |-> "none", value |-> value]
Err(reason) == [err |-> reason, value |-> <<>>]
Rejected == Err("argument")    \* a condition on the caller's arguments
TooBig == Err("overflow")      \* a checked product, sum or stride
Unexpected == Err("internal")  \* a check behind the argument checks
Then(r, F(_)) == IF r.err = "none" THEN F(r.value) ELSE r

(* ---- Shapes -------------------------------------------------------------- *)

Overflow == -1
checked_mul(a, b) == IF a = Overflow \/ a * b > MaxUsize THEN Overflow ELSE a * b

shape_element_len(shape) == FoldLeft(checked_mul, 1, shape)

(* The stride of an axis multiplies the dimensions after it, last first; a  *)
(* zero among them does not undo an overflow.                               *)
row_major_strides(shape) ==
    [a \in DOMAIN shape |->
        FoldLeft(checked_mul, 1, Reverse(SubSeq(shape, a + 1, Len(shape))))]

StridesFit(shape) == \A a \in DOMAIN shape : row_major_strides(shape)[a] # Overflow

validate_tensor_parts(shape, data) ==
    Len(shape) >= 1 /\ shape_element_len(shape) = Len(data)

validate(t) == validate_tensor_parts(t.shape, t.data)

(* A result is validated before it is returned.                             *)
tensor_from_data(dtype, shape, data) ==
    IF validate_tensor_parts(shape, data)
    THEN Ok([dtype |-> dtype, shape |-> shape, data |-> data]) ELSE Unexpected

(* Axes count from 0 and, when negative, from the end.  The model's axes    *)
(* count from 1; 0 is "out of bounds".                                      *)
normalize_axis(axis, rank) ==
    LET n == IF axis < 0 THEN rank + axis ELSE axis
    IN  IF n < 0 \/ n >= rank THEN 0 ELSE n + 1

normalize_insert_axis(axis, rank) ==
    LET n == IF axis < 0 THEN rank + axis + 1 ELSE axis
    IN  IF n < 0 \/ n > rank THEN 0 ELSE n + 1

normalize_axes(axes, rank) == [k \in DOMAIN axes |-> normalize_axis(axes[k], rank)]
Distinct(s) == \A j, k \in DOMAIN s : s[j] = s[k] => j = k
AxesFit(axes) == (\A k \in DOMAIN axes : axes[k] # 0) /\ Distinct(axes)

(* Shapes are compared from the last axis; a missing axis has length 1.     *)
broadcast_shape(l, r) ==
    LET rank == IF Len(l) > Len(r) THEN Len(l) ELSE Len(r)
        Dim(s, a) == IF a > rank - Len(s) THEN s[a - (rank - Len(s))] ELSE 1
    IN  IF \A a \in 1..rank : Dim(l, a) = Dim(r, a) \/ 1 \in {Dim(l, a), Dim(r, a)}
        THEN Ok([a \in 1..rank |-> IF Dim(l, a) = 1 THEN Dim(r, a) ELSE Dim(l, a)])
        ELSE Rejected

(* ---- Walking a tensor ---------------------------------------------------- *)

(* The last axis that can still advance does; the axes behind it restart.   *)
increment_indices(i, shape) ==
    LET open == {a \in DOMAIN i : i[a] + 1 < shape[a]}
        axis == IF open = {} THEN 0 ELSE CHOOSE a \in open : \A b \in open : b <= a
    IN  [a \in DOMAIN i |->
            IF a < axis THEN i[a] ELSE IF a = axis THEN i[a] + 1 ELSE 0]

Walk(shape, n) ==
    LET at[k \in 1..n] ==
            IF k = 1 THEN [a \in DOMAIN shape |-> 0]
            ELSE increment_indices(at[k - 1], shape)
    IN  at

(* The element at an index, if the index and the payload allow it.          *)
linear_from_indices(values, shape, i) ==
    LET strides == row_major_strides(shape)
        linear == FoldLeft(+, 0, [a \in DOMAIN shape |-> i[a] * strides[a]])
    IN  IF (\A a \in DOMAIN shape : i[a] < shape[a]) /\ linear < Len(values)
        THEN <<values[linear + 1]>> ELSE <<>>

(* The loop of every *_values helper: walk the output, fetch each element.  *)
Gather(inputs, out_shape, Fetch(_)) ==
    LET n == shape_element_len(out_shape)
        walk == Walk(out_shape, n)
        fetched == [k \in 1..n |-> Fetch(walk[k])]
    IN  IF n = Overflow \/ \E s \in inputs : ~StridesFit(s) THEN TooBig
        ELSE IF \E k \in 1..n : fetched[k] = <<>> THEN Unexpected
        ELSE Ok([k \in 1..n |-> fetched[k][1]])

(* A tensor whose element at index i is the input's element at From(i).     *)
Moved(t, out_shape, From(_)) ==
    Then(Gather({t.shape}, out_shape,
                LAMBDA i : linear_from_indices(t.data, t.shape, From(i))),
         LAMBDA data : tensor_from_data(t.dtype, out_shape, data))

permute_values(t, axes, out_shape) ==
    Moved(t, out_shape,
          LAMBDA i : [a \in DOMAIN t.shape |-> i[CHOOSE k \in DOMAIN axes : axes[k] = a]])

broadcast_values(t, out_shape) ==
    LET offset == Len(out_shape) - Len(t.shape)
    IN  Moved(t, out_shape,
              LAMBDA i : [a \in DOMAIN t.shape |->
                             IF t.shape[a] = 1 THEN 0 ELSE i[offset + a]])

take_axis_values(t, axis, indices) ==
    Moved(t, [t.shape EXCEPT ![axis] = Len(indices)],
          LAMBDA i : [i EXCEPT ![axis] = indices[i[axis] + 1]])

slice_axis_range_values(t, axis, start, end) ==
    Moved(t, [t.shape EXCEPT ![axis] = end - start],
          LAMBDA i : [i EXCEPT ![axis] = start + @])

repeat_values(t, axis, repeats) ==
    Moved(t, [t.shape EXCEPT ![axis] = @ * repeats],
          LAMBDA i : [i EXCEPT ![axis] = @ \div repeats])

tile_values(t, out_shape) ==
    Moved(t, out_shape, LAMBDA i : [a \in DOMAIN i |-> i[a] % t.shape[a]])

flip_values(t, axis) ==
    Moved(t, t.shape, LAMBDA i : [i EXCEPT ![axis] = t.shape[axis] - 1 - @])

(* Fault: the shift is added to the target index.                           *)
RollForward(t, axis, shift) ==
    Moved(t, t.shape, LAMBDA i : [i EXCEPT ![axis] = (@ + shift) % t.shape[axis]])

(* rem_euclid makes the shift non-negative before it is subtracted.         *)
roll_values(t, axis, shift) ==
    Moved(t, t.shape,
          LAMBDA i : [i EXCEPT ![axis] =
                         (@ + t.shape[axis] - (shift % t.shape[axis])) % t.shape[axis]])

(* The input is the one whose window of prefix sums holds the axis index.   *)
concat_values(ts, axis, out_shape) ==
    LET axis_prefix == [k \in 1..(Len(ts) + 1) |->
            FoldLeft(+, 0, [j \in 1..(k - 1) |-> ts[j].shape[axis]])]
        Fetch(i) ==
            LET window == {k \in DOMAIN ts :
                              axis_prefix[k] <= i[axis] /\ i[axis] < axis_prefix[k + 1]}
                k == CHOOSE w \in window : \A v \in window : w <= v
            IN  IF window = {} THEN <<>>
                ELSE linear_from_indices(ts[k].data, ts[k].shape,
                                         [i EXCEPT ![axis] = @ - axis_prefix[k]])
    IN  Then(Gather({ts[k].shape : k \in DOMAIN ts}, out_shape, Fetch),
             LAMBDA data : tensor_from_data(ts[1].dtype, out_shape, data))

stack_values(ts, axis, out_shape) ==
    Then(Gather({ts[1].shape}, out_shape,
                LAMBDA i : linear_from_indices(ts[i[axis] + 1].data, ts[1].shape,
                                               RemoveAt(i, axis))),
         LAMBDA data : tensor_from_data(ts[1].dtype, out_shape, data))

(* ---- Changing the shape -------------------------------------------------- *)

to_contiguous(t) == IF validate(t) THEN Ok(t) ELSE Rejected

reshape(t, shape) ==
    IF ~validate(t) \/ shape = <<>> THEN Rejected
    ELSE IF shape_element_len(shape) = Overflow THEN TooBig
    ELSE IF shape_element_len(shape) # Len(t.data) THEN Rejected
    ELSE tensor_from_data(t.dtype, shape, t.data)

flatten(t) == reshape(t, <<Len(t.data)>>)

expand_dims(t, axis) ==
    LET a == normalize_insert_axis(axis, Len(t.shape))
    IN  IF ~validate(t) \/ a = 0 THEN Rejected
        ELSE tensor_from_data(t.dtype, InsertAt(t.shape, a, 1), t.data)

squeeze(t) ==
    LET shape == SelectSeq(t.shape, LAMBDA d : d # 1)
    IN  IF ~validate(t) \/ shape = <<>> THEN Rejected
        ELSE tensor_from_data(t.dtype, shape, t.data)

squeeze_axis(t, axis) ==
    LET a == normalize_axis(axis, Len(t.shape))
    IN  IF ~validate(t) \/ a = 0 THEN Rejected
        ELSE IF t.shape[a] # 1 \/ Len(t.shape) = 1 THEN Rejected
        ELSE tensor_from_data(t.dtype, RemoveAt(t.shape, a), t.data)

permute_axes(t, axes) ==
    LET normalized == normalize_axes(axes, Len(t.shape))
    IN  IF ~validate(t) \/ Len(axes) # Len(t.shape) \/ ~AxesFit(normalized) THEN Rejected
        ELSE permute_values(t, normalized,
                            [k \in DOMAIN axes |-> t.shape[normalized[k]]])

ZeroTo(rank) == [k \in 1..rank |-> k - 1]

swap_axes(t, axis_a, axis_b) ==
    LET rank == Len(t.shape)
        a == normalize_axis(axis_a, rank)
        b == normalize_axis(axis_b, rank)
    IN  IF ~validate(t) \/ 0 \in {a, b} THEN Rejected
        ELSE permute_axes(t, [ZeroTo(rank) EXCEPT ![a] = b - 1, ![b] = a - 1])

transpose(t) == permute_axes(t, Reverse(ZeroTo(Len(t.shape))))

move_axis(t, source, destination) ==
    LET rank == Len(t.shape)
        s == normalize_axis(source, rank)
        d == normalize_axis(destination, rank)
    IN  IF ~validate(t) \/ 0 \in {s, d} THEN Rejected
        ELSE permute_axes(t, InsertAt(RemoveAt(ZeroTo(rank), s), d, s - 1))

broadcast_to(t, shape) ==
    IF ~validate(t) \/ shape = <<>> THEN Rejected
    ELSE IF broadcast_shape(t.shape, shape) # Ok(shape) THEN Rejected
    ELSE broadcast_values(t, shape)

(* ---- Selecting ----------------------------------------------------------- *)

Between(low, x, high) == IF x < low THEN low ELSE IF x > high THEN high ELSE x

(* Bounds count from the end when negative and are clamped to the axis; a   *)
(* backward slice clamps to -1, before the first element.  The step past    *)
(* the last index is computed too and must fit an isize.                    *)
strided_indices(len, start, end, step) ==
    LET Bound(x) == IF x < 0 THEN x + len ELSE x
        low == IF step > 0 THEN 0 ELSE -1
        high == IF step > 0 THEN len ELSE len - 1
        from == Between(low, Bound(start), high)
        to == Between(low, Bound(end), high)
        count == IF step > 0
                 THEN IF from < to THEN (to - from + step - 1) \div step ELSE 0
                 ELSE IF from > to THEN (from - to - step - 1) \div (-step) ELSE 0
    IN  IF len = 0 THEN Ok(<<>>)
        ELSE IF from + count * step \notin (-MaxIsize - 1)..MaxIsize THEN TooBig
        ELSE Ok([k \in 1..count |-> from + (k - 1) * step])

take_axis_normalized(t, axis, indices) ==
    IF \E k \in DOMAIN indices : indices[k] >= t.shape[axis] THEN Rejected
    ELSE take_axis_values(t, axis, indices)

OnAxis(t, axis, F(_)) ==
    LET a == normalize_axis(axis, Len(t.shape))
    IN  IF ~validate(t) \/ a = 0 THEN Rejected ELSE F(a)

slice_axis(t, axis, start, end) ==
    OnAxis(t, axis, LAMBDA a :
        IF start > end \/ end > t.shape[a] THEN Rejected
        ELSE take_axis_normalized(t, a, [k \in 1..(end - start) |-> start + k - 1]))

slice_axis_step(t, axis, start, end, step) ==
    IF step = 0 THEN Rejected
    ELSE OnAxis(t, axis, LAMBDA a :
             Then(strided_indices(t.shape[a], start, end, step),
                  LAMBDA indices : take_axis_normalized(t, a, indices)))

take_axis(t, axis, indices) ==
    OnAxis(t, axis, LAMBDA a : take_axis_normalized(t, a, indices))

index_axis(t, axis, index) == take_axis(t, axis, <<index>>)

slice_axis_range_normalized(t, axis, start, end) ==
    IF start > end \/ end > t.shape[axis] THEN Rejected
    ELSE slice_axis_range_values(t, axis, start, end)

flip(t, axis) == OnAxis(t, axis, LAMBDA a : flip_values(t, a))

roll(t, axis, shift) == OnAxis(t, axis, LAMBDA a : roll_values(t, a, shift))

repeat(t, axis, repeats) ==
    OnAxis(t, axis, LAMBDA a :
        IF t.shape[a] * repeats > MaxUsize THEN TooBig ELSE repeat_values(t, a, repeats))

tile(t, reps) ==
    LET out == [a \in DOMAIN reps |-> t.shape[a] * reps[a]]
    IN  IF ~validate(t) \/ Len(reps) # Len(t.shape) THEN Rejected
        ELSE IF \E a \in DOMAIN reps : out[a] > MaxUsize THEN TooBig
        ELSE tile_values(t, out)

(* ---- Joining and splitting ----------------------------------------------- *)

concat(ts, axis) ==
    LET rank == Len(ts[1].shape)
        a == normalize_axis(axis, rank)
        total == FoldLeft(+, 0, [k \in DOMAIN ts |-> ts[k].shape[a]])
    IN  IF ts = <<>> THEN Rejected
        ELSE IF a = 0 \/ \E k \in DOMAIN ts :
                  \/ ~validate(ts[k]) \/ ts[k].dtype # ts[1].dtype
                  \/ Len(ts[k].shape) # rank
                  \/ \E b \in (1..rank) \ {a} : ts[k].shape[b] # ts[1].shape[b]
             THEN Rejected
        ELSE IF total > MaxUsize THEN TooBig
        ELSE concat_values(ts, a, [ts[1].shape EXCEPT ![a] = total])

stack(ts, axis) ==
    LET a == normalize_insert_axis(axis, Len(ts[1].shape))
    IN  IF ts = <<>> THEN Rejected
        ELSE IF a = 0 \/ \E k \in DOMAIN ts :
                  \/ ~validate(ts[k]) \/ ts[k].dtype # ts[1].dtype
                  \/ ts[k].shape # ts[1].shape
             THEN Rejected
        ELSE stack_values(ts, a, InsertAt(ts[1].shape, a, Len(ts)))

(* The parts are made one after the other; the first failure is returned.   *)
AllOk(parts) ==
    LET bad == {k \in DOMAIN parts : parts[k].err # "none"}
    IN  IF bad = {} THEN Ok([k \in DOMAIN parts |-> parts[k].value])
        ELSE parts[CHOOSE k \in bad : \A j \in bad : k <= j]

split(t, axis, sections) ==
    LET Start(k) == FoldLeft(+, 0, SubSeq(sections, 1, k - 1))
    IN  IF sections = <<>> THEN Rejected
        ELSE OnAxis(t, axis, LAMBDA a :
            IF FoldLeft(+, 0, sections) # t.shape[a] THEN Rejected
            ELSE AllOk([k \in DOMAIN sections |->
                     slice_axis_range_normalized(t, a, Start(k), Start(k + 1))]))

unstack(t, axis) ==
    IF Len(t.shape) = 1 THEN Rejected
    ELSE OnAxis(t, axis, LAMBDA a :
        AllOk([k \in 1..t.shape[a] |->
            Then(take_axis_normalized(t, a, <<k - 1>>),
                 LAMBDA indexed : squeeze_axis(indexed, a - 1))]))

(* ---- Arithmetic ---------------------------------------------------------- *)

Quotient(a, b) ==   \* truncates toward zero
    LET Abs(x) == IF x < 0 THEN -x ELSE x
        q == Abs(a) \div Abs(b)
    IN  IF (a < 0) = (b < 0) THEN q ELSE -q

Value(a, b, op) ==
    CASE op = "add" -> a + b [] op = "sub" -> a - b
      [] op = "mul" -> a * b [] op = "div" -> Quotient(a, b)

(* checked_add, checked_sub, checked_mul, checked_div of i32 and i64: no    *)
(* value when the divisor is zero or the result does not fit.  Floats have  *)
(* no such failure.                                                         *)
Checked(dtype, a, b, op) ==
    IF op = "div" /\ b = 0 THEN <<>>
    ELSE IF dtype = "int" /\ Value(a, b, op) \notin (-MaxInt - 1)..MaxInt THEN <<>>
    ELSE <<Value(a, b, op)>>

scalar_op(t, dtype, rhs, op) ==
    LET out == [k \in DOMAIN t.data |-> Checked(t.dtype, t.data[k], rhs, op)]
    IN  IF ~validate(t) \/ dtype # t.dtype THEN Rejected
        ELSE IF \E k \in DOMAIN out : out[k] = <<>> THEN Err("integer")
        ELSE tensor_from_data(t.dtype, t.shape, [k \in DOMAIN out |-> out[k][1]])

(* Both operands are read through the broadcast of their index.             *)
binary_broadcast_values(l, r, out_shape, op) ==
    LET Of(t, i) ==
            LET offset == Len(out_shape) - Len(t.shape)
            IN  linear_from_indices(t.data, t.shape,
                    [a \in DOMAIN t.shape |->
                        IF t.shape[a] = 1 THEN 0 ELSE i[offset + a]])
        Pair(i) == IF <<>> \in {Of(l, i), Of(r, i)} THEN <<>>
                   ELSE <<Checked(l.dtype, Of(l, i)[1], Of(r, i)[1], op)>>
    IN  Then(Gather({l.shape, r.shape}, out_shape, Pair), LAMBDA out :
            IF \E k \in DOMAIN out : out[k] = <<>> THEN Err("integer")
            ELSE tensor_from_data(l.dtype, out_shape, [k \in DOMAIN out |-> out[k][1]]))

binary_op(l, r, op) ==
    IF ~validate(l) \/ ~validate(r) \/ l.dtype # r.dtype THEN Rejected
    ELSE Then(broadcast_shape(l.shape, r.shape),
              LAMBDA out_shape : binary_broadcast_values(l, r, out_shape, op))

(* ---- Reductions ---------------------------------------------------------- *)

(* ReductionPlan: the reduced axes, the shape that is left and the strides  *)
(* of the output and of the reduced subspace.                               *)
ReductionPlan(shape, axes, keepdims) ==
    LET reduced == {normalize_axis(axes[k], Len(shape)) : k \in DOMAIN axes}
        kept == [a \in DOMAIN shape |-> IF a \in reduced THEN 1 ELSE shape[a]]
        left == SelectSeq(ZeroTo(Len(shape)), LAMBDA a : a + 1 \notin reduced)
        out_shape == IF keepdims THEN kept ELSE [k \in DOMAIN left |-> shape[left[k] + 1]]
        inner == [a \in DOMAIN shape |-> IF a \in reduced THEN shape[a] ELSE 1]
    IN  IF ~AxesFit(normalize_axes(axes, Len(shape))) THEN Rejected
        ELSE IF out_shape = <<>> THEN Rejected
        ELSE IF \/ Overflow \in {FoldLeft(checked_mul, 1, Reverse(inner)),
                                 shape_element_len(out_shape)}
                \/ ~StridesFit(out_shape) THEN TooBig
        ELSE Ok([reduced |-> reduced, out_shape |-> out_shape,
                 kept |-> kept, inner |-> inner,
                 out_elems |-> shape_element_len(out_shape),
                 reduced_elems |-> FoldLeft(checked_mul, 1, Reverse(inner))])

(* Keeping or dropping an axis of length 1 does not move an element, so one *)
(* index serves both layouts.                                               *)
out_index(plan, i) ==
    FoldLeft(+, 1, [a \in DOMAIN i |->
        IF a \in plan.reduced THEN 0 ELSE i[a] * row_major_strides(plan.kept)[a]])

reduced_index(plan, i) ==
    FoldLeft(+, 0, [a \in DOMAIN i |->
        IF a \in plan.reduced THEN i[a] * row_major_strides(plan.inner)[a] ELSE 0])

(* The values are visited in row-major order and combined into their slot.  *)
Reduce(t, plan, empty, Combine(_, _, _)) ==
    LET walk == Walk(t.shape, Len(t.data))
        Visit(acc, k) == Then(acc, LAMBDA out :
            LET slot == out_index(plan, walk[k])
                next == Combine(out[slot], t.data[k], reduced_index(plan, walk[k]))
            IN  IF next = <<>> THEN Err("integer")
                ELSE Ok([out EXCEPT ![slot] = next[1]]))
    IN  FoldLeft(Visit, Ok([k \in 1..plan.out_elems |-> empty]),
                 [k \in 1..Len(t.data) |-> k])

Reduction(t, axes, keepdims, F(_)) ==
    IF ~validate(t) THEN Rejected ELSE Then(ReductionPlan(t.shape, axes, keepdims), F)

reduce_sum_values(t, dtype, plan) ==
    Reduce(t, plan, 0, LAMBDA sofar, value, at : Checked(dtype, sofar, value, "add"))

sum(t, axes, keepdims) ==
    Reduction(t, axes, keepdims, LAMBDA plan :
        Then(reduce_sum_values(t, t.dtype, plan),
             LAMBDA data : tensor_from_data(t.dtype, plan.out_shape, data)))

(* Integer means and variances are computed in f64.  A quotient is kept as  *)
(* numerator and denominator.                                               *)
mean(t, axes, keepdims) ==
    Reduction(t, axes, keepdims, LAMBDA plan :
        IF plan.reduced_elems = 0 THEN Rejected
        ELSE Then(reduce_sum_values(t, "float", plan), LAMBDA data :
            tensor_from_data("float", plan.out_shape,
                [k \in DOMAIN data |-> <<data[k], plan.reduced_elems>>])))

reduce_variance(t, plan) ==
    LET n == plan.reduced_elems
        means == reduce_sum_values(t, "float", plan).value   \* times n
        walk == Walk(t.shape, Len(t.data))
        Delta(k) == n * t.data[k] - means[out_index(plan, walk[k])]
        In(slot) == {k \in DOMAIN t.data : out_index(plan, walk[k]) = slot}
    IN  [slot \in 1..plan.out_elems |->
            <<FoldLeft(LAMBDA acc, k : acc + (IF k \in In(slot) THEN Delta(k) * Delta(k) ELSE 0),
                       0, [k \in DOMAIN t.data |-> k]), n * n * n>>]

var(t, axes, keepdims) ==
    Reduction(t, axes, keepdims, LAMBDA plan :
        IF plan.reduced_elems = 0 /\ plan.out_elems > 0 THEN Rejected
        ELSE tensor_from_data("float", plan.out_shape, reduce_variance(t, plan)))

(* Fault: a tie goes to the later element.                                  *)
LastExtreme(t, plan, take_max) ==
    Reduce(t, plan, <<>>, LAMBDA current, value, at :
        IF current = <<>> THEN <<<<value, at>>>>
        ELSE IF (take_max /\ value >= current[1]) \/ (~take_max /\ value <= current[1])
        THEN <<<<value, at>>>> ELSE <<current>>)

(* The first extreme value wins a tie.  A slot is <<value, offset>>.        *)
Extreme(t, plan, take_max) ==
    IF plan.reduced_elems = 0 /\ plan.out_elems > 0 THEN Rejected
    ELSE Reduce(t, plan, <<>>, LAMBDA current, value, at :
             IF current = <<>> THEN <<<<value, at>>>>
             ELSE IF (take_max /\ value > current[1]) \/ (~take_max /\ value < current[1])
             THEN <<<<value, at>>>> ELSE <<current>>)

reduce_extreme_values(t, axes, keepdims, take_max) ==
    Reduction(t, axes, keepdims, LAMBDA plan :
        Then(Extreme(t, plan, take_max), LAMBDA out :
            tensor_from_data(t.dtype, plan.out_shape, [k \in DOMAIN out |-> out[k][1]])))

arg_reduce(t, axes, keepdims, take_max) ==
    Reduction(t, axes, keepdims, LAMBDA plan :
        Then(Extreme(t, plan, take_max), LAMBDA out :
            tensor_from_data("int", plan.out_shape, [k \in DOMAIN out |-> out[k][2]])))

(* Each element combines with the result one stride back on its axis.       *)
cumulative_values(t, shape, axis, op) ==
    LET walk == Walk(shape, Len(t.data))
        stride == row_major_strides(shape)[axis]
        Visit(acc, k) == Then(acc, LAMBDA out :
            IF walk[k][axis] = 0 THEN Ok(Append(out, t.data[k]))
            ELSE LET next == Checked(t.dtype, out[k - stride], t.data[k], op)
                 IN  IF next = <<>> THEN Err("integer") ELSE Ok(Append(out, next[1])))
    IN  IF ~StridesFit(shape) THEN TooBig
        ELSE FoldLeft(Visit, Ok(<<>>), [k \in 1..Len(t.data) |-> k])

cumulative_op(t, axis, op) ==
    OnAxis(t, axis, LAMBDA a :
        Then(cumulative_values(t, t.shape, a, op),
             LAMBDA data : tensor_from_data(t.dtype, t.shape, data)))

(* axis = None runs over the flattened tensor.                              *)
cumulative_flat(t, op) ==
    IF ~validate(t) THEN Rejected
    ELSE Then(cumulative_values(t, <<Len(t.data)>>, 1, op),
              LAMBDA data : tensor_from_data(t.dtype, <<Len(t.data)>>, data))

(* ---- The caller ---------------------------------------------------------- *)

Axes == (-Len(held.shape) - 1)..Len(held.shape)
Lengths == 0..3
AxisLists == {<<>>, <<0>>, <<1>>, <<-1>>, <<0, 1>>, <<1, 0>>, <<0, -1>>, <<2, 0, 1>>}

Init ==
    /\ held \in Tensors
    /\ last = [op |-> "none", arg |-> <<>>, before |-> held, result |-> Ok(held)]
    /\ steps = 0

(* The caller goes on with the result, when it is small enough to bound the *)
(* model, or keeps the tensor it has.                                       *)
Did(op, arg, result, next) ==
    /\ steps < MaxSteps
    /\ steps' = steps + 1
    /\ last' = [op |-> op, arg |-> arg, before |-> held, result |-> result]
    /\ held' = IF result.err = "none" /\ next.dtype \in {"int", "float"}
                  /\ Len(next.data) <= MaxElements
               THEN next ELSE held

Does(op, arg, result) == Did(op, arg, result, result.value)

Reshape ==
    \/ Does("contiguous", <<>>, to_contiguous(held))
    \/ Does("contiguous", <<>>, flatten(held))
    \/ Does("contiguous", <<>>, squeeze(held))
    \/ \E shape \in Shapes : Does("contiguous", shape, reshape(held, shape))
    \/ \E axis \in Axes : Does("contiguous", axis, expand_dims(held, axis))
    \/ \E axis \in Axes : Does("contiguous", axis, squeeze_axis(held, axis))

Permute ==
    \/ \E axes \in AxisLists :
          Does("permute", normalize_axes(axes, Len(held.shape)), permute_axes(held, axes))
    \/ Does("permute", Reverse([a \in DOMAIN held.shape |-> a]), transpose(held))
    \/ \E a, b \in Axes :
          \/ Does("swap", normalize_axes(<<a, b>>, Len(held.shape)), swap_axes(held, a, b))
          \/ Does("move", normalize_axes(<<a, b>>, Len(held.shape)), move_axis(held, a, b))

Select ==
    \E axis \in Axes :
       LET a == normalize_axis(axis, Len(held.shape))
       IN  \/ \E start, end \in Lengths :
                 Does("slice", <<a, start, end, 1>>, slice_axis(held, axis, start, end))
           \/ \E start \in {-4, -1, 0, 1, 3}, end \in {-4, -2, 0, 3, 4}, step \in {-2, -1, 0, 2, 9} :
                 Does("slice", <<a, start, end, step>>,
                      slice_axis_step(held, axis, start, end, step))
           \/ \E indices \in {<<>>, <<0>>, <<1, 0>>, <<1, 1, 2>>} :
                 Does("take", <<a, indices>>, take_axis(held, axis, indices))
           \/ \E index \in Lengths :
                 Does("take", <<a, <<index>>>>, index_axis(held, axis, index))

Replicate ==
    \/ \E shape \in Shapes : Does("broadcast", shape, broadcast_to(held, shape))
    \/ \E axis \in Axes :
       LET a == normalize_axis(axis, Len(held.shape))
       IN  \/ Does("flip", a, flip(held, axis))
           \/ \E shift \in {-4, -1, 2} : Does("roll", <<a, shift>>, roll(held, axis, shift))
           \/ \E n \in Lengths : Does("repeat", <<a, n>>, repeat(held, axis, n))
    \/ \E reps \in {<<2>>, <<0, 2>>, <<2, 1>>, <<1, 1, 2>>} :
          Does("tile", reps, tile(held, reps))

Join ==
    \E other \in Tensors, axis \in Axes :
       \/ Does("concat", <<normalize_axis(axis, Len(held.shape)), <<held, other>>>>,
               concat(<<held, other>>, axis))
       \/ Does("stack", <<normalize_insert_axis(axis, Len(held.shape)), <<held, other>>>>,
               stack(<<held, other>>, axis))

Divide ==
    \E axis \in Axes :
       LET a == normalize_axis(axis, Len(held.shape))
           Goes(op, arg, parts) ==
              IF parts.err = "none" /\ parts.value # <<>>
              THEN \E k \in DOMAIN parts.value : Did(op, arg, parts, parts.value[k])
              ELSE Did(op, arg, parts, held)
       IN  \/ \E sections \in {<<>>, <<2>>, <<1, 1>>, <<0, 2>>, <<1, 2>>} :
                 Goes("split", <<a, sections>>, split(held, axis, sections))
           \/ Goes("unstack", a, unstack(held, axis))

Calculate ==
    \E op \in {"add", "sub", "mul", "div"} :
       /\ op = "div" => held.dtype = "int"
       /\ \/ \E dtype \in {"int", "float"}, rhs \in {-1, 0, 2} :
                Does("scalar", <<rhs, op>>, scalar_op(held, dtype, rhs, op))
          \/ \E other \in Tensors :
                Does("binary", <<other, op>>, binary_op(held, other, op))

Summarise ==
    \/ \E axes \in AxisLists, keepdims \in BOOLEAN :
          \/ Does("sum", <<axes, keepdims>>, sum(held, axes, keepdims))
          \/ Did("mean", <<axes, keepdims>>, mean(held, axes, keepdims), held)
          \/ Did("var", <<axes, keepdims>>, var(held, axes, keepdims), held)
          \/ \E take_max \in BOOLEAN :
                \/ Does("extreme", <<axes, take_max>>,
                        reduce_extreme_values(held, axes, keepdims, take_max))
                \/ Does("arg", <<axes, take_max>>,
                        arg_reduce(held, axes, keepdims, take_max))
    \/ \E op \in {"add", "mul"} :
          \/ Does("cumulative", <<0, op>>, cumulative_flat(held, op))
          \/ \E axis \in Axes :
                Does("cumulative", <<normalize_axis(axis, Len(held.shape)), op>>,
                     cumulative_op(held, axis, op))

Next == Reshape \/ Permute \/ Select \/ Replicate \/ Join \/ Divide \/ Calculate \/ Summarise

Spec == Init /\ [][Next]_vars

----------------------------------------------------------------------------
(* ---- The reference: tensors as functions of their indices ---------------- *)

Indices(shape) ==
    LET longest == CHOOSE d \in ToSet(shape) : \A e \in ToSet(shape) : e <= d
    IN  {i \in [DOMAIN shape -> 0..(longest - 1)] : \A a \in DOMAIN shape : i[a] < shape[a]}

Earlier(i, j) == \E a \in DOMAIN i : i[a] < j[a] /\ \A b \in 1..(a - 1) : i[b] = j[b]

(* Row-major order is the lexicographic order of the indices.               *)
View(t) ==
    LET I == Indices(t.shape)
    IN  [i \in I |-> t.data[1 + Cardinality({j \in I : Earlier(j, i)})]]

(* Every element of u is the element of t at From of its index.             *)
Shows(u, t, From(_)) ==
    LET U == View(u)
        T == View(t)
    IN  \A i \in DOMAIN U : U[i] = T[From(i)]

(* The indices of a slice as a set: those of the axis reached by stepping   *)
(* from the first bound and short of the second.                            *)
SliceIndices(len, start, end, step) ==
    LET s == IF start < 0 THEN start + len ELSE start
        e == IF end < 0 THEN end + len ELSE end
        first == IF step > 0 THEN (IF s < 0 THEN 0 ELSE s)
                 ELSE (IF s > len - 1 THEN len - 1 ELSE s)
    IN  {x \in 0..(len - 1) :
            IF step > 0 THEN x >= first /\ x < e /\ (x - first) % step = 0
            ELSE x <= first /\ x > e /\ (first - x) % (-step) = 0}

(* What the operation behind `last` has to return.                          *)
Defined ==
    LET t == last.before
        u == last.result.value
        arg == last.arg
    IN  CASE last.op \in {"none", "mean", "var", "sum", "extreme", "arg"} -> TRUE
          [] last.op = "contiguous" -> u.data = t.data
          [] last.op = "permute" ->
                /\ u.shape = [k \in DOMAIN arg |-> t.shape[arg[k]]]
                /\ Shows(t, u, LAMBDA i : [k \in DOMAIN arg |-> i[arg[k]]])
          [] last.op = "swap" ->
                LET swapped(s) == [s EXCEPT ![arg[1]] = s[arg[2]], ![arg[2]] = s[arg[1]]]
                IN  u.shape = swapped(t.shape) /\ Shows(t, u, swapped)
          [] last.op = "move" ->
                LET moved(s) == InsertAt(RemoveAt(s, arg[1]), arg[2], s[arg[1]])
                IN  u.shape = moved(t.shape) /\ Shows(t, u, moved)
          [] last.op = "slice" ->
                LET chosen == SliceIndices(t.shape[arg[1]], arg[2], arg[3], arg[4])
                    Ahead(x) == {y \in chosen : IF arg[4] > 0 THEN y < x ELSE y > x}
                IN  /\ u.shape = [t.shape EXCEPT ![arg[1]] = Cardinality(chosen)]
                    /\ Shows(u, t, LAMBDA i : [i EXCEPT ![arg[1]] =
                          CHOOSE x \in chosen : Cardinality(Ahead(x)) = @])
          [] last.op = "take" ->
                Shows(u, t, LAMBDA i : [i EXCEPT ![arg[1]] = arg[2][@ + 1]])
          [] last.op = "broadcast" ->
                /\ u.shape = arg
                /\ Shows(u, t, LAMBDA i : [a \in DOMAIN t.shape |->
                      i[Len(arg) - Len(t.shape) + a] % t.shape[a]])
          [] last.op = "flip" ->
                /\ u.shape = t.shape
                /\ Shows(t, u, LAMBDA i : [i EXCEPT ![arg] = t.shape[arg] - 1 - @])
          [] last.op = "roll" ->   \* element x moves to x + shift
                /\ u.shape = t.shape
                /\ Shows(t, u, LAMBDA i : [i EXCEPT ![arg[1]] = (@ + arg[2]) % t.shape[arg[1]]])
          [] last.op = "repeat" ->
                /\ u.shape = [t.shape EXCEPT ![arg[1]] = @ * arg[2]]
                /\ \A n \in 0..(arg[2] - 1) :
                      Shows(t, u, LAMBDA i : [i EXCEPT ![arg[1]] = @ * arg[2] + n])
          [] last.op = "tile" ->
                Shows(u, t, LAMBDA i : [a \in DOMAIN i |-> i[a] % t.shape[a]])
          [] last.op = "concat" ->
                LET ts == arg[2]
                    n == ts[1].shape[arg[1]]
                IN  /\ u.shape[arg[1]] = n + ts[2].shape[arg[1]]
                    /\ Shows(ts[1], u, LAMBDA i : i)
                    /\ Shows(ts[2], u, LAMBDA i : [i EXCEPT ![arg[1]] = n + @])
          [] last.op = "stack" ->
                \A k \in {1, 2} :
                   Shows(arg[2][k], u, LAMBDA i : InsertAt(i, arg[1], k - 1))
          [] last.op = "split" ->
                \A k \in DOMAIN arg[2] :
                   /\ u[k].shape[arg[1]] = arg[2][k]
                   /\ Shows(u[k], t, LAMBDA i :
                        [i EXCEPT ![arg[1]] = @ + FoldLeft(+, 0, SubSeq(arg[2], 1, k - 1))])
          [] last.op = "unstack" ->
                /\ Len(u) = t.shape[arg]
                /\ \A k \in DOMAIN u : Shows(u[k], t, LAMBDA i : InsertAt(i, arg, k - 1))
          [] last.op = "scalar" ->
                \A k \in DOMAIN t.data : u.data[k] = Value(t.data[k], arg[1], arg[2])
          [] last.op = "binary" ->
                LET o == arg[1]
                    U == View(u)
                    T == View(t)
                    O == View(o)
                    Of(w, i) == [a \in DOMAIN w.shape |->
                                   i[Len(u.shape) - Len(w.shape) + a] % w.shape[a]]
                IN  \A i \in DOMAIN U : U[i] = Value(T[Of(t, i)], O[Of(o, i)], arg[2])
          [] last.op = "cumulative" ->
                LET U == View(u)
                    T == View([t EXCEPT !.shape = u.shape])
                    axis == IF arg[1] = 0 THEN 1 ELSE arg[1]
                    Before(i) == [x \in 0..(i[axis] - 1) |-> T[[i EXCEPT ![axis] = x]]]
                IN  /\ u.shape = IF arg[1] = 0 THEN <<Len(t.data)>> ELSE t.shape
                    /\ \A i \in DOMAIN U :
                          U[i] = FoldFunction(LAMBDA v, acc : Value(acc, v, arg[2]),
                                              T[i], Before(i))

(* An operation that succeeds returns, at every index, the element its      *)
(* definition on multi-indices names, for tensors of any rank, with empty   *)
(* axes and with negative axes and bounds; and the checks behind the        *)
(* argument checks (an index out of the payload, a payload that does not    *)
(* fit the shape) never fire.                                               *)
ElementsFollowDefinition ==
    /\ last.result.err # "internal"
    /\ last.result.err = "none" /\ last.op # "none" => validate(last.before) /\ Defined

(* The tensor at hand was just returned (or is the first one).              *)
Returned == last.result.err = "none" /\ (steps = 0 \/ held # last.before)

(* A reduction gives in every slot the sum, or the first extreme value and  *)
(* its row-major offset, of exactly the elements that agree with the slot   *)
(* on the axes that stay; an integer sum is exact or refused, never         *)
(* wrapped; mean and variance are those of the same elements.               *)
ReductionsCoverTheirSlots ==
    Returned /\ validate(held) /\ StridesFit(held.shape) =>
       \A axes \in AxisLists :
          LET plan == ReductionPlan(held.shape, axes, TRUE)
              R == plan.value.reduced
              T == View(held)
              Slot(i) == {j \in DOMAIN T : \A a \in DOMAIN i \ R : i[a] = j[a]}
              Total(S, F(_)) == FoldSet(LAMBDA j, acc : acc + F(j), 0, S)
              Out(r) == IF r.err = "none" THEN View(r.value) ELSE <<>>
              S == Out(sum(held, axes, TRUE))
              M == Out(mean(held, axes, TRUE))
              V == Out(var(held, axes, TRUE))
              X == [max \in BOOLEAN |-> Out(reduce_extreme_values(held, axes, TRUE, max))]
              P == [max \in BOOLEAN |-> Out(arg_reduce(held, axes, TRUE, max))]
              Beats(max, k, j) == IF max THEN T[k] > T[j] ELSE T[k] < T[j]
          IN  plan.err = "none" =>
                \A i \in Indices(plan.value.out_shape) :
                   LET slot == Slot(i)
                       n == Cardinality(slot)
                       total == Total(slot, LAMBDA j : T[j])
                       squares == Total(slot, LAMBDA j : T[j] * T[j])
                   IN  /\ IF S = <<>> THEN held.dtype = "int" ELSE S[i] = total
                       /\ M # <<>> => M[i][1] * n = total * M[i][2]
                       /\ V # <<>> =>
                             V[i][1] * n * n = (n * squares - total * total) * V[i][2]
                       /\ n > 0 => \A max \in BOOLEAN : \E j \in slot :
                             /\ X[max][i] = T[j]
                             /\ P[max][i] = Cardinality({k \in slot : Earlier(k, j)})
                             /\ \A k \in slot :
                                   /\ ~Beats(max, k, j)
                                   /\ T[k] = T[j] => ~Earlier(k, j)
=============================================================================
