------------------------------- MODULE ReduceOps -------------------------------
(***************************************************************************)
(* Operators that run along axes (rust/src/ops/reduction.rs): the ten      *)
(* reductions, ArgMax and ArgMin, CumSum and CumProd, Hardmax, TopK.       *)
(* Elements are integers: Log and Sqrt after a reduction are left out, an  *)
(* exponential is a power of two, and the sum of them stands for its       *)
(* logarithm.  Lowest and Highest are the identities of Max and Min.       *)
(***************************************************************************)
EXTENDS NodeViews

\* The elements of t that agree with index i off the reduced axes (from one).
Lane(t, axes, i) ==
    LET hits == SelectSeq([p \in 1 .. Product(t.shape) |-> p], LAMBDA p :
                  \A k \in (1 .. Rank(t)) \ axes : Unravel(t.shape, p - 1)[k] = i[k])
    IN [q \in DOMAIN hits |-> t.data[hits[q]]]
Best(seq, Beats(_, _), none) == FoldLeft(LAMBDA a, b : IF Beats(b, a) THEN b ELSE a, none, seq)
Largest(seq) == Best(seq, LAMBDA a, b : a > b, Lowest)
Least(seq) == Best(seq, LAMBDA a, b : a < b, Highest)
Combined(kind, seq) ==
    CASE kind = "Sum" -> Total(seq)
      [] kind = "Max" -> Largest(seq)
      [] kind = "Min" -> Least(seq)
      [] kind = "Prod" -> Product(seq)
      [] kind = "Mean" -> IF seq = <<>> THEN Garbage ELSE Total(seq) \div Len(seq)
      [] kind = "LogSumExp" -> IF seq = <<>> THEN Lowest ELSE Total([k \in DOMAIN seq |-> 2 ^ seq[k]])

\* MLX's reductions: all axes, or some of them, that then have extent one or none.
Without(t, axes, keep) ==
    IF keep THEN t
    ELSE LET left == SelectSeq(Iota(Rank(t)), LAMBDA a : a + 1 \notin axes)
         IN [t EXCEPT !.shape = [k \in DOMAIN left |-> t.shape[left[k] + 1]]]
MlxReduce(t, kind, axes, keep) ==
    LET kept == Tensor([k \in 1 .. Rank(t) |-> IF k \in axes THEN 1 ELSE t.shape[k]],
                       LAMBDA i : Combined(kind, Lane(t, axes, i)))
    IN Without(kept, axes, keep)

\* The first of the positions with the best element, along one axis.
MlxArg(t, Beats(_, _), axis, keep) ==
    LET kept == Tensor([t.shape EXCEPT ![axis + 1] = 1], LAMBDA i :
          LET v(j) == At(t, [i EXCEPT ![axis + 1] = j])
              all == 0 .. t.shape[axis + 1] - 1
              top == {j \in all : \A k \in all : ~Beats(v(k), v(j))}
          IN CHOOSE j \in top : \A k \in top : j <= k)
    IN Without(kept, {axis + 1}, keep)

\* A stable sort of the positions of one axis, least first.
MlxArgsort(t, axis) ==
    Tensor(t.shape, LAMBDA i :
      LET v(j) == At(t, [i EXCEPT ![axis + 1] = j])
          all == 0 .. t.shape[axis + 1] - 1
          Before(j) == {k \in all : v(k) < v(j) \/ (v(k) = v(j) /\ k < j)}
      IN CHOOSE j \in all : Cardinality(Before(j)) = i[axis + 1])
MlxScan(t, kind, axis, reverse, inclusive) ==
    Tensor(t.shape, LAMBDA i :
      LET Taken(j) == IF reverse THEN j > i[axis + 1] \/ (inclusive /\ j = i[axis + 1])
                      ELSE j < i[axis + 1] \/ (inclusive /\ j = i[axis + 1])
          js == SelectSeq(Iota(t.shape[axis + 1]), Taken)
      IN Combined(kind, [q \in DOMAIN js |-> At(t, [i EXCEPT ![axis + 1] = js[q]])]))
-----------------------------------------------------------------------------
Reductions == {"ReduceSum", "ReduceMax", "ReduceMean", "ReduceMin", "ReduceProd",
               "ReduceSumSquare", "ReduceL1", "ReduceLogSumExp"}
KindOf(op) ==
    CASE op \in {"ReduceSum", "ReduceSumSquare", "ReduceL1"} -> "Sum"
      [] op = "ReduceMax" -> "Max"
      [] op = "ReduceMin" -> "Min"
      [] op = "ReduceMean" -> "Mean"
      [] op = "ReduceProd" -> "Prod"
      [] op = "ReduceLogSumExp" -> "LogSumExp"
Before(op, v) ==
    CASE op = "ReduceSumSquare" -> v * v
      [] op = "ReduceL1" -> IF v < 0 THEN -v ELSE v
      [] OTHER -> v

ReadAxes(n) == IF Present(n, 2) THEN ReadInts(n, 2) ELSE IntsAttr(n, "axes", <<>>)
NormalizeAxes(axes, rank) ==
    LET norm == [k \in DOMAIN axes |-> NormAxis(axes[k], rank)] IN
    IF (\A k \in DOMAIN axes : AxisIn(axes[k], rank)) /\ Distinct(norm)
    THEN {norm[k] + 1 : k \in DOMAIN norm} ELSE None

\* The extrema of nothing are filled in, for MLX's kernels abort on it.
FilledKinds == {"Max", "Min", "LogSumExp"}
Collapsed(shape, axes) == [k \in 1 .. Len(shape) |-> IF k \in axes THEN 1 ELSE shape[k]]
EmptyReduce(t, kind, axes, keep) ==
    Without(MlxFull(Collapsed(t.shape, axes), IF kind = "Min" THEN Highest ELSE Lowest), axes, keep)
ApplyReduction(t, kind, axes, keep) ==
    IF kind \in FilledKinds /\ 0 \in Range(t.shape)
    THEN EmptyReduce(t, kind, axes, keep) ELSE MlxReduce(t, kind, axes, keep)

\* Mutant: an empty list of axes always reduces over all of them.
ReduceWhole(n) ==
    LET t == n.ins[1]
        body == [t EXCEPT !.data = [k \in DOMAIN t.data |-> Before(n.op, t.data[k])]]
        raw == ReadAxes(n)
        axes == IF raw = <<>> THEN 1 .. Rank(t) ELSE NormalizeAxes(raw, Rank(t))
    IN IF axes = None THEN Refused
       ELSE ApplyReduction(body, KindOf(n.op), axes, IntAttr(n, "keepdims", 1) # 0)
Reduce(n) ==
    LET t == n.ins[1]
        body == [t EXCEPT !.data = [k \in DOMAIN t.data |-> Before(n.op, t.data[k])]]
        raw == ReadAxes(n)
        axes == IF raw = <<>> THEN 1 .. Rank(t) ELSE NormalizeAxes(raw, Rank(t))
    IN CASE raw = <<>> /\ IntAttr(n, "noop_with_empty_axes", 0) # 0 -> body
         [] axes = None -> Refused
         [] OTHER -> ApplyReduction(body, KindOf(n.op), axes, IntAttr(n, "keepdims", 1) # 0)

\* The last of the best positions is the first of the reversed axis.
ArgBest(n, t, axis, keep) ==
    IF n.op = "ArgMax" THEN MlxArg(t, LAMBDA a, b : a > b, axis, keep)
    ELSE MlxArg(t, LAMBDA a, b : a < b, axis, keep)
FromTheEnd(t, dim) == [t EXCEPT !.data = [k \in DOMAIN t.data |-> dim - 1 - t.data[k]]]
\* The last of the best is the first of the axis reversed.
ArgMinMax(n) ==
    LET t == n.ins[1]
        axis == NormAxis(IntAttr(n, "axis", 0), Rank(t))
        dim == t.shape[axis + 1]
        keep == IntAttr(n, "keepdims", 1) # 0
    IN IF IntAttr(n, "select_last_index", 0) = 0 THEN ArgBest(n, t, axis, keep)
       ELSE FromTheEnd(ArgBest(n, MlxTake(t, Vector([k \in 1 .. dim |-> dim - k]), axis), axis, keep), dim)

Cumulate(n) ==
    LET t == n.ins[1]
        a == ReadInts(n, 2)[1]
    IN IF ~AxisIn(a, Rank(t)) THEN Refused
       ELSE MlxScan(t, IF n.op = "CumSum" THEN "Sum" ELSE "Prod", NormAxis(a, Rank(t)),
                    IntAttr(n, "reverse", 0) # 0, IntAttr(n, "exclusive", 0) = 0)

\* Before version 13 the axes from the chosen one on are one.
HardmaxAxis(n, rank) == NormAxis(IntAttr(n, "axis", IF n.since < 13 THEN 1 ELSE -1), rank)
HardmaxAlong(input, at) ==
    LET dim == input.shape[at + 1]
        steps == MlxReshape(MlxArange(dim), [Const(Rank(input), 1) EXCEPT ![at + 1] = dim])
    IN IF dim <= 0 THEN Refused
       ELSE MlxBinary(LAMBDA a, b : IF a = b THEN 1 ELSE 0, steps, MlxArg(input, LAMBDA a, b : a > b, at, TRUE))
Reshaped(t, shape) == IF t = Refused THEN t ELSE MlxReshape(t, shape)
\* Before version 13 the axes from axis on are one.
HardmaxFrom(n, t, axis) ==
    CASE axis \notin 0 .. Rank(t) - 1 -> Refused
      [] axis \in 0 .. Rank(t) - 1 /\ n.since < 13 ->
           Reshaped(HardmaxAlong(MlxReshape(t, <<Product(SubSeq(t.shape, 1, axis)),
                                                 Product(SubSeq(t.shape, axis + 1, Rank(t)))>>), 1), t.shape)
      [] OTHER -> HardmaxAlong(t, axis)
Hardmax(n) == HardmaxFrom(n, n.ins[1], HardmaxAxis(n, Rank(n.ins[1])))

\* Bitwise inversion reverses the order of integers.
TopK(n) ==
    LET t == n.ins[1]
        axis == NormAxis(IntAttr(n, "axis", -1), Rank(t))
        k == IF n.since < 10 THEN IntAttr(n, "k", 0) ELSE ReadInts(n, 2)[1]
        keys == IF IntAttr(n, "largest", 1) # 0
                THEN [t EXCEPT !.data = [p \in DOMAIN t.data |-> -t.data[p] - 1]] ELSE t
        top == MlxTake(MlxArgsort(keys, axis), MlxArange(k), axis)
        empty == MlxFull([t.shape EXCEPT ![axis + 1] = k], 0)
    IN CASE axis \notin 0 .. Rank(t) - 1 -> <<Refused>>
         [] axis \in 0 .. Rank(t) - 1 /\ k \notin 1 .. t.shape[axis + 1] -> <<Refused>>
         [] 0 \in Range(t.shape) -> <<empty, empty>>
         [] OTHER -> <<MlxTakeAlong(t, top, axis), top>>
-----------------------------------------------------------------------------
Flag(n, name, default) == IntAttr(n, name, default) \in {0, 1}

ReductionClaim(n) ==
    /\ n.typed
    /\ Present(n, 2) => Len(View(n, 2)) <= 1
    /\ Has(n, "axes") => NormalizeAxes(n.attr.axes, Len(View(n, 1))) # None
    /\ Flag(n, "keepdims", 1) /\ Flag(n, "noop_with_empty_axes", 0)

ArgMinMaxClaim(n) ==
    /\ n.typed
    /\ View(n, 1) # <<>>
    /\ AxisIn(IntAttr(n, "axis", 0), Len(View(n, 1)))
    /\ Flag(n, "keepdims", 1) /\ Flag(n, "select_last_index", 0)

\* n.host says that the axis is a graph input or an initializer.
CumulateClaim(n, out) ==
    LET x == View(n, 1)
        axis == ConstInts(n, 2)
    IN /\ n.typed
       /\ x # <<>> /\ Compatible(x, out)
       /\ View(n, 2) = <<>> \/ (n.op = "CumSum" /\ View(n, 2) = <<1>>)
       /\ n.host
       /\ IF axis # None
          THEN /\ Len(axis) = 1 /\ AxisIn(axis[1], Len(x))
               /\ n.op = "CumProd" => x[NormAxis(axis[1], Len(x)) + 1] > 0
          ELSE n.op = "CumProd" => \A k \in DOMAIN x : x[k] > 0
       /\ Flag(n, "exclusive", 0) /\ Flag(n, "reverse", 0)

HardmaxClaim(n) ==
    LET x == View(n, 1)
        axis == HardmaxAxis(n, Len(x))
    IN /\ n.typed
       /\ axis \in 0 .. Len(x) - 1
       /\ IF n.since < 13 THEN \A k \in DOMAIN x : x[k] > 0 ELSE x[axis + 1] > 0

TopKClaim(n) ==
    LET x == View(n, 1)
        axis == NormAxis(IntAttr(n, "axis", -1), Len(x))
        k == IF n.since < 10 THEN <<IntAttr(n, "k", 0)>> ELSE ConstInts(n, 2)
    IN /\ n.typed
       /\ n.since >= 10 => Len(View(n, 2)) = 1 /\ (View(n, 2)[1] = 1 \/ View(n, 2)[1] < 0)
       /\ axis \in 0 .. Len(x) - 1
       /\ Flag(n, "largest", 1) /\ Flag(n, "sorted", 1)
       /\ k # None => Len(k) = 1 /\ k[1] > 0 /\ (x[axis + 1] < 0 \/ k[1] <= x[axis + 1])

ReductionShapeless(n) == Present(n, 2) => Constant(n, 2)
TopKShapeless(n) ==
    (n.since < 10 \/ Constant(n, 2)) /\ \A k \in DOMAIN View(n, 1) : View(n, 1)[k] > 0

\* What a trace holds fixed: the axes resolved against the rank and, where the extrema
\* of nothing are filled in, the extents of that filling; k and whether there is
\* anything to sort.
ReductionFrozen(n) ==
    LET shape == n.ins[1].shape
        raw == ReadAxes(n)
        axes == IF raw = <<>> THEN 1 .. Len(shape) ELSE NormalizeAxes(raw, Len(shape))
        filled == KindOf(n.op) \in FilledKinds /\ 0 \in Range(shape) /\ axes # None
    IN IF raw = <<>> /\ IntAttr(n, "noop_with_empty_axes", 0) # 0 THEN <<raw>>
       ELSE <<raw, axes, IF filled THEN Collapsed(shape, axes) ELSE None>>
TopKFrozen(n) == <<IF n.since < 10 THEN 0 ELSE ReadInts(n, 2)[1], 0 \in Range(n.ins[1].shape)>>
-----------------------------------------------------------------------------
ReduceOperators == Reductions \cup {"ArgMax", "ArgMin", "CumSum", "CumProd", "Hardmax", "TopK"}
ReduceClaim(n, out) ==
    CASE n.op \in Reductions -> ReductionClaim(n)
      [] n.op \in {"ArgMax", "ArgMin"} -> ArgMinMaxClaim(n)
      [] n.op \in {"CumSum", "CumProd"} -> CumulateClaim(n, out)
      [] n.op = "Hardmax" -> HardmaxClaim(n)
      [] n.op = "TopK" -> TopKClaim(n)
ReduceTranslate(n) ==
    CASE n.op \in Reductions -> <<Reduce(n)>>
      [] n.op \in {"ArgMax", "ArgMin"} -> <<ArgMinMax(n)>>
      [] n.op \in {"CumSum", "CumProd"} -> <<Cumulate(n)>>
      [] n.op = "Hardmax" -> <<Hardmax(n)>>
      [] n.op = "TopK" -> TopK(n)
=============================================================================
