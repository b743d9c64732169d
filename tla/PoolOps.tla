-------------------------------- MODULE PoolOps --------------------------------
(***************************************************************************)
(* Pools over windows and over whole planes (rust/src/ops/conv.rs).  The   *)
(* windows are a strided view of a padded copy with channels last; what    *)
(* ceil_mode lets stick out past the declared padding is padded too.       *)
(***************************************************************************)
EXTENDS WindowOps, ReduceOps

\* A multiple of every count that occurs, so that averages stay integers.
Common == 2520
Averaged(sum, count) == IF count = 0 THEN Garbage ELSE (sum * Common) \div count

\* Views memory with strides of its own, which MLX does not check.
MlxAsStrided(t, shape, strides) ==
    Tensor(shape, LAMBDA i :
      LET p == Total([k \in DOMAIN i |-> i[k] * strides[k]]) + 1
      IN IF p \in DOMAIN t.data THEN t.data[p] ELSE Garbage)

\* A window that would start in the padding after the data is left out; what
\* rounding up lets stick out past the padding is the tail.
PoolCount(extent, before, delta, stride, same, ceil) ==
    LET rounded == IF same THEN CeilDiv(extent, stride)
                   ELSE IF ceil THEN CeilDiv(delta, stride) + 1 ELSE (delta \div stride) + 1
    IN IF ceil /\ rounded > 0 /\ (rounded - 1) * stride >= extent + before
       THEN rounded - 1 ELSE rounded
PoolTail(count, delta, stride) == IF count > 0 THEN Larger(0, (count - 1) * stride - delta) ELSE 0
PoolPlan(spatial, kernel, strides, dilations, pads, same, ceil) ==
    LET r == Len(spatial)
        delta == [k \in 1 .. r |-> spatial[k] + pads[k] + pads[r + k] - Effective(kernel[k], dilations[k])]
        count == [k \in 1 .. r |-> PoolCount(spatial[k], pads[k], delta[k], strides[k], same, ceil)]
    IN IF pads = None \/ \E k \in 1 .. r : count[k] < 0 THEN None
       ELSE [kernel |-> kernel, strides |-> strides, dilations |-> dilations, pads |-> pads, output |-> count,
             tail |-> [k \in 1 .. r |-> PoolTail(count[k], delta[k], strides[k])]]
PoolGeometry(spatial, kernel, strides, dilations, given, mode, ceil) ==
    PoolPlan(spatial, kernel, strides, dilations,
             IF mode = "NOTSET" THEN given ELSE AutoPads(mode, spatial, kernel, strides, dilations),
             mode \in {"SAME_UPPER", "SAME_LOWER"}, ceil)

MaterializedPads(g) ==
    LET r == Len(g.output) IN
    [k \in 1 .. 2 * r |-> g.pads[k] + (IF k > r THEN g.tail[k - r] ELSE 0)]

PadSpatial(t, pads, value) ==
    LET r == Len(pads) \div 2 IN
    MlxPad(t, <<0>> \o SubSeq(pads, 1, r) \o <<0>>, <<0>> \o SubSeq(pads, r + 1, 2 * r) \o <<0>>, value)

\* The elements of each window: batch, output, kernel, channel.
SlidingWindows(t, g) ==
    LET steps == Strides(t.shape)
        r == Len(g.output)
    IN MlxAsStrided(t, <<t.shape[1]>> \o g.output \o g.kernel \o <<t.shape[r + 2]>>,
         <<steps[1]>> \o [k \in 1 .. r |-> steps[k + 1] * g.strides[k]]
                      \o [k \in 1 .. r |-> steps[k + 1] * g.dilations[k]] \o <<1>>)
WindowAxes(g) == LET r == Len(g.output) IN r + 2 .. 2 * r + 1

\* How many elements of each window count; the tail never does.
PoolCounts(spatial, g, includePad) ==
    LET r == Len(spatial)
        ones == MlxFull(<<1>> \o [k \in 1 .. r |->
                  spatial[k] + (IF includePad THEN g.pads[k] + g.pads[r + k] ELSE 0)] \o <<1>>, 1)
        mask == PadSpatial(ones, IF includePad THEN Const(r, 0) \o g.tail ELSE MaterializedPads(g), 0)
    IN MlxReduce(SlidingWindows(mask, g), "Sum", WindowAxes(g), FALSE)

\* The least position in the input among the best elements of a window, counted
\* by rows or, within a plane, by columns; past the plane's corner when there is none.
IndexCandidates(x, g, windows, best) ==
    MlxWhere(MlxBinary(LAMBDA a, b : IF a = b THEN 1 ELSE 0, windows, best),
             SlidingWindows(PadSpatial(ToChannelsLast([x EXCEPT !.data = Iota(Product(x.shape))]),
                                       MaterializedPads(g), Highest), g),
             Scalar(Highest))
Encoded(plane, p, columns) ==
    LET at == Unravel(plane, p % Product(plane)) IN
    (p \div Product(plane)) * Product(plane)
    + IF columns THEN Ravel(Reverse(plane), Reverse(at)) ELSE Ravel(plane, at)
Corner(plane, columns) == Total(Strides(IF columns THEN Reverse(plane) ELSE plane))
EncodedIndices(x, chosen, columns) ==
    LET plane == Spatial(x.shape) IN
    Tensor(chosen.shape, LAMBDA i :
      IF At(chosen, i) # Highest THEN Encoded(plane, At(chosen, i), columns)
      ELSE (i[1] * x.shape[2] + i[2]) * Product(plane) - Corner(plane, columns))
PoolIndices(n, x, windows, maxima, g) ==
    LET r == Len(g.output)
        best == MlxReshape(maxima, SubSeq(maxima.shape, 1, r + 1) \o Const(r, 1) \o <<maxima.shape[r + 2]>>)
    IN EncodedIndices(x, FromChannelsLast(MlxReduce(IndexCandidates(x, g, windows, best), "Min", WindowAxes(g), FALSE)),
                      IntAttr(n, "storage_order", 0) = 1)

PoolOf(n, shape) ==
    LET r == Len(shape) - 2 IN
    PoolGeometry(Spatial(shape), IntsAttr(n, "kernel_shape", <<>>), IntsAttr(n, "strides", Const(r, 1)),
                 IntsAttr(n, "dilations", Const(r, 1)), IntsAttr(n, "pads", Const(2 * r, 0)),
                 StringAttr(n, "auto_pad", "NOTSET"), IntAttr(n, "ceil_mode", 0) = 1)

\* The elements LpPool sums, to the power p without the root.
Power(v, p) == (IF v < 0 THEN -v ELSE v) ^ p
PoolInput(n) ==
    IF n.op # "LpPool" THEN n.ins[1]
    ELSE [n.ins[1] EXCEPT !.data =
            [k \in DOMAIN n.ins[1].data |-> Power(n.ins[1].data[k], IntAttr(n, "p", 2))]]

\* What a window reduced comes to: averaged over what counts, or without the padding's part.
PoolFinish(n, g, reduced) ==
    LET Counts(all) == PoolCounts(Spatial(n.ins[1].shape), g, all)
        bare == ToSet(MaterializedPads(g)) \subseteq {0}
    IN CASE n.op = "AveragePool" /\ bare ->
              Tensor(reduced.shape, LAMBDA i : Averaged(At(reduced, i), Product(g.kernel)))
         [] n.op = "AveragePool" /\ ~bare ->
              MlxBinary(Averaged, reduced, Counts(IntAttr(n, "count_include_pad", 0) # 0))
         [] n.op = "MaxPool" /\ ~bare -> MlxWhere(Counts(FALSE), reduced, Scalar(Lowest))
         [] OTHER -> reduced

PoolOutputs(n, g, windows, y) ==
    <<FromChannelsLast(y)>> \o (IF n.outs = 2 THEN <<PoolIndices(n, n.ins[1], windows, y, g)>> ELSE <<>>)
PoolWindows(n, g, windows) ==
    PoolOutputs(n, g, windows,
      PoolFinish(n, g, MlxReduce(windows, IF n.op = "MaxPool" THEN "Max" ELSE "Sum", WindowAxes(g), FALSE)))
PoolWith(n, g) ==
    LET batch == n.ins[1].shape[1] IN
    CASE g = None \/ (batch # 0 /\ n.ins[1].shape[2] = 0) -> [k \in 1 .. n.outs |-> Refused]
      [] g # None /\ (batch = 0 \/ 0 \in Range(g.output)) ->
           [k \in 1 .. n.outs |-> MlxFull(SubSeq(n.ins[1].shape, 1, 2) \o g.output, 0)]
      [] OTHER ->
           PoolWindows(n, g, SlidingWindows(
             PadSpatial(ToChannelsLast(PoolInput(n)), MaterializedPads(g),
                        IF n.op = "MaxPool" THEN Lowest ELSE 0), g))
Pool(n) == PoolWith(n, PoolOf(n, n.ins[1].shape))

GlobalPools == {"GlobalAveragePool", "GlobalMaxPool", "GlobalLpPool"}
GlobalPool(n) ==
    LET x == n.ins[1]
        values == [x EXCEPT !.data = [k \in DOMAIN x.data |->
                     IF n.op = "GlobalLpPool" THEN Power(x.data[k], IntAttr(n, "p", 2)) ELSE x.data[k]]]
        y == MlxReduce(values, IF n.op = "GlobalMaxPool" THEN "Max" ELSE "Sum", 3 .. Rank(x), TRUE)
    IN IF ~Positive(Spatial(x.shape)) THEN Refused
       ELSE IF n.op # "GlobalAveragePool" THEN y
       ELSE [y EXCEPT !.data = [k \in DOMAIN y.data |-> Averaged(y.data[k], Product(Spatial(x.shape)))]]
-----------------------------------------------------------------------------
PoolClaim(n, out) ==
    LET x == View(n, 1)
        r == Len(x) - 2
        mode == StringAttr(n, "auto_pad", "NOTSET")
        kernel == IntsAttr(n, "kernel_shape", <<>>)
        g == PoolOf(n, x)
    IN /\ n.typed /\ r \in 1 .. 3
       /\ 0 \notin Range(Spatial(x)) /\ (x[1] = 0 \/ x[2] # 0) /\ Len(out) = Len(x)
       /\ IntAttr(n, "ceil_mode", 0) \in {0, 1}
       /\ Len(kernel) = r /\ Positive(kernel)
       /\ SpatialAttr(n, "strides", r) # None /\ SpatialAttr(n, "dilations", r) # None
       /\ mode \in PadModes /\ Exclusive(n) /\ ReadPads(n, r) # None
       /\ n.op = "AveragePool" => IntAttr(n, "count_include_pad", 0) \in {0, 1}
       /\ n.op = "MaxPool" => IntAttr(n, "storage_order", 0) \in {0, 1}
       /\ (\A k \in 1 .. r : x[k + 2] > 0) => g # None /\ Compatible(out, SubSeq(x, 1, 2) \o g.output)
       /\ Compatible(SubSeq(out, 1, 2), SubSeq(x, 1, 2))

GlobalPoolClaim(n, out) ==
    LET x == View(n, 1) IN
    /\ n.typed /\ Len(x) >= 3 /\ 0 \notin Range(Spatial(x))
    /\ n.op = "GlobalLpPool" => IntAttr(n, "p", 2) > 0
    /\ Compatible(out, SubSeq(x, 1, 2) \o Const(Len(x) - 2, 1))

\* A volume with groups slices its input; everything else is called free of extents.
ConvShapeless(n) == ~(IntAttr(n, "group", 1) > 1 /\ Len(View(n, 1)) = 5)

WindowOperators == {"Conv", "ConvTranspose", "DeformConv", "MaxPool", "AveragePool", "LpPool"} \cup GlobalPools
WindowClaim(n, out) ==
    CASE n.op = "Conv" -> ConvClaim(n, out)
      [] n.op = "ConvTranspose" -> ConvTransposeClaim(n, out)
      [] n.op = "DeformConv" -> DeformClaim(n, out)
      [] n.op \in {"MaxPool", "AveragePool", "LpPool"} -> PoolClaim(n, out)
      [] n.op \in GlobalPools -> GlobalPoolClaim(n, out)
WindowTranslate(n) ==
    CASE n.op = "Conv" -> <<Conv(n)>>
      [] n.op = "ConvTranspose" -> <<ConvTranspose(n)>>
      [] n.op = "DeformConv" -> <<DeformConv(n)>>
      [] n.op \in {"MaxPool", "AveragePool", "LpPool"} -> Pool(n)
      [] n.op \in GlobalPools -> <<GlobalPool(n)>>
=============================================================================
