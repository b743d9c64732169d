------------------------------- MODULE WindowOps -------------------------------
(***************************************************************************)
(* Convolutions and pools (rust/src/ops/conv.rs).  MLX works on tensors    *)
(* with channels last; the handlers turn ONNX's into those, pad, window,   *)
(* reduce and turn back.  Elements are integers: the average of a window   *)
(* is its sum times a common multiple over its count, the root of LpPool   *)
(* is left out, offsets of DeformConv count half elements, and its results *)
(* quarters.                                                               *)
(***************************************************************************)
EXTENDS NodeViews

Spatial(seq) == SubSeq(seq, 3, Len(seq))
Inner(seq) == SubSeq(seq, 2, Len(seq) - 1)
Positive(seq) == \A k \in DOMAIN seq : seq[k] > 0
NonNegative(seq) == \A k \in DOMAIN seq : seq[k] >= 0

\* ONNX's layout to channels last and back, for tensors and for weights.
ToChannelsLast(t) == MlxTranspose(t, <<0>> \o [k \in 1 .. Rank(t) - 2 |-> k + 1] \o <<1>>)
FromChannelsLast(t) == MlxTranspose(t, <<0, Rank(t) - 1>> \o [k \in 1 .. Rank(t) - 2 |-> k])

\* Extents before and after a window of c slides; c.spread - 1 zeros lie between
\* the elements of a dilated input.
Effective(size, dilation) == dilation * (size - 1) + 1
Padded(extent, c, p) == (extent - 1) * c.spread[p] + 1 + c.low[p] + c.high[p]
Slides(x, w, c) ==
    [p \in DOMAIN c.stride |->
       ((Padded(x[p + 1], c, p) - Effective(w[p + 1], c.dilation[p])) \div c.stride[p]) + 1]

\* The sum over kernel taps and the channels of a group.
MlxConv(x, w, c) ==
    LET dims == DOMAIN c.stride
        per == w.shape[Rank(w)]
        filters == w.shape[1] \div c.group
        taps == Inner(w.shape)
        Read(b, o, tap, channel) ==
          LET at == [p \in dims |-> o[p] * c.stride[p] - c.low[p] + tap[p] * c.dilation[p]] IN
          IF \A p \in dims : at[p] % c.spread[p] = 0
                             /\ at[p] \div c.spread[p] \in 0 .. x.shape[p + 1] - 1
          THEN At(x, <<b>> \o [p \in dims |-> at[p] \div c.spread[p]] \o <<channel>>) ELSE 0
        Tap(f, tap, j) ==
          At(w, <<f>> \o [p \in dims |-> IF c.flip THEN taps[p] - 1 - tap[p] ELSE tap[p]] \o <<j>>)
        shape == <<x.shape[1]>> \o Slides(x.shape, w.shape, c) \o <<w.shape[1]>>
    IN IF \E p \in dims : Slides(x.shape, w.shape, c)[p] < 1 THEN Refused
       ELSE Tensor(shape, LAMBDA i :
              Total([q \in 1 .. Product(taps) * per |->
                LET f == i[Len(i)]
                    tap == Unravel(taps, (q - 1) \div per)
                    j == (q - 1) % per
                IN Read(i[1], Inner(i), tap, (f \div filters) * per + j) * Tap(f, tap, j)]))

\* Groups of a volume are convolved one by one, for MLX has none in 3-D.
ConvGeneral(x, w, c) ==
    LET zeros == <<0>> \o Slides(x.shape, w.shape, c) \o <<w.shape[1]>>
        Part(t, axis, g) ==
          LET cut == t.shape[axis] \div c.group IN
          MlxSlice(t, [k \in 1 .. Rank(t) |-> IF k = axis THEN g * cut ELSE 0],
                   [k \in 1 .. Rank(t) |-> IF k = axis THEN (g + 1) * cut ELSE t.shape[k]],
                   Const(Rank(t), 1))
    IN CASE x.shape[1] = 0 -> IF NonNegative(zeros) THEN MlxFull(zeros, 0) ELSE Refused
         [] x.shape[1] # 0 /\ Len(c.stride) = 3 /\ c.group > 1 ->
              MlxConcat([g \in 1 .. c.group |->
                           MlxConv(Part(x, 5, g - 1), Part(w, 1, g - 1), [c EXCEPT !.group = 1])], 4)
         [] OTHER -> MlxConv(x, w, c)
Biased(n, y) ==
    IF y # Refused /\ Present(n, 3) THEN MlxBinary(LAMBDA a, b : a + b, y, n.ins[3]) ELSE y
Restored(y) == IF y = Refused THEN y ELSE FromChannelsLast(y)

\* Mutant: the odd element of padding lands on the other side.
SwappedAutoPads(mode, spatial, kernel, strides, dilations) ==
    LET Whole(k) == Larger(0, (CeilDiv(spatial[k], strides[k]) - 1) * strides[k]
                              + Effective(kernel[k], dilations[k]) - spatial[k])
        begin == [k \in DOMAIN spatial |->
                    IF mode = "SAME_UPPER" THEN Whole(k) - Whole(k) \div 2 ELSE Whole(k) \div 2]
    IN CASE mode = "VALID" -> Const(2 * Len(spatial), 0)
         [] mode \in {"SAME_UPPER", "SAME_LOWER"} ->
              begin \o [k \in DOMAIN spatial |-> Whole(k) - begin[k]]
         [] OTHER -> None
AutoPads(mode, spatial, kernel, strides, dilations) ==
    LET Whole(k) == Larger(0, (CeilDiv(spatial[k], strides[k]) - 1) * strides[k]
                              + Effective(kernel[k], dilations[k]) - spatial[k])
        begin == [k \in DOMAIN spatial |->
                    IF mode = "SAME_LOWER" THEN Whole(k) - Whole(k) \div 2 ELSE Whole(k) \div 2]
    IN CASE mode = "VALID" -> Const(2 * Len(spatial), 0)
         [] mode \in {"SAME_UPPER", "SAME_LOWER"} ->
              begin \o [k \in DOMAIN spatial |-> Whole(k) - begin[k]]
         [] OTHER -> None

\* The padding given, or derived from the extents.
ConvPads(n) ==
    LET x == n.ins[1].shape
        r == Len(x) - 2
        mode == StringAttr(n, "auto_pad", "NOTSET")
    IN IF mode = "NOTSET" THEN IntsAttr(n, "pads", Const(2 * r, 0))
       ELSE AutoPads(mode, Spatial(x), Spatial(n.ins[2].shape),
                     IntsAttr(n, "strides", Const(r, 1)), IntsAttr(n, "dilations", Const(r, 1)))
Conv(n) ==
    LET x == n.ins[1]
        w == n.ins[2]
        r == Rank(x) - 2
        pads == ConvPads(n)
        c == [stride |-> IntsAttr(n, "strides", Const(r, 1)), low |-> SubSeq(pads, 1, r),
              high |-> SubSeq(pads, r + 1, 2 * r), dilation |-> IntsAttr(n, "dilations", Const(r, 1)),
              spread |-> Const(r, 1), group |-> IntAttr(n, "group", 1), flip |-> FALSE]
    IN IF ~Positive(Spatial(x.shape)) \/ x.shape[2] # w.shape[2] * c.group \/ pads = None
       THEN Refused
       ELSE Restored(Biased(n, ConvGeneral(ToChannelsLast(x), ToChannelsLast(w), c)))

\* Volumes and uneven padding go by conv_general, which fills in an empty batch.
ByConvGeneral(n) ==
    LET r == Rank(n.ins[1]) - 2
        pads == ConvPads(n)
    IN r = 3 \/ (pads # None /\ \E k \in 1 .. r : pads[k] # pads[k + r])
\* What a trace holds fixed: the padding, and the extents of that filling.
ConvFrozen(n) ==
    <<ConvPads(n), IF ByConvGeneral(n) /\ n.ins[1].shape[1] = 0 THEN n.ins[1].shape ELSE None>>
-----------------------------------------------------------------------------
\* What the explicit or derived padding of a transposed convolution is.
Uncropped(c, k, x, w) ==
    c.strides[k] * (x[k] - 1) + c.extra[k] + Effective(w[k], c.dilations[k])
TransposeAttrs(n, r) ==
    [strides |-> IntsAttr(n, "strides", Const(r, 1)),
     dilations |-> IntsAttr(n, "dilations", Const(r, 1)),
     extra |-> IntsAttr(n, "output_padding", Const(r, 0)),
     pads |-> IntsAttr(n, "pads", Const(2 * r, 0)),
     wanted |-> IntsAttr(n, "output_shape", <<>>)]
TransposePads(mode, c, x, w) ==
    LET over == [k \in DOMAIN x |-> Uncropped(c, k, x, w)
                                    - (IF c.wanted # <<>> THEN c.wanted[k] ELSE x[k] * c.strides[k])]
        begin == [k \in DOMAIN x |-> IF mode = "SAME_UPPER" THEN over[k] \div 2
                                     ELSE over[k] - over[k] \div 2]
    IN CASE c.wanted = <<>> /\ mode = "NOTSET" -> c.pads
         [] c.wanted = <<>> /\ mode = "VALID" -> Const(2 * Len(x), 0)
         [] OTHER -> IF NonNegative(over) THEN begin \o [k \in DOMAIN x |-> over[k] - begin[k]] ELSE None

\* The weights with the filters of each group in front, channels last.
RepackedWeights(w, group) ==
    LET r == Rank(w) - 2
        in == w.shape[1]
        out == w.shape[2]
        grouped == MlxReshape(w, <<group, in \div group, out>> \o Spatial(w.shape))
        turned == MlxTranspose(grouped, <<0, 2>> \o [k \in 1 .. r |-> k + 2] \o <<1>>)
    IN MlxReshape(turned, <<out * group>> \o Spatial(w.shape) \o <<in \div group>>)

\* Padding the convolution crops its output when no side of it turns negative;
\* otherwise the output is sliced.
\* MLX crops by padding less, unless that would be less than nothing.
Uncut(c, k, pads, full, r) == full[k] >= pads[k] /\ full[k] + c.extra[k] >= pads[r + k]
CutBy(y, pads, r) ==
    IF y = Refused THEN y
    ELSE MlxSlice(y, <<0>> \o SubSeq(pads, 1, r) \o <<0>>,
                  <<y.shape[1]>> \o [k \in 1 .. r |-> y.shape[k + 1] - pads[r + k]] \o <<y.shape[r + 2]>>,
                  Const(r + 2, 1))
TransposedConv(n, c, crop, full, r) ==
    ConvGeneral(ToChannelsLast(n.ins[1]), RepackedWeights(n.ins[2], IntAttr(n, "group", 1)),
      [stride |-> Const(r, 1), dilation |-> c.dilations, spread |-> c.strides,
       low |-> [k \in 1 .. r |-> full[k] - crop[k]],
       high |-> [k \in 1 .. r |-> full[k] + c.extra[k] - crop[r + k]],
       group |-> IntAttr(n, "group", 1), flip |-> TRUE])
TransposedCropped(n, c, pads, full, r) ==
    IF \A k \in 1 .. r : Uncut(c, k, pads, full, r) THEN TransposedConv(n, c, pads, full, r)
    ELSE CutBy(TransposedConv(n, c, Const(2 * r, 0), full, r), pads, r)
ConvTransposeWith(n, c, pads, r) ==
    LET in == Spatial(n.ins[1].shape)
        kernel == Spatial(n.ins[2].shape)
    IN IF \/ ~Positive(Tail(n.ins[1].shape)) \/ n.ins[1].shape[2] # n.ins[2].shape[1] \/ pads = None
          \/ \E k \in 1 .. r : Uncropped(c, k, in, kernel) - pads[k] - pads[r + k] <= 0
       THEN Refused
       ELSE Restored(Biased(n, TransposedCropped(n, c, pads,
                                 [k \in 1 .. r |-> c.dilations[k] * (kernel[k] - 1)], r)))
ConvTranspose(n) ==
    LET r == Rank(n.ins[1]) - 2
        c == TransposeAttrs(n, r)
    IN ConvTransposeWith(n, c, TransposePads(StringAttr(n, "auto_pad", "NOTSET"), c,
                                 Spatial(n.ins[1].shape), Spatial(n.ins[2].shape)), r)
-----------------------------------------------------------------------------
DeformAttrs(n) ==
    [strides |-> IntsAttr(n, "strides", <<1, 1>>), dilations |-> IntsAttr(n, "dilations", <<1, 1>>),
     pads |-> IntsAttr(n, "pads", <<0, 0, 0, 0>>), group |-> IntAttr(n, "group", 1),
     offsets |-> IntAttr(n, "offset_group", 1)]

\* The shapes of the output and of the offsets, -1 where unknown, or None.
DeformGeometry(x, w, a) ==
    LET kernel == IF Positive(Spatial(w)) THEN w[3] * w[4] ELSE -1
        Reach(k) == x[k + 2] + a.pads[k] + a.pads[k + 2] - Effective(w[k + 2], a.dilations[k])
        Known(k) == x[k + 2] > 0 /\ w[k + 2] > 0
        extent == [k \in 1 .. 2 |-> IF Known(k) THEN (Reach(k) \div a.strides[k]) + 1 ELSE -1]
    IN IF /\ Len(x) = 4 /\ Len(w) = 4 /\ Len(a.strides) = 2 /\ Len(a.dilations) = 2 /\ Len(a.pads) = 4
          /\ Positive(a.strides) /\ Positive(a.dilations) /\ NonNegative(a.pads)
          /\ 0 \notin Range(Tail(x)) \cup Range(w) /\ a.group > 0 /\ a.offsets > 0
          /\ x[2] > 0 => x[2] % a.group = 0 /\ x[2] % a.offsets = 0
          /\ w[1] > 0 => w[1] % a.group = 0
          /\ x[2] > 0 /\ w[2] > 0 => x[2] \div a.group = w[2]
          /\ \A k \in 1 .. 2 : Known(k) => Reach(k) >= 0
       THEN [out |-> <<x[1], w[1]>> \o extent,
             offset |-> <<x[1], IF kernel > 0 THEN kernel * a.offsets * 2 ELSE -1>> \o extent]
       ELSE None

\* One corner: zero outside, where the gather reads the first element instead.
DeformTake(x, b, c, y, z) ==
    LET valid == y \in 0 .. x.shape[3] - 1 /\ z \in 0 .. x.shape[4] - 1
        read == At(x, <<b, c, IF valid THEN y ELSE 0, IF valid THEN z ELSE 0>>)
    IN IF valid THEN read ELSE 0
\* Four times the interpolation at a point given in halves.
DeformSample(x, b, c, y, z) ==
    LET wy == y % 2
        wz == z % 2
        Corner(p, q) == DeformTake(x, b, c, (y \div 2) + p, (z \div 2) + q)
                        * (IF p = 1 THEN wy ELSE 2 - wy) * (IF q = 1 THEN wz ELSE 2 - wz)
    IN Corner(0, 0) + Corner(0, 1) + Corner(1, 0) + Corner(1, 1)

\* Samples by batch, channel, tap and output position.
DeformColumns(n, a, geometry) ==
    LET x == n.ins[1]
        taps == Spatial(n.ins[2].shape)
        size == Product(taps)
        per == x.shape[2] \div a.offsets
        Shift(i, half) == At(n.ins[3], <<i[1], ((i[2] \div per) * size + i[3]) * 2 + half, i[4], i[5]>>)
        Place(i, k) == 2 * (i[k + 3] * a.strides[k] - a.pads[k] + Unravel(taps, i[3])[k] * a.dilations[k])
                       + Shift(i, k - 1)
    IN Tensor(<<x.shape[1], x.shape[2], size>> \o Spatial(geometry.out), LAMBDA i :
         DeformSample(x, i[1], i[2], Place(i, 1), Place(i, 2))
         * (IF Present(n, 5) THEN At(n.ins[5], <<i[1], (i[2] \div per) * size + i[3], i[4], i[5]>>) ELSE 1))
DeformConv(n) ==
    LET x == n.ins[1]
        w == n.ins[2]
        a == DeformAttrs(n)
        g == DeformGeometry(x.shape, w.shape, a)
        per == x.shape[2] \div a.group
        size == Product(Spatial(w.shape))
        columns == DeformColumns(n, a, g)
        Bias(f) == IF Present(n, 4) THEN 4 * n.ins[4].data[f + 1] ELSE 0
    IN IF \/ g = None
          \/ n.ins[3].shape # g.offset
          \/ Has(n, "kernel_shape") /\ n.attr.kernel_shape # Spatial(w.shape)
          \/ Present(n, 4) /\ n.ins[4].shape # <<w.shape[1]>>
          \/ Present(n, 5) /\ n.ins[5].shape # <<x.shape[1], g.offset[2] \div 2>> \o Spatial(g.out)
       THEN Refused
       ELSE Tensor(g.out, LAMBDA i :
              Bias(i[2]) + Total([q \in 1 .. per * size |->
                LET c == (i[2] \div (w.shape[1] \div a.group)) * per + ((q - 1) \div size)
                IN At(columns, <<i[1], c, (q - 1) % size, i[3], i[4]>>)
                   * At(w, <<i[2], (q - 1) \div size>> \o Unravel(Spatial(w.shape), (q - 1) % size))]))
-----------------------------------------------------------------------------
SpatialAttr(n, name, r) ==
    LET v == IntsAttr(n, name, Const(r, 1)) IN IF Len(v) = r /\ Positive(v) THEN v ELSE None
ReadPads(n, r) ==
    LET v == IntsAttr(n, "pads", Const(2 * r, 0)) IN
    IF Len(v) = 2 * r /\ NonNegative(v) THEN v ELSE None
BiasValid(n, channels) == Present(n, 3) => View(n, 3) = <<channels>>
Exclusive(n) == StringAttr(n, "auto_pad", "NOTSET") = "NOTSET" \/ ~Has(n, "pads")
PadModes == {"NOTSET", "VALID", "SAME_UPPER", "SAME_LOWER"}

ConvClaim(n, out) ==
    LET x == View(n, 1)
        w == View(n, 2)
        r == Len(x) - 2
        strides == SpatialAttr(n, "strides", r)
        dilations == SpatialAttr(n, "dilations", r)
        mode == StringAttr(n, "auto_pad", "NOTSET")
        group == IntAttr(n, "group", 1)
        pads == CASE mode = "NOTSET" -> ReadPads(n, r)
                  [] mode # "NOTSET" /\ ~Positive(Spatial(x)) -> <<>>
                  [] OTHER -> AutoPads(mode, Spatial(x), Spatial(w), strides, dilations)
        Reach(k) == x[k + 2] + pads[k] + pads[r + k] - Effective(w[k + 2], dilations[k])
        Resolved(k) == pads # <<>> /\ x[k + 2] > 0
    IN /\ n.typed /\ r \in 1 .. 3
       /\ Len(w) = Len(x) /\ Positive(w) /\ Len(out) = Len(x)
       /\ Exclusive(n) /\ strides # None /\ dilations # None /\ pads # None
       /\ Has(n, "kernel_shape") => n.attr.kernel_shape = Spatial(w)
       /\ group > 0 /\ w[1] % group = 0
       /\ x[2] <= 0 \/ x[2] = w[2] * group
       /\ BiasValid(n, w[1])
       /\ \A k \in 1 .. r : Resolved(k) => Reach(k) >= 0
       /\ Compatible(out, <<x[1], w[1]>> \o
            [k \in 1 .. r |-> IF Resolved(k) THEN (Reach(k) \div strides[k]) + 1 ELSE -1])

ConvTransposeClaim(n, out) ==
    LET x == View(n, 1)
        w == View(n, 2)
        r == Len(x) - 2
        c == TransposeAttrs(n, r)
        mode == StringAttr(n, "auto_pad", "NOTSET")
        group == IntAttr(n, "group", 1)
        pads == TransposePads(mode, c, Spatial(x), Spatial(w))
        extent == [k \in 1 .. r |-> Uncropped(c, k, Spatial(x), Spatial(w)) - pads[k] - pads[r + k]]
        expected == IF Positive(Spatial(x)) THEN extent
                    ELSE IF c.wanted # <<>> THEN c.wanted ELSE Const(r, -1)
    IN /\ n.typed /\ r \in 1 .. 3 /\ 0 \notin Range(Tail(x))
       /\ Len(w) = Len(x) /\ Positive(w) /\ Len(out) = Len(x)
       /\ mode \in PadModes
       /\ group > 0 /\ w[1] % group = 0
       /\ x[2] < 0 \/ w[1] = x[2]
       /\ SpatialAttr(n, "strides", r) # None /\ SpatialAttr(n, "dilations", r) # None
       /\ ReadPads(n, r) # None
       /\ Len(c.extra) = r
       /\ \A k \in 1 .. r : c.extra[k] \in 0 .. Larger(c.strides[k], c.dilations[k]) - 1
       /\ c.wanted # <<>> => Len(c.wanted) = r /\ Positive(c.wanted)
       /\ Has(n, "kernel_shape") => n.attr.kernel_shape = Spatial(w)
       /\ BiasValid(n, w[2] * group)
       /\ mode \in {"SAME_UPPER", "SAME_LOWER"} /\ c.wanted = <<>> =>
            \A k \in 1 .. r : Effective(w[k + 2], c.dilations[k]) + c.extra[k] >= c.strides[k]
       /\ Positive(Spatial(x)) => pads # None /\ Positive(extent)
       /\ Compatible(out, <<x[1], w[2] * group>> \o expected)

DeformClaim(n, out) ==
    LET x == View(n, 1)
        w == View(n, 2)
        g == DeformGeometry(x, w, DeformAttrs(n))
        kernel == IntsAttr(n, "kernel_shape", Spatial(w))
    IN /\ n.typed /\ Len(x) = 4 /\ Len(w) = 4 /\ Len(View(n, 3)) = 4 /\ Len(out) = 4
       /\ Has(n, "kernel_shape") => Len(kernel) = 2 /\ Positive(kernel)
       /\ Compatible(kernel, Spatial(w))
       /\ SpatialAttr(n, "strides", 2) # None /\ SpatialAttr(n, "dilations", 2) # None
       /\ ReadPads(n, 2) # None /\ g # None
       /\ Compatible(View(n, 3), g.offset) /\ Compatible(out, g.out)
       /\ Present(n, 4) => Compatible(View(n, 4), <<w[1]>>)
       /\ Present(n, 5) => Compatible(View(n, 5),
            <<x[1], IF g.offset[2] < 0 THEN -1 ELSE g.offset[2] \div 2>> \o Spatial(g.out))
=============================================================================
