----------------------------- MODULE WindowMeaning -----------------------------
(***************************************************************************)
(* What ONNX defines the convolutions and pools to compute, stated over    *)
(* input coordinates; Invalid where it defines nothing.                    *)
(***************************************************************************)
EXTENDS PoolOps

\* The attributes a window slides by; padded is the extent it slides over.
Window(n, in, kernel) ==
    LET r == Len(in)
        mode == StringAttr(n, "auto_pad", "NOTSET")
        s == IntsAttr(n, "strides", Const(r, 1))
        d == IntsAttr(n, "dilations", Const(r, 1))
        span == [k \in 1 .. r |-> (kernel[k] - 1) * d[k] + 1]
        same == mode \in {"SAME_UPPER", "SAME_LOWER"}
        short == [k \in 1 .. r |-> Larger(0, ((in[k] - 1) \div s[k]) * s[k] + span[k] - in[k])]
        given == IntsAttr(n, "pads", Const(2 * r, 0))
        before == [k \in 1 .. r |-> CASE mode = "SAME_UPPER" -> short[k] \div 2
                                      [] mode = "SAME_LOWER" -> (short[k] + 1) \div 2
                                      [] mode = "VALID" -> 0
                                      [] OTHER -> given[k]]
        whole == [k \in 1 .. r |-> CASE same -> in[k] + short[k]
                                     [] mode = "VALID" -> in[k]
                                     [] OTHER -> in[k] + given[k] + given[r + k]]
        ceil == IntAttr(n, "ceil_mode", 0) = 1
        \* The windows that start in the data or before it and, unless rounding up, end inside.
        count == [k \in 1 .. r |-> Cardinality({o \in 0 .. whole[k] :
                    IF same THEN o * s[k] < in[k]
                    ELSE IF ceil THEN (o - 1) * s[k] < whole[k] - span[k] /\ o * s[k] < in[k] + before[k]
                    ELSE o * s[k] + span[k] <= whole[k]})]
    IN [s |-> s, d |-> d, before |-> before, whole |-> whole, count |-> count,
        fits |-> \A k \in 1 .. r : span[k] <= whole[k]]
Taps(w, o, kernel) ==
    {[k \in DOMAIN o |-> o[k] * w.s[k] + t[k] * w.d[k] - w.before[k]] :
       t \in {Unravel(kernel, q) : q \in 0 .. Product(kernel) - 1}}

SumOver(S, Op(_)) == FoldSet(LAMBDA e, a : Op(e) + a, 0, S)
BiasOf(n, i, f) == IF Present(n, i) THEN n.ins[i].data[f + 1] ELSE 0

ConvOver(n, v, group) ==
    LET x == n.ins[1]
        w == n.ins[2]
        in == Spatial(x.shape)
        kernel == Spatial(w.shape)
        filters == w.shape[1] \div group
    IN IF ~v.fits \/ x.shape[2] # w.shape[2] * group \/ w.shape[1] % group # 0 THEN Invalid
       ELSE Tensor(<<x.shape[1], w.shape[1]>> \o v.count, LAMBDA i :
              BiasOf(n, 3, i[2]) +
              SumOver((0 .. w.shape[2] - 1) \X (0 .. Product(kernel) - 1), LAMBDA e :
                LET t == Unravel(kernel, e[2])
                    p == [k \in DOMAIN in |-> i[k + 2] * v.s[k] + t[k] * v.d[k] - v.before[k]]
                IN IF Within(in, p)
                   THEN At(x, <<i[1], (i[2] \div filters) * w.shape[2] + e[1]>> \o p)
                        * At(w, <<i[2], e[1]>> \o t)
                   ELSE 0))
ConvMeaning(n) ==
    ConvOver(n, Window(n, Spatial(n.ins[1].shape), Spatial(n.ins[2].shape)), IntAttr(n, "group", 1))

\* Each input element adds its multiple of the kernel to the output.
ConvTransposeMeaning(n) ==
    LET x == n.ins[1]
        w == n.ins[2]
        r == Rank(x) - 2
        in == Spatial(x.shape)
        kernel == Spatial(w.shape)
        s == IntsAttr(n, "strides", Const(r, 1))
        d == IntsAttr(n, "dilations", Const(r, 1))
        extra == IntsAttr(n, "output_padding", Const(r, 0))
        given == IntsAttr(n, "pads", Const(2 * r, 0))
        group == IntAttr(n, "group", 1)
        mode == StringAttr(n, "auto_pad", "NOTSET")
        full == [k \in 1 .. r |-> s[k] * (in[k] - 1) + extra[k] + (kernel[k] - 1) * d[k] + 1]
        wanted == CASE Has(n, "output_shape") -> n.attr.output_shape
                    [] mode \in {"SAME_UPPER", "SAME_LOWER"} /\ ~Has(n, "output_shape") ->
                         [k \in 1 .. r |-> in[k] * s[k]]
                    [] OTHER -> <<>>
        out == [k \in 1 .. r |-> CASE wanted # <<>> -> wanted[k]
                                   [] wanted = <<>> /\ mode = "VALID" -> full[k]
                                   [] OTHER -> full[k] - given[k] - given[r + k]]
        before == [k \in 1 .. r |-> CASE wanted # <<>> ->
                                           LET cut == full[k] - wanted[k]
                                           IN IF mode = "SAME_UPPER" THEN cut \div 2 ELSE (cut + 1) \div 2
                                      [] wanted = <<>> /\ mode = "VALID" -> 0
                                      [] OTHER -> given[k]]
        per == x.shape[2] \div group
        Hit(o, p) ==
          {t \in {Unravel(kernel, q) : q \in 0 .. Product(kernel) - 1} :
             \A k \in 1 .. r : p[k] * s[k] + t[k] * d[k] = o[k] + before[k]}
    IN IF \/ x.shape[2] # w.shape[1] \/ x.shape[2] % group # 0
          \/ \E k \in 1 .. r : out[k] < 1 \/ out[k] > full[k]
       THEN Invalid
       ELSE Tensor(<<x.shape[1], w.shape[2] * group>> \o out, LAMBDA i :
              LET g == i[2] \div w.shape[2] IN
              BiasOf(n, 3, i[2]) +
              SumOver((0 .. per - 1) \X (0 .. Product(in) - 1), LAMBDA e :
                LET c == g * per + e[1]
                    p == Unravel(in, e[2])
                IN SumOver(Hit(Spatial(i), p), LAMBDA t :
                     At(x, <<i[1], c>> \o p) * At(w, <<c, i[2] % w.shape[2]>> \o t))))

\* A sample weighs the elements around it by how near they are in each direction.
DeformOver(n, v, group, og) ==
    LET x == n.ins[1]
        w == n.ins[2]
        kernel == Spatial(w.shape)
        taps == Product(kernel)
        Tent(a) == Larger(0, 2 - (IF a < 0 THEN -a ELSE a))
        Sample(b, c, y, z) ==
          SumOver((0 .. x.shape[3] - 1) \X (0 .. x.shape[4] - 1), LAMBDA e :
            Tent(y - 2 * e[1]) * Tent(z - 2 * e[2]) * At(x, <<b, c, e[1], e[2]>>))
        Term(i, j, q) ==
          LET c == (i[2] \div (w.shape[1] \div group)) * w.shape[2] + j
              m == (c \div (x.shape[2] \div og)) * taps + q
              t == Unravel(kernel, q)
              P(k) == 2 * (i[k + 2] * v.s[k] + t[k] * v.d[k] - v.before[k])
                      + At(n.ins[3], <<i[1], 2 * m + k - 1, i[3], i[4]>>)
          IN Sample(i[1], c, P(1), P(2)) * At(w, <<i[2], j>> \o t)
             * (IF Present(n, 5) THEN At(n.ins[5], <<i[1], m, i[3], i[4]>>) ELSE 1)
    IN IF \/ ~v.fits \/ x.shape[2] # w.shape[2] * group \/ x.shape[2] % og # 0 \/ w.shape[1] % group # 0
          \/ n.ins[3].shape # <<x.shape[1], 2 * taps * og>> \o v.count
          \/ Present(n, 5) /\ n.ins[5].shape # <<x.shape[1], taps * og>> \o v.count
       THEN Invalid
       ELSE Tensor(<<x.shape[1], w.shape[1]>> \o v.count, LAMBDA i :
              4 * BiasOf(n, 4, i[2]) +
              SumOver((0 .. w.shape[2] - 1) \X (0 .. taps - 1), LAMBDA e : Term(i, e[1], e[2])))
DeformMeaning(n) ==
    DeformOver(n, Window(n, Spatial(n.ins[1].shape), Spatial(n.ins[2].shape)),
               IntAttr(n, "group", 1), IntAttr(n, "offset_group", 1))

PoolHits(n, v, in, i) == {p \in Taps(v, Spatial(i), n.attr.kernel_shape) : Within(in, p)}
\* The positions of the declared padding count too if asked for.
PoolCounted(n, v, in, i) ==
    IF IntAttr(n, "count_include_pad", 0) # 1 THEN PoolHits(n, v, in, i)
    ELSE {p \in Taps(v, Spatial(i), n.attr.kernel_shape) :
            \A k \in DOMAIN in : p[k] < v.whole[k] - v.before[k]}
\* What the elements at some positions of a plane come to.
PoolValue(n, plane, hits, counted) ==
    CASE n.op = "MaxPool" -> IF hits = {} THEN Lowest ELSE Max({At(plane, p) : p \in hits})
      [] n.op = "LpPool" -> SumOver(hits, LAMBDA p : Power(At(plane, p), IntAttr(n, "p", 2)))
      [] n.op = "AveragePool" -> Averaged(SumOver(hits, LAMBDA p : At(plane, p)), Cardinality(counted))
\* The first of the best by rows; a window without elements names a corner outside.
PoolBest(plane, hits) ==
    IF hits = {} THEN [k \in DOMAIN plane.shape |-> -1]
    ELSE CHOOSE p \in hits :
           \A q \in hits :
             At(plane, q) < At(plane, p) \/ (At(plane, q) = At(plane, p) /\ Ravel(plane.shape, p) <= Ravel(plane.shape, q))
PoolFlat(n, in, p) == IF IntAttr(n, "storage_order", 0) = 1 THEN Ravel(Reverse(in), Reverse(p)) ELSE Ravel(in, p)
PlaneOf(x, b, c) == Tensor(Spatial(x.shape), LAMBDA p : At(x, <<b, c>> \o p))
PoolOver(n, v, x, in) ==
    IF ~v.fits THEN <<Invalid>>
    ELSE <<Tensor(SubSeq(x.shape, 1, 2) \o v.count, LAMBDA i :
             PoolValue(n, PlaneOf(x, i[1], i[2]), PoolHits(n, v, in, i), PoolCounted(n, v, in, i)))>>
         \o IF n.outs = 1 THEN <<>>
            ELSE <<Tensor(SubSeq(x.shape, 1, 2) \o v.count, LAMBDA i :
                     (i[1] * x.shape[2] + i[2]) * Product(in)
                     + PoolFlat(n, in, PoolBest(PlaneOf(x, i[1], i[2]), PoolHits(n, v, in, i))))>>
PoolMeaning(n) ==
    PoolOver(n, Window(n, Spatial(n.ins[1].shape), n.attr.kernel_shape), n.ins[1], Spatial(n.ins[1].shape))

GlobalPoolMeaning(n) ==
    LET x == n.ins[1]
        all == Product(Spatial(x.shape))
        Plane(i) == [q \in 1 .. all |-> At(x, SubSeq(i, 1, 2) \o Unravel(Spatial(x.shape), q - 1))]
    IN Tensor(SubSeq(x.shape, 1, 2) \o Const(Rank(x) - 2, 1), LAMBDA i :
         CASE n.op = "GlobalMaxPool" -> Max(Range(Plane(i)))
           [] n.op = "GlobalAveragePool" -> Averaged(Total(Plane(i)), all)
           [] n.op = "GlobalLpPool" -> Total([q \in 1 .. all |-> Power(Plane(i)[q], IntAttr(n, "p", 2))]))
=============================================================================
