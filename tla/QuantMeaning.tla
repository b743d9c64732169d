------------------------------ MODULE QuantMeaning ------------------------------
(***************************************************************************)
(* What ONNX and the contrib operators define for quantized tensors,       *)
(* element by element: a parameter is looked up at an element's place, a   *)
(* packed value at its bits, a rounded value is the nearest of a grid.     *)
(***************************************************************************)
EXTENDS OperatorMeaning, MoeOps

\* The nearest of the integers, the even one of two.
NearestEven(a, b) ==
    LET Gap(q) == IF a > q * b THEN a - q * b ELSE q * b - a
    IN CHOOSE q \in (a \div b) - 1 .. (a \div b) + 2 :
         2 * Gap(q) < b \/ (2 * Gap(q) = b /\ q % 2 = 0)
InType(dtype, v) == Larger(LeastOf(dtype), Smaller(MostOf(dtype), v))

\* The parameter of an element: one for all, for its slice, or for its block.
ParamAt(n, p, i) ==
    LET a == IntAttr(n, "axis", 1) % Len(i) IN
    CASE Len(p.data) = 1 -> p.data[1]
      [] Len(p.data) # 1 /\ BlockSize(n) = 0 -> p.data[i[a + 1] + 1]
      [] OTHER -> At(p, [i EXCEPT ![a + 1] = @ \div BlockSize(n)])
ParamsFit(n) ==
    LET x == n.ins[1].shape
        p == n.ins[2].shape
        axis == IntAttr(n, "axis", 1)
        a == axis % Len(x)
        blocked == BlockSize(n) # 0
        Whole(k) == IF k = a + 1 THEN CeilDiv(x[k], BlockSize(n)) ELSE x[k]
    IN /\ Present(n, 3) => n.ins[3].shape = p
       /\ CASE ~blocked /\ PerTensor(p) -> TRUE
            [] ~blocked /\ ~PerTensor(p) -> AxisIn(axis, Len(x)) /\ p = <<x[a + 1]>>
            [] OTHER -> BlockSize(n) > 0 /\ AxisIn(axis, Len(x)) /\ p = [k \in DOMAIN x |-> Whole(k)]
                        /\ 0 \notin Range(x)

QuantizeLinearMeaning(n) ==
    IF \/ ~ParamsFit(n)
       \/ Has(n, "output_dtype") /\ n.attr.output_dtype # n.dtype
       \/ ~Has(n, "output_dtype") /\ ~Present(n, 3) /\ n.dtype # "uint8" THEN Invalid
    ELSE Tensor(n.ins[1].shape, LAMBDA i :
           InType(n.dtype, NearestEven(At(n.ins[1], i), ParamAt(n, n.ins[2], i))
                           + (IF Present(n, 3) THEN ParamAt(n, n.ins[3], i) ELSE 0)))

\* Element k, from one, of a tensor packed two to a byte, the first in the low half.
Nibbles(n, t) ==
    IF ~Packed4(n) THEN t
    ELSE LET Half(k) == IF k % 2 = 1 THEN t.data[(k + 1) \div 2] % 16 ELSE t.data[k \div 2] \div 16 IN
         [shape |-> t.shape,
          data |-> [k \in 1 .. Product(t.shape) |->
                      IF n.dtype = "int4" /\ Half(k) > 7 THEN Half(k) - 16 ELSE Half(k)]]
DequantizeLinearMeaning(n) ==
    IF ~ParamsFit(n) \/ (Packed4(n) /\ n.since < 21) THEN Invalid
    ELSE Tensor(n.ins[1].shape, LAMBDA i :
           (At(Nibbles(n, n.ins[1]), i)
            - (IF Present(n, 3) THEN ParamAt(n, Nibbles(n, n.ins[3]), i) ELSE 0))
           * ParamAt(n, n.ins[2], i))

\* The range covers zero; of zeros alone ONNX's quotient is undefined.
DynamicMeaning(n) ==
    LET all == Range(n.ins[1].data) \cup {0}
        most == CHOOSE v \in all : \A w \in all : w <= v
        least == CHOOSE v \in all : \A w \in all : v <= w
        zero == NearestEven(-255 * least, most - least)
    IN IF most = least THEN <<Invalid>>
       ELSE <<Tensor(n.ins[1].shape, LAMBDA i :
                InType("uint8", zero + NearestEven(255 * At(n.ins[1], i), most - least))),
              Scalar(most - least), Scalar(zero)>>
-----------------------------------------------------------------------------
\* A parameter for each of count places, or one for all.
PerPlace(n, k, count) == Present(n, k) => n.ins[k].shape \in {<<>>, <<1>>, <<count>>}
Place(n, k, at, default) ==
    CASE ~Present(n, k) -> default
      [] Present(n, k) /\ Len(n.ins[k].data) = 1 -> n.ins[k].data[1]
      [] OTHER -> n.ins[k].data[at + 1]
IntegerProduct(n, a, azp, b, bzp, i) ==
    Total([k \in 1 .. n.ins[a].shape[2] |->
             (At(n.ins[a], <<i[1], k - 1>>) - Place(n, azp, i[1], 0))
             * (At(n.ins[b], <<k - 1, i[2]>>) - Place(n, bzp, i[2], 0))])
Matrices(a, b) == Rank(a) = 2 /\ Rank(b) = 2 /\ a.shape[2] = b.shape[1]
MatmulIntegerMeaning(n) ==
    IF ~(/\ Matrices(n.ins[1], n.ins[2]) /\ PerPlace(n, 3, n.ins[1].shape[1])
         /\ PerPlace(n, 4, n.ins[2].shape[2])) THEN Invalid
    ELSE Tensor(<<n.ins[1].shape[1], n.ins[2].shape[2]>>, LAMBDA i : IntegerProduct(n, 1, 3, 2, 4, i))
QLinearMatmulMeaning(n) ==
    LET rows == n.ins[1].shape[1]
        columns == n.ins[4].shape[2]
    IN IF ~(/\ Matrices(n.ins[1], n.ins[4])
            /\ \A k \in {2, 3} : PerPlace(n, k, rows)
            /\ \A k \in 5 .. 8 : PerPlace(n, k, columns)) THEN Invalid
       ELSE Tensor(<<rows, columns>>, LAMBDA i :
              InType(n.dtype, Place(n, 8, i[2], 0)
                + NearestEven(IntegerProduct(n, 1, 3, 4, 6, i) * Place(n, 2, i[1], 1) * Place(n, 5, i[2], 1),
                              Place(n, 7, i[2], 1))))

\* Filter f of a group meets the channels of its group under each tap.
IntegerConvAt(n, w, xzp, wzp, i) ==
    LET x == n.ins[1]
        k == n.ins[w]
        r == Rank(x) - 2
        strides == IntsAttr(n, "strides", Const(r, 1))
        dilations == IntsAttr(n, "dilations", Const(r, 1))
        pads == IntsAttr(n, "pads", Const(2 * r, 0))
        group == i[2] \div (k.shape[1] \div IntAttr(n, "group", 1))
        From(tap) == [d \in 1 .. r |-> i[d + 2] * strides[d] - pads[d] + tap[d] * dilations[d]]
        Weight(c, tap) == At(k, <<i[2], c>> \o tap) - Place(n, wzp, i[2], 0)
        Value(c, tap) == IF Within(Spatial(x.shape), From(tap))
                         THEN At(x, <<i[1], group * k.shape[2] + c>> \o From(tap)) - Place(n, xzp, 0, 0) ELSE 0
        tapped == Tail(k.shape)
    IN Total([q \in 1 .. Product(tapped) |->
         LET ct == Unravel(tapped, q - 1) IN Weight(ct[1], Tail(ct)) * Value(ct[1], Tail(ct))])
ConvShape(n, w) ==
    LET x == n.ins[1].shape
        r == Len(x) - 2
        pads == IntsAttr(n, "pads", Const(2 * r, 0))
        Extent(d) == ((x[d + 2] + pads[d] + pads[r + d]
                       - (IntsAttr(n, "dilations", Const(r, 1))[d] * (n.ins[w].shape[d + 2] - 1) + 1))
                      \div IntsAttr(n, "strides", Const(r, 1))[d]) + 1
    IN <<x[1], n.ins[w].shape[1]>> \o [d \in 1 .. r |-> Extent(d)]
ConvFits(n, w) ==
    LET group == IntAttr(n, "group", 1) IN
    /\ n.ins[1].shape[2] = n.ins[w].shape[2] * group /\ n.ins[w].shape[1] % group = 0
    /\ Positive(ConvShape(n, w))
ConvIntegerMeaning(n) ==
    Legal(ConvFits(n, 2), Tensor(ConvShape(n, 2), LAMBDA i : IntegerConvAt(n, 2, 3, 4, i)))
QLinearConvMeaning(n) ==
    Legal(ConvFits(n, 4), Tensor(ConvShape(n, 4), LAMBDA i :
      InType(n.dtype, Place(n, 8, 0, 0)
        + NearestEven((IntegerConvAt(n, 4, 3, 6, i) + Place(n, 9, i[2], 0)) * Place(n, 2, 0, 1) * Place(n, 5, i[2], 1),
                      Place(n, 7, 0, 1)))))
-----------------------------------------------------------------------------
\* Element k of a row of packed bits.
BitsAt(t, row, perRow, k, bits) ==
    (t.data[row * perRow + ((k * bits) \div 8) + 1] \div (2 ^ ((k * bits) % 8))) % (2 ^ bits)
MatmulNbitsMeaning(n) ==
    LET g == Nbits(n)
        a == n.ins[1]
        ZeroOf(row, b) ==
          CASE ~Present(n, 4) -> 2 ^ (g.bits - 1)
            [] Present(n, 4) /\ n.dtype # "uint8" -> n.ins[4].data[row * g.blocks + b + 1]
            [] OTHER -> BitsAt(n.ins[4], row, CeilDiv(g.blocks * g.bits, 8), b, g.bits)
        Weight(row, k) == (BitsAt(n.ins[2], row, (g.padded * g.bits) \div 8, k, g.bits)
                           - ZeroOf(row, k \div g.block))
                          * n.ins[3].data[row * g.blocks + (k \div g.block) + 1]
    IN Legal(Last(a.shape) = g.k,
             Tensor(Front(a.shape) \o <<g.n>>, LAMBDA i :
               (IF Present(n, 6) THEN n.ins[6].data[Last(i) + 1] ELSE 0)
               + Total([k \in 1 .. g.k |-> At(a, Front(i) \o <<k - 1>>) * Weight(Last(i), k - 1)])))

\* A row that an index does not name is zero.
GatherBlockMeaning(n) ==
    LET t == n.ins[1]
        block == IntAttr(n, "block_size", 128)
        blocks == CeilDiv(2 * t.shape[2], block)
        Value(row, k) == (BitsAt(t, row, t.shape[2], k, 4)
                          - (IF Present(n, 4) THEN BitsAt(n.ins[4], row, CeilDiv(blocks, 2), k \div block, 4) ELSE 8))
                         * At(n.ins[3], <<row, k \div block>>)
    IN Tensor(n.ins[2].shape \o <<2 * t.shape[2]>>, LAMBDA i :
         LET v == At(n.ins[2], Front(i)) IN
         IF v \in -t.shape[1] .. t.shape[1] - 1 THEN Value(v % t.shape[1], Last(i)) ELSE 0)

\* The finite codes of E4M3, which grow with their size, and the nearest, the even
\* code of two; what is larger than all of them becomes the largest.
NearestE4m3(a, scale) ==
    LET size == IF a < 0 THEN -a ELSE a
        Gap(c) == IF size > E4m3(c) * scale THEN size - E4m3(c) * scale ELSE E4m3(c) * scale - size
        nearest == {c \in 0 .. 126 : \A o \in {c - 1, c + 1} \cap 0 .. 126 : Gap(c) <= Gap(o)}
        code == IF Cardinality(nearest) = 1 THEN CHOOSE c \in nearest : TRUE
                ELSE CHOOSE c \in nearest : c % 2 = 0
    IN IF a < 0 THEN -E4m3(code) ELSE E4m3(code)
BlockProductMeaning(n) ==
    LET fp4 == n.op = Fp4
        a == n.ins[1]
        k == Last(a.shape)
        block == IntAttr(n, "block_size", IF fp4 THEN 16 ELSE 128)
        Weight(row, e) ==
          IF fp4 THEN E2m1(BitsAt(n.ins[2], row, k \div 2, e, 4))
                      * E4m3(At(n.ins[3], <<row, e \div block>>)) * n.ins[4].data[1]
          ELSE E4m3(At(n.ins[2], <<row, e>>)) * At(n.ins[3], <<row, e \div block>>)
        scale == IF ~fp4 /\ Present(n, 4) THEN n.ins[4].data[1] ELSE 0
        Active(v) == IF scale = 0 THEN v ELSE NearestE4m3(v, scale) * scale
        bias == IF fp4 THEN 6 ELSE 5
    IN Legal(k = n.ins[2].shape[2] * (IF fp4 THEN 2 ELSE 1),
             Tensor(Front(a.shape) \o <<n.ins[2].shape[1]>>, LAMBDA i :
               (IF Present(n, bias) THEN n.ins[bias].data[Last(i) + 1] ELSE 0)
               + Total([e \in 1 .. k |-> Active(At(a, Front(i) \o <<e - 1>>)) * Weight(Last(i), e - 1)])))
-----------------------------------------------------------------------------
\* A token goes to the k experts of greatest logit, the later of two alike; each
\* answers with its second projection of its activated first one, and the answers
\* are mixed in proportion to the powers of two of the logits.
BestExperts(logits, k) ==
    {j \in DOMAIN logits :
       Cardinality({o \in DOMAIN logits : logits[o] > logits[j] \/ (logits[o] = logits[j] /\ o > j)}) < k}
ExpertWeight(n, w, bits, rows, columns, e, row, c) ==
    LET at == (e - 1) * rows + row
        block == IntAttr(n, "block_size", 0)
        blocks == IF block = 0 THEN 1 ELSE columns \div block
    IN (BitsAt(n.ins[w], at, (columns * bits) \div 8, c, bits) - 2 ^ (bits - 1))
       * n.ins[w + 1].data[at * blocks + (IF block = 0 THEN 0 ELSE c \div block) + 1]
BiasAt(n, b, at) == IF Present(n, b) THEN n.ins[b].data[at + 1] ELSE 0
QMoEMeaning(n) ==
    LET x == n.ins[1]
        hidden == Last(x.shape)
        rows == n.ins[3].shape[2]
        experts == n.ins[3].shape[1]
        halves == Activation(n) = "swiglu"
        inter == IF halves THEN rows \div 2 ELSE rows
        First(e, t, r) == BiasAt(n, 5, (e - 1) * rows + r)
          + Total([c \in 1 .. hidden |-> x.data[t * hidden + c] * ExpertWeight(n, 3, Bits1(n), rows, hidden, e, r, c - 1)])
        Middle(e, t, c) == IF halves THEN QmoeSwiglu(n, First(e, t, 2 * c), First(e, t, 2 * c + 1))
                           ELSE QmoeActivation(Activation(n), First(e, t, c))
        Second(e, t, r) == BiasAt(n, 8, (e - 1) * hidden + r)
          + Total([c \in 1 .. inter |-> Middle(e, t, c - 1) * ExpertWeight(n, 6, Bits2(n), hidden, inter, e, r, c - 1)])
        LogitsOf(t) == SubSeq(n.ins[2].data, t * experts + 1, (t + 1) * experts)
        Gate(t, e) == IF e \in BestExperts(LogitsOf(t), IntAttr(n, "k", 1)) THEN Weight2(LogitsOf(t)[e]) ELSE 0
    IN IF Activation(n) \notin ExpertActivations \/ IntAttr(n, "k", 1) > experts THEN Invalid ELSE
       [shape |-> x.shape,
        data |-> [p \in 1 .. Product(x.shape) |->
          LET t == (p - 1) \div hidden IN
          <<Total([e \in 1 .. experts |-> Gate(t, e) * Second(e, t, (p - 1) % hidden)]),
            Total([e \in 1 .. experts |-> Gate(t, e)])>>]]
=============================================================================
