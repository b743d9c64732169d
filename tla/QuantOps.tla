------------------------------- MODULE QuantOps -------------------------------
(***************************************************************************)
(* Linear quantization, the products of quantized integers, and weights    *)
(* quantized in blocks along K (rust/src/ops/quant.rs): QuantizeLinear,    *)
(* DequantizeLinear, DynamicQuantizeLinear, MatMulInteger, ConvInteger,    *)
(* QLinearMatMul, QLinearConv; MatMulNBits, GatherBlockQuantized and the   *)
(* FP4 and FP8 block products of com.microsoft.                            *)
(* Scales are positive integers, and a quotient is kept exact until it is  *)
(* rounded; float32 holds integers up to Exact32 and turns a larger one    *)
(* into Garbage.  In a node, dtype is the quantized type, or that of the   *)
(* zero points; a tensor of int4 or uint4 has its logical shape, and its   *)
(* data are bytes of two elements.  Codes of E2M1 stand for halves, those  *)
(* of E4M3 for 512ths, and the activations of the FP8 product count        *)
(* 512ths.  The route that computes in float16 differs in rounding only    *)
(* and is left out.                                                        *)
(***************************************************************************)
EXTENDS MatmulOps, WindowOps

Exact32 == 2 ^ 24
Float32(v) == IF v \in -Exact32 .. Exact32 THEN v ELSE Garbage

\* The integer next to a / b, the even one of two.
RoundEven(a, b) ==
    LET q == a \div b
        r == a % b
    IN IF 2 * r > b \/ (2 * r = b /\ q % 2 = 1) THEN q + 1 ELSE q

\* range_for.
LeastOf(dtype) == CASE dtype = "int8" -> -128 [] dtype = "int16" -> -32768 [] OTHER -> 0
MostOf(dtype) ==
    CASE dtype = "int8" -> 127 [] dtype = "uint8" -> 255 [] dtype = "int16" -> 32767 [] OTHER -> 65535
Saturated(t, dtype) ==
    IF t = Refused THEN t
    ELSE [t EXCEPT !.data = [k \in DOMAIN t.data |-> Clamp(t.data[k], LeastOf(dtype), MostOf(dtype))]]
Less(a, b) == MlxBinary(LAMBDA x, y : x - y, a, b)
Times(a, b) == MlxBinary(LAMBDA x, y : x * y, a, b)
Requantized(t, scale) == MlxBinary(RoundEven, t, scale)

\* unpack_bits: the values of 8 \div bits lanes of each byte, low lanes first.
UnpackBits(t, bits) ==
    LET lanes == 8 \div bits
        Lane(v, k) == (v \div (2 ^ (bits * k))) % (2 ^ bits)
    IN Tensor(<<t.shape[1], t.shape[2] * lanes>>,
              LAMBDA i : Lane(At(t, <<i[1], i[2] \div lanes>>), i[2] % lanes))
-----------------------------------------------------------------------------
QuantAxis(rank, axis) == IF AxisIn(axis, rank) THEN NormAxis(axis, rank) ELSE None
PerTensor(shape) == shape \in {<<>>, <<1>>}
BlockSize(n) == IntAttr(n, "block_size", 0)

NodeQuantAxis(n, rank, single) ==
    IF single /\ BlockSize(n) = 0 THEN 0 ELSE QuantAxis(rank, IntAttr(n, "axis", 1))

AlignPerAxis(param, rank, axis) ==
    IF Len(param.data) = 1 THEN MlxReshape(param, <<>>)
    ELSE MlxReshape(param, [k \in 1 .. rank |-> IF k = axis + 1 THEN Len(param.data) ELSE 1])

\* A parameter of blocks at every element of its block, the last block cut.
ExpandedBlocks(param, shape, axis, block) ==
    LET outer == SubSeq(param.shape, 1, axis + 1)
        inner == SubSeq(param.shape, axis + 2, Rank(param))
    IN MlxSlice(MlxReshape(MlxBroadcastTo(MlxReshape(param, outer \o <<1>> \o inner), outer \o <<block>> \o inner),
                           [shape EXCEPT ![axis + 1] = param.shape[axis + 1] * block]),
                Const(Len(shape), 0), shape, Const(Len(shape), 1))

AlignQuantParam(param, shape, axis, block) ==
    CASE block # 0 -> ExpandedBlocks(param, shape, axis, block)
      [] block = 0 /\ Len(param.data) # 1 /\ shape[axis + 1] # Len(param.data) -> Refused
      [] OTHER -> AlignPerAxis(param, Len(shape), axis)

\* A node's operation on its data, aligned scale, and aligned zero point or None.
Quantized(x, scale, zero, dtype) ==
    IF Refused \in {scale, zero} THEN Refused
    ELSE Saturated(Added(Requantized(x, scale), IF zero = None THEN Scalar(0) ELSE zero), dtype)
Dequantized(x, scale, zero) ==
    IF Refused \in {scale, zero} THEN Refused
    ELSE Times(Less(x, IF zero = None THEN Scalar(0) ELSE zero), scale)

MismatchedZeros(n) == Present(n, 3) /\ n.ins[3].shape # n.ins[2].shape
GivenZero(n, zero) == IF Present(n, 3) THEN zero ELSE None
QuantizedAlong(n, axis) ==
    LET Aligned(p) == AlignQuantParam(p, n.ins[1].shape, axis, BlockSize(n)) IN
    IF axis = None \/ MismatchedZeros(n) THEN Refused
    ELSE Quantized(n.ins[1], Aligned(n.ins[2]), GivenZero(n, Aligned(n.ins[3])), n.dtype)
QuantizeLinear(n) ==
    QuantizedAlong(n, NodeQuantAxis(n, Rank(n.ins[1]), Len(n.ins[2].data) = 1))
-----------------------------------------------------------------------------
Packed4(n) == n.dtype \in {"int4", "uint4"}

BlockShapeOk(data, param, axis, block) ==
    /\ block > 0 /\ axis \in 0 .. Len(data) - 1 /\ Len(data) = Len(param)
    /\ Positive(data) /\ Positive(param)
    /\ \A k \in DOMAIN data : k # axis + 1 => param[k] = data[k]
    /\ data[axis + 1] <= param[axis + 1] * block
    /\ (param[axis + 1] - 1) * block < data[axis + 1]
QuantParamShapeOk(data, param, axis, block) ==
    IF block = 0 THEN PerTensor(param)
                      \/ (data # <<>> /\ Len(param) = 1 /\ Agree(param[1], data[axis + 1]))
    ELSE BlockShapeOk(data, param, axis, block)
ClaimQuantAxis(rank, axis, param) == IF PerTensor(param) THEN 0 ELSE QuantAxis(rank, axis)

ValidatePackedDq(n) ==
    LET axis == ClaimQuantAxis(Rank(n.ins[1]), IntAttr(n, "axis", 1), n.ins[2].shape) IN
    Packed4(n) =>
      /\ axis # None /\ n.since >= 21
      /\ QuantParamShapeOk(n.ins[1].shape, n.ins[2].shape, axis, BlockSize(n))
      /\ Present(n, 3) => n.ins[3].shape = n.ins[2].shape

\* Exclusive or with eight, less eight: the sign of a nibble.
Nibble(v) == (IF v >= 8 THEN v - 8 ELSE v + 8) - 8
UnpackedValues(n, t, lanes) ==
    MlxReshape(Vector(Tabulated([k \in 1 .. Product(t.shape) |->
                 IF n.dtype = "int4" THEN Nibble(lanes[k]) ELSE lanes[k]])), t.shape)
DequantInput(n, t) ==
    CASE ~Packed4(n) -> t
      [] Packed4(n) /\ 0 \in Range(t.shape) -> MlxFull(t.shape, 0)
      [] OTHER -> UnpackedValues(n, t, UnpackBits([shape |-> <<1, Len(t.data)>>, data |-> t.data], 4).data)

DequantizedAlong(n, x, axis) ==
    LET Aligned(p) == AlignQuantParam(p, x.shape, axis, BlockSize(n)) IN
    IF ~ValidatePackedDq(n) \/ axis = None \/ MismatchedZeros(n) THEN Refused
    ELSE Dequantized(x, Aligned(n.ins[2]), GivenZero(n, Aligned(DequantInput(n, n.ins[3]))))
DequantizeLinear(n) ==
    DequantizedAlong(n, DequantInput(n, n.ins[1]), NodeQuantAxis(n, Rank(n.ins[1]), Len(n.ins[2].data) = 1))

\* Three outputs; the scale counts 255ths.
DynamicQuantizeLinear(n) ==
    LET x == n.ins[1]
        most == FoldLeft(Larger, 0, x.data)
        least == FoldLeft(Smaller, 0, x.data)
        zero == Clamp(RoundEven(-(255 * least), most - least), 0, 255)
        Level(v) == RoundEven(255 * v, most - least) + zero
    IN IF most = least THEN <<Refused, Refused, Refused>>
       ELSE <<Saturated([x EXCEPT !.data = [k \in DOMAIN x.data |-> Level(x.data[k])]], "uint8"),
              Scalar(most - least), Scalar(zero)>>
-----------------------------------------------------------------------------
\* A parameter of a product, one for each row or for each column.
RowParam(t) == IF Len(t.data) > 1 THEN MlxReshape(t, <<Len(t.data), 1>>) ELSE t
ColumnParam(t) == IF Len(t.data) > 1 THEN MlxReshape(t, <<1, Len(t.data)>>) ELSE t
Float32All(t) == [t EXCEPT !.data = [k \in DOMAIN t.data |-> Float32(t.data[k])]]
CenteredBy(t, zero) == IF zero = None THEN t ELSE Less(t, zero)
Float32Product(x, y) == IF Refused \in {x, y} THEN Refused ELSE Float32All(MlxMatmul(x, y))
CenteredMatmul(n, a, azp, b, bzp) ==
    Float32Product(CenteredBy(n.ins[a], IF Present(n, azp) THEN RowParam(n.ins[azp]) ELSE None),
              CenteredBy(n.ins[b], IF Present(n, bzp) THEN ColumnParam(n.ins[bzp]) ELSE None))
MatmulInteger(n) == CenteredMatmul(n, 1, 3, 2, 4)

\* What is left of an accumulator: scaled by both inputs, then quantized anew.
Rescaled(acc, a, b, scale, zero, dtype) ==
    IF acc = Refused THEN Refused
    ELSE Saturated(Added(Requantized(Times(Times(acc, a), b), scale), zero), dtype)
QLinearMatmul(n) ==
    Rescaled(CenteredMatmul(n, 1, 3, 4, 6), RowParam(n.ins[2]), ColumnParam(n.ins[5]), ColumnParam(n.ins[7]),
             IF Present(n, 8) THEN ColumnParam(n.ins[8]) ELSE Scalar(0), n.dtype)

\* MLX pads both ends of an axis alike, by what ONNX pads its beginning.
ConvOf(n, x, k, r) ==
    MlxConv(ToChannelsLast(x), ToChannelsLast(k),
      [stride |-> IntsAttr(n, "strides", Const(r, 1)), dilation |-> IntsAttr(n, "dilations", Const(r, 1)),
       low |-> SubSeq(IntsAttr(n, "pads", Const(2 * r, 0)), 1, r),
       high |-> SubSeq(IntsAttr(n, "pads", Const(2 * r, 0)), 1, r),
       spread |-> Const(r, 1), group |-> IntAttr(n, "group", 1), flip |-> FALSE])
ChannelsFirst(t) == IF t = Refused THEN t ELSE FromChannelsLast(Float32All(t))
CenteredConv(n, w, xzp, wzp) ==
    ChannelsFirst(ConvOf(n, CenteredBy(n.ins[1], IF Present(n, xzp) THEN n.ins[xzp] ELSE None),
      CenteredBy(n.ins[w], IF Present(n, wzp) THEN AlignPerAxis(n.ins[wzp], Rank(n.ins[w]), 0) ELSE None),
      Rank(n.ins[1]) - 2))
ConvInteger(n) == CenteredConv(n, 2, 3, 4)

WithBiasAcc(conv, bias) == IF conv = Refused \/ bias = None THEN conv ELSE Added(conv, bias)
QLinearConv(n) ==
    LET Channels(p) == AlignPerAxis(p, Rank(n.ins[1]), 1) IN
    Rescaled(WithBiasAcc(CenteredConv(n, 4, 3, 6), IF Present(n, 9) THEN Channels(n.ins[9]) ELSE None),
             Channels(Times(n.ins[2], n.ins[5])), Scalar(1), Channels(n.ins[7]),
             IF Present(n, 8) THEN Channels(n.ins[8]) ELSE Scalar(0), n.dtype)
-----------------------------------------------------------------------------
OutputDtypeMatches(n, actual) == IntAttr(n, "output_dtype", actual) = actual
ParamsClaim(n) ==
    LET axis == ClaimQuantAxis(Len(View(n, 1)), IntAttr(n, "axis", 1), View(n, 2)) IN
    /\ n.typed /\ axis # None
    /\ QuantParamShapeOk(View(n, 1), View(n, 2), axis, BlockSize(n))
    /\ Present(n, 3) => View(n, 3) = View(n, 2)
QuantizeLinearClaim(n) ==
    /\ ParamsClaim(n) /\ OutputDtypeMatches(n, n.dtype)
    /\ Present(n, 3) \/ Has(n, "output_dtype") \/ n.dtype = "uint8"
DequantizeLinearClaim(n, out) ==
    ParamsClaim(n) /\ (Packed4(n) => n.since >= 21 /\ Compatible(View(n, 1), out))

MaxExactAccum == 256
\* Mutant: a sum of any length is taken to be exact.
AnySum(count) == count > 0
ExactSum(count) == count > 0 /\ count <= MaxExactAccum

MatmulIntegerClaim(n) ==
    LET a == View(n, 1)
        b == View(n, 2)
    IN /\ n.typed /\ Len(a) = 2 /\ Len(b) = 2 /\ a[2] = b[1] /\ ExactSum(a[2])
       /\ \A k \in {3, 4} : Present(n, k) => Len(View(n, k)) <= 1

\* param_ok: length < 0 for a scalar only.
ParamOk(n, k, length) ==
    Present(n, k) => PerTensor(View(n, k)) \/ (length >= 0 /\ View(n, k) = <<length>>)
QLinearMatmulClaim(n) ==
    LET a == View(n, 1)
        b == View(n, 4)
    IN /\ n.typed /\ Len(a) = 2 /\ Len(b) = 2 /\ a[2] = b[1] /\ ExactSum(a[2]) /\ a[1] > 0 /\ b[2] > 0
       /\ \A k \in {2, 3} : ParamOk(n, k, a[1])
       /\ \A k \in 5 .. 8 : ParamOk(n, k, b[2])

ConvAttrsOk(n, r, w, channels) ==
    LET group == IntAttr(n, "group", 1)
        strides == SpatialAttr(n, "strides", r)
        pads == ReadPads(n, r)
    IN /\ StringAttr(n, "auto_pad", "NOTSET") = "NOTSET"
       /\ group > 0 /\ channels % group = 0 /\ w[2] = channels \div group /\ w[1] % group = 0
       /\ strides # None /\ SpatialAttr(n, "dilations", r) # None /\ pads # None
       /\ \A k \in 1 .. r : pads[k] = pads[k + r]
       /\ Has(n, "kernel_shape") => n.attr.kernel_shape = Spatial(w)
QConvClaim(n, w) ==
    LET x == View(n, 1) IN
    /\ n.typed /\ Len(x) \in {3, 4} /\ Len(w) = Len(x) /\ Positive(x) /\ Positive(w)
    /\ ConvAttrsOk(n, Len(x) - 2, w, x[2]) /\ ExactSum(Product(Tail(w)))
ConvIntegerClaim(n) ==
    QConvClaim(n, View(n, 2)) /\ ParamOk(n, 3, -1) /\ ParamOk(n, 4, View(n, 2)[1])
QLinearConvClaim(n) ==
    LET w == View(n, 4) IN
    /\ QConvClaim(n, w)
    /\ \A k \in {2, 3, 7, 8} : ParamOk(n, k, -1)
    /\ \A k \in {5, 6} : ParamOk(n, k, w[1])
    /\ Present(n, 9) => View(n, 9) = <<w[1]>>

LinearQuantOperators ==
    {"QuantizeLinear", "DequantizeLinear", "DynamicQuantizeLinear", "MatMulInteger", "ConvInteger",
     "QLinearMatMul", "QLinearConv"}
LinearQuantClaim(n, out) ==
    CASE n.op = "QuantizeLinear" -> QuantizeLinearClaim(n)
      [] n.op = "DequantizeLinear" -> DequantizeLinearClaim(n, out)
      [] n.op = "DynamicQuantizeLinear" -> n.typed
      [] n.op = "MatMulInteger" -> MatmulIntegerClaim(n)
      [] n.op = "ConvInteger" -> ConvIntegerClaim(n)
      [] n.op = "QLinearMatMul" -> QLinearMatmulClaim(n)
      [] n.op = "QLinearConv" -> QLinearConvClaim(n)
LinearQuantTranslate(n) ==
    CASE n.op = "QuantizeLinear" -> <<QuantizeLinear(n)>>
      [] n.op = "DequantizeLinear" -> <<DequantizeLinear(n)>>
      [] n.op = "DynamicQuantizeLinear" -> DynamicQuantizeLinear(n)
      [] n.op = "MatMulInteger" -> <<MatmulInteger(n)>>
      [] n.op = "ConvInteger" -> <<ConvInteger(n)>>
      [] n.op = "QLinearMatMul" -> <<QLinearMatmul(n)>>
      [] n.op = "QLinearConv" -> <<QLinearConv(n)>>
-----------------------------------------------------------------------------
\* Weights quantized in blocks.
\* broadcast_blocks and trim_block_values: a row of blocks at every one of its elements.
BroadcastBlocks(t, rows, blocks, block) ==
    MlxReshape(MlxBroadcastTo(MlxReshape(t, <<rows, blocks, 1>>), <<rows, blocks, block>>), <<rows, blocks * block>>)
TrimBlockValues(t, rows, columns) ==
    IF t.shape[2] = columns THEN t ELSE MlxSlice(t, <<0, 0>>, <<rows, columns>>, <<1, 1>>)
PadLastDim(t, amount) ==
    IF amount = 0 THEN t ELSE MlxPad(t, Const(Rank(t), 0), [k \in 1 .. Rank(t) |-> IF k = Rank(t) THEN amount ELSE 0], 0)
Rows2D(t) == MlxReshape(t, <<Product(Front(t.shape)), Last(t.shape)>>)
WithBiasOf(n, k, y) == IF Present(n, k) THEN Added(y, n.ins[k]) ELSE y
-----------------------------------------------------------------------------
\* The geometry of a MatMulNBits node.
Nbits(n) ==
    LET block == IntAttr(n, "block_size", 32)
        blocks == CeilDiv(n.attr.K, block)
    IN [k |-> n.attr.K, n |-> n.attr.N, block |-> block, bits |-> IntAttr(n, "bits", 4), blocks |-> blocks,
        padded |-> blocks * block]

\* Zero points of fewer than eight bits are packed row by row.
ZeroPoints(n, g) ==
    LET lanes == 8 \div g.bits IN
    IF n.dtype # "uint8" \/ g.bits = 8 THEN MlxReshape(n.ins[4], <<g.n, g.blocks>>)
    ELSE TrimBlockValues(UnpackBits(MlxReshape(n.ins[4], <<g.n, CeilDiv(g.blocks, lanes)>>), g.bits), g.n, g.blocks)

\* On the host, of initializers, from the bytes.
HostZeroPoints(n, g) ==
    LET columns == IF g.bits = 4 THEN CeilDiv(g.blocks, 2) ELSE g.blocks
        Byte(i) == n.ins[4].data[i[1] * columns + (IF g.bits = 4 THEN i[2] \div 2 ELSE i[2]) + 1]
    IN Tensor(<<g.n, g.blocks>>, LAMBDA i :
         IF g.bits # 4 THEN Byte(i) ELSE IF i[2] % 2 = 0 THEN Byte(i) % 16 ELSE Byte(i) \div 16)

NbitsScales(n, g) == MlxReshape(n.ins[3], <<g.n, g.blocks>>)
SymmetricBiases(n, g) == Scaled(NbitsScales(n, g), -(2 ^ (g.bits - 1)))
AsymmetricBiases(n, g) ==
    Times(Scaled(IF Constant(n, 3) /\ Constant(n, 4) /\ g.bits # 2 /\ n.dtype = "uint8"
                 THEN HostZeroPoints(n, g) ELSE ZeroPoints(n, g), -1),
          NbitsScales(n, g))

\* x times the transpose of weights unpacked, scaled and shifted block by block.
MlxQuantizedMatmul(x, w, scales, biases, block) ==
    Tensor(<<x.shape[1], w.shape[1]>>, LAMBDA i :
      Total([k \in 1 .. x.shape[2] |->
        At(x, <<i[1], k - 1>>)
        * (At(w, <<i[2], k - 1>>) * At(scales, <<i[2], (k - 1) \div block>>) + At(biases, <<i[2], (k - 1) \div block>>))]))

\* MLX's words of 32 bits are the same bytes in a row: lane k of a row is element k.
Unpacked(n, g) == UnpackBits(MlxReshape(n.ins[2], <<g.n, (g.padded * g.bits) \div 8>>), g.bits)
ZeroBlocks(n, g) ==
    IF Present(n, 4) THEN BroadcastBlocks(ZeroPoints(n, g), g.n, g.blocks, g.block) ELSE Scalar(2 ^ (g.bits - 1))
DequantizedWeight(n, g) ==
    Times(Less(Unpacked(n, g), ZeroBlocks(n, g)), BroadcastBlocks(NbitsScales(n, g), g.n, g.blocks, g.block))

\* Weights that a run may change are never repacked on the host.
Repacks(n, g) == g.block \in {32, 64, 128} /\ Constant(n, 2)
NbitsProduct(n, g, x) ==
    IF Repacks(n, g)
    THEN MlxQuantizedMatmul(x, Unpacked(n, g), NbitsScales(n, g),
                            IF Present(n, 4) THEN AsymmetricBiases(n, g) ELSE SymmetricBiases(n, g), g.block)
    ELSE MlxMatmul(x, Flipped(DequantizedWeight(n, g)))
PaddedProduct(n, g) == NbitsProduct(n, g, PadLastDim(Rows2D(n.ins[1]), g.padded - g.k))
MatmulNbits(n) ==
    IF Last(n.ins[1].shape) # n.attr.K THEN Refused
    ELSE WithBiasOf(n, 6, MlxReshape(PaddedProduct(n, Nbits(n)), Front(n.ins[1].shape) \o <<n.attr.N>>))

Powers == {2 ^ k : k \in 4 .. 30}
MatmulNbitsClaim(n) ==
    LET g == Nbits(n)
        lanes == 8 \div g.bits
        a == View(n, 1)
    IN /\ n.typed /\ IntAttr(n, "weight_prepacked", 0) = 0 /\ ~Present(n, 5)
       /\ g.bits \in {2, 4, 8} /\ g.block \in Powers /\ g.k > 0 /\ g.n > 0
       /\ a # <<>> /\ (Last(a) = g.k \/ Last(a) < 0)
       /\ View(n, 2) = <<g.n, g.blocks, (g.block * g.bits) \div 8>>
       /\ Positive(View(n, 3)) /\ Product(View(n, 3)) = g.n * g.blocks
       /\ Present(n, 4) =>
            /\ Positive(View(n, 4))
            /\ Product(View(n, 4)) = g.n * (IF n.dtype = "uint8" THEN CeilDiv(g.blocks, lanes) ELSE g.blocks)
       /\ Present(n, 6) => View(n, 6) = <<g.n>>
MatmulNbitsShapeless(n) ==
    LET g == Nbits(n) IN
    /\ g.k > 0 /\ g.block > 0 /\ g.k % g.block = 0
    /\ Present(n, 4) /\ g.bits < 8 => g.blocks % (8 \div g.bits) = 0
-----------------------------------------------------------------------------
\* Rows of a table; a negative row counts from the end, which MLX's take allows.
GatherRows(t, rows) ==
    Tensor(<<Len(rows)>> \o Tail(t.shape), LAMBDA i :
      At(t, [i EXCEPT ![1] = IF rows[@ + 1] < 0 THEN rows[@ + 1] + t.shape[1] ELSE rows[@ + 1]]))

\* d elements of each gathered row; rows that are not valid become zero.
RowBlocks(t, count, d, block) ==
    TrimBlockValues(BroadcastBlocks(t, count, CeilDiv(d, block), block), count, d)
RowZeros(n, rows, d, block) ==
    IF Present(n, 4)
    THEN RowBlocks(TrimBlockValues(UnpackBits(GatherRows(n.ins[4], rows), 4), Len(rows), CeilDiv(d, block)),
                   Len(rows), d, block)
    ELSE Scalar(8)
RowValues(n, rows, d, block) ==
    Times(Less(UnpackBits(GatherRows(n.ins[1], rows), 4), RowZeros(n, rows, d, block)),
          RowBlocks(GatherRows(n.ins[3], rows), Len(rows), d, block))
Masked(w, valid) == Tensor(w.shape, LAMBDA i : IF valid[i[1] + 1] THEN At(w, i) ELSE 0)
GatheredRows(n, indices, valid, d) ==
    MlxReshape(Masked(RowValues(n, Tabulated([k \in DOMAIN indices |-> IF valid[k] THEN indices[k] ELSE 0]), d,
                                IntAttr(n, "block_size", 128)), valid),
               n.ins[2].shape \o <<d>>)
GatherBlockQuantized(n) ==
    LET size == n.ins[1].shape[1] IN
    GatheredRows(n, n.ins[2].data, [k \in DOMAIN n.ins[2].data |-> n.ins[2].data[k] \in -size .. size - 1],
                 2 * n.ins[1].shape[2])

GatherBlockQuantizedClaim(n) ==
    LET data == View(n, 1)
        block == IntAttr(n, "block_size", 128)
        blocks == CeilDiv(data[2] * 2, block)
    IN /\ n.typed /\ Len(data) = 2 /\ Positive(data) /\ IntAttr(n, "bits", 4) = 4
       /\ IntAttr(n, "gather_axis", 0) \in {0, -2} /\ IntAttr(n, "quantize_axis", 1) \in {1, -1}
       /\ block \in Powers
       /\ View(n, 3) = <<data[1], blocks>>
       /\ Present(n, 4) => View(n, 4) = <<data[1], (blocks + 1) \div 2>>
GatherBlockQuantizedShapeless(n) ==
    LET data == View(n, 1)
        block == IntAttr(n, "block_size", 128)
        Packed(k) == IF View(n, k) = <<>> THEN 0 ELSE Last(View(n, k))
    IN /\ Packed(1) > 0 /\ block > 0 /\ (Packed(1) * 2) % block = 0
       /\ Present(n, 4) => Packed(4) > 0 /\ Packed(4) * 2 = (Packed(1) * 2) \div block
-----------------------------------------------------------------------------
\* E4M3 without infinities, in 512ths; E2M1, in halves.
E4m3(bits) ==
    LET exponent == (bits \div 8) % 16
        mantissa == bits % 8
        magnitude == CASE exponent = 0 -> mantissa
                       [] exponent = 15 /\ mantissa = 7 -> Garbage
                       [] OTHER -> (8 + mantissa) * 2 ^ (exponent - 1)
    IN IF bits >= 128 THEN -magnitude ELSE magnitude
Magnitudes == <<0, 1, 2, 3, 4, 6, 8, 12>>
E2m1(bits) == IF bits >= 8 THEN -Magnitudes[bits - 7] ELSE Magnitudes[bits + 1]
Decoded(t, Op(_)) == [t EXCEPT !.data = [k \in DOMAIN t.data |-> Op(t.data[k])]]

BlockScaled(base, scales, block) ==
    LET rows == base.shape[1]
        blocks == CeilDiv(base.shape[2], block)
    IN Times(base, TrimBlockValues(BroadcastBlocks(scales, rows, blocks, block), rows, base.shape[2]))

Fp4Weight(n, base) ==
    Times(BlockScaled(base, Decoded(n.ins[3], E4m3), IntAttr(n, "block_size", 16)), n.ins[4])
Fp4Product(n) ==
    WithBiasOf(n, 6, MlxMatmul(n.ins[1], Flipped(Fp4Weight(n,
      MlxReshape(Decoded(UnpackBits(n.ins[2], 4), E2m1), <<n.ins[2].shape[1], Last(n.ins[1].shape)>>)))))

\* An activation a / scale rounded to E4M3, in 512ths: below 8 of them the step is
\* one, above it three binary places below the leading one.
LeadingPower(a, scale) ==
    LET fits == {e \in 0 .. 20 : scale * 2 ^ e <= a} IN CHOOSE e \in fits : \A o \in fits : o <= e
RoundedToE4m3(a, scale) ==
    LET size == IF a < 0 THEN -a ELSE a
        step == IF size < 8 * scale THEN 1 ELSE 2 ^ (LeadingPower(size, scale) - 3)
        level == Clamp(RoundEven(size, scale * step) * step, 0, 448 * 512)
    IN CASE scale = 0 -> 0 [] a < 0 -> -level [] OTHER -> level
Fp8Activation(n) ==
    IF Present(n, 4)
    THEN [n.ins[1] EXCEPT !.data = [k \in DOMAIN n.ins[1].data |->
            RoundedToE4m3(n.ins[1].data[k], n.ins[4].data[1]) * n.ins[4].data[1]]]
    ELSE n.ins[1]
Fp8Product(n) ==
    LET block == IntAttr(n, "block_size", 128)
        rows == n.ins[2].shape[1]
        scales == MlxReshape(n.ins[3], <<rows, CeilDiv(n.ins[2].shape[2], block)>>)
        weight == BlockScaled(Decoded(n.ins[2], E4m3), scales, block)
    IN WithBiasOf(n, 5, MlxMatmul(Fp8Activation(n), Flipped(weight)))

BlockProductClaim(n, fp4) ==
    LET a == View(n, 1)
        b == View(n, 2)
        block == IntAttr(n, "block_size", IF fp4 THEN 16 ELSE 128)
        k == b[2] * (IF fp4 THEN 2 ELSE 1)
        Single(i) == Product(View(n, i)) = 1
        bias == IF fp4 THEN 6 ELSE 5
    IN /\ n.typed /\ a # <<>> /\ Len(b) = 2 /\ Positive(a) /\ Positive(b) /\ block > 0
       /\ Last(a) = k /\ View(n, 3) = <<b[1], CeilDiv(k, block)>> /\ Constant(n, 2)
       /\ fp4 => Constant(n, 3) /\ Single(4)
       /\ Present(n, bias - 1) => Single(bias - 1)
       /\ Present(n, bias) => View(n, bias) = <<b[1]>>
BlockProductShapeless(n, fp4) ==
    LET a == View(n, 1)
        block == IntAttr(n, "block_size", IF fp4 THEN 16 ELSE 128)
    IN a # <<>> /\ Last(a) > 0 /\ block > 0 /\ Last(a) % block = 0

\* What a trace holds fixed: how many scales there are and, of several, along which of
\* how many axes.
LinearFrozen(n) ==
    LET count == Product(n.ins[2].shape)
        rank == Rank(n.ins[1])
    IN IF count = 1 THEN <<count>> ELSE <<count, rank, QuantAxis(rank, IntAttr(n, "axis", 1))>>
\* The activations' extents, and what is repacked on the host.
MatmulNbitsFrozen(n) ==
    <<n.ins[1].shape, IF Repacks(n, Nbits(n)) THEN n.ins[2] ELSE None,
      IF Constant(n, 3) /\ Constant(n, 4) THEN n.ins[4] ELSE None>>
GatherBlockFrozen(n) == <<n.ins[1].shape, n.ins[2].shape>>
\* The weights are decoded on the host.
BlockProductFrozen(n, fp4) ==
    IF fp4 THEN <<Last(n.ins[1].shape), n.ins[2], n.ins[3]>> ELSE <<n.ins[2]>>

Fp4 == "MatMulBlockQuantizedFp4Weight"
Fp8 == "MatMulBlockQuantizedFp8Weight"
BlockQuantOperators == {"MatMulNBits", "GatherBlockQuantized", Fp4, Fp8}
BlockQuantClaim(n) ==
    CASE n.op = "MatMulNBits" -> MatmulNbitsClaim(n)
      [] n.op = "GatherBlockQuantized" -> GatherBlockQuantizedClaim(n)
      [] OTHER -> BlockProductClaim(n, n.op = Fp4)
BlockQuantTranslate(n) ==
    CASE n.op = "MatMulNBits" -> MatmulNbits(n)
      [] n.op = "GatherBlockQuantized" -> GatherBlockQuantized(n)
      [] n.op = Fp4 -> Fp4Product(n)
      [] n.op = Fp8 -> Fp8Product(n)
\* block_size has no part in a QuantizeLinear that is not blocked; packed data are
\* never compiled.
QuantShapeless(n) ==
    CASE n.op = "MatMulNBits" -> MatmulNbitsShapeless(n)
      [] n.op = "GatherBlockQuantized" -> GatherBlockQuantizedShapeless(n)
      [] n.op \in {Fp4, Fp8} -> BlockProductShapeless(n, n.op = Fp4)
      [] OTHER -> BlockSize(n) = 0
QuantFrozen(n) ==
    CASE n.op = "MatMulNBits" -> MatmulNbitsFrozen(n)
      [] n.op = "GatherBlockQuantized" -> GatherBlockFrozen(n)
      [] n.op \in {Fp4, Fp8} -> BlockProductFrozen(n, n.op = Fp4)
      [] OTHER -> LinearFrozen(n)
=============================================================================
