----------------------------- MODULE OpDefinitions -----------------------------
(***************************************************************************)
(* What ONNX defines each operator of the table to compute, and what its   *)
(* lowering reads on the host while it is traced.                          *)
(***************************************************************************)
EXTENDS OpTable, ExtentMeaning, ArithmeticMeaning, WindowMeaning, AttentionMeaning, QuantMeaning

MeaningOf(n) ==
    CASE n.op = "Gather" -> <<GatherMeaning(n)>>
      [] n.op = "GatherElements" -> <<GatherElementsMeaning(n)>>
      [] n.op = "GatherND" -> <<GatherNDMeaning(n)>>
      [] n.op = "ScatterElements" -> <<ScatterElementsMeaning(n)>>
      [] n.op = "ScatterND" -> <<ScatterNDMeaning(n)>>
      [] n.op = "Compress" -> <<CompressMeaning(n)>>
      [] n.op = "ReverseSequence" -> <<ReverseSequenceMeaning(n)>>
      [] n.op = "Reshape" -> <<ReshapeMeaning(n)>>
      [] n.op = "Transpose" -> <<TransposeMeaning(n)>>
      [] n.op \in {"Squeeze", "Unsqueeze"} -> <<RankChangeMeaning(n)>>
      [] n.op = "Flatten" -> <<FlattenMeaning(n)>>
      [] n.op = "Expand" -> <<ExpandMeaning(n)>>
      [] n.op = "Concat" -> <<ConcatMeaning(n)>>
      [] n.op = "DepthToSpace" -> <<DepthToSpaceMeaning(n)>>
      [] n.op = "SpaceToDepth" -> <<SpaceToDepthMeaning(n)>>
      [] n.op = "Shape" -> <<ShapeMeaning(n)>>
      [] n.op = "Size" -> <<SizeMeaning(n)>>
      [] n.op = "ConstantOfShape" -> <<ConstantOfShapeMeaning(n)>>
      [] n.op = "Slice" -> <<SliceMeaning(n)>>
      [] n.op = "Split" -> SplitMeaning(n)
      [] n.op = "Tile" -> <<TileMeaning(n)>>
      [] n.op = "Pad" -> <<PadMeaning(n)>>
      [] n.op = "CenterCropPad" -> <<CenterCropPadMeaning(n)>>
      [] n.op = "Range" -> <<RangeMeaning(n)>>
      [] n.op \in {"Resize", "Upsample"} -> <<ResizeMeaning(n)>>
      [] n.op \in Reductions -> <<ReduceMeaning(n)>>
      [] n.op \in {"ArgMax", "ArgMin"} -> <<ArgMeaning(n)>>
      [] n.op \in {"CumSum", "CumProd"} -> <<CumulateMeaning(n)>>
      [] n.op = "Hardmax" -> <<HardmaxMeaning(n)>>
      [] n.op = "TopK" -> TopKMeaning(n)
      [] n.op \in Binaries \cup {"Div", "BitShift"} -> <<BinaryMeaning(n, Bits)>>
      [] n.op = "Mod" -> <<ModMeaning(n)>>
      [] n.op \in Variadics -> <<VariadicMeaning(n, Bits)>>
      [] n.op \in Activations \cup {"IsInf", "Clip"} -> <<ActivationMeaning(n)>>
      [] n.op = "PRelu" -> <<PReluMeaning(n)>>
      [] n.op = "Pow" -> <<PowMeaning(n)>>
      [] n.op \in {"Softmax", "LogSoftmax"} -> <<SoftmaxMeaning(n)>>
      [] n.op \in {"MatMul", "FusedMatMul"} -> <<FusedMatmulMeaning(n)>>
      [] n.op = "Gemm" -> <<GemmMeaning(n)>>
      [] n.op = "GroupedMatMul" -> <<GroupedMatmulMeaning(n)>>
      [] n.op = "CDist" -> <<CdistMeaning(n)>>
      [] n.op = "Conv" -> <<ConvMeaning(n)>>
      [] n.op = "ConvTranspose" -> <<ConvTransposeMeaning(n)>>
      [] n.op = "DeformConv" -> <<DeformMeaning(n)>>
      [] n.op \in {"MaxPool", "AveragePool", "LpPool"} -> PoolMeaning(n)
      [] n.op \in GlobalPools -> <<GlobalPoolMeaning(n)>>
      [] n.op = "Attention" -> AttentionMeaning(n)
      [] n.op = "MsAttention" -> MsAttentionMeaning(n)
      [] n.op = "MultiHeadAttention" -> MultiHeadMeaning(n)
      [] n.op = "PackedMultiHeadAttention" -> PackedMeaning(n)
      [] n.op \in {"RotaryEmbedding", "MsRotaryEmbedding"} -> RotaryMeaning(n)
      [] n.op = "MRotaryEmbedding" -> MRotaryMeaning(n)
      [] n.op = "QuantizeLinear" -> <<QuantizeLinearMeaning(n)>>
      [] n.op = "DequantizeLinear" -> <<DequantizeLinearMeaning(n)>>
      [] n.op = "DynamicQuantizeLinear" -> DynamicMeaning(n)
      [] n.op = "MatMulInteger" -> <<MatmulIntegerMeaning(n)>>
      [] n.op = "QLinearMatMul" -> <<QLinearMatmulMeaning(n)>>
      [] n.op = "ConvInteger" -> <<ConvIntegerMeaning(n)>>
      [] n.op = "QLinearConv" -> <<QLinearConvMeaning(n)>>
      [] n.op = "MatMulNBits" -> <<MatmulNbitsMeaning(n)>>
      [] n.op = "GatherBlockQuantized" -> <<GatherBlockMeaning(n)>>
      [] n.op = "QMoE" -> <<QMoEMeaning(n)>>
      [] n.op \in {Fp4, Fp8} -> <<BlockProductMeaning(n)>>

\* The operators with a classifier of their own that may call them shapeless:
\* ScatterND's never does.
FrozenOps ==
    {"Transpose", "Squeeze", "Unsqueeze", "Flatten", "Shape", "Size", "ConstantOfShape", "Tile", "TopK",
     "Attention", "Softmax", "Pow", "Conv", "QuantizeLinear", "DequantizeLinear"}
    \cup Reductions \cup BlockQuantOperators

\* What a lowering reads on the host and builds into its trace; what it reads only to
\* refuse the node is left out.
HostReadsOf(n) ==
    CASE n.op = "Tile" -> TileFrozen(n)
      [] n.op \in Reductions -> ReductionFrozen(n)
      [] n.op = "TopK" -> TopKFrozen(n)
      [] n.op = "Attention" -> AttentionFrozen(n)
      [] n.op = "Softmax" -> SoftmaxFrozen(n)
      [] n.op = "Pow" -> PowFrozen(n)
      [] n.op = "Conv" -> ConvFrozen(n)
      [] n.op \in {"QuantizeLinear", "DequantizeLinear"} \cup BlockQuantOperators -> QuantFrozen(n)
      [] OTHER -> Frozen(n)

\* The inputs whose extents it builds in although its classifier does not ask to see
\* them, and the operators that build in the rank of a first input nobody asks for.
UnaskedInputs(n) ==
    CASE n.op \in Reductions /\ KindOf(n.op) \in FilledKinds -> {1}
      [] n.op = "Conv" /\ (StringAttr(n, "auto_pad", "NOTSET") # "NOTSET" \/ ByConvGeneral(n)) -> {1}
      [] n.op = "MatMulNBits" -> {1}
      [] n.op \in {"GatherBlockQuantized", "QuantizeLinear", "DequantizeLinear"} -> {2}
      [] OTHER -> {}
UnaskedRanks == Reductions \cup {"QuantizeLinear", "DequantizeLinear"}
================================================================================
