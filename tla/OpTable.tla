------------------------------- MODULE OpTable -------------------------------
(***************************************************************************)
(* The entries the operator files register (rust/src/ops): for each        *)
(* operator its opset range, how far it may be compiled, its claim and its *)
(* handler.                                                                *)
(***************************************************************************)
EXTENDS IndexOps, ExtentOps, ReduceOps, ArithmeticOps, PoolOps, AttentionOps, MoeOps

Registered ==
    RegisterAll({"Gather", "GatherElements", "Compress", "DepthToSpace", "ReverseSequence",
                 "SpaceToDepth", "Concat", "Reshape", "Expand", "Range", "Resize"},
                AnyOpset, AnyOpset, "shapeless")
    \cup RegisterAll({"GatherND", "ScatterElements", "CenterCropPad", "Slice", "Split", "Pad"},
                     AnyOpset, AnyOpset, "keyed")
    \cup RegisterAll({"ScatterND", "ConstantOfShape", "Conv"} \cup Reductions,
                     AnyOpset, AnyOpset, "classified")
    \cup RegisterAll({"ArgMax", "ArgMin", "Hardmax"}, AnyOpset, AnyOpset, "shapeless")
    \cup RegisterAll(Binaries \cup Variadics \cup {"Div", "Relu", "LeakyRelu", "ThresholdedRelu",
                      "HardSigmoid", "Sign", "Clip", "MatMul", "Gemm"}, AnyOpset, AnyOpset, "shapeless")
    \cup RegisterAll({"Softmax", "Pow"}, AnyOpset, AnyOpset, "classified")
    \cup RegisterAll({"PRelu", "LogSoftmax"}, 1, AnyOpset, "shapeless")
    \cup {Entry("IsInf", 10, AnyOpset, "shapeless"), Entry("Shrink", 9, AnyOpset, "shapeless"),
          Entry("BitShift", 11, AnyOpset, "shapeless"), Entry("Mod", 10, 27, "eager"),
          Entry("GroupedMatMul", 29, 29, "eager"), Entry("CDist", 1, 1, "eager"),
          Entry("FusedMatMul", 1, 1, "keyed"), Entry("DeformConv", 19, AnyOpset, "keyed")}
    \cup RegisterAll({"ConvTranspose", "AveragePool", "MaxPool", "LpPool"}, AnyOpset, AnyOpset, "keyed")
    \cup RegisterAll(GlobalPools, AnyOpset, AnyOpset, "shapeless")
    \cup {Entry("CumSum", 11, AnyOpset, "keyed"), Entry("CumProd", 26, AnyOpset, "keyed"),
          Entry("TopK", 1, AnyOpset, "classified")}
    \cup {Entry("Attention", 23, AnyOpset, "classified"), Entry("RotaryEmbedding", 23, AnyOpset, "keyed"),
          Entry("MultiHeadAttention", AnyOpset, AnyOpset, "shapeless")}
    \cup RegisterAll({"MsAttention", "PackedMultiHeadAttention", "MsRotaryEmbedding", "MRotaryEmbedding",
                      "QMoE"},
                     AnyOpset, AnyOpset, "keyed")
    \cup RegisterAll({"Transpose", "Squeeze", "Unsqueeze", "Flatten", "Shape", "Size"},
                     1, AnyOpset, "classified")
    \cup RegisterAll(BlockQuantOperators \cup {"QuantizeLinear", "DequantizeLinear"}, AnyOpset, AnyOpset, "classified")
    \cup RegisterAll({"DynamicQuantizeLinear", "MatMulInteger", "ConvInteger", "QLinearMatMul", "QLinearConv"},
                     AnyOpset, AnyOpset, "shapeless")
    \cup {Entry("Tile", 6, AnyOpset, "classified"), Entry("Upsample", 9, 9, "shapeless")}

StaysShapeless(n) ==
    CASE n.op = "ScatterND" -> FALSE
      [] n.op = "Tile" -> TileShapeless(n)
      [] n.op = "TopK" -> TopKShapeless(n)
      [] n.op = "Conv" -> ConvShapeless(n)
      [] n.op = "Softmax" -> SoftmaxShapeless(n)
      [] n.op = "Pow" -> PowShapeless(n)
      [] n.op = "Attention" -> AttentionShapeless(n)
      [] n.op \in Reductions -> ReductionShapeless(n)
      [] n.op \in BlockQuantOperators \cup LinearQuantOperators -> QuantShapeless(n)
      [] OTHER -> LayoutShapeless(n)
Classifier(n) ==
    CASE \/ n.op = "DequantizeLinear" /\ Packed4(n)
         \/ n.op = "ScatterND" /\ StringAttr(n, "reduction", "none") = "add" -> "eager"
      [] ~(n.op = "DequantizeLinear" /\ Packed4(n)) /\ StaysShapeless(n) -> "shapeless"
      [] OTHER -> "keyed"

SafetyOf(n) == CompileShapeSafety(Registered, Classifier, n)

ClaimOf(n, out) ==
    CASE n.op \in IndexOperators -> IndexClaim(n, out)
      [] n.op \in LayoutOperators -> LayoutClaim(n, out)
      [] n.op \in ExtentOperators -> ExtentClaim(n, out)
      [] n.op \in ReduceOperators -> ReduceClaim(n, out)
      [] n.op \in ArithmeticOperators -> ArithmeticClaim(n, out)
      [] n.op \in MatmulOperators -> ProductClaim(n, out)
      [] n.op \in WindowOperators -> WindowClaim(n, out)
      [] n.op = "Resize" -> ResizeClaim(n, out)
      [] n.op = "Upsample" -> UpsampleClaim(n, out)
      [] n.op \in AttentionOperators -> AttendingClaim(n)
      [] n.op \in RotaryOperators -> TurningClaim(n, out)
      [] n.op \in LinearQuantOperators -> LinearQuantClaim(n, out)
      [] n.op \in BlockQuantOperators -> BlockQuantClaim(n)
      [] n.op = "QMoE" -> QMoEClaim(n)

ClaimDecision(n, out) == Found(Registered, n.op, n.since) # {} /\ ClaimOf(n, out)

ShapeTranslate(n) ==
    CASE n.op \in IndexOperators -> <<IndexTranslate(n)>>
      [] n.op \in LayoutOperators -> <<LayoutTranslate(n)>>
      [] n.op \in ExtentOperators -> ExtentTranslate(n)
      [] n.op \in {"Resize", "Upsample"} -> <<Resize(n)>>
NumberTranslate(n) ==
    CASE n.op \in ReduceOperators -> ReduceTranslate(n)
      [] n.op \in ArithmeticOperators -> <<ArithmeticTranslate(n)>>
      [] n.op \in MatmulOperators -> <<ProductTranslate(n)>>
      [] n.op \in WindowOperators -> WindowTranslate(n)
AttentionTranslate(n) ==
    CASE n.op \in AttentionOperators -> AttendingTranslate(n)
      [] n.op \in RotaryOperators -> TurningTranslate(n)
QuantTranslate(n) ==
    CASE n.op \in LinearQuantOperators -> LinearQuantTranslate(n)
      [] n.op \in BlockQuantOperators -> <<BlockQuantTranslate(n)>>
      [] n.op = "QMoE" -> <<QMoE(n)>>

FamilyOf(op) ==
    CASE op \in IndexOperators -> "index"
      [] op \in LayoutOperators -> "layout"
      [] op \in ExtentOperators \cup {"Resize", "Upsample"} -> "extent"
      [] op \in ReduceOperators -> "reduce"
      [] op \in ArithmeticOperators \cup MatmulOperators -> "arithmetic"
      [] op \in WindowOperators -> "window"
      [] op \in AttentionOperators -> "attention"
      [] op \in RotaryOperators -> "rotary"
      [] op \in LinearQuantOperators \cup BlockQuantOperators \cup {"QMoE"} -> "quant"
=============================================================================
