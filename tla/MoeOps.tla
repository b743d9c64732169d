-------------------------------- MODULE MoeOps --------------------------------
(***************************************************************************)
(* QMoE of com.microsoft (rust/src/ops/quant.rs): a mixture of experts     *)
(* with quantized weights, computed for every expert and then masked by    *)
(* the routing.  Inputs, from one: the tokens, the router's logits, then   *)
(* weights, scales and biases of each projection, those of the third, the  *)
(* zero points at 12 and 13, the router's weights at 15.                   *)
(* A gate is the power of two of its logit over the sum of those chosen,   *)
(* so a result is a pair; Sigmoid stands for a function of its argument;   *)
(* gelu, like it an elementwise function, is left out.                     *)
(***************************************************************************)
EXTENDS QuantOps

Sigmoid(v) == (v % 5) + 1
Weight2(logit) == IF logit = Lowest THEN 0 ELSE 2 ^ logit

\* One more expert of a token: the last of those with the greatest logit left.
OneMoreExpert(mask, logits) ==
    LET left == [j \in DOMAIN mask |-> IF mask[j] THEN Lowest ELSE logits[j]]
        most == CHOOSE v \in Range(left) : \A w \in Range(left) : w <= v
        chosen == {j \in DOMAIN mask : left[j] = most /\ ~mask[j]}
    IN [j \in DOMAIN mask |-> mask[j] \/ (j \in chosen /\ \A o \in chosen : o <= j)]

Routed(logits, k) ==
    FoldLeft(LAMBDA mask, r : OneMoreExpert(mask, logits), [j \in DOMAIN logits |-> FALSE], Iota(k))

\* The masks of the tokens, row by row.
Logits(n, t, e) == MlxReshape(n.ins[2], <<t, e>>)
RowOf(m, r) == SubSeq(m.data, (r - 1) * m.shape[2] + 1, r * m.shape[2])
Routing(router, k) ==
    Tabulated([r \in 1 .. router.shape[1] |-> Tabulated(Routed(RowOf(router, r), k))])
-----------------------------------------------------------------------------
\* The weights of one projection: experts, rows, columns and the bits of a value.
WholeBlocks(block, columns) == IF block > 0 THEN columns \div block ELSE 1
ExpertScales(t, rows, columns, block) ==
    BroadcastBlocks(MlxReshape(t, <<rows, WholeBlocks(block, columns)>>), rows, WholeBlocks(block, columns),
                    IF block > 0 THEN block ELSE columns)
ExpertValues(t, rows, columns, bits) ==
    IF bits = 4 THEN TrimBlockValues(UnpackBits(MlxReshape(t, <<rows, CeilDiv(columns, 2)>>), 4), rows, columns)
    ELSE MlxReshape(t, <<rows, columns>>)
QmoeDequant(n, w, e, out, columns, bits, block) ==
    IF block > 0 /\ columns % block # 0 THEN Refused
    ELSE MlxReshape(Times(Less(ExpertValues(n.ins[w], e * out, columns, bits), Scalar(2 ^ (bits - 1))),
                          ExpertScales(n.ins[w + 1], e * out, columns, block)), <<e, out, columns>>)

\* Gate and linear halves alternate; the clamp, the scale and the shift are left out
\* when they are identities.
QmoeSwiglu(n, gate, linear) ==
    LET limited == Has(n, "swiglu_limit")
        Low(v) == IF limited THEN Smaller(v, n.attr.swiglu_limit) ELSE v
        Both(v) == IF limited THEN Clamp(v, -n.attr.swiglu_limit, n.attr.swiglu_limit) ELSE v
    IN Low(gate) * Sigmoid(IntAttr(n, "activation_alpha", 1) * Low(gate))
       * (Both(linear) + IntAttr(n, "activation_beta", 0))
QmoeActivation(act, v) ==
    CASE act = "relu" -> Larger(v, 0)
      [] act = "silu" -> v * Sigmoid(v)
      [] act = "identity" -> v
ExpertActivations == {"swiglu", "silu", "relu", "identity"}
Activation(n) == StringAttr(n, "activation_type", "relu")
Activated(n, c, halves) ==
    IF Activation(n) = "swiglu"
    THEN Tensor(SubSeq(halves.shape, 1, 3), LAMBDA i : QmoeSwiglu(n, At(halves, i \o <<0>>), At(halves, i \o <<1>>)))
    ELSE [c EXCEPT !.data = [k \in DOMAIN c.data |-> QmoeActivation(Activation(n), c.data[k])]]
ActivatedOf(n, c, inter) == Activated(n, c, MlxReshape(c, SubSeq(c.shape, 1, 2) \o <<inter, 2>>))

\* Every expert on every token.
Biased1(n, y, bias, e) ==
    IF Present(n, bias) THEN Added(y, MlxReshape(n.ins[bias], <<e, 1, Last(y.shape)>>)) ELSE y
Projection(n, x, w, bias) == Biased1(n, MlxMatmul(x, MlxTranspose(w, <<0, 2, 1>>)), bias, w.shape[1])
Spreading(x, e, t, hidden) == MlxBroadcastTo(MlxReshape(x, <<1, t, hidden>>), <<e, t, hidden>>)

\* What a token gets of its experts, in parts of the sum of their gates.
Gated(c, router, masks) ==
    Tensor(Tail(c.shape), LAMBDA i :
      LET Gate(j) == IF masks[i[1] + 1][j] THEN Weight2(At(router, <<i[1], j - 1>>)) ELSE 0
          experts == DOMAIN masks[i[1] + 1]
      IN <<Total([j \in experts |-> IF masks[i[1] + 1][j] THEN Gate(j) * At(c, <<j - 1>> \o i) ELSE 0]),
           Total([j \in experts |-> Gate(j)])>>)

\* The geometry of a node, from its arrays.
Bits1(n) == IntAttr(n, "fc1_expert_weight_bits", IntAttr(n, "expert_weight_bits", 4))
Bits2(n) == IntAttr(n, "fc2_expert_weight_bits", IntAttr(n, "expert_weight_bits", 4))
Fused(n) == IF IntAttr(n, "swiglu_fusion", 0) > 0 THEN 2 ELSE 1
Moe(n) ==
    LET x == n.ins[1].shape
        w == n.ins[3].shape
    IN [tokens |-> Product(Front(x)), hidden |-> Last(x), experts |-> w[1], rows |-> w[2], inter |-> w[2] \div Fused(n)]
Experts(n, g, w1, w2) ==
    IF Refused \in {w1, w2} THEN Refused
    ELSE Projection(n, ActivatedOf(n, Projection(n, Spreading(n.ins[1], g.experts, g.tokens, g.hidden), w1, 5), g.inter),
                    w2, 8)
GatedBy(n, c, router) ==
    IF c = Refused THEN c ELSE Gated(c, router, Routing(router, IntAttr(n, "k", 1)))
QMoEWith(n, g, block) ==
    MlxReshape(GatedBy(n,
      Experts(n, g, QmoeDequant(n, 3, g.experts, g.rows, g.hidden, Bits1(n), block),
              QmoeDequant(n, 6, g.experts, g.hidden, g.inter, Bits2(n), block)),
      Logits(n, g.tokens, g.experts)), n.ins[1].shape)
QMoE(n) ==
    IF n.ins[1].shape = <<>> \/ Rank(n.ins[3]) # 3 THEN Refused
    ELSE IF n.ins[3].shape[2] % Fused(n) # 0 \/ Activation(n) \notin ExpertActivations THEN Refused
    ELSE QMoEWith(n, Moe(n), IntAttr(n, "block_size", 0))
-----------------------------------------------------------------------------
\* The attributes, and what must not be there: third experts, zero points and weights
\* of the router.
QMoEAttrs(n) ==
    /\ StringAttr(n, "quant_type", "int") = "int" /\ IntAttr(n, "weights_prepacked", -1) # 1
    /\ IntAttr(n, "expert_weight_bits", 4) \in {4, 8} /\ Bits1(n) \in {4, 8} /\ Bits2(n) \in {4, 8}
    /\ IntAttr(n, "use_sparse_mixer", 0) # 1
    /\ Activation(n) \in ExpertActivations
    /\ IntAttr(n, "swiglu_fusion", 0) = IF Activation(n) = "swiglu" THEN 1 ELSE 0
    /\ Fused(n) = 1 \/ IntAttr(n, "fc3_expert_weight_bits", IntAttr(n, "expert_weight_bits", 4)) = Bits1(n)
    /\ \A i \in {9, 12, 13, 15} : ~Present(n, i)
    /\ Len(n.ins) >= 7 /\ \A i \in {3, 4, 6, 7} : Present(n, i)

\* The shapes of a projection whose weights are input w.
ProjectionFits(n, w, experts, rows, columns, bits, block) ==
    /\ View(n, w) = <<experts, rows, (columns * bits) \div 8>>
    /\ View(n, w + 1) = <<experts, rows>> \o (IF block = 0 THEN <<>> ELSE <<columns \div block>>)
    /\ Present(n, w + 2) => View(n, w + 2) = <<experts, rows>>
RouterFits(n, x, experts) ==
    LET router == View(n, 2) IN
    /\ Len(router) = 2 /\ router[2] = experts
    /\ router[1] < 0 \/ (\E k \in DOMAIN Front(x) : x[k] < 0) \/ router[1] = Product(Front(x))
QMoEGeometry(n, x, w, hidden, inter, block) ==
    /\ hidden % (8 \div Bits1(n)) = 0 /\ inter % (8 \div Bits2(n)) = 0
    /\ block = 0 \/ (block \in Powers /\ hidden % block = 0 /\ inter % block = 0)
    /\ ProjectionFits(n, 3, w[1], w[2], hidden, Bits1(n), block)
    /\ ProjectionFits(n, 6, w[1], hidden, inter, Bits2(n), block)
    /\ RouterFits(n, x, w[1])
QMoEClaim(n) ==
    LET x == View(n, 1)
        w == View(n, 3)
    IN /\ n.typed /\ QMoEAttrs(n)
       /\ Len(w) = 3 /\ Positive(w) /\ IntAttr(n, "k", 1) \in 1 .. w[1]
       /\ Len(x) \in {2, 3} /\ Last(x) > 0 /\ w[2] % Fused(n) = 0
       /\ QMoEGeometry(n, x, w, Last(x), w[2] \div Fused(n), IntAttr(n, "block_size", 0))
=============================================================================
