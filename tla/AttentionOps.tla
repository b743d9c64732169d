----------------------------- MODULE AttentionOps -----------------------------
(***************************************************************************)
(* The attention operators without a shared cache, and the rotary          *)
(* embeddings (rust/src/ops/attention.rs): Attention of ai.onnx, and       *)
(* Attention, MultiHeadAttention and PackedMultiHeadAttention of           *)
(* com.microsoft; RotaryEmbedding of both domains (MsRotaryEmbedding) and  *)
(* MRotaryEmbedding.                                                       *)
(* Scores and the softmax stay symbolic: an element of the result is a     *)
(* Mixture, the query row and the keys it attends to, each with its bias   *)
(* and the value it contributes. Scale and softcap are left out. A rotated *)
(* element is kept as the pair, the cosine and the sine it is computed     *)
(* from.                                                                   *)
(* In a node, dtype "bool" says that the mask is one of booleans (0, 1),   *)
(* and outs = 2 that the second output is that of the scores.              *)
(***************************************************************************)
EXTENDS MatmulOps

\* An element of a softmax(Q K) V product, Nothing for a row of zeros, and what MLX
\* makes of a row whose every key is masked.
Mixture(q, keys) == [row |-> q, over |-> keys]
Nothing == Mixture(<<>>, {})
Undefined == Mixture(<<Garbage>>, {})

HeadRow(t, b, h, i) == [d \in 1 .. t.shape[4] |-> At(t, <<b, h, i, d - 1>>)]
WithBias(a, b) == IF Lowest \in {a, b} THEN Lowest ELSE a + b
-----------------------------------------------------------------------------
SplitHeads(t, heads) ==
    LET s == t.shape IN
    MlxTranspose(MlxReshape(t, <<s[1], s[2], heads, s[3] \div heads>>), <<0, 2, 1, 3>>)
MergeHeads(t) ==
    LET s == t.shape IN
    MlxReshape(MlxTranspose(t, <<0, 2, 1, 3>>), <<s[1], s[3], s[2] * s[4]>>)

\* MLX's fused attention, each key head serving a group of query heads; mask is
\* additive, or None.
MlxSdpa(q, k, v, mask, causal) ==
    LET scores == <<q.shape[1], q.shape[2], q.shape[3], k.shape[3]>>
        groups == q.shape[2] \div k.shape[2]
        Bias(b, h, i, j) ==
          IF causal /\ j > i + (scores[4] - scores[3]) THEN Lowest
          ELSE IF mask = None THEN 0 ELSE Spread(mask, <<b, h, i, j>>)
        Keys(b, h, i) == {j \in 0 .. scores[4] - 1 : Bias(b, h, i, j) # Lowest}
    IN IF mask # None /\ Joined(mask.shape, scores) # scores THEN Refused
       ELSE Tensor(<<scores[1], scores[2], scores[3], v.shape[4]>>, LAMBDA x :
              LET keys == Keys(x[1], x[2], x[3]) IN
              IF keys = {} THEN Undefined
              ELSE Mixture(HeadRow(q, x[1], x[2], x[3]),
                           {<<HeadRow(k, x[1], x[2] \div groups, j), Bias(x[1], x[2], x[3], j),
                              At(v, <<x[1], x[2] \div groups, j, x[4]>>)>> : j \in keys}))

\* attention_zero_fully_masked_rows.
ZeroFullyMasked(t, mask, Zero) ==
    LET Masked(x) == \A j \in 0 .. mask.shape[Rank(mask)] - 1 :
                       Spread(mask, SubSeq(x, 1, 3) \o <<j>>) = Lowest
    IN IF mask = None THEN t
       ELSE Tensor(t.shape, LAMBDA x : IF Masked(x) THEN Zero ELSE At(t, x))

MaskAsAdditive(n, mask) ==
    IF n.dtype = "bool" THEN MlxWhere(mask, Scalar(0), Scalar(Lowest)) ELSE mask

\* The mask at every score; a mask narrower than the keys hides the rest.
\* Mutant: a narrow mask lets the rest through.
NarrowLetsThrough(n, mask, shape) ==
    LET additive == MaskAsAdditive(n, mask)
        width == IF mask.shape = <<>> \/ Last(mask.shape) = 1 THEN shape[4] ELSE Last(mask.shape)
    IN MlxPad(MlxBroadcastTo(additive, [shape EXCEPT ![4] = width]),
              <<0, 0, 0, 0>>, <<0, 0, 0, shape[4] - width>>, 0)
MaskToScoreShape(n, mask, shape) ==
    LET additive == MaskAsAdditive(n, mask)
        width == IF mask.shape = <<>> \/ Last(mask.shape) = 1 THEN shape[4] ELSE Last(mask.shape)
        wide == MlxBroadcastTo(additive, [shape EXCEPT ![4] = width])
    IN IF width > shape[4] \/ wide = Refused THEN Refused
       ELSE MlxPad(wide, <<0, 0, 0, 0>>, <<0, 0, 0, shape[4] - width>>, Lowest)

\* causal_mask_topleft, with the mask folded in.
CombinedCausalMask(n, queries, keys, past, mask) ==
    LET causal == Tensor(<<queries, keys>>, LAMBDA x : IF x[2] <= past + x[1] THEN 0 ELSE Lowest)
    IN IF mask = None THEN causal ELSE MlxBinary(WithBias, causal, MaskAsAdditive(n, mask))

\* Causality, windows and padded lengths, over a mask that has the shape of the scores.
Windowed(n) == IntAttr(n, "left_window_size", -1) >= 0 \/ IntAttr(n, "right_window_size", -1) >= 0
OverlayMask(n, shape, past, mask) ==
    LET causal == IntAttr(n, "is_causal", 0) # 0
        left == IntAttr(n, "left_window_size", -1)
        right == IntAttr(n, "right_window_size", -1)
        nonpad == Present(n, 7)
        At0(b, i) == i + IF nonpad THEN n.ins[7].data[b + 1] - shape[3] ELSE past
        Allowed(b, i, j) ==
          /\ causal => j <= At0(b, i)
          /\ left >= 0 => At0(b, i) - left <= j
          /\ right >= 0 => j <= At0(b, i) + right
          /\ nonpad => j < n.ins[7].data[b + 1]
        overlay == Tensor(<<shape[1], 1, shape[3], shape[4]>>, LAMBDA x :
                     IF Allowed(x[1], x[3], x[4]) THEN 0 ELSE Lowest)
    IN IF ~causal /\ ~Windowed(n) /\ ~nonpad THEN mask
       ELSE IF mask = None THEN overlay ELSE MlxBinary(WithBias, overlay, mask)

\* attention_qk_output_op: the scores are spelled out, for the forms that need them.
RawScores(q, k, groups) ==
    Tensor(<<q.shape[1], q.shape[2], q.shape[3], k.shape[3]>>, LAMBDA x :
      <<HeadRow(q, x[1], x[2], x[3]), HeadRow(k, x[1], x[2] \div groups, x[4]), 0>>)
Biased3(raw, overlay) ==
    IF overlay = None THEN raw
    ELSE Tensor(raw.shape, LAMBDA x : [At(raw, x) EXCEPT ![3] = Spread(overlay, x)])
Probabilities(biased, overlay) ==
    ZeroFullyMasked(
      Tensor(biased.shape, LAMBDA x :
        <<At(biased, x), {At(biased, [x EXCEPT ![4] = j]) : j \in 0 .. biased.shape[4] - 1}>>),
      overlay, <<>>)
QkScores(n, raw, overlay) ==
    CASE IntAttr(n, "qk_matmul_output_mode", 0) = 2 -> Biased3(raw, overlay)
      [] IntAttr(n, "qk_matmul_output_mode", 0) = 3 -> Probabilities(Biased3(raw, overlay), overlay)
      [] OTHER -> raw
QkMasked(n, q, k, v, overlay) ==
    [out |-> ZeroFullyMasked(MlxSdpa(q, k, v, overlay, FALSE), overlay, Nothing),
     scores |-> QkScores(n, RawScores(q, k, q.shape[2] \div k.shape[2]), overlay)]
QkOverlaid(n, q, k, v, past, shape, wide) ==
    IF wide = Refused THEN [out |-> Refused, scores |-> Refused]
    ELSE QkMasked(n, q, k, v, OverlayMask(n, shape, past, wide))
QkOutput(n, q, k, v, past, mask) ==
    LET shape == <<q.shape[1], q.shape[2], q.shape[3], k.shape[3]>> IN
    QkOverlaid(n, q, k, v, past, shape, IF mask = None THEN None ELSE MaskToScoreShape(n, mask, shape))
-----------------------------------------------------------------------------
ComposedPath(n) ==
    n.since >= 25 \/ Present(n, 7) \/ n.outs \in {2, 4} \/ Windowed(n) \/ Has(n, "softmax_precision")

\* Outputs: the result, the present cache, the scores.
AttentionOutputs(n, out, k, v, scores) ==
    CASE n.outs = 1 -> <<out>>
      [] n.outs = 2 -> <<out, scores>>
      [] n.outs = 3 -> <<out, k, v>>
      [] OTHER -> <<out, k, v, scores>>

Appended(n, i, new) == IF Present(n, i) THEN MlxConcat(<<n.ins[i], new>>, 2) ELSE new

\* Without a mask MLX could not express, its fused attention answers.
FusedOut(fused, additive) ==
    [scores |-> None, out |-> IF fused = Refused THEN Refused ELSE ZeroFullyMasked(fused, additive, Nothing)]
FusedAttention(q, k, v, additive) == FusedOut(MlxSdpa(q, k, v, additive, FALSE), additive)
Additive(n, queries, keys, past, mask) ==
    IF IntAttr(n, "is_causal", 0) # 0 /\ ~(queries = 1 /\ past = keys - 1)
    THEN CombinedCausalMask(n, queries, keys, past, mask)
    ELSE IF mask = None THEN None ELSE MaskAsAdditive(n, mask)
Attended(n, q, k, v, past, mask) ==
    IF ComposedPath(n) THEN QkOutput(n, q, k, v, past, mask)
    ELSE FusedAttention(q, k, v, Additive(n, q.shape[3], k.shape[3], past, mask))
AttentionReturn(n, result, k, v) ==
    IF result.out = Refused THEN <<Refused>>
    ELSE AttentionOutputs(n, IF Rank(n.ins[1]) = 3 THEN MergeHeads(result.out) ELSE result.out,
                          k, v, result.scores)
AttentionOver(n, q, fresh, k, v) ==
    AttentionReturn(n, Attended(n, q, k, v, k.shape[3] - fresh.shape[3],
                                IF Present(n, 4) THEN n.ins[4] ELSE None), k, v)
AttentionCached(n, q, k, v) ==
    AttentionOver(n, q, k, IF Present(n, 6) THEN Appended(n, 5, k) ELSE k,
                           IF Present(n, 5) THEN Appended(n, 6, v) ELSE v)
HeadsOf(n, i, attr) == IF Rank(n.ins[1]) = 3 THEN SplitHeads(n.ins[i], IntAttr(n, attr, 0)) ELSE n.ins[i]
Attention(n) ==
    AttentionCached(n, HeadsOf(n, 1, "q_num_heads"), HeadsOf(n, 2, "kv_num_heads"), HeadsOf(n, 3, "kv_num_heads"))

\* com.microsoft: one projection of the input gives queries, keys and values.
MsOver(heads, parts) ==
    <<MergeHeads(MlxSdpa(SplitHeads(parts[1], heads), SplitHeads(parts[2], heads),
                         SplitHeads(parts[3], heads), None, FALSE))>>
MsAttention(n) ==
    LET d == n.ins[1].shape[3] IN
    MsOver(IntAttr(n, "num_heads", 0),
           MlxSplit(MlxBinary(LAMBDA a, b : a + b, MlxMatmul(n.ins[1], n.ins[2]), n.ins[3]), <<d, 2 * d>>, 2))

\* The bias covers queries, keys and values one after another.
BiasSlice(n, from, count) ==
    [shape |-> <<1, 1, count>>, data |-> SubSeq(n.ins[4].data, from + 1, from + count)]
BiasedHeads(n, t, from, heads) ==
    SplitHeads(IF Present(n, 4) THEN MlxBinary(LAMBDA a, b : a + b, t, BiasSlice(n, from, t.shape[3])) ELSE t,
               heads)
MultiHeadOver(n, q, k, v) ==
    AttentionOutputs(n, MergeHeads(MlxSdpa(q, k, v, None, IntAttr(n, "unidirectional", 0) # 0 /\ n.outs # 4)),
                     k, v, RawScores(q, k, 1))
MultiHeadAttention(n) ==
    LET heads == IntAttr(n, "num_heads", 0)
        flat == Rank(n.ins[2]) = 3
        dq == n.ins[1].shape[3]
        width == IF flat THEN n.ins[2].shape[3] ELSE n.ins[2].shape[2] * n.ins[2].shape[4]
    IN MultiHeadOver(n, BiasedHeads(n, n.ins[1], 0, heads),
         Appended(n, 7, IF flat THEN BiasedHeads(n, n.ins[2], dq, heads) ELSE n.ins[2]),
         Appended(n, 8, IF flat THEN BiasedHeads(n, n.ins[3], dq + width, heads) ELSE n.ins[3]))

\* Sequences packed one after another, each attending to itself.
PackedMultiHeadAttention(n) ==
    LET heads == IntAttr(n, "num_heads", 0)
        ends == n.ins[6].data
        Part(t, p) == MlxReshape(MlxSlice(t, <<ends[p], 0>>, <<ends[p + 1], t.shape[2]>>, <<1, 1>>),
                                 <<1, ends[p + 1] - ends[p], t.shape[2]>>)
        Flat(t) == MlxReshape(t, SubSeq(t.shape, 2, 3))
        One(p) == Flat(MergeHeads(MlxSdpa(SplitHeads(Part(n.ins[1], p), heads), SplitHeads(Part(n.ins[2], p), heads),
                                          SplitHeads(Part(n.ins[3], p), heads), None, FALSE)))
        nonempty == SelectSeq(Tabulated([p \in 1 .. Len(ends) - 1 |-> p]), LAMBDA p : ends[p] < ends[p + 1])
    IN IF Len(ends) < 2 \/ ends[1] # 0 \/ Last(ends) # n.ins[1].shape[1] THEN <<Refused>>
       ELSE IF nonempty = <<>>
       THEN <<MlxSlice(n.ins[3], <<0, 0>>, <<0, n.ins[3].shape[2]>>, <<1, 1>>)>>
       ELSE <<MlxConcat(Tabulated([x \in DOMAIN nonempty |-> One(nonempty[x])]), 0)>>
-----------------------------------------------------------------------------
\* attention_mask_is_broadcastable; only since version 25 may the last axis fall short.
MaskFits(n, target) ==
    Present(n, 4) =>
      LET mask == View(n, 4)
          skip == 4 - Len(mask)
      IN /\ Len(mask) <= 4
         /\ \A a \in DOMAIN mask :
              \/ mask[a] = 1 \/ Agree(mask[a], target[skip + a])
              \/ n.since >= 25 /\ skip + a = 4 /\ mask[a] < target[4]

\* What the claims of Q, K and V agree on: heads, batch, queries and keys; None if refused.
FlatGeometry(n) ==
    LET q == View(n, 1)
        k == View(n, 2)
        v == View(n, 3)
        heads == IntAttr(n, "q_num_heads", 0)
        kvHeads == IntAttr(n, "kv_num_heads", 0)
    IN IF /\ heads > 0 /\ kvHeads > 0
          /\ q[3] > 0 /\ q[1] # 0 /\ k[3] > 0 /\ v[3] > 0
          /\ q[3] % heads = 0 /\ k[3] % kvHeads = 0 /\ v[3] % kvHeads = 0
          /\ Agree(q[1], k[1]) /\ Agree(q[1], v[1])
          /\ q[3] \div heads = k[3] \div kvHeads
       THEN [heads |-> heads, kvHeads |-> kvHeads, batch |-> q[1], queries |-> q[2], keys |-> k[2]]
       ELSE None
HeadGeometry(n) ==
    LET q == View(n, 1)
        k == View(n, 2)
        v == View(n, 3)
    IN IF /\ q[2] > 0 /\ k[2] > 0
          /\ Agree(q[1], k[1]) /\ Agree(q[1], v[1])
          /\ q[4] > 0 /\ k[4] > 0 /\ q[4] = k[4]
          /\ k[2] = v[2] /\ k[3] = v[3]
          /\ n.since < 25 \/ ~(Has(n, "q_num_heads") \/ Has(n, "kv_num_heads"))
       THEN [heads |-> q[2], kvHeads |-> k[2], batch |-> q[1], queries |-> q[3], keys |-> k[3]]
       ELSE None

\* Keys of the cache included; -1 when not known.
CachedKeys(n, keys) ==
    CASE ~Present(n, 5) -> keys
      [] Present(n, 5) /\ Len(View(n, 5)) = 4 /\ View(n, 5)[3] >= 0 /\ keys >= 0 -> View(n, 5)[3] + keys
      [] OTHER -> -1
AttentionClaimWith(n, rank, geo) ==
    /\ n.typed /\ rank \in {3, 4} /\ Len(View(n, 2)) = rank /\ Len(View(n, 3)) = rank
    /\ geo # None
    /\ geo.heads % geo.kvHeads = 0
    /\ MaskFits(n, <<geo.batch, geo.heads, geo.queries, CachedKeys(n, geo.keys)>>)
    /\ Present(n, 5) = Present(n, 6)
    /\ Present(n, 7) =>
         /\ ~Present(n, 5) /\ n.outs < 3
         /\ Len(View(n, 7)) = 1 /\ Agree(geo.batch, View(n, 7)[1])
    /\ IntAttr(n, "softmax_precision", 1) \in {1, 10, 16}
    /\ IntAttr(n, "left_window_size", -1) >= -1 /\ IntAttr(n, "right_window_size", -1) >= -1
AttentionClaim(n) ==
    LET rank == Len(View(n, 1)) IN
    AttentionClaimWith(n, rank, IF rank = 3 THEN FlatGeometry(n) ELSE HeadGeometry(n))

MsAttentionClaim(n) ==
    LET x == View(n, 1) IN
    /\ n.typed /\ Len(n.ins) = 3 /\ n.outs = 1
    /\ Len(x) = 3 /\ x[3] > 0
    /\ View(n, 2) = <<x[3], 3 * x[3]>> /\ View(n, 3) = <<3 * x[3]>>
    /\ IntAttr(n, "num_heads", 0) > 0 /\ x[3] % IntAttr(n, "num_heads", 0) = 0
    /\ IntAttr(n, "unidirectional", 0) = 0 /\ IntAttr(n, "do_rotary", 0) = 0

MultiHeadAttentionClaim(n) ==
    LET h == IntAttr(n, "num_heads", 0)
        q == View(n, 1)
        k == View(n, 2)
        v == View(n, 3)
        Width(t) == IF Len(t) = 3 THEN t[3] ELSE h * t[4]
        Length(t) == IF Len(t) = 3 THEN t[2] ELSE t[3]
        Headed(t) == Len(t) = 4 => t[2] = h /\ t[4] > 0
        Past(i, width) == LET p == View(n, i) IN Len(p) = 4 /\ p[2] = h /\ p[4] = width \div h
        unidirectional == IntAttr(n, "unidirectional", 0) # 0
    IN /\ n.typed /\ h > 0
       /\ Len(q) = 3 /\ Len(k) \in {3, 4} /\ Len(v) = Len(k)
       /\ q[3] > 0 /\ Headed(k) /\ Headed(v)
       /\ q[3] % h = 0 /\ Width(k) % h = 0 /\ Width(v) % h = 0
       /\ unidirectional /\ ~Present(n, 7) => q[2] > 0 /\ q[2] = Length(k) /\ q[2] = Length(v)
       /\ Present(n, 4) => View(n, 4) = <<q[3] + Width(k) + Width(v)>>
       /\ \A i \in {5, 6, 9, 10} : ~Present(n, i)
       /\ Present(n, 7) = Present(n, 8)
       /\ Present(n, 7) => Past(7, Width(k)) /\ Past(8, Width(v))
       /\ ~(n.outs \in {2, 4} /\ unidirectional)

PackedMultiHeadAttentionClaim(n) ==
    LET q == View(n, 1)
        v == View(n, 3)
        h == IntAttr(n, "num_heads", 0)
    IN /\ n.typed /\ Len(n.ins) >= 6
       /\ Len(q) = 2 /\ View(n, 2) = q /\ Len(v) = 2
       /\ q[2] > 0 /\ v[2] > 0 /\ h > 0 /\ q[2] % h = 0 /\ v[2] % h = 0
       /\ Len(View(n, 5)) = 2 /\ Len(View(n, 6)) = 1
       /\ ~Present(n, 4) /\ ~Present(n, 7)

\* attention_compile_shape_safety.  The widths of heads that MLX pads are 32 to 63.
AttentionShapeless(n) ==
    LET q == View(n, 1)
        head == CASE Len(q) = 4 /\ q[4] > 0 -> q[4]
                  [] Len(q) = 3 /\ q[3] > 0 /\ IntAttr(n, "q_num_heads", 0) > 0
                       -> q[3] \div IntAttr(n, "q_num_heads", 0)
                  [] OTHER -> None
        Single(t) == Len(t) \in {3, 4} /\ t[Len(t) - 1] = 1
    IN /\ AttentionClaim(n) /\ ~ComposedPath(n)
       /\ head # None /\ head \notin 32 .. 63
       /\ IntAttr(n, "is_causal", 0) # 0 => Single(q) /\ Single(View(n, 2))

\* What a trace of Attention would hold fixed: the extents of a causal mask.
AttentionFrozen(n) ==
    LET queries == IF Rank(n.ins[1]) = 3 THEN n.ins[1].shape[2] ELSE n.ins[1].shape[3]
        keys == IF Rank(n.ins[2]) = 3 THEN n.ins[2].shape[2] ELSE n.ins[2].shape[3]
        past == IF Present(n, 5) THEN n.ins[5].shape[3] ELSE 0
    IN IF IntAttr(n, "is_causal", 0) = 0 \/ (queries = 1 /\ keys = 1) THEN <<>>
       ELSE <<queries, past + keys, past>>

AttentionOperators == {"Attention", "MsAttention", "MultiHeadAttention", "PackedMultiHeadAttention"}
AttendingClaim(n) ==
    CASE n.op = "Attention" -> AttentionClaim(n)
      [] n.op = "MsAttention" -> MsAttentionClaim(n)
      [] n.op = "MultiHeadAttention" -> MultiHeadAttentionClaim(n)
      [] n.op = "PackedMultiHeadAttention" -> PackedMultiHeadAttentionClaim(n)
AttendingTranslate(n) ==
    CASE n.op = "Attention" -> Attention(n)
      [] n.op = "MsAttention" -> MsAttention(n)
      [] n.op = "MultiHeadAttention" -> MultiHeadAttention(n)
      [] n.op = "PackedMultiHeadAttention" -> PackedMultiHeadAttention(n)
-----------------------------------------------------------------------------
\* The rotary embeddings: which pair of elements is rotated by which entry of the caches.
Turned(part, x, y, c, s) == <<part, x, y, c, s>>
Untouched(x) == <<"as", x>>

\* rope_apply: cos and sin are [batch or 1, 1, sequence, half].
RopeApply(x, cos, sin, interleaved) ==
    LET half == cos.shape[4] IN
    Tensor(x.shape, LAMBDA i :
      LET d == i[4]
          pair == IF interleaved THEN d \div 2 ELSE d % half
          first == IF interleaved THEN 2 * pair ELSE pair
          second == IF interleaved THEN first + 1 ELSE pair + half
          Of(t) == Spread(t, [i EXCEPT ![4] = pair])
      IN IF d >= 2 * half THEN Untouched(At(x, i))
         ELSE Turned(IF d = first THEN "re" ELSE "im", At(x, [i EXCEPT ![4] = first]),
                     At(x, [i EXCEPT ![4] = second]), Of(cos), Of(sin)))

\* gather_cache: pos is None, [batch, sequence], or the one position of the first row.
GatherCache(cache, pos, s) ==
    IF pos = None THEN MlxReshape(cache, <<cache.shape[1], 1, cache.shape[2], cache.shape[3]>>)
    ELSE IF Rank(pos) = 2
    THEN MlxReshape(MlxTake(cache, pos, 0), <<pos.shape[1], 1, s, cache.shape[2]>>)
    ELSE MlxReshape(MlxTake(cache, MlxBinary(LAMBDA a, b : a + b, pos, MlxArange(s)), 0),
                    <<1, 1, s, cache.shape[2]>>)

\* Where a node has its positions and its caches.
Slots(n) == CASE n.op = "RotaryEmbedding" -> [pos |-> 4, cos |-> 2, sin |-> 3]
              [] OTHER -> [pos |-> 2, cos |-> 3, sin |-> 4]
SequenceOf(shape) == shape[IF Len(shape) = 4 THEN 3 ELSE 2]

PositionsValid(n) ==
    LET pos == n.ins[Slots(n).pos]
        rows == n.ins[Slots(n).cos].shape[1]
        span == IF Rank(pos) = 1 THEN SequenceOf(n.ins[1].shape) ELSE 1
    IN Present(n, Slots(n).pos) => \A k \in DOMAIN pos.data : pos.data[k] \in 0 .. rows - span

\* The input by heads, and back.
RotaryHeads(n, head) ==
    LET x == n.ins[1] IN IF Rank(x) = 4 THEN x ELSE SplitHeads(x, x.shape[3] \div head)
RotaryBack(n, t) == IF Rank(n.ins[1]) = 4 THEN t ELSE MergeHeads(t)
HeadSize(n, half) ==
    LET x == n.ins[1].shape
        heads == IntAttr(n, "num_heads", 0)
    IN CASE Len(x) = 4 -> x[4] [] Len(x) = 3 /\ heads > 0 -> x[3] \div heads [] OTHER -> 2 * half

RotaryEmbedding(n) ==
    LET slots == Slots(n)
        cache == n.ins[slots.cos]
        x == RotaryHeads(n, HeadSize(n, Last(cache.shape)))
        pos == IF Present(n, slots.pos) THEN n.ins[slots.pos] ELSE None
    IN IF ~PositionsValid(n) THEN <<Refused>>
       ELSE <<RotaryBack(n, RopeApply(x, GatherCache(cache, pos, x.shape[3]),
                                      GatherCache(n.ins[slots.sin], pos, x.shape[3]),
                                      IntAttr(n, "interleaved", 0) # 0))>>

\* The stream of positions (from 0) that each column of the caches follows.
MRopeStream(layout, sections, col) ==
    IF layout = 0
    THEN CHOOSE s \in 0 .. 2 : col \in Total(SubSeq(sections, 1, s)) .. Total(SubSeq(sections, 1, s + 1)) - 1
    ELSE IF \E s \in {1, 2} : col % 3 = s /\ col < 3 * sections[s + 1] THEN col % 3 ELSE 0

MRotaryEmbedding(n) ==
    LET half == n.ins[3].shape[2]
        x == RotaryHeads(n, HeadSize(n, half))
        pos == n.ins[2]
        Combined(cache) ==
          Tensor(<<x.shape[1], 1, x.shape[3], half>>, LAMBDA i :
            LET stream == MRopeStream(IntAttr(n, "mrope_layout", 0), n.attr.mrope_section, i[4])
            IN At(cache, <<At(pos, <<stream, i[1], i[3]>>), i[4]>>))
    IN IF ~PositionsValid(n) \/ pos.shape # <<3, x.shape[1], x.shape[3]>> THEN <<Refused>>
       ELSE <<RotaryBack(n, RopeApply(x, Combined(n.ins[3]), Combined(n.ins[4]),
                                      IntAttr(n, "interleaved", 0) # 0))>>
-----------------------------------------------------------------------------
RotaryClaim(n) ==
    LET slots == Slots(n)
        ms == n.op = "MsRotaryEmbedding"
        x == View(n, 1)
        cos == View(n, slots.cos)
        half == IF cos = <<>> THEN 0 ELSE Last(cos)
        heads == IntAttr(n, "num_heads", 0)
        width == IntAttr(n, "rotary_embedding_dim", 0)
        head == CASE Len(x) = 4 -> x[4] [] heads > 0 -> x[3] \div heads [] OTHER -> 2 * half
        pos == View(n, slots.pos)
        gather == Len(pos) = 2
    IN /\ n.typed /\ Len(n.ins) >= (IF ms THEN 4 ELSE 3)
       /\ Len(x) \in {3, 4}
       /\ Len(x) = 3 =>
            /\ ms \/ heads > 0
            /\ IF heads > 0 THEN x[3] > 0 /\ x[3] % heads = 0
               ELSE width = 0 /\ half > 0 /\ x[3] > 0 /\ x[3] % (2 * half) = 0
       /\ View(n, slots.sin) = cos /\ half > 0
       /\ head < 0 \/ (head % 2 = 0 /\ 2 * half <= head)
       /\ width \in {0, 2 * half}
       /\ IF Present(n, slots.pos)
          THEN /\ gather \/ (ms /\ pos = <<1>>)
               /\ Len(cos) = 2
               /\ gather => Agree(pos[1], x[1]) /\ Agree(pos[2], SequenceOf(x))
          ELSE /\ ~ms /\ Len(cos) = 3
               /\ Agree(cos[1], x[1]) /\ Agree(cos[2], SequenceOf(x))

MRotaryClaim(n, out) ==
    LET x == View(n, 1)
        cos == View(n, 3)
        heads == IntAttr(n, "num_heads", 0)
        width == IntAttr(n, "rotary_embedding_dim", 0)
        head == IF Len(x) = 4 THEN x[4] ELSE x[3] \div heads
        turned == IF width = 0 THEN head ELSE width
        sections == IntsAttr(n, "mrope_section", <<>>)
    IN /\ n.typed /\ Len(n.ins) = 4 /\ n.outs = 1
       /\ Len(x) \in {3, 4} /\ \A k \in DOMAIN x : x[k] # 0
       /\ Last(x) > 0 /\ Compatible(out, x)
       /\ Len(x) = 3 => heads > 0 /\ x[3] % heads = 0
       /\ Len(View(n, 2)) = 3
       /\ \A k \in 1 .. 3 : Agree(View(n, 2)[k], <<3, x[1], SequenceOf(x)>>[k])
       /\ Len(cos) = 2 /\ View(n, 4) = cos /\ cos[2] > 0
       /\ width = 0 \/ heads > 0
       /\ turned > 0 /\ turned % 2 = 0 /\ turned <= head /\ cos[2] = turned \div 2
       /\ Len(sections) = 3 /\ \A k \in 1 .. 3 : sections[k] >= 0
       /\ Total(sections) = turned \div 2
       /\ IntAttr(n, "mrope_layout", 0) \in {0, 1}

RotaryOperators == {"RotaryEmbedding", "MsRotaryEmbedding", "MRotaryEmbedding"}
TurningClaim(n, out) == IF n.op = "MRotaryEmbedding" THEN MRotaryClaim(n, out) ELSE RotaryClaim(n)
TurningTranslate(n) == IF n.op = "MRotaryEmbedding" THEN MRotaryEmbedding(n) ELSE RotaryEmbedding(n)
=============================================================================
