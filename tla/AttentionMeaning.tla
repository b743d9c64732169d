---------------------------- MODULE AttentionMeaning ----------------------------
(***************************************************************************)
(* What ONNX and the com.microsoft schemas define the attention and rotary *)
(* operators to compute, stated element by element over their inputs;      *)
(* Invalid where they define nothing.                                      *)
(***************************************************************************)
EXTENDS AttentionOps

\* Element d of head h at position i of member b, in either layout.
HeadElement(t, heads, b, h, i, d) ==
    IF Rank(t) = 4 THEN At(t, <<b, h, i, d>>)
    ELSE At(t, <<b, i, (h * (t.shape[3] \div heads)) + d>>)
HeadWidth(t, heads) == IF Rank(t) = 4 THEN t.shape[4] ELSE t.shape[3] \div heads
HeadLength(t) == IF Rank(t) = 4 THEN t.shape[3] ELSE t.shape[2]

\* The keys or values of a cache followed by the new ones.
CachedElement(past, new, heads, b, h, j, d) ==
    LET before == IF past = None THEN 0 ELSE past.shape[3] IN
    IF j < before THEN At(past, <<b, h, j, d>>)
    ELSE HeadElement(new, heads, b, h, j - before, d)

\* heads, kvHeads; q, k, v; pk, pv or None.
PastLength(past) == IF past = None THEN 0 ELSE past.shape[3]
ScoreShape(g) ==
    <<g.q.shape[1], g.heads, HeadLength(g.q), PastLength(g.pk) + HeadLength(g.k)>>
KvHead(g, h) == h \div (g.heads \div g.kvHeads)
QueryRow(g, b, h, i) ==
    [d \in 1 .. HeadWidth(g.q, g.heads) |-> HeadElement(g.q, g.heads, b, h, i, d - 1)]
KeyRow(g, b, h, j) ==
    [d \in 1 .. HeadWidth(g.q, g.heads) |->
       CachedElement(g.pk, g.k, g.kvHeads, b, KvHead(g, h), j, d - 1)]

\* The mixture of the values of the keys that a query sees; bias is Lowest where
\* a key is hidden.
MixtureAt(g, bias, b, h, i, d) ==
    LET seen == {j \in 0 .. bias.shape[4] - 1 : At(bias, <<b, h, i, j>>) # Lowest} IN
    IF seen = {} THEN Nothing
    ELSE Mixture(QueryRow(g, b, h, i),
           {<<KeyRow(g, b, h, j), At(bias, <<b, h, i, j>>),
              CachedElement(g.pv, g.v, g.kvHeads, b, KvHead(g, h), j, d)>> : j \in seen})
AttendedTo(g, bias) ==
    LET dv == HeadWidth(g.v, g.kvHeads) IN
    IF Rank(g.q) = 4
    THEN Tensor(SubSeq(bias.shape, 1, 3) \o <<dv>>, LAMBDA x : MixtureAt(g, bias, x[1], x[2], x[3], x[4]))
    ELSE Tensor(<<bias.shape[1], bias.shape[3], g.heads * dv>>, LAMBDA x :
           MixtureAt(g, bias, x[1], x[3] \div dv, x[2], x[3] % dv))

\* What the next call is given as past.
PresentOf(g, past, new) ==
    Tensor(<<g.q.shape[1], g.kvHeads, PastLength(past) + HeadLength(new), HeadWidth(new, g.kvHeads)>>, LAMBDA x :
      CachedElement(past, new, g.kvHeads, x[1], x[2], x[3], x[4]))
ScoresWith(g, bias) ==
    Tensor(bias.shape, LAMBDA x : <<QueryRow(g, x[1], x[2], x[3]), KeyRow(g, x[1], x[2], x[4]), At(bias, x)>>)
RowsOf(scores) ==
    Tensor(scores.shape, LAMBDA x :
      LET row == {At(scores, [x EXCEPT ![4] = j]) : j \in 0 .. scores.shape[4] - 1}
      IN IF \A s \in row : s[3] = Lowest THEN <<>> ELSE <<At(scores, x), row>>)

\* What a mask lets query i see of key j; one too narrow hides the rest.
Given(n, keys, x) ==
    LET m == n.ins[4]
        seen == Spread(m, x)
    IN CASE ~Present(n, 4) -> 0
         [] Present(n, 4) /\ m.shape # <<>> /\ Last(m.shape) \notin {1, keys} /\ x[4] >= Last(m.shape) -> Lowest
         [] OTHER -> IF n.dtype # "bool" THEN seen ELSE IF seen = 1 THEN 0 ELSE Lowest
\* place is the position of the query among the keys, real the keys that are not padding.
Visible(n, place, real, j) ==
    /\ j < real
    /\ IntAttr(n, "is_causal", 0) = 1 => j <= place
    /\ IntAttr(n, "left_window_size", -1) >= 0 => place - j <= n.attr.left_window_size
    /\ IntAttr(n, "right_window_size", -1) >= 0 => j - place <= n.attr.right_window_size
BiasMeant(n, shape, before) ==
    LET Real(b) == IF Present(n, 7) THEN n.ins[7].data[b + 1] ELSE shape[4]
        Place(b, i) == i + IF Present(n, 7) THEN n.ins[7].data[b + 1] - shape[3] ELSE before
    IN Tensor(shape, LAMBDA x :
         IF Visible(n, Place(x[1], x[3]), Real(x[1]), x[4]) THEN Given(n, shape[4], x) ELSE Lowest)

AttentionLegal(n, shape) ==
    /\ Present(n, 4) =>
         /\ n.since < 25 => Joined(n.ins[4].shape, shape) = shape
         /\ Rank(n.ins[4]) > 0 => Last(n.ins[4].shape) <= shape[4]
    /\ Present(n, 7) => \A b \in DOMAIN n.ins[7].data : n.ins[7].data[b] <= shape[4]
AttentionBiased(n, g, bias) ==
    AttentionOutputs(n, AttendedTo(g, bias), PresentOf(g, g.pk, g.k), PresentOf(g, g.pv, g.v),
      CASE IntAttr(n, "qk_matmul_output_mode", 0) = 2 -> ScoresWith(g, bias)
        [] IntAttr(n, "qk_matmul_output_mode", 0) = 3 -> RowsOf(ScoresWith(g, bias))
        [] OTHER -> ScoresWith(g, MlxFull(bias.shape, 0)))
AttentionOf(n, g) ==
    IF ~AttentionLegal(n, ScoreShape(g)) THEN <<Invalid>>
    ELSE AttentionBiased(n, g, BiasMeant(n, ScoreShape(g), PastLength(g.pk)))
InputOr(n, i, default) == IF Present(n, i) THEN n.ins[i] ELSE default
AttentionMeaning(n) ==
    LET flat == Rank(n.ins[1]) = 3 IN
    AttentionOf(n, [heads |-> IF flat THEN n.attr.q_num_heads ELSE n.ins[1].shape[2],
                    kvHeads |-> IF flat THEN n.attr.kv_num_heads ELSE n.ins[2].shape[2],
                    q |-> n.ins[1], k |-> n.ins[2], v |-> n.ins[3],
                    pk |-> InputOr(n, 5, None), pv |-> InputOr(n, 6, None)])

\* An input, its projections' weights and bias.
Projected(n, d, part) ==
    Tensor(n.ins[1].shape, LAMBDA i :
      n.ins[3].data[(part * d) + i[3] + 1]
      + Total([c \in 1 .. d |-> At(n.ins[1], <<i[1], i[2], c - 1>>) * At(n.ins[2], <<c - 1, (part * d) + i[3]>>)]))
Plainly(g) == AttendedTo(g, MlxFull(ScoreShape(g), 0))
MsAttentionMeaning(n) ==
    LET d == n.ins[1].shape[3] IN
    <<Plainly([heads |-> n.attr.num_heads, kvHeads |-> n.attr.num_heads, q |-> Projected(n, d, 0),
               k |-> Projected(n, d, 1), v |-> Projected(n, d, 2), pk |-> None, pv |-> None])>>

CausalBias(shape, before) == Tensor(shape, LAMBDA x : IF x[4] > before + x[3] THEN Lowest ELSE 0)
MultiHeadOf(n, g) ==
    LET causal == IntAttr(n, "unidirectional", 0) = 1
        bias == IF causal THEN CausalBias(ScoreShape(g), PastLength(g.pk)) ELSE MlxFull(ScoreShape(g), 0)
    IN IF HeadLength(g.k) # HeadLength(g.v) \/ (causal /\ HeadLength(g.q) # HeadLength(g.k)) THEN <<Invalid>>
       ELSE AttentionOutputs(n, AttendedTo(g, bias), PresentOf(g, g.pk, g.k), PresentOf(g, g.pv, g.v),
                             ScoresWith(g, MlxFull(ScoreShape(g), 0)))
MovedBy(n, t, from) ==
    IF Rank(t) = 4 \/ ~Present(n, 4) THEN t
    ELSE Tensor(t.shape, LAMBDA i : At(t, i) + n.ins[4].data[from + i[3] + 1])
MultiHeadMeaning(n) ==
    LET dq == n.ins[1].shape[3]
        dk == IF Rank(n.ins[2]) = 3 THEN n.ins[2].shape[3] ELSE 0
    IN MultiHeadOf(n, [heads |-> n.attr.num_heads, kvHeads |-> n.attr.num_heads,
                       q |-> MovedBy(n, n.ins[1], 0), k |-> MovedBy(n, n.ins[2], dq),
                       v |-> MovedBy(n, n.ins[3], dq + dk), pk |-> InputOr(n, 7, None), pv |-> InputOr(n, 8, None)])

\* A token attends to the tokens of its own sequence.
PackedMeaning(n) ==
    LET ends == n.ins[6].data
        h == n.attr.num_heads
        tokens == n.ins[1].shape[1]
        d == n.ins[1].shape[2] \div h
        dv == n.ins[3].shape[2] \div h
        HeadAt(t, i, x, w) == [c \in 1 .. w |-> At(t, <<i, (x * w) + c - 1>>)]
        Mates(i) == {j \in 0 .. tokens - 1 : \E p \in 1 .. Len(ends) - 1 :
                       {i, j} \subseteq ends[p] .. ends[p + 1] - 1}
    IN IF \/ Len(ends) < 2 \/ ends[1] # 0 \/ Last(ends) # tokens
          \/ \E p \in 1 .. Len(ends) - 1 : ends[p] > ends[p + 1]
       THEN <<Invalid>>
       ELSE <<Tensor(<<tokens, n.ins[3].shape[2]>>, LAMBDA x :
                Mixture(HeadAt(n.ins[1], x[1], x[2] \div dv, d),
                        {<<HeadAt(n.ins[2], j, x[2] \div dv, d), 0, At(n.ins[3], <<j, x[2]>>)>> : j \in Mates(x[1])}))>>
-----------------------------------------------------------------------------
\* The pair that an element belongs to is turned by the cache entry of its position.
TurnedBy(n, half, Entry4(_, _, _, _)) ==
    LET x == n.ins[1]
        flat == Rank(x) = 3
        size == HeadSize(n, half)
        interleaved == IntAttr(n, "interleaved", 0) = 1
        One(b, s, d, Elem(_)) ==
          IF d >= 2 * half THEN Untouched(Elem(d))
          ELSE LET pair == IF interleaved THEN d \div 2 ELSE IF d < half THEN d ELSE d - half
                   lo == IF interleaved THEN 2 * pair ELSE pair
                   hi == IF interleaved THEN lo + 1 ELSE pair + half
               IN Turned(IF d = lo THEN "re" ELSE "im", Elem(lo), Elem(hi),
                         Entry4("cos", b, s, pair), Entry4("sin", b, s, pair))
    IN IF flat
       THEN Tensor(x.shape, LAMBDA i :
              One(i[1], i[2], i[3] % size, LAMBDA d : At(x, <<i[1], i[2], ((i[3] \div size) * size) + d>>)))
       ELSE Tensor(x.shape, LAMBDA i :
              One(i[1], i[3], i[4], LAMBDA d : At(x, <<i[1], i[2], i[3], d>>)))

RotaryMeaning(n) ==
    LET slots == Slots(n)
        pos == n.ins[slots.pos]
        has == Present(n, slots.pos)
        Line(b, s) == IF Rank(pos) = 2 THEN At(pos, <<b, s>>) ELSE pos.data[1] + s
        Entry4(which, b, s, pair) ==
          LET cache == n.ins[IF which = "cos" THEN slots.cos ELSE slots.sin] IN
          IF has THEN At(cache, <<Line(b, s), pair>>) ELSE At(cache, <<b, s, pair>>)
        rows == 0 .. n.ins[slots.cos].shape[1] - 1
    IN IF has /\ ~(\A b \in 0 .. n.ins[1].shape[1] - 1, s \in 0 .. SequenceOf(n.ins[1].shape) - 1 : Line(b, s) \in rows)
       THEN <<Invalid>>
       ELSE <<TurnedBy(n, Last(n.ins[slots.cos].shape), Entry4)>>

\* Three streams of positions: by sections of columns, or column by column in turn.
MRotaryMeaning(n) ==
    LET half == n.ins[3].shape[2]
        sections == n.attr.mrope_section
        Stream(col) ==
          IF n.attr.mrope_layout = 0
          THEN IF col < sections[1] THEN 0 ELSE IF col < sections[1] + sections[2] THEN 1 ELSE 2
          ELSE LET t == col % 3 IN IF t # 0 /\ col \div 3 < sections[t + 1] THEN t ELSE 0
        Entry4(which, b, s, pair) ==
          At(n.ins[IF which = "cos" THEN 3 ELSE 4], <<At(n.ins[2], <<Stream(pair), b, s>>), pair>>)
    IN IF \E k \in DOMAIN n.ins[2].data : n.ins[2].data[k] \notin 0 .. n.ins[3].shape[1] - 1
       THEN <<Invalid>>
       ELSE <<TurnedBy(n, half, Entry4)>>
=============================================================================
