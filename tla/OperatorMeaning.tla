---------------------------- MODULE OperatorMeaning ----------------------------
(***************************************************************************)
(* What ONNX defines for the movement operators, stated one output index   *)
(* at a time and apart from how the provider composes them.  Invalid       *)
(* stands for a node whose inputs ONNX rules out.                          *)
(***************************************************************************)
EXTENDS NodeViews

Legal(ok, t) == IF ok THEN t ELSE Invalid
Axis(n, name, default, rank) == IntAttr(n, name, default) % rank
Indexes(t, dim) == \A k \in DOMAIN t.data : t.data[k] \in -dim .. dim - 1

\* The elements at which updates land, later ones over earlier ones.
Overlaid(data, updates, Where(_)) ==
    LET Hits(i) == {p \in 1 .. Product(updates.shape) :
                      Where(Unravel(updates.shape, p - 1)) = i}
    IN Tensor(data.shape, LAMBDA i :
         IF Hits(i) = {} THEN At(data, i)
         ELSE updates.data[CHOOSE p \in Hits(i) : \A q \in Hits(i) : q <= p])
Summed(data, updates, Where(_)) ==
    Tensor(data.shape, LAMBDA i :
      At(data, i) + Total([p \in 1 .. Product(updates.shape) |->
                             IF Where(Unravel(updates.shape, p - 1)) = i
                             THEN updates.data[p] ELSE 0]))

GatherMeaning(n) ==
    LET d == n.ins[1]
        x == n.ins[2]
        a == Axis(n, "axis", 0, Rank(d))
        dim == d.shape[a + 1]
    IN Legal(dim > 0 /\ Indexes(x, dim),
             Tensor(SubSeq(d.shape, 1, a) \o x.shape \o SubSeq(d.shape, a + 2, Rank(d)),
                    LAMBDA i : At(d, SubSeq(i, 1, a)
                      \o <<At(x, SubSeq(i, a + 1, a + Rank(x))) % dim>>
                      \o SubSeq(i, a + Rank(x) + 1, Len(i)))))

\* Where the extents off the axis are those of the data: see GatherElements.
GatherElementsMeaning(n) ==
    LET d == n.ins[1]
        x == n.ins[2]
        a == Axis(n, "axis", 0, Rank(d))
        dim == d.shape[a + 1]
    IN Legal(/\ Rank(d) = Rank(x) /\ dim > 0 /\ Indexes(x, dim)
             /\ \A k \in DOMAIN d.shape : k # a + 1 => x.shape[k] = d.shape[k],
             Tensor(x.shape, LAMBDA i : At(d, [i EXCEPT ![a + 1] = At(x, i) % dim])))

\* The part of the data that the index tuple of a row names.
RowTuple(x, row, dims) ==
    [j \in DOMAIN dims |-> At(x, row \o <<j - 1>>) % dims[j]]
TuplesNameRows(x, dims) ==
    \A k \in DOMAIN x.data :
      LET dim == dims[((k - 1) % Len(dims)) + 1] IN x.data[k] \in -dim .. dim - 1

GatherNDMeaning(n) ==
    LET d == n.ins[1]
        x == n.ins[2]
        b == IntAttr(n, "batch_dims", 0)
        w == Last(x.shape)
        dims == SubSeq(d.shape, b + 1, b + w)
        q == Rank(x) - 1
    IN IF ~(/\ b < Smaller(Rank(d), Rank(x)) /\ w \in 1 .. Rank(d) - b
            /\ SubSeq(d.shape, 1, b) = SubSeq(x.shape, 1, b)) THEN Invalid
       ELSE Legal(TuplesNameRows(x, dims) /\ 0 \notin Range(dims),
                  Tensor(Front(x.shape) \o SubSeq(d.shape, b + w + 1, Rank(d)), LAMBDA i :
                    At(d, SubSeq(i, 1, b) \o RowTuple(x, SubSeq(i, 1, q), dims)
                          \o SubSeq(i, q + 1, Len(i)))))

ScatterElementsMeaning(n) ==
    LET d == n.ins[1]
        x == n.ins[2]
        a == Axis(n, "axis", 0, Rank(d))
        dim == d.shape[a + 1]
    IN IF ~(Rank(d) > 0 /\ Rank(x) = Rank(d) /\ x.shape = n.ins[3].shape) THEN Invalid
       ELSE Legal(/\ Indexes(x, dim)
                  /\ \A k \in DOMAIN d.shape : k # a + 1 => x.shape[k] <= d.shape[k],
                  Overlaid(d, n.ins[3],
                           LAMBDA i : [i EXCEPT ![a + 1] = At(x, i) % dim]))

ScatterNDMeaning(n) ==
    LET d == n.ins[1]
        x == n.ins[2]
        u == n.ins[3]
        w == Last(x.shape)
        q == Rank(x) - 1
        dims == SubSeq(d.shape, 1, w)
        Target(i) == RowTuple(x, SubSeq(i, 1, q), dims) \o SubSeq(i, q + 1, Len(i))
    IN IF ~(/\ w \in 1 .. Rank(d)
            /\ u.shape = Front(x.shape) \o SubSeq(d.shape, w + 1, Rank(d))) THEN Invalid
       ELSE Legal(TuplesNameRows(x, dims),
                  IF StringAttr(n, "reduction", "none") = "add"
                  THEN Summed(d, u, Target) ELSE Overlaid(d, u, Target))

CompressMeaning(n) ==
    LET d == n.ins[1]
        whole == ~Has(n, "axis")
        a == IF whole THEN 0 ELSE Axis(n, "axis", 0, Rank(d))
        dim == IF whole THEN Product(d.shape) ELSE d.shape[a + 1]
        picks == {i \in 0 .. Len(n.ins[2].data) - 1 : n.ins[2].data[i + 1] # 0}
        Pick(k) == CHOOSE i \in picks : Cardinality({j \in picks : j < i}) = k
    IN Legal(picks \subseteq 0 .. dim - 1,
             IF whole THEN Vector([k \in 1 .. Cardinality(picks) |-> d.data[Pick(k - 1) + 1]])
             ELSE Tensor([d.shape EXCEPT ![a + 1] = Cardinality(picks)],
                         LAMBDA i : At(d, [i EXCEPT ![a + 1] = Pick(i[a + 1])])))

ReverseSequenceMeaning(n) ==
    LET d == n.ins[1]
        b == Axis(n, "batch_axis", 1, Rank(d)) + 1
        t == Axis(n, "time_axis", 0, Rank(d)) + 1
        len(i) == n.ins[2].data[i[b] + 1]
    IN Legal(/\ Len(n.ins[2].data) = d.shape[b]
             /\ \A k \in DOMAIN n.ins[2].data : n.ins[2].data[k] \in 1 .. d.shape[t],
             Tensor(d.shape, LAMBDA i :
               At(d, [i EXCEPT ![t] = IF @ < len(i) THEN len(i) - 1 - @ ELSE @])))
-----------------------------------------------------------------------------
ReshapeMeaning(n) ==
    LET d == n.ins[1]
        w == n.ins[2].data
        kept == [k \in DOMAIN w |-> IF w[k] = 0 /\ IntAttr(n, "allowzero", 0) = 0
                                       /\ k <= Rank(d) THEN d.shape[k] ELSE w[k]]
        fits == {s \in [DOMAIN w -> 0 .. Product(d.shape)] :
                   /\ Product(s) = Product(d.shape)
                   /\ \A k \in DOMAIN w : kept[k] # -1 => s[k] = kept[k]}
        guessed == {k \in DOMAIN w : w[k] = -1}
    IN IF /\ Cardinality(fits) = 1 /\ Cardinality(guessed) <= 1
          /\ guessed # {} => 0 \notin Range(kept)
       THEN [shape |-> CHOOSE s \in fits : TRUE, data |-> d.data]
       ELSE Invalid

TransposeMeaning(n) ==
    LET d == n.ins[1]
        perm == IntsAttr(n, "perm", [k \in 1 .. Rank(d) |-> Rank(d) - k])
    IN IF {perm[k] : k \in DOMAIN perm} # 0 .. Rank(d) - 1 \/ Len(perm) # Rank(d)
       THEN Invalid
       ELSE Tensor([k \in DOMAIN perm |-> d.shape[perm[k] + 1]], LAMBDA i :
              d.data[1 + Total([k \in DOMAIN perm |-> i[k] * Strides(d.shape)[perm[k] + 1]])])

\* Axes that are named, counted in the larger of the two shapes.
RankChangeMeaning(n) ==
    LET d == n.ins[1]
        adds == n.op = "Unsqueeze"
        named == IF Present(n, 2) THEN n.ins[2].data ELSE IntsAttr(n, "axes", None)
        rank == Rank(d) + IF adds THEN Len(named) ELSE 0
        chosen == IF named = None THEN {k \in DOMAIN d.shape : d.shape[k] = 1}
                  ELSE {(named[k] % rank) + 1 : k \in DOMAIN named}
        rest == SetToSortSeq((1 .. rank) \ chosen, <)
    IN IF adds
       THEN IF named = None \/ (\E k \in DOMAIN named : named[k] \notin -rank .. rank - 1)
               \/ Cardinality(chosen) # Len(named)
            THEN Invalid
            ELSE [shape |-> [k \in 1 .. rank |->
                               IF k \in chosen THEN 1
                               ELSE d.shape[CHOOSE j \in DOMAIN rest : rest[j] = k]],
                  data |-> d.data]
       ELSE IF \/ named # None /\ \E k \in DOMAIN named : named[k] \notin -rank .. rank - 1
               \/ ~(chosen \subseteq DOMAIN d.shape)
               \/ \E k \in chosen : d.shape[k] # 1
            THEN Invalid
            ELSE [shape |-> [k \in DOMAIN rest |-> d.shape[rest[k]]], data |-> d.data]

FlattenMeaning(n) ==
    LET d == n.ins[1]
        a == IntAttr(n, "axis", 1)
        cut == IF a < 0 THEN a + Rank(d) ELSE a
    IN IF cut \notin 0 .. Rank(d) \/ (a < 0 /\ n.since < 11) THEN Invalid
       ELSE [shape |-> <<Product(SubSeq(d.shape, 1, cut)),
                         Product(SubSeq(d.shape, cut + 1, Rank(d)))>>, data |-> d.data]

ExpandMeaning(n) ==
    LET shape == Joined(n.ins[1].shape, n.ins[2].data) IN
    IF shape = Refused.shape THEN Invalid
    ELSE Tensor(shape, LAMBDA i : Spread(n.ins[1], i))

ConcatMeaning(n) ==
    LET a == Axis(n, "axis", 0, Rank(n.ins[1])) + 1
        Starts(p) == Total([q \in 1 .. p - 1 |-> n.ins[q].shape[a]])
        first == n.ins[1].shape
    IN Legal(\A p \in DOMAIN n.ins : Rank(n.ins[p]) = Len(first)
               /\ \A k \in DOMAIN first : k # a => n.ins[p].shape[k] = first[k],
             Tensor([first EXCEPT ![a] = Starts(Len(n.ins) + 1)], LAMBDA i :
               LET p == CHOOSE p \in DOMAIN n.ins :
                          Starts(p) <= i[a] /\ i[a] < Starts(p + 1)
               IN At(n.ins[p], [i EXCEPT ![a] = @ - Starts(p)])))

DepthToSpaceMeaning(n) ==
    LET d == n.ins[1]
        b == n.attr.blocksize
        c == d.shape[2] \div (b * b)
        Channel(i) == LET cell == ((i[3] % b) * b) + (i[4] % b) IN
                      IF StringAttr(n, "mode", "DCR") = "DCR"
                      THEN cell * c + i[2] ELSE i[2] * b * b + cell
    IN Legal(b > 0 /\ d.shape[2] % (b * b) = 0,
             Tensor(<<d.shape[1], c, d.shape[3] * b, d.shape[4] * b>>,
                    LAMBDA i : At(d, <<i[1], Channel(i), i[3] \div b, i[4] \div b>>)))

SpaceToDepthMeaning(n) ==
    LET d == n.ins[1]
        b == n.attr.blocksize
        c == d.shape[2]
        crd == StringAttr(n, "mode", "DCR") = "CRD"
        Chan(i) == IF crd THEN i[2] \div (b * b) ELSE i[2] % c
        Cell(i) == IF crd THEN i[2] % (b * b) ELSE i[2] \div c
    IN Legal(b > 0 /\ d.shape[3] % b = 0 /\ d.shape[4] % b = 0,
             Tensor(<<d.shape[1], c * b * b, d.shape[3] \div b, d.shape[4] \div b>>,
                    LAMBDA i : At(d, <<i[1], Chan(i), (i[3] * b) + (Cell(i) \div b),
                                       (i[4] * b) + (Cell(i) % b)>>)))

\* The extents of the axes from start up to end, both cut to the rank.
ShapeMeaning(n) ==
    LET s == n.ins[1].shape
        Cut(v) == IF v < 0 THEN Larger(0, v + Len(s)) ELSE Smaller(v, Len(s))
        kept == {k \in DOMAIN s : k > Cut(IntAttr(n, "start", 0))
                                  /\ k <= Cut(IntAttr(n, "end", Len(s)))}
        order == SetToSortSeq(kept, <)
    IN Vector([j \in DOMAIN order |-> s[order[j]]])
SizeMeaning(n) == Scalar(Len(n.ins[1].data))
ConstantOfShapeMeaning(n) ==
    LET s == n.ins[1].data IN
    IF \E k \in DOMAIN s : s[k] < 0 THEN Invalid
    ELSE [shape |-> s, data |-> Const(Product(s), IntAttr(n, "value", 0))]
=============================================================================
