------------------------------ MODULE LayoutOps ------------------------------
(***************************************************************************)
(* Operators that rearrange a tensor without choosing among its elements   *)
(* (rust/src/ops/shape.rs): Reshape, Transpose, Squeeze, Unsqueeze,        *)
(* Flatten, Expand, Concat, DepthToSpace, SpaceToDepth, and the metadata   *)
(* operators Shape, Size and ConstantOfShape.  Claims, handlers and the    *)
(* classification of each node's lowering for shapeless compilation.       *)
(*                                                                         *)
(* Left out: extents beyond int32, and the copy of a wide frozen transpose *)
(* (its elements are the same).                                            *)
(***************************************************************************)
EXTENDS NodeViews

Refuse == None      \* the checked_* helpers' error
Or(x, F(_)) == IF x = Refuse THEN Refused ELSE F(x)

\* Mutant: a zero copies the extent of the data whatever allowzero says.
CopyingReshape(n) ==
    LET data == n.ins[1]
        wanted == ReadInts(n, 2)
    IN MlxReshape(data, [k \in DOMAIN wanted |->
                           IF wanted[k] = 0 /\ k <= Rank(data) THEN data.shape[k] ELSE wanted[k]])
Reshape(n) ==
    LET data == n.ins[1]
        wanted == ReadInts(n, 2)
        copies == IntAttr(n, "allowzero", 0) = 0
    IN MlxReshape(data, [k \in DOMAIN wanted |->
                           IF wanted[k] = 0 /\ copies /\ k <= Rank(data)
                           THEN data.shape[k] ELSE wanted[k]])

CheckedTransposePerm(rank, perm) ==
    IF perm = None THEN [k \in 1 .. rank |-> rank - k]
    ELSE IF /\ Len(perm) = rank
            /\ \A k \in DOMAIN perm : perm[k] \in 0 .. rank - 1
            /\ Distinct(perm)
         THEN perm ELSE Refuse

Transpose(n) ==
    Or(CheckedTransposePerm(Rank(n.ins[1]), IntsAttr(n, "perm", None)),
       LAMBDA perm : MlxTranspose(n.ins[1], perm))

\* Sorted axes of the result (inserting) or of the data; -1 is an unknown extent.
CheckedRankChangeAxes(shape, axes, inserting, negative) ==
    LET rank == Len(shape) + IF inserting /\ axes # None THEN Len(axes) ELSE 0
        Norm(a) == NormAxis(a, rank)
        ok == /\ \A k \in DOMAIN axes :
                   /\ AxisIn(axes[k], rank) /\ (negative \/ axes[k] >= 0)
                   /\ inserting \/ shape[Norm(axes[k]) + 1] \in {-1, 1}
              /\ inserting => Distinct([k \in DOMAIN axes |-> Norm(axes[k])])
    IN CASE axes = None /\ inserting -> Refuse
         [] axes = None /\ ~inserting ->
              SelectSeq(Iota(Len(shape)), LAMBDA a : shape[a + 1] = 1)
         [] OTHER -> IF ok THEN SetToSortSeq({Norm(axes[k]) : k \in DOMAIN axes}, <)
                     ELSE Refuse

AxesOf(n) == IF Present(n, 2) THEN ReadInts(n, 2) ELSE IntsAttr(n, "axes", None)

\* expand_dims_axes and squeeze_axes.
Inserted(shape, axes) ==
    LET out == Len(shape) + Len(axes)
        Old(k) == k - Cardinality({j \in DOMAIN axes : axes[j] + 1 <= k})
    IN [k \in 1 .. out |-> IF k - 1 \in Range(axes) THEN 1 ELSE shape[Old(k)]]
Removed(shape, axes) ==
    LET left == SelectSeq(Iota(Len(shape)), LAMBDA a : a \notin Range(axes))
    IN [k \in DOMAIN left |-> shape[left[k] + 1]]

RankChange(n) ==
    LET data == n.ins[1]
        inserting == n.op = "Unsqueeze"
        axes == CheckedRankChangeAxes(data.shape, AxesOf(n), inserting, n.since >= 11)
        Shape(a) == IF inserting THEN Inserted(data.shape, a) ELSE Removed(data.shape, a)
    IN IF Present(n, 2) /\ Rank(n.ins[2]) # 1 THEN Refused
       ELSE Or(axes, LAMBDA a : [shape |-> Shape(a), data |-> data.data])

CheckedFlattenAxis(rank, axis, negative) ==
    IF axis \in -rank .. rank /\ (negative \/ axis >= 0)
    THEN NormAxis(axis, rank) ELSE Refuse
FlattenedShape(shape, axis) ==
    <<Product(SubSeq(shape, 1, axis)), Product(SubSeq(shape, axis + 1, Len(shape)))>>

Flatten(n) ==
    Or(CheckedFlattenAxis(Rank(n.ins[1]), IntAttr(n, "axis", 1), n.since >= 11),
       LAMBDA axis : MlxReshape(n.ins[1], FlattenedShape(n.ins[1].shape, axis)))

Expand(n) ==
    LET from == n.ins[1].shape
        target == ReadInts(n, 2)
        rank == Larger(Len(from), Len(target))
        Dim(s, k) == IF k + Len(s) <= rank THEN 1 ELSE s[k - (rank - Len(s))]
        shape == [k \in 1 .. rank |->
                    IF Dim(from, k) = 1 THEN Dim(target, k) ELSE Dim(from, k)]
    IN IF \A k \in 1 .. rank :
            /\ Dim(target, k) >= 0
            /\ Dim(from, k) = 1 \/ Dim(target, k) \in {1, Dim(from, k)}
       THEN MlxBroadcastTo(n.ins[1], shape) ELSE Refused

Concat(n) == MlxConcat(n.ins, NormAxis(IntAttr(n, "axis", 0), Rank(n.ins[1])))

DepthToSpace(n) ==
    LET s == n.ins[1].shape
        b == IntAttr(n, "blocksize", 0)
        c == s[2] \div (b * b)
        blocks == IF StringAttr(n, "mode", "DCR") = "CRD"
                  THEN MlxTranspose(MlxReshape(n.ins[1], <<s[1], c, b, b, s[3], s[4]>>),
                                    <<0, 1, 4, 2, 5, 3>>)
                  ELSE MlxTranspose(MlxReshape(n.ins[1], <<s[1], b, b, c, s[3], s[4]>>),
                                    <<0, 3, 4, 1, 5, 2>>)
    IN MlxReshape(blocks, <<s[1], c, s[3] * b, s[4] * b>>)

SpaceToDepth(n) ==
    LET s == n.ins[1].shape
        b == IntAttr(n, "blocksize", 0)
        h == s[3] \div b
        w == s[4] \div b
        perm == CASE StringAttr(n, "mode", "DCR") = "DCR" -> <<0, 3, 5, 1, 2, 4>>
                  [] StringAttr(n, "mode", "DCR") = "CRD" -> <<0, 1, 3, 5, 2, 4>>
    IN MlxReshape(MlxTranspose(MlxReshape(n.ins[1], <<s[1], s[2], h, b, w, b>>), perm),
                  <<s[1], s[2] * b * b, h, w>>)

ShapeInterval(rank, start, end) ==
    LET s == Clamp(NormAxis(start, rank), 0, rank)
        e == Clamp(NormAxis(end, rank), 0, rank)
    IN <<s, Larger(s, e)>>

Shape(n) ==
    LET rank == Rank(n.ins[1])
        i == ShapeInterval(rank, IntAttr(n, "start", 0), IntAttr(n, "end", rank))
    IN Vector(SubSeq(n.ins[1].shape, i[1] + 1, i[2]))
Size(n) == Scalar(Product(n.ins[1].shape))

\* The one-element value, or the zero of the output's type.
ConstantOfShape(n) ==
    LET s == ReadInts(n, 1) IN
    IF \E k \in DOMAIN s : s[k] < 0 THEN Refused
    ELSE MlxFull(s, IntAttr(n, "value", 0))
-----------------------------------------------------------------------------
ReshapeClaim(n) == n.typed
ExpandClaim(n) == n.typed
ConcatClaim(n) == n.typed

TransposeClaim(n) ==
    LET perm == IntsAttr(n, "perm", None)
        rank == IF RankKnown(n, 1) THEN Len(View(n, 1)) ELSE Len(perm)
    IN /\ n.typed
       /\ RankKnown(n, 1) \/ perm # None => CheckedTransposePerm(rank, perm) # Refuse

\* The axes known when the session is built: an attribute before version 13.
HaveAxes(n) == IF n.since >= 13 THEN Present(n, 2) ELSE Has(n, "axes")
KnownAxes(n) == IF n.since >= 13 THEN ConstInts(n, 2) ELSE IntsAttr(n, "axes", None)

RankChangeClaim(n) ==
    LET data == View(n, 1)
        inserting == n.op = "Unsqueeze"
        axes == KnownAxes(n)
    IN /\ n.typed
       /\ n.since >= 13 /\ HaveAxes(n) /\ RankKnown(n, 2) => Len(View(n, 2)) = 1
       /\ n.since < 13 => ~Present(n, 2)
       /\ inserting => HaveAxes(n)
       /\ ~inserting /\ n.since < 13 /\ axes = <<>> =>
            RankKnown(n, 1) /\ \A k \in DOMAIN data : data[k] >= 0 /\ data[k] # 1
       /\ RankKnown(n, 1) /\ (HaveAxes(n) => axes # None) =>
            CheckedRankChangeAxes(data, axes, inserting, n.since >= 11) # Refuse

FlattenClaim(n) ==
    LET axis == IntAttr(n, "axis", 1) IN
    /\ n.typed
    /\ n.since >= 11 \/ axis >= 0
    /\ RankKnown(n, 1) => CheckedFlattenAxis(Len(View(n, 1)), axis, n.since >= 11) # Refuse

DepthToSpaceClaim(n, out) ==
    LET s == View(n, 1)
        b == IntAttr(n, "blocksize", 0)
    IN /\ n.typed
       /\ Len(s) = 4 /\ Static(s)
       /\ b > 0 /\ s[2] % (b * b) = 0
       /\ StringAttr(n, "mode", "DCR") \in {"DCR", "CRD"}
       /\ out = <<s[1], s[2] \div (b * b), s[3] * b, s[4] * b>>

SpaceToDepthClaim(n, out) ==
    LET s == View(n, 1)
        b == IntAttr(n, "blocksize", 0)
    IN /\ n.typed
       /\ Len(s) = 4 /\ Static(s)
       /\ b > 0 /\ s[3] % b = 0 /\ s[4] % b = 0
       /\ StringAttr(n, "mode", "DCR") \in {"DCR", "CRD"}
       /\ out = <<s[1], s[2] * b * b, s[3] \div b, s[4] \div b>>

ShapeClaim(n, out) ==
    LET rank == Len(View(n, 1))
        i == ShapeInterval(rank, IntAttr(n, "start", 0), IntAttr(n, "end", rank))
    IN /\ n.typed
       /\ Len(out) = 1
       /\ RankKnown(n, 1) => out[1] < 0 \/ out[1] = i[2] - i[1]

SizeClaim(n, out) == n.typed /\ out = <<>>

ConstantOfShapeClaim(n) ==
    /\ n.typed
    /\ Constant(n, 1) => \A k \in DOMAIN n.ins[1].data : n.ins[1].data[k] >= 0
-----------------------------------------------------------------------------
\* Which lowerings may be replayed at other shapes (compile_shape_safety).
TransposeShapeless(n) == RankKnown(n, 1)

\* Mutant: axes found by extent are taken to be the same at every replay.
RankChangeLoose(n) == RankKnown(n, 1) /\ (HaveAxes(n) => KnownAxes(n) # None)
RankChangeShapeless(n) ==
    LET data == View(n, 1)
        axes == KnownAxes(n)
        checked == CheckedRankChangeAxes(data, axes, FALSE, TRUE)
    IN /\ RankKnown(n, 1)
       /\ \/ n.op = "Unsqueeze" /\ axes # None
          \/ ~HaveAxes(n) /\ Static(data)
          \/ /\ axes # None /\ checked # Refuse
             /\ \A k \in DOMAIN axes : data[NormAxis(axes[k], Len(data)) + 1] = 1

FlattenShapeless(n) ==
    RankKnown(n, 1) /\ \A k \in DOMAIN View(n, 1) : View(n, 1)[k] > 0

\* An input of a subgraph is in host memory; n.host says whether this one is.
MetadataShapeless(n) == RankKnown(n, 1) /\ Static(View(n, 1)) /\ n.host
ConstantOfShapeShapeless(n) == Constant(n, 1)
-----------------------------------------------------------------------------
LayoutOperators == {"Reshape", "Transpose", "Squeeze", "Unsqueeze", "Flatten", "Expand",
                    "Concat", "DepthToSpace", "SpaceToDepth", "Shape", "Size",
                    "ConstantOfShape"}

LayoutClaim(n, out) ==
    CASE n.op = "Reshape" -> ReshapeClaim(n)
      [] n.op = "Transpose" -> TransposeClaim(n)
      [] n.op \in {"Squeeze", "Unsqueeze"} -> RankChangeClaim(n)
      [] n.op = "Flatten" -> FlattenClaim(n)
      [] n.op = "Expand" -> ExpandClaim(n)
      [] n.op = "Concat" -> ConcatClaim(n)
      [] n.op = "DepthToSpace" -> DepthToSpaceClaim(n, out)
      [] n.op = "SpaceToDepth" -> SpaceToDepthClaim(n, out)
      [] n.op = "Shape" -> ShapeClaim(n, out)
      [] n.op = "Size" -> SizeClaim(n, out)
      [] n.op = "ConstantOfShape" -> ConstantOfShapeClaim(n)

LayoutTranslate(n) ==
    CASE n.op = "Reshape" -> Reshape(n)
      [] n.op = "Transpose" -> Transpose(n)
      [] n.op \in {"Squeeze", "Unsqueeze"} -> RankChange(n)
      [] n.op = "Flatten" -> Flatten(n)
      [] n.op = "Expand" -> Expand(n)
      [] n.op = "Concat" -> Concat(n)
      [] n.op = "DepthToSpace" -> DepthToSpace(n)
      [] n.op = "SpaceToDepth" -> SpaceToDepth(n)
      [] n.op = "Shape" -> Shape(n)
      [] n.op = "Size" -> Size(n)
      [] n.op = "ConstantOfShape" -> ConstantOfShape(n)

LayoutShapeless(n) ==
    CASE n.op = "Transpose" -> TransposeShapeless(n)
      [] n.op \in {"Squeeze", "Unsqueeze"} -> RankChangeShapeless(n)
      [] n.op = "Flatten" -> FlattenShapeless(n)
      [] n.op \in {"Shape", "Size"} -> MetadataShapeless(n)
      [] n.op = "ConstantOfShape" -> ConstantOfShapeShapeless(n)
      [] OTHER -> TRUE

\* What a trace of a classified lowering holds fixed at replay.
Frozen(n) ==
    CASE n.op = "Transpose" -> CheckedTransposePerm(Rank(n.ins[1]), IntsAttr(n, "perm", None))
      [] n.op \in {"Squeeze", "Unsqueeze"} ->
           CheckedRankChangeAxes(n.ins[1].shape, AxesOf(n), n.op = "Unsqueeze", n.since >= 11)
      [] n.op = "Flatten" -> FlattenedShape(n.ins[1].shape,
                               NormAxis(IntAttr(n, "axis", 1), Rank(n.ins[1])))
      [] n.op \in {"Shape", "Size"} -> n.ins[1].shape
      [] n.op = "ConstantOfShape" -> ReadInts(n, 1)
=============================================================================
