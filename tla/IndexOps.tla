------------------------------- MODULE IndexOps -------------------------------
(***************************************************************************)
(* Operators that choose elements by index (rust/src/ops/shape.rs):        *)
(* Gather, GatherElements, GatherND, ScatterElements, ScatterND, Compress  *)
(* and ReverseSequence; Resize and Upsample in the nearest mode, which are *)
(* one gather for each axis at indices computed on the host.  For each:    *)
(* the claim made when a session is built, and the composition of MLX      *)
(* primitives its handler emits when the node runs.  OperatorMeaning       *)
(* states what ONNX defines, element by element.                           *)
(* A scale of Resize is a whole number of halves, and a coordinate is a    *)
(* fraction num/den.  Its linear mode differs in the weights it takes from *)
(* the same coordinates and is left out.  Out of bounds: extents whose     *)
(* product exceeds int32.                                                  *)
(***************************************************************************)
EXTENDS NodeViews

\* Mutant: negative indices are not wrapped.
Unwrapped(v, dim) == v
Wrap(v, dim) == IF v < 0 THEN v + dim ELSE v
NormalizeIndices(t, dim) ==
    [t EXCEPT !.data = [k \in DOMAIN t.data |-> Wrap(t.data[k], dim)]]

Gather(n) ==
    LET axis == NormAxis(IntAttr(n, "axis", 0), Rank(n.ins[1])) IN
    MlxTake(n.ins[1], NormalizeIndices(n.ins[2], n.ins[1].shape[axis + 1]), axis)

GatherElements(n) ==
    LET axis == NormAxis(IntAttr(n, "axis", 0), Rank(n.ins[1])) IN
    MlxTakeAlong(n.ins[1], NormalizeIndices(n.ins[2], n.ins[1].shape[axis + 1]), axis)

\* The row of the flattened data that each index tuple names.
FlatRows(indices, dims, width) ==
    [p \in 1 .. Product(Front(indices.shape)) |->
       Ravel(dims, [j \in 1 .. width |->
                      Wrap(indices.data[(p - 1) * width + j], dims[j])])]

GatherND(n) ==
    LET data == n.ins[1]
        indices == n.ins[2]
        b == IntAttr(n, "batch_dims", 0)
        width == Last(indices.shape)
        dims == SubSeq(data.shape, b + 1, b + width)
        rest == SubSeq(data.shape, b + width + 1, Rank(data))
        shape == Front(indices.shape) \o rest
        flat == MlxReshape(data, <<Product(SubSeq(data.shape, 1, b + width)), Product(rest)>>)
        each == Product(SubSeq(indices.shape, b + 1, Rank(indices) - 1))
        rows == FlatRows(indices, dims, width)
        placed == [p \in DOMAIN rows |-> rows[p] + ((p - 1) \div each) * Product(dims)]
    IN CASE \/ b >= Smaller(Rank(data), Rank(indices))
            \/ SubSeq(data.shape, 1, b) # SubSeq(indices.shape, 1, b) -> Refused
         [] width = 0 \/ width > Rank(data) - b -> Refused
         [] 0 \in Range(shape) -> MlxFull(shape, 0)
         [] OTHER -> MlxReshape(MlxTake(flat, Vector(placed), 0), shape)

ScatterElements(n) ==
    LET data == n.ins[1]
        indices == n.ins[2]
        updates == n.ins[3]
        a == IntAttr(n, "axis", 0)
        axis == NormAxis(a, Rank(data))
        extent == [k \in 1 .. Rank(data) |->
                     IF k = axis + 1 THEN data.shape[k] ELSE indices.shape[k]]
        zero == Const(Rank(data), 0)
        source == MlxSlice(data, zero, extent, Const(Rank(data), 1))
        put == MlxPutAlong(source, NormalizeIndices(indices, data.shape[axis + 1]),
                           updates, axis)
    IN CASE Rank(data) = 0 \/ ~AxisIn(a, Rank(data)) -> Refused
         [] indices.shape # updates.shape \/ Rank(indices) # Rank(data) -> Refused
         [] \E k \in 1 .. Rank(data) :
              k # axis + 1 /\ indices.shape[k] > data.shape[k] -> Refused
         [] 0 \in Range(indices.shape) -> data
         [] extent = data.shape -> put
         [] OTHER -> MlxSliceUpdate(data, put, zero, extent)

\* scatter_nd_geometry: how wide a tuple is, and the flattened extents.
ScatterGeometry(data, indices, updates) ==
    LET width == Last(indices)
        ok == /\ indices # <<>> /\ data # <<>> /\ width > 0 /\ width <= Len(data)
              /\ updates = Front(indices) \o SubSeq(data, width + 1, Len(data))
    IN IF ~ok THEN None
       ELSE [width |-> width, rows |-> Product(SubSeq(data, 1, width)),
             tail |-> Product(SubSeq(data, width + 1, Len(data))),
             count |-> Product(Front(indices))]

\* Mutant: the checked form admits an index equal to the extent.
LooseTuples(indices, dims, width) ==
    \A k \in DOMAIN indices.data :
      LET dim == dims[((k - 1) % width) + 1] IN indices.data[k] \in -dim .. dim
TuplesInBounds(indices, dims, width) ==
    \A k \in DOMAIN indices.data :
      LET dim == dims[((k - 1) % width) + 1] IN indices.data[k] \in -dim .. dim - 1

ScatterAdd(base, rows, updates) ==
    Tensor(base.shape, LAMBDA i :
      At(base, i) + Total([p \in DOMAIN rows |->
                             IF rows[p] = i[1] THEN At(updates, <<p - 1, i[2]>>) ELSE 0]))

ScatterNDAdd(n, g, rows) ==
    LET data == n.ins[1] IN
    CASE g.count = 0 -> data
      [] g.count # 0 /\ ~TuplesInBounds(n.ins[2], SubSeq(data.shape, 1, g.width), g.width) -> Refused
      [] g.count # 0 /\ g.tail = 0 -> data
      [] OTHER -> MlxReshape(ScatterAdd(MlxReshape(data, <<g.rows, g.tail>>), rows,
                                        MlxReshape(n.ins[3], <<g.count, g.tail>>)),
                             data.shape)

ScatterNDSet(n, g, rows) ==
    IF g.count = 0 \/ g.tail = 0 THEN n.ins[1]
    ELSE MlxReshape(MlxPutAlong(MlxReshape(n.ins[1], <<g.rows, g.tail>>),
                                MlxBroadcastTo([shape |-> <<g.count, 1>>, data |-> rows], <<g.count, g.tail>>),
                                MlxReshape(n.ins[3], <<g.count, g.tail>>), 0),
                    n.ins[1].shape)
ScatterNDWith(n, g) ==
    CASE g = None -> Refused
      [] g # None /\ StringAttr(n, "reduction", "none") = "add" ->
           ScatterNDAdd(n, g, FlatRows(n.ins[2], SubSeq(n.ins[1].shape, 1, g.width), g.width))
      [] OTHER -> ScatterNDSet(n, g, FlatRows(n.ins[2], SubSeq(n.ins[1].shape, 1, g.width), g.width))
ScatterND(n) == ScatterNDWith(n, ScatterGeometry(n.ins[1].shape, n.ins[2].shape, n.ins[3].shape))

Compress(n) ==
    LET data == IF Has(n, "axis") THEN n.ins[1] ELSE MlxReshape(n.ins[1], <<-1>>)
        axis == IF Has(n, "axis") THEN NormAxis(n.attr.axis, Rank(data)) ELSE 0
        kept == SelectSeq(Iota(Smaller(Len(n.ins[2].data), data.shape[axis + 1])),
                          LAMBDA i : n.ins[2].data[i + 1] # 0)
    IN MlxTake(data, Vector(kept), axis)

Reversal(turned, lens) ==
    LET s == turned.shape IN
    MlxTakeAlong(turned,
      MlxBroadcastTo(
        MlxReshape(MlxBinary(LAMBDA len, t : IF t < len THEN len - 1 - t ELSE t,
                             MlxReshape(lens, <<s[1], 1>>), MlxReshape(MlxArange(s[2]), <<1, s[2]>>)),
                   SubSeq(s, 1, 2) \o Const(Len(s) - 2, 1)), s), 1)
InversePerm(perm) == [a \in DOMAIN perm |-> (CHOOSE k \in DOMAIN perm : perm[k] = a - 1) - 1]
ReversedBy(n, perm) == MlxTranspose(Reversal(MlxTranspose(n.ins[1], perm), n.ins[2]), InversePerm(perm))
ReverseSequence(n) ==
    LET r == Rank(n.ins[1])
        batch == NormAxis(IntAttr(n, "batch_axis", 1), r)
        time == NormAxis(IntAttr(n, "time_axis", 0), r)
    IN ReversedBy(n, <<batch, time>> \o SelectSeq(Iota(r), LAMBDA a : a \notin {batch, time}))
-----------------------------------------------------------------------------
GatherLikeClaim(n) == n.typed

GatherNDClaim(n) ==
    LET data == View(n, 1)
        indices == View(n, 2)
        b == IntAttr(n, "batch_dims", 0)
    IN /\ n.typed
       /\ b >= 0 /\ b < Smaller(Len(data), Len(indices))
       /\ Last(indices) > 0 /\ Last(indices) <= Len(data) - b
       /\ Compatible(SubSeq(data, 1, b), SubSeq(indices, 1, b))

ScatterElementsClaim(n) ==
    LET data == View(n, 1)
        indices == View(n, 2)
        axis == IntAttr(n, "axis", 0)
    IN /\ StringAttr(n, "reduction", "none") = "none"
       /\ n.typed
       /\ data # <<>>
       /\ Compatible(indices, View(n, 3))
       /\ Len(indices) = Len(data)
       /\ AxisIn(axis, Len(data))
       /\ \A k \in DOMAIN data :
            \/ k = NormAxis(axis, Len(data)) + 1
            \/ indices[k] < 0 \/ data[k] < 0 \/ indices[k] <= data[k]

ScatterNDClaim(n) ==
    LET data == View(n, 1)
        indices == View(n, 2)
        reduction == StringAttr(n, "reduction", "none")
        width == Last(indices)
    IN /\ n.typed
       /\ reduction \in {"none", "add"}
       /\ reduction = "add" => n.since >= 16
       /\ indices # <<>> /\ data # <<>>
       /\ width > 0 /\ width <= Len(data)
       /\ Compatible(Front(indices) \o SubSeq(data, width + 1, Len(data)), View(n, 3))

\* out is the shape that inference gives the output.
CompressClaim(n, out) ==
    LET data == View(n, 1) IN
    /\ n.typed
    /\ Len(View(n, 2)) = 1 /\ Constant(n, 2)
    /\ Static(data) /\ Static(out)
    /\ IF Has(n, "axis")
       THEN /\ data # <<>> /\ AxisIn(n.attr.axis, Len(data))
            /\ Len(out) = Len(data)
            /\ \A k \in DOMAIN out :
                 k = NormAxis(n.attr.axis, Len(data)) + 1 \/ out[k] = data[k]
       ELSE Len(out) = 1

ReverseSequenceClaim(n, out) ==
    LET data == View(n, 1)
        batch == IntAttr(n, "batch_axis", 1)
        time == IntAttr(n, "time_axis", 0)
    IN /\ n.typed
       /\ out = data
       /\ Len(data) >= 2 /\ Static(data)
       /\ Len(View(n, 2)) = 1
       /\ AxisIn(batch, Len(data)) /\ AxisIn(time, Len(data))
       /\ NormAxis(batch, Len(data)) # NormAxis(time, Len(data))
       /\ View(n, 2)[1] = data[NormAxis(batch, Len(data)) + 1]
-----------------------------------------------------------------------------
IndexOperators == {"Gather", "GatherElements", "GatherND", "ScatterElements",
                   "ScatterND", "Compress", "ReverseSequence"}

IndexClaim(n, out) ==
    CASE n.op \in {"Gather", "GatherElements"} -> GatherLikeClaim(n)
      [] n.op = "GatherND" -> GatherNDClaim(n)
      [] n.op = "ScatterElements" -> ScatterElementsClaim(n)
      [] n.op = "ScatterND" -> ScatterNDClaim(n)
      [] n.op = "Compress" -> CompressClaim(n, out)
      [] n.op = "ReverseSequence" -> ReverseSequenceClaim(n, out)

IndexTranslate(n) ==
    CASE n.op = "Gather" -> Gather(n)
      [] n.op = "GatherElements" -> GatherElements(n)
      [] n.op = "GatherND" -> GatherND(n)
      [] n.op = "ScatterElements" -> ScatterElements(n)
      [] n.op = "ScatterND" -> ScatterND(n)
      [] n.op = "Compress" -> Compress(n)
      [] n.op = "ReverseSequence" -> ReverseSequence(n)
-----------------------------------------------------------------------------
\* Resize and Upsample.
Fraction(num, den) == IF den < 0 THEN [num |-> -num, den |-> -den] ELSE [num |-> num, den |-> den]
Floor(f) == f.num \div f.den
Ceil(f) == -((-f.num) \div f.den)
Plus(f, halves) == [num |-> 2 * f.num + halves * f.den, den |-> 2 * f.den]

\* Where output index i of an axis lies on the input; scale is a fraction.
ResizeSrcCoord(mode, i, scale, inputLen, outputLen) ==
    CASE mode = "align_corners" ->
           IF outputLen = 1 THEN Fraction(0, 1)
           ELSE Fraction(i * (inputLen - 1), outputLen - 1)
      [] mode = "asymmetric" -> Fraction(i * scale.den, scale.num)
      [] mode = "pytorch_half_pixel" /\ outputLen = 1 -> Fraction(0, 1)
      [] OTHER -> Plus(Fraction((2 * i + 1) * scale.den, 2 * scale.num), -1)

ResizeNearestIndex(mode, source, inputLen) ==
    Clamp(CASE mode = "floor" -> Floor(source)
            [] mode = "ceil" -> Ceil(source)
            [] mode = "round_prefer_ceil" -> Floor(Plus(source, 1))
            [] OTHER -> Ceil(Plus(source, -1)), 0, inputLen - 1)

Legacy(n) == n.op = "Upsample"
CoordinateMode(n) ==
    IF Legacy(n) THEN "asymmetric"
    ELSE StringAttr(n, "coordinate_transformation_mode", "half_pixel")
NearestMode(n) ==
    IF Legacy(n) THEN "floor" ELSE StringAttr(n, "nearest_mode", "round_prefer_floor")
ScalesOf(n) == n.ins[IF Legacy(n) THEN 2 ELSE 3].data

\* The extent asked of each axis and the scale that goes with it.
ResizeTarget(n) ==
    LET shape == n.ins[1].shape IN
    IF ~Legacy(n) /\ Present(n, 4)
    THEN [k \in DOMAIN shape |-> [len |-> ReadInts(n, 4)[k],
                                  scale |-> Fraction(ReadInts(n, 4)[k], shape[k])]]
    ELSE [k \in DOMAIN shape |-> [len |-> (ScalesOf(n)[k] * shape[k]) \div 2,
                                  scale |-> Fraction(ScalesOf(n)[k], 2)]]

\* An axis is left alone when its coordinates are the identity.
Resize(n) ==
    LET shape == n.ins[1].shape
        target == ResizeTarget(n)
        Same(k) == /\ shape[k] = target[k].len
                   /\ \/ target[k].scale.num = target[k].scale.den
                      \/ CoordinateMode(n) = "align_corners"
                      \/ shape[k] <= 1
        Indices(k) == [i \in 1 .. target[k].len |->
                         ResizeNearestIndex(NearestMode(n),
                           ResizeSrcCoord(CoordinateMode(n), i - 1, target[k].scale,
                                          shape[k], target[k].len),
                           shape[k])]
    IN FoldLeft(LAMBDA t, k : IF Same(k) THEN t ELSE MlxTake(t, Vector(Indices(k)), k - 1),
                n.ins[1], [k \in DOMAIN shape |-> k])
-----------------------------------------------------------------------------
\* Batch and channel axes stay as they are from rank 3 on.
ResizeClaim(n, out) ==
    LET data == View(n, 1)
        rank == Len(data)
        kept == IF rank >= 3 THEN 2 ELSE 0
        sizes == ConstInts(n, 4)
        scales == ConstInts(n, 3)
    IN /\ n.typed
       /\ rank \in 1 .. 4 /\ Len(out) = rank
       /\ CoordinateMode(n) \in {"half_pixel", "asymmetric", "align_corners",
                                 "pytorch_half_pixel"}
       /\ NearestMode(n) \in {"round_prefer_floor", "round_prefer_ceil", "floor", "ceil"}
       /\ IntAttr(n, "exclude_outside", 0) = 0 /\ IntAttr(n, "antialias", 0) = 0
       /\ ~Has(n, "axes") /\ ~Present(n, 2)
       /\ StringAttr(n, "keep_aspect_ratio_policy", "stretch") = "stretch"
       /\ Present(n, 3) # Present(n, 4)
       /\ IF Present(n, 4)
          THEN /\ sizes # None /\ Len(sizes) = rank
               /\ \A k \in DOMAIN sizes :
                    /\ sizes[k] >= 1
                    /\ IF k <= kept THEN data[k] > 0 /\ sizes[k] = data[k]
                       ELSE out[k] <= 0 \/ out[k] = sizes[k]
          ELSE /\ scales # None /\ Len(scales) = rank
               /\ \A k \in DOMAIN scales :
                    /\ scales[k] > 0
                    /\ IF k <= kept THEN scales[k] = 2
                       ELSE data[k] > 0 /\ out[k] > 0 =>
                              out[k] = (scales[k] * data[k]) \div 2

UpsampleClaim(n, out) ==
    LET data == View(n, 1)
        scales == ConstInts(n, 2)
    IN /\ n.typed
       /\ Len(data) \in 1 .. 4
       /\ \A k \in DOMAIN data : data[k] > 0
       /\ \A k \in DOMAIN out : out[k] > 0
       /\ Len(out) = Len(data)
       /\ scales # None /\ View(n, 2) = <<Len(data)>>
       /\ \A k \in DOMAIN scales : scales[k] > 0 /\ out[k] = (data[k] * scales[k]) \div 2
=============================================================================
