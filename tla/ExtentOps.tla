------------------------------ MODULE ExtentOps ------------------------------
(***************************************************************************)
(* Operators that cut or grow the extents of a tensor                      *)
(* (rust/src/ops/shape.rs): Slice, Split, Tile, Pad in its four modes,     *)
(* CenterCropPad and integer Range.  Out of bounds: extents beyond int32,  *)
(* and saturation of starts and ends at the ends of int64.                 *)
(***************************************************************************)
EXTENDS LayoutOps

\* A list from input i, or else from an attribute; None when it has neither.
ListOf(n, i, name) == IF Present(n, i) THEN ReadInts(n, i) ELSE IntsAttr(n, name, None)
ListOr(x, default) == IF x = None THEN default ELSE x
NotVector(n, i) == Present(n, i) /\ Rank(n.ins[i]) # 1

CheckedSliceAxes(rank, starts, ends, axes, steps) ==
    LET norm == [k \in DOMAIN axes |-> NormAxis(axes[k], rank)] IN
    IF /\ {Len(ends), Len(axes), Len(steps)} = {Len(starts)}
       /\ 0 \notin Range(steps)
       /\ \A k \in DOMAIN axes : AxisIn(axes[k], rank)
       /\ Distinct(norm)
    THEN norm ELSE Refuse

\* Where a forward cut begins and ends, and where a backward one does.
Forward(dim, start, end) ==
    <<Clamp(NormAxis(start, dim), 0, dim), Clamp(NormAxis(end, dim), 0, dim)>>
\* Mutant: the end of a backward cut is clamped as a forward one's.
BackwardAtZero(dim, start, end) ==
    <<Clamp(NormAxis(start, dim), 0, dim - 1), Clamp(NormAxis(end, dim), 0, dim - 1)>>
Backward(dim, start, end) ==
    <<Clamp(NormAxis(start, dim), 0, dim - 1), Clamp(NormAxis(end, dim), -1, dim - 1)>>

\* For each sliced axis, from zero: where it begins and ends, and its step.
SliceCut(axis, dim, start, end, step) ==
    LET by == Clamp(step, -Larger(dim, 1), Larger(dim, 1))
        cut == IF by > 0 THEN Forward(dim, start, end) ELSE Backward(dim, start, end)
    IN [axis |-> axis, from |-> cut[1], to |-> cut[2], step |-> by]
SliceCuts(shape, starts, ends, norm, steps) ==
    Tabulated([i \in DOMAIN norm |-> SliceCut(norm[i], shape[norm[i] + 1], starts[i], ends[i], steps[i])])

\* Forward axes in one strided slice; each backward axis gathered after it.
Turns(c) == c.step < 0 /\ c.from > c.to
Sliced(data, cuts) ==
    LET whole == [a \in 1 .. Rank(data) |-> [axis |-> a - 1, from |-> 0, to |-> data.shape[a], step |-> 1]]
        Strided(c) == CASE c.step > 0 -> c
                        [] Turns(c) -> whole[c.axis + 1]
                        [] OTHER -> [c EXCEPT !.from = 0, !.to = 0, !.step = 1]
        Along(a) == IF \E i \in DOMAIN cuts : cuts[i].axis = a - 1
                    THEN Strided(cuts[CHOOSE i \in DOMAIN cuts : cuts[i].axis = a - 1]) ELSE whole[a]
    IN MlxSlice(data, [a \in DOMAIN whole |-> Along(a).from], [a \in DOMAIN whole |-> Along(a).to],
                [a \in DOMAIN whole |-> Along(a).step])
Descent(c) == [k \in 1 .. CeilDiv(c.from - c.to, -c.step) |-> c.from + (k - 1) * c.step]
TurnedBack(t, cuts) ==
    FoldLeft(LAMBDA r, c : IF Turns(c) THEN MlxTake(r, Vector(Descent(c)), c.axis) ELSE r, t, cuts)
SliceBy(data, cuts) == TurnedBack(Sliced(data, cuts), cuts)
SliceOver(n, starts, ends, steps, norm) ==
    CASE norm = Refuse -> Refused
      [] norm # Refuse /\ starts = <<>> -> n.ins[1]
      [] OTHER -> SliceBy(n.ins[1], SliceCuts(n.ins[1].shape, starts, ends, norm, steps))
SliceLists(n, starts, ends, axes, steps) ==
    SliceOver(n, starts, ends, steps, CheckedSliceAxes(Rank(n.ins[1]), starts, ends, axes, steps))
SliceGiven(n, starts, ends) ==
    IF Rank(n.ins[1]) = 0 \/ None \in {starts, ends} \/ \E i \in 2 .. 5 : NotVector(n, i) THEN Refused
    ELSE SliceLists(n, starts, ends, ListOr(ListOf(n, 4, "axes"), Iota(Len(starts))),
                    ListOr(ListOf(n, 5, "steps"), Const(Len(starts), 1)))
Slice(n) == SliceGiven(n, ListOf(n, 2, "starts"), ListOf(n, 3, "ends"))

\* A mutant: the sizes of sections are not counted against the outputs.
UncountedSizes(extent, count, sizes, outputs) ==
    CASE sizes = None /\ extent = None -> <<>>
      [] sizes = None -> [k \in 1 .. count |-> IF k = count THEN extent - (count - 1) * (extent \div count)
                                               ELSE extent \div count]
      [] /\ \A k \in DOMAIN sizes : sizes[k] >= 0
         /\ extent # None => Total(sizes) = extent -> sizes
      [] OTHER -> Refuse

\* extent is None when a claim does not know it; so is the answer then.
CheckedSplitSizes(extent, count, sizes, outputs) ==
    LET chunk == IF outputs # None THEN CeilDiv(extent, count) ELSE extent \div count
        last == extent - chunk * (count - 1)
        even == outputs # None \/ extent % count = 0
    IN CASE \/ count = 0
            \/ outputs # None /\ (outputs # count \/ sizes # None) -> Refuse
         [] sizes # None ->
              IF /\ Len(sizes) = count /\ \A k \in DOMAIN sizes : sizes[k] >= 0
                 /\ extent # None => Total(sizes) = extent
              THEN sizes ELSE Refuse
         [] sizes = None /\ extent = None -> <<>>
         [] OTHER -> IF even /\ last >= 0
                     THEN [k \in 1 .. count |-> IF k = count THEN last ELSE chunk]
                     ELSE Refuse

\* n.outs is the number of outputs.
Split(n) ==
    LET data == n.ins[1]
        a == IntAttr(n, "axis", 0)
        axis == NormAxis(a, Rank(data))
        sizes == CheckedSplitSizes(data.shape[axis + 1], n.outs, ListOf(n, 2, "split"),
                                   IntAttr(n, "num_outputs", None))
    IN IF ~AxisIn(a, Rank(data)) \/ NotVector(n, 2) \/ sizes = Refuse THEN <<Refused>>
       ELSE MlxSplit(data, [k \in 1 .. Len(sizes) - 1 |-> Total(SubSeq(sizes, 1, k))], axis)

\* extents of -1 are unknown; the output's are then, unless repeated 0 times.
CheckedTileGeometry(shape, repeatsShape, repeats) ==
    IF /\ repeatsShape = <<Len(shape)>> /\ Len(repeats) = Len(shape)
       /\ \A k \in DOMAIN repeats : repeats[k] >= 0
    THEN [k \in DOMAIN shape |->
            CASE shape[k] >= 0 -> shape[k] * repeats[k]
              [] repeats[k] = 0 -> 0
              [] OTHER -> -1]
    ELSE Refuse

\* The form decoders use, with dynamic rotary positions, is not here.
Tile(n) ==
    LET data == n.ins[1] IN
    Or(CheckedTileGeometry(data.shape, n.ins[2].shape, ReadInts(n, 2)),
       LAMBDA out : IF 0 \in Range(out) THEN MlxFull(out, 0)
                    ELSE Tensor(out, LAMBDA i :
                           At(data, [k \in DOMAIN i |-> i[k] % data.shape[k]])))
-----------------------------------------------------------------------------
CheckedPadAxes(rank, axes, count) ==
    LET norm == [k \in DOMAIN axes |-> NormAxis(axes[k], rank)] IN
    IF /\ 2 * Len(axes) = count
       /\ \A k \in DOMAIN axes : AxisIn(axes[k], rank)
       /\ Distinct(norm)
    THEN norm ELSE Refuse

\* For each padded axis, the part of the input that stays and what surrounds it.
CheckedPadGeometry(shape, axes, pads, mode) ==
    LET norm == CheckedPadAxes(Len(shape), axes, Len(pads))
        Before(i) == pads[i]
        After(i) == pads[i + Len(axes)]
        Extent(i) == shape[norm[i] + 1]
        Out(i) == Extent(i) + Before(i) + After(i)
        Start(i) == Clamp(-Before(i), 0, Extent(i))
        Stop(i) == Clamp(Extent(i) + After(i), 0, Extent(i))
        Copied(i) == Larger(Stop(i) - Start(i), 0)
        Low(i) == Clamp(Before(i), 0, Out(i))
        Bad(i) == \/ Out(i) < 0
                  \/ /\ mode # "constant"
                     /\ \/ Extent(i) - Larger(-Before(i), 0) - Larger(-After(i), 0) < 0
                        \/ Copied(i) = 0 /\ Out(i) # 0
        Of(a, default, F(_)) == IF \E i \in DOMAIN norm : norm[i] = a - 1
                                THEN F(CHOOSE i \in DOMAIN norm : norm[i] = a - 1)
                                ELSE default
        Each(default, F(_)) == [a \in DOMAIN shape |-> Of(a, default[a], F)]
        zero == Const(Len(shape), 0)
    IN IF \/ mode \notin {"constant", "reflect", "edge", "wrap"}
          \/ norm = Refuse
       THEN Refuse
       ELSE IF \E i \in DOMAIN norm : Bad(i) THEN Refuse
       ELSE [output |-> Each(shape, Out), start |-> Each(zero, Start),
             stop |-> Each(shape, Stop), low |-> Each(zero, Low),
             high |-> Each(zero, LAMBDA i : Out(i) - Low(i) - Copied(i)),
             order |-> norm,
             empty |-> 0 \in Range(shape) \/ \E i \in DOMAIN norm : Copied(i) = 0]

OnAxis(t, axis, n) == [t.shape EXCEPT ![axis + 1] = n]

\* One axis each; extent 1 is broadcast, and pads within it are MLX's own.
ReflectPad(t, axis, low, high) ==
    LET extent == t.shape[axis + 1]
        period == 2 * (extent - 1)
    IN IF extent = 1 THEN MlxBroadcastTo(t, OnAxis(t, axis, low + 1 + high))
       ELSE MlxTake(t, Vector([k \in 1 .. low + extent + high |->
                                 LET r == (k - 1 - low) % period
                                 IN Smaller(r, period - r)]), axis)

EdgePad(t, axis, low, high) ==
    LET extent == t.shape[axis + 1]
        Copies(at, count) == MlxBroadcastTo(MlxTake(t, Vector(<<at>>), axis),
                                            OnAxis(t, axis, count))
        begun == IF low > 0 THEN MlxConcat(<<Copies(0, low), t>>, axis) ELSE t
    IN IF high > 0 THEN MlxConcat(<<begun, Copies(extent - 1, high)>>, axis) ELSE begun

WrapPad(t, axis, low, high) ==
    LET extent == t.shape[axis + 1] IN
    MlxTake(t, Vector([k \in 1 .. low + extent + high |-> (k - 1 - low) % extent]), axis)

PadsOf(n) ==
    IF n.since >= 11 THEN ReadInts(n, 2)
    ELSE IntsAttr(n, IF n.since = 1 THEN "paddings" ELSE "pads", None)
PadAxes(n) == IF Present(n, 4) THEN ReadInts(n, 4) ELSE Iota(Rank(n.ins[1]))

PadValue(n, mode) ==
    CASE mode = "constant" /\ Present(n, 3) -> n.ins[3].data[1]
      [] mode = "constant" /\ n.since < 11 -> IntAttr(n, "value", 0)
      [] OTHER -> 0
PadAxis(t, a, mode, low, high) ==
    CASE low = 0 /\ high = 0 -> t
      [] mode = "reflect" -> ReflectPad(t, a, low, high)
      [] mode = "edge" -> EdgePad(t, a, low, high)
      [] OTHER -> WrapPad(t, a, low, high)
PadTo(data, mode, value, g) ==
    LET cut == MlxSlice(data, g.start, g.stop, Const(Rank(data), 1)) IN
    CASE g = Refuse -> Refused
      [] 0 \in Range(g.output) -> MlxFull(g.output, 0)
      [] g.empty -> MlxFull(g.output, value)
      [] mode = "constant" -> MlxPad(cut, g.low, g.high, value)
      [] OTHER -> FoldLeft(LAMBDA t, a : PadAxis(t, a, mode, g.low[a + 1], g.high[a + 1]), cut, g.order)
Pad(n) ==
    LET mode == StringAttr(n, "mode", "constant") IN
    IF \/ PadsOf(n) = None \/ (n.since >= 11 /\ NotVector(n, 2))
       \/ NotVector(n, 4) \/ (Present(n, 3) /\ n.ins[3].shape # <<>>)
    THEN Refused
    ELSE PadTo(n.ins[1], mode, PadValue(n, mode),
               CheckedPadGeometry(n.ins[1].shape, PadAxes(n), PadsOf(n), mode))

\* What to cut and what to add, both about the centre.
CenterCropPad(n) ==
    LET data == n.ins[1]
        target == ReadInts(n, 2)
        axes == IntsAttr(n, "axes", Iota(Rank(data)))
        Wanted(a) == IF \E i \in DOMAIN axes : NormAxis(axes[i], Rank(data)) = a - 1
                     THEN target[CHOOSE i \in DOMAIN axes :
                                   NormAxis(axes[i], Rank(data)) = a - 1]
                     ELSE data.shape[a]
        all == 1 .. Rank(data)
        start == [a \in all |-> Larger(0, data.shape[a] - Wanted(a)) \div 2]
        stop == [a \in all |-> Smaller(data.shape[a], start[a] + Wanted(a))]
        low == [a \in all |-> Larger(0, Wanted(a) - data.shape[a]) \div 2]
        high == [a \in all |-> Larger(0, Wanted(a) - data.shape[a]) - low[a]]
    IN MlxPad(MlxSlice(data, start, stop, Const(Rank(data), 1)), low, high, 0)

IntegerRangeCount(start, limit, delta) ==
    LET distance == limit - start IN
    CASE delta = 0 -> Refuse
      [] delta > 0 /\ distance > 0 -> ((distance - 1) \div delta) + 1
      [] delta < 0 /\ distance < 0 -> ((-distance - 1) \div (-delta)) + 1
      [] OTHER -> 0

\* While a decode is traced natively, the one value is the start, which is the same for
\* the Range(start, start + 1, 1) formed there; that branch is left out.
RangeOf(n) ==
    LET start == ReadInts(n, 1)[1]
        delta == ReadInts(n, 3)[1]
    IN IF \E i \in 1 .. 3 : n.ins[i].shape # <<>> THEN Refused
       ELSE Or(IntegerRangeCount(start, ReadInts(n, 2)[1], delta),
               LAMBDA count : Vector([k \in 1 .. count |-> start + (k - 1) * delta]))
-----------------------------------------------------------------------------
MaybeVector(n, i) == Present(n, i) /\ RankKnown(n, i) => Len(View(n, i)) = 1

SliceClaim(n) ==
    LET legacy == n.since < 10
        starts == IF legacy THEN IntsAttr(n, "starts", None) ELSE ConstInts(n, 2)
        ends == IF legacy THEN IntsAttr(n, "ends", None) ELSE ConstInts(n, 3)
        Default(i, name, x) == CASE legacy -> IntsAttr(n, name, x)
                                 [] Present(n, i) -> ConstInts(n, i)
                                 [] OTHER -> x
        axes == IF starts = None THEN None ELSE Default(4, "axes", Iota(Len(starts)))
        steps == CASE starts = None /\ ~Present(n, 5) -> None
                   [] legacy -> Const(Len(starts), 1)
                   [] OTHER -> Default(5, "steps", Const(Len(starts), 1))
    IN /\ n.typed
       /\ RankKnown(n, 1) => View(n, 1) # <<>>
       /\ IF legacy THEN Len(n.ins) = 1 /\ starts # None /\ ends # None
          ELSE Present(n, 2) /\ Present(n, 3) /\ \A i \in 2 .. 5 : MaybeVector(n, i)
       /\ steps # None => 0 \notin Range(steps)
       /\ RankKnown(n, 1) /\ None \notin {starts, ends, axes, steps} =>
            CheckedSliceAxes(Len(View(n, 1)), starts, ends, axes, steps) # Refuse

SplitClaim(n) ==
    LET data == View(n, 1)
        a == IntAttr(n, "axis", 0)
        outputs == IntAttr(n, "num_outputs", None)
        have == Present(n, 2) \/ Has(n, "split")
        sizes == IF Present(n, 2) THEN ConstInts(n, 2) ELSE IntsAttr(n, "split", None)
        extent == IF RankKnown(n, 1) /\ data[NormAxis(a, Len(data)) + 1] >= 0
                  THEN data[NormAxis(a, Len(data)) + 1] ELSE None
    IN /\ n.typed /\ n.outs > 0
       /\ RankKnown(n, 1) => data # <<>> /\ AxisIn(a, Len(data))
       /\ Present(n, 2) => n.since >= 13 /\ MaybeVector(n, 2)
       /\ ~(have /\ outputs # None)
       /\ IF ~have \/ sizes # None
          THEN CheckedSplitSizes(extent, n.outs, sizes, outputs) # Refuse
          ELSE Len(View(n, 2)) = 1 /\ View(n, 2)[1] >= 0 => View(n, 2)[1] = n.outs

TileClaim(n, out) ==
    LET data == View(n, 1)
        repeats == ConstInts(n, 2)
        seen == IF RankKnown(n, 1) THEN data ELSE Const(Len(repeats), -1)
        output == CheckedTileGeometry(seen, View(n, 2), repeats)
        count == View(n, 2)[1]
    IN /\ n.typed /\ n.since >= 6 /\ DOMAIN n.attr = {}
       /\ MaybeVector(n, 2)
       /\ IF repeats = None
          THEN /\ RankKnown(n, 1) /\ RankKnown(n, 2) /\ count >= 0 => count = Len(data)
               /\ RankKnown(n, 1) /\ n.outKnown => Len(out) = Len(data)
               /\ RankKnown(n, 2) /\ count >= 0 /\ n.outKnown => Len(out) = count
          ELSE output # Refuse /\ (n.outKnown => Compatible(out, output))

PadClaim(n) ==
    LET data == View(n, 1)
        mode == StringAttr(n, "mode", "constant")
        legacy == n.since < 11
        pads == IF legacy THEN PadsOf(n) ELSE ConstInts(n, 2)
        KnownLength(i) == IF RankKnown(n, i) /\ Len(View(n, i)) = 1 /\ View(n, i)[1] >= 0
                          THEN View(n, i)[1] ELSE None
        count == IF pads # None THEN Len(pads) ELSE KnownLength(2)
        axes == CASE Present(n, 4) -> ConstInts(n, 4)
                  [] RankKnown(n, 1) -> Iota(Len(data))
                  [] OTHER -> None
        axisCount == CASE axes # None -> Len(axes)
                       [] Present(n, 4) -> KnownLength(4)
                       [] OTHER -> None
        known == IF count = None THEN 2 * Len(axes) ELSE count
    IN /\ n.typed
       /\ IF legacy THEN Len(n.ins) = 1 /\ pads # None
          ELSE Present(n, 2) /\ Len(n.ins) <= (IF n.since < 18 THEN 3 ELSE 4)
       /\ mode \in {"constant", "reflect", "edge", "wrap"}
       /\ mode = "wrap" => n.since >= 19
       /\ ~legacy => MaybeVector(n, 2) /\ MaybeVector(n, 4)
       /\ count # None => count % 2 = 0
       /\ None \notin {count, axisCount} => count = 2 * axisCount
       /\ RankKnown(n, 1) /\ axes # None =>
            /\ CheckedPadAxes(Len(data), axes, known) # Refuse
            /\ pads # None /\ Static(data) =>
                 CheckedPadGeometry(data, axes, pads, mode) # Refuse
       /\ Present(n, 3) /\ RankKnown(n, 3) => View(n, 3) = <<>>

CenterCropPadClaim(n, out) ==
    LET data == View(n, 1)
        target == ConstInts(n, 2)
        axes == IntsAttr(n, "axes", Iota(Len(data)))
        norm == [i \in DOMAIN axes |-> NormAxis(axes[i], Len(data))]
    IN /\ n.typed
       /\ data # <<>> /\ Static(data) /\ Static(out)
       /\ target # None /\ Len(target) = Len(axes)
       /\ \A i \in DOMAIN axes : AxisIn(axes[i], Len(data)) /\ target[i] >= 0
       /\ Distinct(norm)
       /\ out = [a \in DOMAIN data |->
                   IF a - 1 \in Range(norm)
                   THEN target[CHOOSE i \in DOMAIN norm : norm[i] = a - 1] ELSE data[a]]

\* Live bounds are read at an eager boundary; constant ones must agree.
RangeClaim(n, out) ==
    LET bounds == [i \in 1 .. 3 |-> ConstInts(n, i)]
        count == IntegerRangeCount(bounds[1][1], bounds[2][1], bounds[3][1])
    IN /\ n.typed /\ Len(out) = 1
       /\ \A i \in 1 .. 3 : RankKnown(n, i) /\ View(n, i) = <<>>
       /\ None \notin Range(bounds) => count # Refuse /\ out[1] = count
-----------------------------------------------------------------------------
TileShapeless(n) ==
    /\ Constant(n, 2) /\ RankKnown(n, 1)
    /\ \A k \in DOMAIN View(n, 1) : View(n, 1)[k] > 0
    /\ \A k \in DOMAIN n.ins[2].data : n.ins[2].data[k] > 0
TileFrozen(n) == CheckedTileGeometry(n.ins[1].shape, n.ins[2].shape, ReadInts(n, 2))

ExtentOperators == {"Slice", "Split", "Tile", "Pad", "CenterCropPad", "Range"}

ExtentClaim(n, out) ==
    CASE n.op = "Slice" -> SliceClaim(n)
      [] n.op = "Split" -> SplitClaim(n)
      [] n.op = "Tile" -> TileClaim(n, out)
      [] n.op = "Pad" -> PadClaim(n)
      [] n.op = "CenterCropPad" -> CenterCropPadClaim(n, out)
      [] n.op = "Range" -> RangeClaim(n, out)

ExtentTranslate(n) ==
    CASE n.op = "Slice" -> <<Slice(n)>>
      [] n.op = "Split" -> Split(n)
      [] n.op = "Tile" -> <<Tile(n)>>
      [] n.op = "Pad" -> <<Pad(n)>>
      [] n.op = "CenterCropPad" -> <<CenterCropPad(n)>>
      [] n.op = "Range" -> <<RangeOf(n)>>
=============================================================================
