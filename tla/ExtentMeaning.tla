----------------------------- MODULE ExtentMeaning -----------------------------
(***************************************************************************)
(* What ONNX defines for the operators that change extents, one output     *)
(* index at a time.                                                        *)
(***************************************************************************)
EXTENDS OperatorMeaning

ListOr0(n, i, name, default) ==
    IF Present(n, i) THEN n.ins[i].data ELSE IntsAttr(n, name, default)

\* The positions a cut of one axis visits, in order: at most dim of them.
Visited(dim, start, end, step) ==
    LET w(v) == IF v < 0 THEN v + dim ELSE v
        s == IF step > 0 THEN Larger(0, w(start)) ELSE Clamp(w(start), 0, dim - 1)
        e == IF step > 0 THEN w(end) ELSE Larger(-1, w(end))
        walk == [k \in 1 .. dim |-> s + (k - 1) * step]
    IN SelectSeq(walk, LAMBDA p : p \in 0 .. dim - 1 /\ IF step > 0 THEN p < e ELSE p > e)

SliceMeaning(n) ==
    LET d == n.ins[1]
        starts == ListOr0(n, 2, "starts", <<>>)
        ends == ListOr0(n, 3, "ends", <<>>)
        axes == ListOr0(n, 4, "axes", [k \in DOMAIN starts |-> k - 1])
        steps == ListOr0(n, 5, "steps", [k \in DOMAIN starts |-> 1])
        ok == /\ Rank(d) > 0 /\ 0 \notin Range(steps)
              /\ \A f \in {ends, axes, steps} : Len(f) = Len(starts)
              /\ \A k \in DOMAIN axes : axes[k] \in -Rank(d) .. Rank(d) - 1
              /\ \A j, k \in DOMAIN axes :
                   j # k => axes[j] % Rank(d) # axes[k] % Rank(d)
        Seen2(a) == IF \E k \in DOMAIN axes : axes[k] % Rank(d) = a - 1
                    THEN LET k == CHOOSE k \in DOMAIN axes : axes[k] % Rank(d) = a - 1
                         IN Visited(d.shape[a], starts[k], ends[k], steps[k])
                    ELSE [p \in 1 .. d.shape[a] |-> p - 1]
        seen == [a \in 1 .. Rank(d) |-> Seen2(a)]
    IN IF ok THEN Tensor([a \in 1 .. Rank(d) |-> Len(seen[a])],
                         LAMBDA i : At(d, [a \in DOMAIN i |-> seen[a][i[a] + 1]]))
       ELSE Invalid

SplitMeaning(n) ==
    LET d == n.ins[1]
        a == (IntAttr(n, "axis", 0) % Rank(d)) + 1
        dim == d.shape[a]
        chunk == (dim + n.outs - 1) \div n.outs
        sizes == CASE Present(n, 2) \/ Has(n, "split") -> ListOr0(n, 2, "split", <<>>)
                   [] Has(n, "num_outputs") ->
                        [k \in 1 .. n.outs |-> IF k < n.outs THEN chunk ELSE dim - (k - 1) * chunk]
                   [] OTHER -> [k \in 1 .. n.outs |-> dim \div n.outs]
        ok == /\ IntAttr(n, "axis", 0) \in -Rank(d) .. Rank(d) - 1
              /\ Len(sizes) = n.outs
              /\ \A k \in DOMAIN sizes : sizes[k] >= 0
              /\ Total(sizes) = dim
        Before(p) == Total(SubSeq(sizes, 1, p - 1))
    IN IF ok THEN [p \in 1 .. n.outs |->
                     Tensor([d.shape EXCEPT ![a] = sizes[p]],
                            LAMBDA i : At(d, [i EXCEPT ![a] = @ + Before(p)]))]
       ELSE <<Invalid>>

TileMeaning(n) ==
    LET d == n.ins[1]
        r == n.ins[2].data
    IN IF n.ins[2].shape # <<Rank(d)>> \/ \E k \in DOMAIN r : r[k] < 0 THEN Invalid
       ELSE Tensor([k \in 1 .. Rank(d) |-> d.shape[k] * r[k]],
                   LAMBDA i : At(d, [k \in DOMAIN i |-> i[k] % d.shape[k]]))

\* A position outside what is kept of an axis, brought back into it by the mode.
Reflected(p, len) ==
    LET period == Larger(1, 2 * (len - 1))
        r == p % period
    IN IF r < len THEN r ELSE period - r
Folded(mode, p, len) ==
    CASE mode = "edge" -> Larger(0, Smaller(p, len - 1))
      [] mode = "wrap" -> p % len
      [] mode = "reflect" -> Reflected(p, len)

PadMeaning(n) ==
    LET d == n.ins[1]
        mode == StringAttr(n, "mode", "constant")
        pads == CASE n.since >= 11 -> n.ins[2].data
                  [] n.since = 1 -> IntsAttr(n, "paddings", <<>>)
                  [] OTHER -> IntsAttr(n, "pads", <<>>)
        axes == IF Present(n, 4) THEN n.ins[4].data ELSE [k \in 1 .. Rank(d) |-> k - 1]
        count == Len(axes)
        value == IF n.since >= 11
                 THEN IF Present(n, 3) THEN n.ins[3].data[1] ELSE 0
                 ELSE IntAttr(n, "value", 0)
        Of(a, shift) == IF \E k \in DOMAIN axes : axes[k] % Rank(d) = a - 1
                        THEN pads[shift + CHOOSE k \in DOMAIN axes : axes[k] % Rank(d) = a - 1]
                        ELSE 0
        before == [a \in 1 .. Rank(d) |-> Of(a, 0)]
        after == [a \in 1 .. Rank(d) |-> Of(a, count)]
        first == [a \in 1 .. Rank(d) |-> Larger(0, -before[a])]
        len == [a \in 1 .. Rank(d) |-> d.shape[a] - first[a] - Larger(0, -after[a])]
        shape == [a \in 1 .. Rank(d) |-> d.shape[a] + before[a] + after[a]]
        ok == /\ \A k \in DOMAIN axes : axes[k] \in -Rank(d) .. Rank(d) - 1
              /\ \A j, k \in DOMAIN axes : j # k => axes[j] % Rank(d) # axes[k] % Rank(d)
              /\ Len(pads) = 2 * count
    IN CASE ~ok -> Invalid
         [] ok /\ \E a \in DOMAIN shape :
              \/ shape[a] < 0
              \/ mode # "constant" /\ (len[a] < 0 \/ (len[a] = 0 /\ shape[a] # 0)) -> Invalid
         [] OTHER ->
              Tensor(shape, LAMBDA i :
                LET from == [a \in DOMAIN i |-> i[a] - before[a]] IN
                IF mode = "constant"
                THEN IF Within(d.shape, from) THEN At(d, from) ELSE value
                ELSE At(d, [a \in DOMAIN i |->
                              first[a] + Folded(mode, from[a] - first[a], len[a])]))

CenterCropPadMeaning(n) ==
    LET d == n.ins[1]
        axes == IntsAttr(n, "axes", [k \in 1 .. Rank(d) |-> k - 1])
        shape == [a \in 1 .. Rank(d) |->
                    IF \E k \in DOMAIN axes : axes[k] % Rank(d) = a - 1
                    THEN n.ins[2].data[CHOOSE k \in DOMAIN axes : axes[k] % Rank(d) = a - 1]
                    ELSE d.shape[a]]
        shift == [a \in 1 .. Rank(d) |->
                    IF shape[a] <= d.shape[a] THEN (d.shape[a] - shape[a]) \div 2
                    ELSE -((shape[a] - d.shape[a]) \div 2)]
    IN IF Len(axes) # Len(n.ins[2].data) THEN Invalid
       ELSE Tensor(shape, LAMBDA i : LET from == [a \in DOMAIN i |-> i[a] + shift[a]]
                                     IN IF Within(d.shape, from) THEN At(d, from) ELSE 0)

RangeMeaning(n) ==
    LET s == n.ins[1].data[1]
        l == n.ins[2].data[1]
        d == n.ins[3].data[1]
        Before(v) == IF d > 0 THEN v < l ELSE v > l
        far == 1 + IF s < l THEN l - s ELSE s - l
    IN IF d = 0 THEN Invalid
       ELSE Vector(SelectSeq([k \in 1 .. far |-> s + (k - 1) * d], Before))

\* The input index nearest to a coordinate num/den; ties as the mode says.
Nearest(mode, num, den, len) ==
    LET Off(x) == IF x * den >= num THEN x * den - num ELSE num - x * den
        line == -2 .. len + 1
        Best(S) == {x \in S : \A y \in S : Off(x) <= Off(y)}
        below == {x \in line : x * den <= num}
        above == {x \in line : x * den >= num}
        pick == CASE mode = "floor" -> Best(IF below = {} THEN {0} ELSE below)
                  [] mode = "ceil" -> Best(IF above = {} THEN {len - 1} ELSE above)
                  [] OTHER -> Best(line)
        x == IF mode = "round_prefer_ceil" THEN CHOOSE y \in pick : \A z \in pick : z <= y
             ELSE CHOOSE y \in pick : \A z \in pick : y <= z
    IN Clamp(x, 0, len - 1)

\* Scales are in halves: len/size of a requested size, or the given ones.
ResizeMeaning(n) ==
    LET d == n.ins[1]
        old == n.op = "Upsample"
        sized == ~old /\ Present(n, 4)
        mode == IF old THEN "asymmetric"
                ELSE StringAttr(n, "coordinate_transformation_mode", "half_pixel")
        rounding == IF old THEN "floor" ELSE StringAttr(n, "nearest_mode", "round_prefer_floor")
        given == n.ins[IF old THEN 2 ELSE 3].data
        up == [a \in 1 .. Rank(d) |-> IF sized THEN n.ins[4].data[a] ELSE given[a]]
        down == [a \in 1 .. Rank(d) |-> IF sized THEN d.shape[a] ELSE 2]
        shape == [a \in 1 .. Rank(d) |-> IF sized THEN up[a] ELSE (up[a] * d.shape[a]) \div 2]
        From(a, i) ==
            CASE mode = "align_corners" ->
                   IF shape[a] = 1 THEN 0
                   ELSE Nearest(rounding, i * (d.shape[a] - 1), shape[a] - 1, d.shape[a])
              [] mode = "asymmetric" -> Nearest(rounding, i * down[a], up[a], d.shape[a])
              [] mode = "pytorch_half_pixel" /\ shape[a] = 1 ->
                   Nearest(rounding, 0, 1, d.shape[a])
              [] OTHER -> Nearest(rounding, (2 * i + 1) * down[a] - up[a], 2 * up[a],
                                  d.shape[a])
    IN Tensor(shape, LAMBDA i : At(d, [a \in DOMAIN i |-> From(a, i[a])]))
=============================================================================
