--------------------------- MODULE ArithmeticMeaning ---------------------------
(***************************************************************************)
(* What ONNX defines element by element, for matrix products and along     *)
(* axes, apart from how the provider composes them.  Numbers are read as   *)
(* in ArithmeticOps and ReduceOps: integers have Bits bits, the sum of     *)
(* powers of two stands for LogSumExp, and the extremum of nothing is the  *)
(* least (greatest) value.                                                 *)
(***************************************************************************)
EXTENDS OperatorMeaning

\* The common shape of all inputs, extents counted from the right.
FromRight(s, k) == IF k <= Len(s) THEN s[Len(s) - k + 1] ELSE 1
CommonShape(shapes) ==
    LET n == CHOOSE r \in {Len(s) : s \in shapes} : \A s \in shapes : Len(s) <= r
        Dims(k) == {FromRight(s, n - k + 1) : s \in shapes} \ {1}
    IN IF \E k \in 1 .. n : Cardinality(Dims(k)) > 1 THEN Invalid.shape
       ELSE [k \in 1 .. n |-> IF Dims(k) = {} THEN 1 ELSE CHOOSE d \in Dims(k) : TRUE]
Under(t, i) == At(t, [k \in 1 .. Rank(t) |-> i[Len(i) - Rank(t) + k] % t.shape[k]])
ByElement(F(_, _), a, b) ==
    LET s == CommonShape({a.shape, b.shape})
    IN Legal(s # Invalid.shape, Tensor(s, LAMBDA i : F(Under(a, i), Under(b, i))))

Absolute(v) == IF v < 0 THEN -v ELSE v
Sgn(v) == IF v < 0 THEN -1 ELSE IF v > 0 THEN 1 ELSE 0
\* The value of the type that is congruent to v.
Reduced(type, v, bits) ==
    IF type = "float" THEN v
    ELSE CHOOSE w \in IF type = "int" THEN -(2 ^ (bits - 1)) .. 2 ^ (bits - 1) - 1 ELSE 0 .. 2 ^ bits - 1 :
           (w - v) % (2 ^ bits) = 0

BinaryMeaning(n, bits) ==
    LET F(a, b) ==
          CASE n.op = "Add" -> Reduced(n.dtype, a + b, bits)
            [] n.op = "Sub" -> Reduced(n.dtype, a - b, bits)
            [] n.op = "Mul" -> Reduced(n.dtype, a * b, bits)
            [] n.op = "Equal" -> IF a = b THEN 1 ELSE 0
            [] n.op = "Greater" -> IF a > b THEN 1 ELSE 0
            [] n.op = "Less" -> IF a < b THEN 1 ELSE 0
            [] n.op = "GreaterOrEqual" -> IF a >= b THEN 1 ELSE 0
            [] n.op = "LessOrEqual" -> IF a <= b THEN 1 ELSE 0
            [] n.op = "And" -> a * b
            [] n.op = "Or" -> IF a + b > 0 THEN 1 ELSE 0
            [] n.op = "Xor" -> (a + b) % 2
            [] n.op = "Div" -> Sgn(a) * Sgn(b) * (Absolute(a) \div Absolute(b))
            [] n.op = "BitShift" ->
                 LET Moved(k) == IF n.attr.direction = "LEFT" THEN a * (2 ^ k) ELSE a \div (2 ^ k)
                 IN Reduced(n.dtype, Moved(b), bits)
    IN IF n.op = "Div" /\ 0 \in Range(n.ins[2].data) THEN Invalid
       ELSE ByElement(F, n.ins[1], n.ins[2])

\* The remainder has the sign of the divisor, or with fmod that of the dividend.
ModMeaning(n) ==
    LET F(a, b) ==
          CHOOSE r \in -Absolute(b) + 1 .. Absolute(b) - 1 :
            /\ (a - r) % Absolute(b) = 0
            /\ Sgn(r) \in {0, IF IntAttr(n, "fmod", 0) = 1 THEN Sgn(a) ELSE Sgn(b)}
    IN IF 0 \in Range(n.ins[2].data) THEN Invalid ELSE ByElement(F, n.ins[1], n.ins[2])

VariadicMeaning(n, bits) ==
    LET s == CommonShape({n.ins[k].shape : k \in DOMAIN n.ins})
        Over(i) ==
          LET values == [k \in DOMAIN n.ins |-> Under(n.ins[k], i)] IN
          CASE n.op = "Max" -> CHOOSE v \in Range(values) : \A w \in Range(values) : w <= v
            [] n.op = "Min" -> CHOOSE v \in Range(values) : \A w \in Range(values) : v <= w
            [] n.op = "Sum" -> Total(values)
            [] n.op = "Mean" -> Total(values) \div Len(values)
    IN Legal(s # Invalid.shape, Tensor(s, Over))

ActivationMeaning(n) ==
    LET alpha == IntAttr(n, "alpha", 1)
        lambd == IntAttr(n, "lambd", 0)
        bias == IntAttr(n, "bias", 0)
        F(v) ==
          CASE n.op = "Relu" -> IF v >= 0 THEN v ELSE 0
            [] n.op = "LeakyRelu" -> IF v >= 0 THEN v ELSE alpha * v
            [] n.op = "ThresholdedRelu" -> IF v > alpha THEN v ELSE 0
            [] n.op = "Shrink" -> CASE v < -lambd -> v + bias
                                    [] v > lambd -> v - bias
                                    [] OTHER -> 0
            [] n.op = "HardSigmoid" -> Clamp(alpha * v + IntAttr(n, "beta", 0), 0, 1)
            [] n.op = "Sign" -> Sgn(v)
            [] n.op = "IsInf" ->
                 IF \/ v = Lowest /\ IntAttr(n, "detect_negative", 1) = 1
                    \/ v = Highest /\ IntAttr(n, "detect_positive", 1) = 1 THEN 1 ELSE 0
            [] n.op = "Clip" ->
                 LET lo == IF Present(n, 2) THEN n.ins[2].data[1] ELSE IntAttr(n, "min", Lowest)
                     hi == IF Present(n, 3) THEN n.ins[3].data[1] ELSE IntAttr(n, "max", Highest)
                 IN IF lo > hi THEN hi ELSE IF v < lo THEN lo ELSE IF v > hi THEN hi ELSE v
    IN Tensor(n.ins[1].shape, LAMBDA i : F(At(n.ins[1], i)))
PReluMeaning(n) ==
    LET x == n.ins[1] IN
    Legal(CommonShape({x.shape, n.ins[2].shape}) = x.shape,
          Tensor(x.shape, LAMBDA i :
            IF At(x, i) < 0 THEN Under(n.ins[2], i) * At(x, i) ELSE At(x, i)))

\* (-1)^s * 2^m to the power b, with the exponent laid over the base.
PowMeaning(n) ==
    LET a == n.ins[1]
        b == n.ins[2]
        axis == IntAttr(n, "axis", Rank(a) - Rank(b))
        laid == [k \in 1 .. Rank(a) |->
                   IF k \in axis + 1 .. axis + Rank(b) THEN b.shape[k - axis] ELSE 1]
        F(x, y) == <<x[1] /\ Absolute(y) % 2 = 1, x[2] * y>>
    IN CASE n.since >= 7 -> ByElement(F, a, b)
         [] n.since < 7 /\ IntAttr(n, "broadcast", 0) = 0 ->
              Legal(a.shape = b.shape, ByElement(F, a, b))
         [] OTHER -> Legal(axis >= 0 /\ axis + Rank(b) <= Rank(a)
                             /\ CommonShape({a.shape, laid}) = a.shape,
                           ByElement(F, a, [b EXCEPT !.shape = laid]))

SoftmaxMeaning(n) ==
    LET t == n.ins[1]
        a == IF n.since < 13 THEN Axis(n, "axis", 1, Rank(t)) ELSE Axis(n, "axis", -1, Rank(t))
        Run(i) == {j \in 1 .. Product(t.shape) :
                     \A k \in DOMAIN i : (k = a + 1 \/ (n.since < 13 /\ k > a))
                                           \/ Unravel(t.shape, j - 1)[k] = i[k]}
    IN Tensor(t.shape, LAMBDA i :
         <<2 ^ At(t, i), Total([j \in DOMAIN t.data |-> IF j \in Run(i) THEN 2 ^ t.data[j] ELSE 0])>>)
-----------------------------------------------------------------------------
\* The element at row r and column c of a matrix of a stack.
Element(t, batch, r, c) ==
    LET b == Rank(t) - 2 IN
    At(t, [k \in 1 .. b |-> batch[Len(batch) - b + k] % t.shape[k]] \o <<r, c>>)
ProductOf(a, b, alpha) ==
    LET x == IF Rank(a) = 1 THEN [a EXCEPT !.shape = <<1, a.shape[1]>>] ELSE a
        y == IF Rank(b) = 1 THEN [b EXCEPT !.shape = <<b.shape[1], 1>>] ELSE b
        batch == CommonShape({SubSeq(x.shape, 1, Rank(x) - 2), SubSeq(y.shape, 1, Rank(y) - 2)})
        rows == x.shape[Rank(x) - 1]
        cols == y.shape[Rank(y)]
        deep == y.shape[Rank(y) - 1]
        Sum(c, r, q) == Total([k \in 1 .. deep |-> Element(x, c, r, k - 1) * Element(y, c, k - 1, q)])
        full == Tensor(batch \o <<rows, cols>>, LAMBDA i :
                  alpha * Sum(SubSeq(i, 1, Len(batch)), i[Len(batch) + 1], i[Len(batch) + 2]))
    IN IF batch = Invalid.shape \/ x.shape[Rank(x)] # deep THEN Invalid
       ELSE [full EXCEPT !.shape = batch \o SelectSeq(<<IF Rank(a) = 1 THEN -1 ELSE rows,
                                                        IF Rank(b) = 1 THEN -1 ELSE cols>>,
                                                      LAMBDA d : d >= 0)]

\* transBatch: the first axis holds the rows (columns when transposed too), the
\* axes between it and the last are the batch.
Unfused(t, trans, transBatch) ==
    LET r == Rank(t)
        batch == IF transBatch THEN SubSeq(t.shape, 2, r - 1) ELSE SubSeq(t.shape, 1, r - 2)
        lead == IF transBatch THEN t.shape[1] ELSE t.shape[r - 1]
        From(c, u, v) == IF transBatch THEN At(t, <<u>> \o c \o <<v>>) ELSE At(t, c \o <<u, v>>)
    IN IF r < 2 THEN t
       ELSE IF trans THEN Tensor(batch \o <<t.shape[r], lead>>, LAMBDA i :
                            From(SubSeq(i, 1, r - 2), i[r], i[r - 1]))
            ELSE Tensor(batch \o <<lead, t.shape[r]>>, LAMBDA i :
                   From(SubSeq(i, 1, r - 2), i[r - 1], i[r]))
FusedMatmulMeaning(n) ==
    ProductOf(Unfused(n.ins[1], IntAttr(n, "transA", 0) = 1, IntAttr(n, "transBatchA", 0) = 1),
              Unfused(n.ins[2], IntAttr(n, "transB", 0) = 1, IntAttr(n, "transBatchB", 0) = 1),
              IntAttr(n, "alpha", 1))
WithAddend(n, y) ==
    IF y = Invalid \/ ~Present(n, 3) THEN y
    ELSE Legal(CommonShape({y.shape, n.ins[3].shape}) = y.shape,
               Tensor(y.shape, LAMBDA i : At(y, i) + IntAttr(n, "beta", 1) * Under(n.ins[3], i)))
GemmMeaning(n) ==
    WithAddend(n, ProductOf(Unfused(n.ins[1], IntAttr(n, "transA", 0) = 1, FALSE),
                            Unfused(n.ins[2], IntAttr(n, "transB", 0) = 1, FALSE), IntAttr(n, "alpha", 1)))

GroupedMatmulMeaning(n) ==
    LET x == n.ins[1]
        w == n.ins[2]
        e == n.ins[3]
        ok == /\ x.shape[1] = e.shape[1] /\ x.shape[2] = w.shape[2]
              /\ Range(e.data) \subseteq 0 .. w.shape[1] - 1
        Value(i) ==
          LET g == At(e, <<i[1], i[2]>>) IN
          Total([k \in 1 .. x.shape[2] |-> At(x, <<i[1], k - 1>>) * At(w, <<g, k - 1, i[3]>>)])
            + IF Present(n, 4) THEN At(n.ins[4], <<g, i[3]>>) ELSE 0
    IN Legal(ok, Tensor(<<x.shape[1], e.shape[2], w.shape[3]>>, Value))
CdistMeaning(n) ==
    LET a == n.ins[1]
        b == n.ins[2]
        D2(i, j, k) == (At(a, <<i, k>>) - At(b, <<j, k>>)) ^ 2
    IN Legal(a.shape[2] = b.shape[2],
             Tensor(<<a.shape[1], b.shape[1]>>, LAMBDA i :
               Total([k \in 1 .. a.shape[2] |-> D2(i[1], i[2], k - 1)])))
-----------------------------------------------------------------------------
\* The positions of t that fall on index i when some axes are ignored.
Fiber(t, axes, i) ==
    {p \in 1 .. Product(t.shape) :
       \A k \in (1 .. Rank(t)) \ axes : Unravel(t.shape, p - 1)[k] = i[k]}
Dropped(t, axes, keep) ==
    IF keep THEN t
    ELSE [t EXCEPT !.shape = LET on == SelectSeq([k \in 1 .. Rank(t) |-> k], LAMBDA k : k \notin axes)
                             IN [j \in DOMAIN on |-> t.shape[on[j]]]]
Extremum(S, Below(_, _), none) ==
    IF S = {} THEN none ELSE CHOOSE v \in S : \A w \in S : w = v \/ Below(w, v)

ReduceMeaning(n) ==
    LET t == n.ins[1]
        listed == IF Present(n, 2) THEN n.ins[2].data ELSE IntsAttr(n, "axes", <<>>)
        ok == \A k \in DOMAIN listed :
                /\ listed[k] \in -Rank(t) .. Rank(t) - 1
                /\ \A j \in DOMAIN listed : j # k => listed[j] % Rank(t) # listed[k] % Rank(t)
        noop == listed = <<>> /\ IntAttr(n, "noop_with_empty_axes", 0) = 1
        axes == IF noop THEN {}
                ELSE IF listed = <<>> THEN 1 .. Rank(t)
                ELSE {(listed[k] % Rank(t)) + 1 : k \in DOMAIN listed}
        keep == IntAttr(n, "keepdims", 1) = 1
        Sum(P, F(_)) == Total([p \in DOMAIN t.data |-> IF p \in P THEN F(t.data[p]) ELSE 0])
        Over(P) ==
          LET values == {t.data[p] : p \in P} IN
          CASE n.op = "ReduceSum" -> Sum(P, LAMBDA v : v)
            [] n.op = "ReduceSumSquare" -> Sum(P, LAMBDA v : v * v)
            [] n.op = "ReduceL1" -> Sum(P, LAMBDA v : IF v < 0 THEN -v ELSE v)
            [] n.op = "ReduceMean" -> Sum(P, LAMBDA v : v) \div Cardinality(P)
            [] n.op = "ReduceLogSumExp" -> IF P = {} THEN Lowest ELSE Sum(P, LAMBDA v : 2 ^ v)
            [] n.op = "ReduceMax" -> Extremum(values, LAMBDA a, b : a < b, Lowest)
            [] n.op = "ReduceMin" -> Extremum(values, LAMBDA a, b : a > b, Highest)
            [] n.op = "ReduceProd" ->
                 Product([p \in DOMAIN t.data |-> IF p \in P THEN t.data[p] ELSE 1])
        whole == [k \in 1 .. Rank(t) |-> IF k \in axes THEN 1 ELSE t.shape[k]]
    IN IF ~ok \/ (n.op = "ReduceMean" /\ 0 \in Range(t.shape)) THEN Invalid
       ELSE Dropped(Tensor(whole, LAMBDA i : Over(Fiber(t, axes, i))), axes, keep)

ArgMeaning(n) ==
    LET t == n.ins[1]
        a == Axis(n, "axis", 0, Rank(t)) + 1
        last == IntAttr(n, "select_last_index", 0) = 1
        V(i, j) == At(t, [i EXCEPT ![a] = j])
        Best(i) == {j \in 0 .. t.shape[a] - 1 : \A k \in 0 .. t.shape[a] - 1 :
                      IF n.op = "ArgMax" THEN V(i, j) >= V(i, k) ELSE V(i, j) <= V(i, k)}
        kept == Tensor([t.shape EXCEPT ![a] = 1], LAMBDA i :
                  CHOOSE j \in Best(i) : \A k \in Best(i) : IF last THEN k <= j ELSE j <= k)
    IN IF 0 \in Range(t.shape) THEN Invalid ELSE Dropped(kept, {a}, IntAttr(n, "keepdims", 1) = 1)

CumulateMeaning(n) ==
    LET t == n.ins[1]
        a == n.ins[2].data[1]
        d == (a % Rank(t)) + 1
        Taken(x, j) ==
          LET y == IF IntAttr(n, "reverse", 0) = 1 THEN -j ELSE j
              z == IF IntAttr(n, "reverse", 0) = 1 THEN -x ELSE x
          IN y < z \/ (y = z /\ IntAttr(n, "exclusive", 0) = 0)
        unit == IF n.op = "CumSum" THEN 0 ELSE 1
    IN IF a \notin -Rank(t) .. Rank(t) - 1 THEN Invalid
       ELSE Tensor(t.shape, LAMBDA i :
              LET run == [j \in 1 .. t.shape[d] |->
                            IF Taken(i[d], j - 1) THEN At(t, [i EXCEPT ![d] = j - 1]) ELSE unit]
              IN IF n.op = "CumSum" THEN Total(run) ELSE Product(run))

\* One at the first of the largest elements of each run, nought elsewhere.
HardmaxMeaning(n) ==
    LET t == n.ins[1]
        a == IF n.since < 13 THEN Axis(n, "axis", 1, Rank(t)) ELSE Axis(n, "axis", -1, Rank(t))
        axes == IF n.since < 13 THEN a + 1 .. Rank(t) ELSE {a + 1}
    IN Tensor(t.shape, LAMBDA i :
         LET run == Fiber(t, axes, i)
             best == {p \in run : \A q \in run : t.data[q] <= t.data[p]}
             first == CHOOSE p \in best : \A q \in best : p <= q
         IN IF Ravel(t.shape, i) + 1 = first THEN 1 ELSE 0)

\* The k best of each run in order, equal ones by position.
TopKMeaning(n) ==
    LET t == n.ins[1]
        a == Axis(n, "axis", -1, Rank(t)) + 1
        k == IF n.since < 10 THEN IntAttr(n, "k", 0) ELSE n.ins[2].data[1]
        V(i, j) == At(t, [i EXCEPT ![a] = j])
        Ahead(i, j, m) ==
          IF V(i, j) = V(i, m) THEN j < m
          ELSE (V(i, j) > V(i, m)) = (IntAttr(n, "largest", 1) = 1)
        Place(i) == CHOOSE j \in 0 .. t.shape[a] - 1 :
                      Cardinality({m \in 0 .. t.shape[a] - 1 : Ahead(i, m, j)}) = i[a]
        shape == [t.shape EXCEPT ![a] = k]
    IN IF k \notin 1 .. t.shape[a] THEN <<Invalid>>
       ELSE <<Tensor(shape, LAMBDA i : V(i, Place(i))), Tensor(shape, Place)>>
=============================================================================
