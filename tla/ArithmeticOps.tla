----------------------------- MODULE ArithmeticOps -----------------------------
(***************************************************************************)
(* Operators that work element by element (rust/src/ops/elementwise.rs,    *)
(* math.rs): broadcasting, integer division, shifts and powers, bounds and *)
(* piecewise-linear activations, Softmax.  n.dtype is "int" or "uint",     *)
(* of Bits bits, or "float", whose values here are integers.  A softmax    *)
(* element is its power of two and the sum of its run; a base of Pow is    *)
(* its sign and the power of two that it is.                               *)
(***************************************************************************)
EXTENDS NodeViews

Bits == 4
Span == 2 ^ Bits
Minimal == -(Span \div 2)
ToType(dtype, v) ==
    CASE dtype = "uint" -> v % Span
      [] dtype = "int" -> ((v - Minimal) % Span) + Minimal
      [] dtype = "float" -> v

\* MLX's integer quotient rounds down and its remainder has the divisor's sign;
\* the least signed integer over minus one overflows.
FloorDiv(a, b) == IF b > 0 THEN a \div b ELSE (-a) \div (-b)
MlxRemainder(a, b) ==
    IF b = 0 \/ (a = Minimal /\ b = -1) THEN Garbage ELSE a - b * FloorDiv(a, b)
MlxFloorDivide(a, b) ==
    IF b = 0 \/ (a = Minimal /\ b = -1) THEN Garbage ELSE FloorDiv(a, b)
MlxMap(Op(_), t) == [shape |-> t.shape, data |-> [k \in DOMAIN t.data |-> Op(t.data[k])]]
One(b) == IF b THEN 1 ELSE 0

Arithmetic == {"Add", "Sub", "Mul"}
Comparisons == {"Equal", "Greater", "Less", "GreaterOrEqual", "LessOrEqual"}
Logical == {"And", "Or", "Xor"}
Primitive(op, a, b) ==
    CASE op = "Add" -> a + b
      [] op = "Sub" -> a - b
      [] op = "Mul" -> a * b
      [] op = "Equal" -> One(a = b)
      [] op = "Greater" -> One(a > b)
      [] op = "Less" -> One(a < b)
      [] op = "GreaterOrEqual" -> One(a >= b)
      [] op = "LessOrEqual" -> One(a <= b)
      [] op = "And" -> One(a # 0 /\ b # 0)
      [] op = "Or" -> One(a # 0 \/ b # 0)
      [] op = "Xor" -> One(a # b)
      [] op = "Max" -> Larger(a, b)
      [] op = "Min" -> Smaller(a, b)
      [] op \in {"Sum", "Mean"} -> a + b
-----------------------------------------------------------------------------
Binary(n) ==
    MlxBinary(LAMBDA a, b : ToType(n.dtype, Primitive(n.op, a, b)), n.ins[1], n.ins[2])

Variadic(n) ==
    LET folded == FoldLeft(LAMBDA acc, x :
                    IF acc = Refused THEN acc
                    ELSE MlxBinary(LAMBDA a, b : ToType(n.dtype, Primitive(n.op, a, b)), acc, x),
                    n.ins[1], Tail(n.ins))
    IN IF n.op = "Mean" /\ folded # Refused
       THEN MlxMap(LAMBDA v : v \div Len(n.ins), folded) ELSE folded

\* Mutant: the quotient stays rounded down.
FlooredDiv(n) == MlxBinary(MlxFloorDivide, n.ins[1], n.ins[2])
Div(n) ==
    LET Truncated(a, b) ==
          LET q == MlxFloorDivide(a, b)
              inexact == MlxRemainder(a, b) # 0 /\ (a < 0) # (b < 0)
          IN IF q = Garbage THEN q ELSE q + One(inexact)
    IN MlxBinary(Truncated, n.ins[1], n.ins[2])

\* Integers: no divisor is zero, and minus one is replaced by one.  Floats: the
\* remainder of the magnitudes, with the sign of the dividend.
Mod(n) ==
    LET b == n.ins[2]
        fmod == IntAttr(n, "fmod", 0) = 1
        Whole(x, y) ==
          LET d == IF n.dtype = "int" /\ y = -1 THEN 1 ELSE y
              r == MlxRemainder(x, d)
              adjust == (x < 0) # (d < 0) /\ r # 0
          IN IF fmod /\ n.dtype = "int" /\ adjust THEN r - d ELSE r
        Real(x, y) ==
          LET magnitude == MlxRemainder(IF x < 0 THEN -x ELSE x, IF y < 0 THEN -y ELSE y)
          IN IF x < 0 THEN -magnitude ELSE magnitude
    IN CASE n.dtype # "float" /\ 0 \in Range(b.data) -> Refused
         [] n.dtype # "float" /\ 0 \notin Range(b.data) -> MlxBinary(Whole, n.ins[1], b)
         [] OTHER -> MlxBinary(Real, n.ins[1], b)

\* A right shift of a negative integer keeps its sign.
BitShift(n) ==
    MlxBinary(LAMBDA a, b : IF StringAttr(n, "direction", "LEFT") = "LEFT"
                            THEN ToType(n.dtype, a * (2 ^ b)) ELSE a \div (2 ^ b),
              n.ins[1], n.ins[2])

\* Lowest and Highest are the infinities.
IsInf(n) ==
    LET below == IntAttr(n, "detect_negative", 1) # 0
        above == IntAttr(n, "detect_positive", 1) # 0
        Infinite(v) == v \in {Lowest, Highest}
        Asked(v) == CASE below /\ above -> Infinite(v)
                       [] below /\ ~above -> Infinite(v) /\ v < 0
                       [] ~below /\ above -> Infinite(v) /\ v > 0
                       [] ~below /\ ~above -> v # v
    IN MlxMap(LAMBDA v : One(Asked(v)), n.ins[1])

\* A bound is an input, else an attribute, else left out.
Clip(n) ==
    LET x == n.ins[1]
        Bound(t, i, name, Op(_, _)) ==
          CASE Present(n, i) -> MlxBinary(Op, t, n.ins[i])
            [] ~Present(n, i) /\ Has(n, name) -> MlxBinary(Op, t, Scalar(n.attr[name]))
            [] OTHER -> t
    IN Bound(Bound(x, 2, "min", Larger), 3, "max", Smaller)

Activations == {"Relu", "LeakyRelu", "ThresholdedRelu", "Shrink", "HardSigmoid", "Sign"}
Activate(n) ==
    LET alpha == IntAttr(n, "alpha", 1)
        lambd == IntAttr(n, "lambd", 0)
        bias == IntAttr(n, "bias", 0)
        F(v) == CASE n.op = "Relu" -> Larger(v, 0)
                  [] n.op = "LeakyRelu" -> Larger(v, 0) + alpha * Smaller(v, 0)
                  [] n.op = "ThresholdedRelu" -> IF v > alpha THEN v ELSE 0
                  [] n.op = "Shrink" ->
                       IF v < -lambd THEN v + bias ELSE IF v > lambd THEN v - bias ELSE 0
                  [] n.op = "HardSigmoid" ->
                       Smaller(Larger(v * alpha + IntAttr(n, "beta", 0), 0), 1)
                  [] n.op = "Sign" -> One(v > 0) - One(v < 0)
    IN MlxMap(F, n.ins[1])
PRelu(n) ==
    LET x == n.ins[1] IN
    MlxWhere(MlxMap(LAMBDA v : One(v < 0), x),
             MlxBinary(LAMBDA s, v : s * v, n.ins[2], x), x)
-----------------------------------------------------------------------------
\* The exponent in three chunks of ChunkBits, of a complement when negative.
ChunkBits == 2
PowInteger(base, b) ==
    LET negative == b < 0
        magnitude == IF negative THEN -b - 1 ELSE b
        m == base[2]
        Chunk(shift) == (magnitude \div (2 ^ shift)) % (2 ^ ChunkBits)
        Factor(shift) == (IF negative THEN -1 ELSE 1) * Chunk(shift) * (2 ^ shift) * m
        shifts == <<0, ChunkBits, 2 * ChunkBits>>
    IN <<base[1] /\ b % 2 # 0,
         (IF negative THEN -m ELSE 0) + Total([k \in 1 .. 3 |-> Factor(shifts[k])])>>

\* Before version 7 the exponent is laid over the axes of the base from axis on.
Pow(n) ==
    LET a == n.ins[1]
        b == n.ins[2]
        last == Rank(a) - Rank(b)
        axis == IntAttr(n, "axis", last)
        laid == [k \in 1 .. Rank(a) |->
                   IF k - axis \in 1 .. Rank(b) THEN b.shape[k - axis] ELSE 1]
        aligned == [b EXCEPT !.shape = Tabulated(laid)]
        spread == IntAttr(n, "broadcast", 0) # 0
    IN CASE n.since >= 7 -> MlxBinary(PowInteger, a, b)
         [] n.since < 7 /\ ~spread ->
              IF a.shape # b.shape THEN Refused ELSE MlxBinary(PowInteger, a, b)
         [] n.since < 7 /\ spread ->
              IF \/ last < 0 \/ axis \notin 0 .. last
                 \/ \E k \in 1 .. Rank(a) : laid[k] \notin {1, a.shape[k]}
              THEN Refused ELSE MlxBinary(PowInteger, a, aligned)

\* The powers of two of a run and their sum, over one axis or, before version 13,
\* over all from it on.
SoftmaxAxis(n, rank) == NormAxis(IntAttr(n, "axis", IF n.since >= 13 THEN -1 ELSE 1), rank)
Softmax(n) ==
    LET t == n.ins[1]
        axis == SoftmaxAxis(n, Rank(t))
        axes == IF n.since >= 13 \/ axis = Rank(t) - 1 THEN {axis} ELSE axis .. Rank(t) - 1
        Run(i) == {p \in 1 .. Product(t.shape) :
                     \A k \in DOMAIN i : k - 1 \in axes \/ Unravel(t.shape, p - 1)[k] = i[k]}
    IN Tensor(t.shape, LAMBDA i :
         <<2 ^ At(t, i), Total([p \in DOMAIN t.data |-> IF p \in Run(i) THEN 2 ^ t.data[p] ELSE 0])>>)
-----------------------------------------------------------------------------
\* A scalar, or trailing extents that agree as far as they are known.
ScalarOrSuffix(a, b) ==
    LET off == Smaller(Len(a), Len(b))
        A(k) == a[Len(a) - off + k]
        B(k) == b[Len(b) - off + k]
    IN \A k \in 1 .. off : A(k) < 0 \/ B(k) < 0 \/ A(k) = B(k) \/ 1 \in {A(k), B(k)}

BinaryClaim(n) == n.typed /\ ScalarOrSuffix(View(n, 1), View(n, 2))
VariadicClaim(n, out) ==
    /\ n.typed
    /\ n.op \in {"Sum", "Mean"} => n.dtype = "float"
    /\ \A i \in DOMAIN n.ins : ScalarOrSuffix(View(n, i), out)
ModClaim(n) ==
    /\ BinaryClaim(n)
    /\ n.since \in 10 .. 27
    /\ CASE IntAttr(n, "fmod", 0) = 0 -> n.dtype # "float"
         [] IntAttr(n, "fmod", 0) = 1 -> n.dtype = "float" \/ n.since < 13
         [] OTHER -> FALSE
BitShiftClaim(n) ==
    /\ BinaryClaim(n)
    /\ n.dtype = "uint" \/ (n.since >= 28 /\ n.dtype = "int")
    /\ StringAttr(n, "direction", "") \in {"LEFT", "RIGHT"}
IsInfClaim(n, out) ==
    /\ n.typed /\ View(n, 1) = out
    /\ IntAttr(n, "detect_negative", 1) \in {0, 1} /\ IntAttr(n, "detect_positive", 1) \in {0, 1}
PReluClaim(n, out) ==
    LET x == View(n, 1)
        s == View(n, 2)
    IN /\ n.typed /\ x = out /\ Len(s) <= Len(x)
       /\ \A k \in DOMAIN s : s[k] \in {1, x[Len(x) - Len(s) + k]}
PowClaim(n) ==
    LET a == View(n, 1)
        b == View(n, 2)
        axis == IntAttr(n, "axis", Len(a) - Len(b))
    IN /\ n.typed
       /\ CASE n.since >= 7 -> ScalarOrSuffix(a, b)
            [] n.since < 7 /\ IntAttr(n, "broadcast", 0) = 0 -> a = b
            [] n.since < 7 /\ IntAttr(n, "broadcast", 0) = 1 ->
                 /\ Len(b) <= Len(a) /\ axis \in 0 .. Len(a) - Len(b)
                 /\ \A k \in DOMAIN b : b[k] < 0 \/ a[axis + k] < 0 \/ b[k] \in {1, a[axis + k]}
            [] OTHER -> FALSE
SoftmaxClaim(n) ==
    LET x == View(n, 1) IN n.typed /\ x # <<>> /\ SoftmaxAxis(n, Len(x)) \in 0 .. Len(x) - 1

SoftmaxShapeless(n) ==
    n.since >= 13 \/ SoftmaxAxis(n, Len(View(n, 1))) = Len(View(n, 1)) - 1
PowShapeless(n) == n.since >= 7

\* What a trace holds fixed: the axis counted from the front and the rank it ends at;
\* how an old exponent is laid over its base.
SoftmaxFrozen(n) == <<SoftmaxAxis(n, Rank(n.ins[1])), Rank(n.ins[1])>>
PowFrozen(n) == IF n.since < 7 THEN <<Rank(n.ins[1]), n.ins[2].shape>> ELSE <<>>
-----------------------------------------------------------------------------
Binaries == Arithmetic \cup Comparisons \cup Logical
Variadics == {"Max", "Min", "Sum", "Mean"}
ArithmeticOperators ==
    Binaries \cup Variadics \cup Activations
      \cup {"Div", "Mod", "BitShift", "IsInf", "Clip", "PRelu", "Pow", "Softmax", "LogSoftmax"}
ArithmeticClaim(n, out) ==
    CASE n.op \in Binaries \cup {"Div"} -> BinaryClaim(n)
      [] n.op \in Variadics -> VariadicClaim(n, out)
      [] n.op \in Activations \cup {"Clip"} -> n.typed
      [] n.op = "Mod" -> ModClaim(n)
      [] n.op = "BitShift" -> BitShiftClaim(n)
      [] n.op = "IsInf" -> IsInfClaim(n, out)
      [] n.op = "PRelu" -> PReluClaim(n, out)
      [] n.op = "Pow" -> PowClaim(n)
      [] n.op \in {"Softmax", "LogSoftmax"} -> SoftmaxClaim(n)
ArithmeticTranslate(n) ==
    CASE n.op \in Binaries -> Binary(n)
      [] n.op \in Variadics -> Variadic(n)
      [] n.op \in Activations -> Activate(n)
      [] n.op = "Div" -> Div(n)
      [] n.op = "Mod" -> Mod(n)
      [] n.op = "BitShift" -> BitShift(n)
      [] n.op = "IsInf" -> IsInf(n)
      [] n.op = "Clip" -> Clip(n)
      [] n.op = "PRelu" -> PRelu(n)
      [] n.op = "Pow" -> Pow(n)
      [] n.op \in {"Softmax", "LogSoftmax"} -> Softmax(n)
=============================================================================
