------------------------------ MODULE MlxArrays ------------------------------
(***************************************************************************)
(* The MLX primitives that the operator handlers are composed of, modelled *)
(* from how the handlers use them.  A tensor is its shape and its elements *)
(* in row-major order; a primitive is described by which element it puts   *)
(* at each index.  A primitive that refuses its arguments is Refused; one  *)
(* that reads or writes outside an array, which MLX does not check, leaves *)
(* Garbage.                                                                *)
(***************************************************************************)
EXTENDS Integers, Sequences, SequencesExt, FiniteSets

Garbage == -999
\* Minus and plus infinity.
Lowest == -1000000
Highest == 1000000
Refused == [shape |-> <<-1>>, data |-> <<>>]

\* Wrappers of the community folds, which take the accumulator last.
Product(shape) == FoldLeft(LAMBDA a, b : a * b, 1, shape)
Total(seq) == FoldLeft(LAMBDA a, b : a + b, 0, seq)
Smaller(a, b) == IF a < b THEN a ELSE b
Larger(a, b) == IF a > b THEN a ELSE b
Clamp(v, lo, hi) == Smaller(hi, Larger(lo, v))
CeilDiv(a, b) == (a + b - 1) \div b
Const(n, v) == [i \in 1 .. n |-> v]
Iota(n) == SubSeq([i \in 1 .. n |-> i - 1], 1, n)
Rank(t) == Len(t.shape)

\* Row-major positions, from zero; an index is a sequence of coordinates.
Strides(shape) ==
    [k \in DOMAIN shape |-> Product(SubSeq(shape, k + 1, Len(shape)))]
Ravel(shape, idx) ==
    FoldLeft(LAMBDA p, e : p * e[1] + e[2], 0, [k \in DOMAIN shape |-> <<shape[k], idx[k]>>])
Unravel(shape, n) ==
    [k \in DOMAIN shape |-> (n \div Product(SubSeq(shape, k + 1, Len(shape)))) % shape[k]]
Within(shape, idx) == \A k \in DOMAIN shape : idx[k] \in 0 .. shape[k] - 1

\* The sequence itself, element by element.
Tabulated(seq) == SubSeq(seq, 1, Len(seq))

\* The tensor with element Op(index) at each index, and its elements.
Tensor(shape, Op(_)) ==
    [shape |-> Tabulated(shape),
     data |-> Tabulated([i \in 1 .. Product(shape) |-> Op(Unravel(shape, i - 1))])]
At(t, idx) ==
    IF Within(t.shape, idx) THEN t.data[Ravel(t.shape, idx) + 1] ELSE Garbage
Vector(values) == [shape |-> <<Len(values)>>, data |-> values]
Scalar(v) == [shape |-> <<>>, data |-> <<v>>]

\* Reads, broadcasting from the right.
Spread(t, idx) ==
    At(t, [k \in 1 .. Rank(t) |->
             IF t.shape[k] = 1 THEN 0 ELSE idx[Len(idx) - Rank(t) + k]])

\* The common shape of two shapes, or Refused.shape.
Joined(a, b) ==
    LET n == Larger(Len(a), Len(b))
        Dim(s, k) == IF k <= n - Len(s) THEN 1 ELSE s[k - (n - Len(s))]
    IN IF \A k \in 1 .. n : Dim(a, k) = Dim(b, k) \/ 1 \in {Dim(a, k), Dim(b, k)}
       THEN [k \in 1 .. n |-> IF Dim(a, k) = 1 THEN Dim(b, k) ELSE Dim(a, k)]
       ELSE Refused.shape
-----------------------------------------------------------------------------
\* -1 stands for what the other extents leave.
MlxReshape(t, shape) ==
    LET known == Product(SelectSeq(shape, LAMBDA d : d # -1))
        full == [k \in DOMAIN shape |->
                   IF shape[k] = -1 /\ known # 0
                   THEN Product(t.shape) \div known ELSE shape[k]]
        guesses == Cardinality({k \in DOMAIN shape : shape[k] = -1})
    IN IF /\ guesses <= 1
          /\ \A k \in DOMAIN full : full[k] >= 0
          /\ Product(full) = Product(t.shape)
       THEN [shape |-> Tabulated(full), data |-> t.data]
       ELSE Refused

\* perm holds axes from zero.
MlxTranspose(t, perm) ==
    Tensor([k \in DOMAIN perm |-> t.shape[perm[k] + 1]],
           LAMBDA i : At(t, [a \in 1 .. Rank(t) |->
                               i[CHOOSE k \in DOMAIN perm : perm[k] = a - 1]]))

MlxBroadcastTo(t, shape) ==
    IF Joined(t.shape, shape) = shape
    THEN Tensor(shape, LAMBDA i : Spread(t, i)) ELSE Refused

\* Element by element, over the common shape.
MlxBinary(Op(_, _), a, b) ==
    LET shape == Joined(a.shape, b.shape) IN
    IF shape = Refused.shape THEN Refused
    ELSE Tensor(shape, LAMBDA i : Op(Spread(a, i), Spread(b, i)))
WhereOver(c, x, y, shape) ==
    IF shape = Refused.shape THEN Refused
    ELSE Tensor(shape, LAMBDA i : IF Spread(c, i) # 0 THEN Spread(x, i) ELSE Spread(y, i))
JoinedWith(shape, s) == IF shape = Refused.shape THEN shape ELSE Joined(s, shape)
MlxWhere(c, x, y) == WhereOver(c, x, y, JoinedWith(Joined(x.shape, y.shape), c.shape))

\* axis counts from zero.
MlxTake(t, indices, axis) ==
    LET r == Rank(indices) IN
    Tensor(SubSeq(t.shape, 1, axis) \o indices.shape
             \o SubSeq(t.shape, axis + 2, Rank(t)),
           LAMBDA i : At(t, SubSeq(i, 1, axis)
                            \o <<At(indices, SubSeq(i, axis + 1, axis + r))>>
                            \o SubSeq(i, axis + r + 1, Len(i))))

\* The indices and the array are broadcast together on every other axis.
MlxTakeAlong(t, indices, axis) ==
    LET Flat(s) == [s EXCEPT ![axis + 1] = 1]
        shape == Joined(Flat(t.shape), Flat(indices.shape))
    IN IF Rank(t) # Rank(indices) \/ shape = Refused.shape THEN Refused
       ELSE Tensor([shape EXCEPT ![axis + 1] = indices.shape[axis + 1]],
                   LAMBDA i : Spread(t, [i EXCEPT ![axis + 1] = Spread(indices, i)]))

\* Writes in row-major order of the indices: the last one stays.
MlxPutAlong(t, indices, values, axis) ==
    LET At1(i) == [i EXCEPT ![axis + 1] = At(indices, i)]
        Hits(i) == {n \in 1 .. Product(indices.shape) :
                      At1(Unravel(indices.shape, n - 1)) = i}
        Flat(s) == [s EXCEPT ![axis + 1] = 1]
    IN IF Flat(t.shape) # Flat(indices.shape) \/ values.shape # indices.shape
       THEN Refused
       ELSE Tensor(t.shape, LAMBDA i :
              IF Hits(i) = {} THEN At(t, i)
              ELSE values.data[CHOOSE n \in Hits(i) : \A m \in Hits(i) : m <= n])

\* start, stop and step for each axis, with a positive step.
MlxSlice(t, start, stop, step) ==
    Tensor([k \in 1 .. Rank(t) |->
              Larger(0, CeilDiv(stop[k] - start[k], step[k]))],
           LAMBDA i : At(t, [k \in 1 .. Rank(t) |-> start[k] + i[k] * step[k]]))
MlxSliceUpdate(t, update, start, stop) ==
    Tensor(t.shape, LAMBDA i :
      IF \A k \in DOMAIN i : i[k] \in start[k] .. stop[k] - 1
      THEN At(update, [k \in DOMAIN i |-> i[k] - start[k]]) ELSE At(t, i))

\* low and high for each axis.
MlxPad(t, low, high, value) ==
    Tensor([k \in 1 .. Rank(t) |-> low[k] + t.shape[k] + high[k]],
           LAMBDA i : LET j == [k \in DOMAIN i |-> i[k] - low[k]]
                      IN IF Within(t.shape, j) THEN At(t, j) ELSE value)

\* The parts of t between cut points of an axis, and parts joined along one.
MlxSplit(t, cuts, axis) ==
    LET ends == <<0>> \o cuts \o <<t.shape[axis + 1]>> IN
    [p \in 1 .. Len(cuts) + 1 |->
       MlxSlice(t, [k \in 1 .. Rank(t) |-> IF k = axis + 1 THEN ends[p] ELSE 0],
                [k \in 1 .. Rank(t) |-> IF k = axis + 1 THEN ends[p + 1] ELSE t.shape[k]],
                Const(Rank(t), 1))]
MlxConcat(parts, axis) ==
    LET Flat(t) == [t.shape EXCEPT ![axis + 1] = 1]
        Extent(p) == parts[p].shape[axis + 1]
        Before(p) == Total([q \in 1 .. p - 1 |-> Extent(q)])
        whole == Before(Len(parts) + 1)
    IN IF \E p \in DOMAIN parts : Rank(parts[p]) # Rank(parts[1])
                                  \/ Flat(parts[p]) # Flat(parts[1])
       THEN Refused
       ELSE Tensor([parts[1].shape EXCEPT ![axis + 1] = whole], LAMBDA i :
              LET x == i[axis + 1]
                  p == CHOOSE q \in DOMAIN parts :
                         x \in Before(q) .. Before(q) + Extent(q) - 1
              IN At(parts[p], [i EXCEPT ![axis + 1] = x - Before(p)]))
MlxArange(n) == Vector(Iota(n))
MlxFull(shape, v) == Tensor(shape, LAMBDA i : v)
=============================================================================
