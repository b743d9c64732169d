------------------------------- MODULE MatmulOps -------------------------------
(***************************************************************************)
(* Matrix products (rust/src/ops/matmul.rs): MatMul, Gemm, FusedMatMul     *)
(* with its batch transposition, GroupedMatMul over experts, and CDist,    *)
(* which the provider computes on the host.  Attributes alpha and beta are *)
(* integers.  That FusedMatMul widens halves is rounding, left out.        *)
(***************************************************************************)
EXTENDS NodeViews

\* A vector on the left is a row, on the right a column; batches broadcast.
Dot(x, y, i, deep) ==
    LET c == SubSeq(i, 1, Len(i) - 2) IN
    Total([k \in 1 .. deep |-> Spread(x, c \o <<i[Len(i) - 1], k - 1>>) * Spread(y, c \o <<k - 1, i[Len(i)]>>)])
\* Stacks of matrices, whose leading axes have the shape batch together.
StackedMatmul(x, y, batch) ==
    IF batch = Refused.shape \/ x.shape[Rank(x)] # y.shape[Rank(y) - 1] THEN Refused
    ELSE Tensor(batch \o <<x.shape[Rank(x) - 1], y.shape[Rank(y)]>>, LAMBDA i : Dot(x, y, i, x.shape[Rank(x)]))
MatrixMatmul(x, y) ==
    StackedMatmul(x, y, Joined(SubSeq(x.shape, 1, Rank(x) - 2), SubSeq(y.shape, 1, Rank(y) - 2)))
\* A vector is a matrix of one row on the left, of one column on the right.
LessVectors(y, rowless, columnless) ==
    IF y = Refused THEN y
    ELSE [y EXCEPT !.shape = SubSeq(@, 1, Len(@) - 2) \o (IF rowless THEN <<>> ELSE <<@[Len(@) - 1]>>)
                                                     \o (IF columnless THEN <<>> ELSE <<@[Len(@)]>>)]
MlxMatmul(a, b) ==
    IF <<>> \in {a.shape, b.shape} THEN Refused
    ELSE LessVectors(
           MatrixMatmul(IF Rank(a) = 1 THEN [a EXCEPT !.shape = <<1>> \o @] ELSE a,
                        IF Rank(b) = 1 THEN [b EXCEPT !.shape = @ \o <<1>>] ELSE b),
           Rank(a) = 1, Rank(b) = 1)
Scaled(t, by) == [t EXCEPT !.data = [k \in DOMAIN t.data |-> t.data[k] * by]]
Added(a, b) == MlxBinary(LAMBDA x, y : x + y, a, b)
-----------------------------------------------------------------------------
\* An empty product is materialized anew, with the same shape.
Matmul(n) == MlxMatmul(n.ins[1], n.ins[2])

Flipped(t) == MlxTranspose(t, <<1, 0>>)
WithC(n, y) ==
    IF Present(n, 3) /\ y # Refused
    THEN Added(Scaled(y, IntAttr(n, "alpha", 1)), Scaled(n.ins[3], IntAttr(n, "beta", 1)))
    ELSE Scaled(y, IntAttr(n, "alpha", 1))
Gemm(n) ==
    WithC(n, MlxMatmul(IF IntAttr(n, "transA", 0) # 0 THEN Flipped(n.ins[1]) ELSE n.ins[1],
                       IF IntAttr(n, "transB", 0) # 0 THEN Flipped(n.ins[2]) ELSE n.ins[2]))

FusedMatmulAxes(rank, trans, transBatch) ==
    LET plain == Iota(rank)
        rotated == IF transBatch THEN SubSeq(plain, 2, rank - 1) \o <<0, rank - 1>> ELSE plain
    IN IF trans THEN [rotated EXCEPT ![rank - 1] = rotated[rank], ![rank] = rotated[rank - 1]]
       ELSE rotated
FusedMatmul(n) ==
    LET Batch(s) == IntAttr(n, IF s = 1 THEN "transBatchA" ELSE "transBatchB", 0) # 0
        Trans(s) == IntAttr(n, IF s = 1 THEN "transA" ELSE "transB", 0) # 0
        R(s) == Rank(n.ins[s])
        Side(s) == IF R(s) >= 2 /\ (Trans(s) \/ Batch(s))
                   THEN MlxTranspose(n.ins[s], FusedMatmulAxes(R(s), Trans(s), Batch(s)))
                   ELSE n.ins[s]
    IN IF (Batch(1) \/ Batch(2)) /\ (R(1) < 3 \/ R(1) # R(2)) THEN Refused
       ELSE Scaled(MlxMatmul(Side(1), Side(2)), IntAttr(n, "alpha", 1))

\* x, the experts' weights, the experts of each row, and a bias for each expert.
Agree(a, b) == a < 0 \/ b < 0 \/ a = b
GroupedGeometry(x, w, indices, bias, out) ==
    /\ Len(x) = 2 /\ Len(w) = 3 /\ Len(indices) = 2
    /\ Agree(x[1], indices[1]) /\ Agree(x[2], w[2])
    /\ bias # None => Len(bias) = 2 /\ Agree(bias[1], w[1]) /\ Agree(bias[2], w[3])
    /\ out # None =>
         Len(out) = 3 /\ Agree(out[1], x[1]) /\ Agree(out[2], indices[2]) /\ Agree(out[3], w[3])
GroupedProduct(x, w, e) ==
    IF 0 \in {x.shape[1], e.shape[2], w.shape[3], x.shape[2]}
    THEN MlxFull(<<x.shape[1], e.shape[2], w.shape[3]>>, 0)
    ELSE MlxReshape(MlxMatmul(MlxReshape(x, <<x.shape[1], 1, 1, x.shape[2]>>), MlxTake(w, e, 0)),
                    <<x.shape[1], e.shape[2], w.shape[3]>>)
GroupedMatmul(n) ==
    LET x == n.ins[1]
        w == n.ins[2]
        e == n.ins[3]
        bias == IF Present(n, 4) THEN n.ins[4].shape ELSE None
    IN CASE \/ ~GroupedGeometry(x.shape, w.shape, e.shape, bias, None)
            \/ \E k \in DOMAIN e.data : e.data[k] \notin 0 .. w.shape[1] - 1 -> Refused
         [] bias = None \/ 0 \in {x.shape[1], e.shape[2], w.shape[3]} -> GroupedProduct(x, w, e)
         [] OTHER -> Added(GroupedProduct(x, w, e), MlxTake(n.ins[4], e, 0))


\* The squared distance of each row of a from each row of b.
CdistGeometry(a, b, out) ==
    /\ Len(a) = 2 /\ Len(b) = 2 /\ Agree(a[2], b[2])
    /\ out # None => Len(out) = 2 /\ Agree(out[1], a[1]) /\ Agree(out[2], b[1])
Cdist(n) ==
    LET a == n.ins[1]
        b == n.ins[2]
        f == a.shape[2]
        Square(v) == v * v
    IN IF ~CdistGeometry(a.shape, b.shape, None) THEN Refused
       ELSE Tensor(<<a.shape[1], b.shape[1]>>, LAMBDA i :
              Total([k \in 1 .. f |-> Square(a.data[i[1] * f + k] - b.data[i[2] * f + k])]))
-----------------------------------------------------------------------------
MatmulClaim(n) == n.typed /\ View(n, 1) # <<>> /\ View(n, 2) # <<>>
GemmClaim(n) ==
    /\ n.typed /\ Len(View(n, 1)) = 2 /\ Len(View(n, 2)) = 2
    /\ Present(n, 3) => Len(View(n, 3)) <= 2
FusedMatmulClaim(n) ==
    /\ MatmulClaim(n)
    /\ IntAttr(n, "transBatchA", 0) # 0 \/ IntAttr(n, "transBatchB", 0) # 0 =>
         Len(View(n, 1)) >= 3 /\ Len(View(n, 1)) = Len(View(n, 2))
GroupedClaim(n, out) ==
    n.typed /\ GroupedGeometry(View(n, 1), View(n, 2), View(n, 3),
                               IF Present(n, 4) THEN View(n, 4) ELSE None, out)
CdistClaim(n, out) == n.typed /\ CdistGeometry(View(n, 1), View(n, 2), out)

MatmulOperators == {"MatMul", "Gemm", "FusedMatMul", "GroupedMatMul", "CDist"}
ProductClaim(n, out) ==
    CASE n.op = "MatMul" -> MatmulClaim(n)
      [] n.op = "Gemm" -> GemmClaim(n)
      [] n.op = "FusedMatMul" -> FusedMatmulClaim(n)
      [] n.op = "GroupedMatMul" -> GroupedClaim(n, out)
      [] n.op = "CDist" -> CdistClaim(n, out)
ProductTranslate(n) ==
    CASE n.op = "MatMul" -> Matmul(n)
      [] n.op = "Gemm" -> Gemm(n)
      [] n.op = "FusedMatMul" -> FusedMatmul(n)
      [] n.op = "GroupedMatMul" -> GroupedMatmul(n)
      [] n.op = "CDist" -> Cdist(n)
=============================================================================
