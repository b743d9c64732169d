------------------------------ MODULE MCOperators ------------------------------
(***************************************************************************)
(* Small nodes for every operator of the modelled families.  The elements  *)
(* of a data tensor are distinct, so that an element out of place shows.   *)
(***************************************************************************)
EXTENDS Operators

\* Tensors with elements 1, 2, 3, ..., and tensors of host integers.
D(shape) == [shape |-> shape, data |-> Tabulated([k \in 1 .. Product(shape) |-> k])]
H(values) == Vector(values)
NoAttr == [x \in {} |-> 0]

\* const holds the inputs that the session may hold itself.
Node(op, attr, ins) ==
    [op |-> op, attr |-> attr, ins |-> ins, sight |-> "static", const |-> {},
     typed |-> TRUE, dtype |-> "float", since |-> 13, host |-> FALSE, outs |-> 1, outKnown |-> TRUE]
Holding(nodes, const) == {[n EXCEPT !.const = const] : n \in nodes}
Since(nodes, versions) == {[n EXCEPT !.since = v] : n \in nodes, v \in versions}
Seqs(S, lo, hi) == UNION {[1 .. k -> S] : k \in lo .. hi}

GatherNodes ==
    {Node("Gather", [axis |-> a], <<D(s), x>>) :
       a \in {0, -1}, s \in {<<3>>, <<2, 3>>, <<3, 2>>},
       x \in {H(v) : v \in [1 .. 2 -> -2 .. 1]} \cup {Scalar(-1), Scalar(1)}}
    \cup {Node("GatherElements", [axis |-> 1], <<D(<<2, 3>>), [shape |-> <<2, 2>>, data |-> v]>>) :
            v \in [1 .. 4 -> {-3, 2}]}

GatherNDNodes ==
    {Node("GatherND", [batch_dims |-> b], <<D(<<2, 3, 2>>), [shape |-> s, data |-> v]>>) :
       b \in {0, 1}, s \in {<<2, 2>>}, v \in [1 .. 4 -> {-1, 0}]}
    \cup {Node("GatherND", [batch_dims |-> 1],
               <<D(<<2, 2, 2>>), [shape |-> <<2, 2, 1>>, data |-> v]>>) :
            v \in [1 .. 4 -> {-2, 1}]}
    \cup {Node("GatherND", NoAttr, <<D(<<2, 0>>), [shape |-> <<1, 1>>, data |-> <<1>>]>>)}

Weights(n) == Tabulated([k \in 1 .. n |-> 100 * (2 ^ k)])
ScatterNodes ==
    {Node("ScatterElements", [axis |-> a],
          <<D(<<3, 3>>), [shape |-> s, data |-> SubSeq(v, 1, Product(s))],
            [shape |-> s, data |-> Weights(Product(s))]>>) :
       a \in {0, 1, -1}, s \in {<<2, 2>>, <<1, 3>>, <<3, 1>>, <<0, 2>>},
       v \in [1 .. 4 -> {-3, 2}]}
    \cup {Node("ScatterND", [reduction |-> r],
               <<D(s), [shape |-> <<2, 1>>, data |-> v],
                 [shape |-> <<2>> \o Tail(s), data |-> Weights(2 * Product(Tail(s)))]>>) :
            r \in {"none", "add"}, s \in {<<3>>, <<3, 2>>, <<2, 0>>},
            v \in [1 .. 2 -> {-4, -3, -1, 2, 3}]}
    \cup {Node("ScatterND", [reduction |-> r],
               <<D(<<2, 2>>), [shape |-> <<2, 2>>, data |-> v], H(Weights(2))>>) :
            r \in {"none", "add"}, v \in [1 .. 4 -> {-2, 1, 2}]}
\* Addition came with version 16.
ScatterNodes11 ==
    {Node("ScatterND", [reduction |-> r], <<D(<<2>>), [shape |-> <<1, 1>>, data |-> <<1>>], H(<<5>>)>>) :
       r \in {"none", "add", "mul"}}

PickNodes ==
    {Node("Compress", a, <<D(s), H(c)>>) :
       a \in {NoAttr, [axis |-> 0], [axis |-> -1]}, s \in {<<2, 3>>, <<3>>},
       c \in Seqs({0, 1}, 0, 4)}
    \cup {Node("ReverseSequence", [batch_axis |-> b[1], time_axis |-> b[2]],
               <<D(s), H(l)>>) :
            b \in {<<0, 1>>, <<1, 0>>, <<-1, 0>>, <<1, -1>>, <<0, 2>>},
            s \in {<<2, 3>>, <<2, 2, 2>>}, l \in Seqs(1 .. 3, 2, 2)}

IndexNodes ==
    GatherNodes \cup GatherNDNodes \cup Since(ScatterNodes, {16}) \cup ScatterNodes11
    \cup Holding(PickNodes, {2})
-----------------------------------------------------------------------------
ReshapeNodes ==
    {Node("Reshape", [allowzero |-> z], <<D(s), H(v)>>) :
       z \in {0, 1}, s \in {<<2, 3>>, <<0, 2>>, <<6>>}, v \in Seqs({-1, 0, 2, 3}, 1, 2) \cup [1 .. 3 -> {-1, 0, 2}]}
    \cup {Node("Expand", NoAttr, <<D(s), H(v)>>) :
            s \in {<<2, 1>>, <<1>>, <<3>>, <<0>>, <<>>}, v \in Seqs({0, 1, 2, 3}, 1, 2)}

TransposeNodes ==
    {Node("Transpose", a, <<D(s)>>) :
       a \in {NoAttr} \cup {[perm |-> p] : p \in Seqs(0 .. 2, 2, 3)},
       s \in {<<2, 3>>, <<1, 2, 3>>, <<2, 3, 1>>}}

RankNodes ==
    {[Node(o, [axes |-> v], <<D(s)>>) EXCEPT !.since = 11] :
       o \in {"Squeeze", "Unsqueeze"}, s \in {<<1, 2>>, <<2, 1, 1>>, <<1, 1>>},
       v \in Seqs({-2, 0, 1, 2}, 0, 2)}
    \cup {Node(o, NoAttr, <<D(s), H(v)>>) :
            o \in {"Squeeze", "Unsqueeze"}, s \in {<<1, 2>>, <<2, 1, 1>>, <<1, 1>>},
            v \in Seqs({-2, 0, 1, 2}, 1, 2)}
    \cup {Node(o, NoAttr, <<D(s)>>) :
            o \in {"Squeeze", "Unsqueeze"}, s \in {<<1, 2>>, <<2, 1>>, <<2, 1, 1>>, <<1, 1>>}}
    \cup Since({Node("Flatten", [axis |-> a], <<D(s)>>) :
                  a \in -2 .. 3, s \in {<<2, 3>>, <<2, 1>>, <<1, 2, 3>>, <<2, 0>>, <<0, 2>>}},
               {9, 13})

BlockNodes ==
    {Node("DepthToSpace", [blocksize |-> b, mode |-> m], <<D(s)>>) :
       b \in {0, 1, 2}, m \in {"DCR", "CRD"}, s \in {<<1, 8, 1, 2>>, <<2, 4, 2, 1>>, <<1, 3, 1, 1>>}}
    \cup {Node("SpaceToDepth", [blocksize |-> b, mode |-> m], <<D(s)>>) :
            b \in {1, 2}, m \in {"DCR", "CRD"}, s \in {<<1, 2, 2, 4>>, <<1, 1, 3, 2>>}}
    \cup {Node("Concat", [axis |-> a], <<D(s), D(u), D(s)>>) :
            a \in {0, 1, -1}, s \in {<<1, 2>>, <<2, 2>>, <<0, 2>>}, u \in {<<1, 2>>, <<2, 2>>, <<2, 1>>}}

MetadataNodes ==
    {Node("Shape", a, <<D(s)>>) :
       a \in {NoAttr} \cup {[start |-> x] : x \in -3 .. 3}
               \cup {[start |-> x, end |-> y] : x \in {-3, -1, 1}, y \in -4 .. 3},
       s \in {<<2, 3>>, <<2, 4>>, <<1, 2, 0>>}}
    \cup {Node("Size", NoAttr, <<D(s)>>) : s \in {<<2, 3>>, <<2, 4>>, <<0, 2>>, <<>>}}
    \cup Holding({Node("ConstantOfShape", a, <<H(v)>>) :
                       a \in {NoAttr, [value |-> 7]}, v \in Seqs({-1, 0, 2}, 0, 2)}, {1})
OnHost(nodes) == {[n EXCEPT !.host = h] : n \in nodes, h \in BOOLEAN}

LayoutNodes ==
    ReshapeNodes \cup TransposeNodes \cup BlockNodes \cup Holding(RankNodes, {2})
    \cup OnHost(MetadataNodes)
-----------------------------------------------------------------------------
SliceNodes ==
    {[Node("Slice", [starts |-> <<b>>, ends |-> <<e>>, axes |-> <<a>>], <<D(<<2, 4>>)>>)
        EXCEPT !.since = 9] : a \in {-1, 0}, b \in {-3, 0, 1}, e \in {-1, 2, 9}}
    \cup Holding(
         {Node("Slice", NoAttr, <<D(<<2, d>>), H(<<b>>), H(<<e>>), H(<<a>>), H(<<p>>)>>) :
            d \in {0, 1, 4}, b \in {-9, -1, 0, 2, 9}, e \in {-9, -5, -1, 1, 9}, a \in {-1},
            p \in {-3, -1, 1, 2}}, {2, 3, 4, 5})
    \cup {Node("Slice", NoAttr, <<D(<<3, 4>>), H(b), H(e), H(<<1, 0>>), H(p)>>) :
            b \in {<<0, 2>>, <<-1, 0>>}, e \in {<<2, 9>>, <<-9, -9>>},
            p \in {<<1, 1>>, <<-1, 1>>, <<-2, -1>>, <<2, -1>>}}
    \cup {Node("Slice", NoAttr, <<D(<<3, 4>>), H(<<1>>), H(<<3>>), H(<<a>>)>>) : a \in {0, 1, 2}}
    \cup Holding({Node("Slice", NoAttr, <<D(<<2, 4>>), H(<<0>>), H(<<2>>), H(<<a>>), H(<<p>>)>>) :
                    a \in {1, 2}, p \in {0, 1}}, {2, 3, 4, 5})

SplitNodes ==
    {[Node("Split", a, <<D(s)>>) EXCEPT !.outs = o, !.since = v] :
       a \in {NoAttr, [axis |-> 1], [axis |-> -2]}, s \in {<<4, 3>>, <<5>>}, o \in 1 .. 3,
       v \in {11, 18}}
    \cup {[Node("Split", [axis |-> 0, num_outputs |-> c], <<D(<<d>>)>>)
             EXCEPT !.outs = o, !.since = 18] : c \in {2, 3, 4}, d \in {4, 5, 7}, o \in {2, 3, 4}}
    \cup {[Node("Split", [axis |-> 0, split |-> v], <<D(<<4, 2>>)>>) EXCEPT !.outs = 2, !.since = 11] :
            v \in Seqs({-1, 0, 1, 3, 4}, 1, 2)}
    \cup Holding({[Node("Split", [axis |-> 0], <<D(<<4, 2>>), H(v)>>) EXCEPT !.outs = 2] :
            v \in Seqs({-1, 1, 3}, 2, 3)}, {2})

TileNodes ==
    {[Node("Tile", NoAttr, <<D(s), H(v)>>) EXCEPT !.outKnown = k] :
       s \in {<<2, 3>>, <<2, 0>>, <<2, 1>>, <<2>>}, v \in Seqs({-1, 0, 1, 2}, 1, 2), k \in BOOLEAN}

Modes == {"constant", "reflect", "edge", "wrap"}
PadNodes ==
    {[Node("Pad", [mode |-> m], <<D(s), H(v), Scalar(0), H(x)>>) EXCEPT !.since = 19] :
       m \in Modes, s \in {<<2, 3>>, <<1, 4>>, <<2, 0>>}, x \in {<<-1>>},
       v \in [1 .. 2 -> {-3, -1, 0, 1, 5}]}
    \cup {[Node("Pad", [mode |-> m], <<D(<<2, 3>>), H(v)>>) EXCEPT !.since = 13] :
            m \in {"constant", "reflect", "wrap"}, v \in {<<1, 0, -1, 2>>, <<-1, 1, 0, 1>>,
                                                <<0, 0, -3, 2>>, <<1, 1, 1>>, <<0, 2, 1, -1>>}}
    \cup {[Node("Pad", [mode |-> "constant", pads |-> v, paddings |-> v, value |-> 9], <<D(<<2, 2>>)>>)
             EXCEPT !.since = s] : s \in {1, 2}, v \in {<<1, 0, 0, 1>>, <<0, -1, 1, 0>>}}

CropRangeNodes ==
    {Node("CenterCropPad", a, <<D(s), H(v)>>) :
       a \in {NoAttr, [axes |-> <<-1>>], [axes |-> <<1, 0>>]}, s \in {<<3, 4>>, <<2, 5>>},
       v \in Seqs({1, 2, 3, 6}, 1, 2)}
    \cup {Node("Range", NoAttr, <<Scalar(b), Scalar(e), Scalar(d)>>) :
            b \in {-2, 3}, e \in {-3, -2, 0, 4}, d \in -3 .. 3}

ResizeNodes ==
    {Node("Resize", [coordinate_transformation_mode |-> c, nearest_mode |-> r],
          <<D(<<d>>), Absent, IF z = 0 THEN H(<<h>>) ELSE Absent>>
          \o IF z = 0 THEN <<>> ELSE <<H(<<z>>)>>) :
       c \in {"half_pixel", "asymmetric", "align_corners", "pytorch_half_pixel"},
       r \in {"round_prefer_floor", "round_prefer_ceil", "floor", "ceil"},
       d \in {1, 3, 4}, z \in {0, 1, 3, 5}, h \in {1, 3}}
    \cup {Node("Resize", NoAttr, <<D(s), Absent, H(h)>>) :
            s \in {<<1, 2, 3>>}, h \in {<<2, 2, 4>>, <<4, 2, 2>>, <<2, 2, 3>>}}

UpsampleNodes ==
    {[Node("Upsample", NoAttr, <<D(<<1, 3>>), H(h)>>) EXCEPT !.since = v] :
            h \in {<<2, 4>>, <<4, 3>>, <<2, 1>>}, v \in {7, 9}}

ExtentNodes ==
    SliceNodes \cup SplitNodes \cup Holding(TileNodes, {2}) \cup Holding(PadNodes, {2, 3, 4})
    \cup Holding(CropRangeNodes, {1, 2, 3})
    \cup Holding(ResizeNodes, {3, 4}) \cup Holding(UpsampleNodes, {2})

-----------------------------------------------------------------------------
Ties == {[shape |-> <<2, 3>>, data |-> v] : v \in {<<2, -1, 2, 0, 3, 3>>, <<1, 1, 1, 2, 1, 2>>}}
ReduceTensors == Ties \cup {D(<<3>>), D(<<2, 0>>), D(<<2, 2, 2>>)}
ReduceNodes ==
    {[Node(o, [keepdims |-> k, axes |-> x], <<t>>) EXCEPT !.since = 11] :
       o \in Reductions \ {"ReduceLogSumExp"}, k \in {0, 1}, t \in ReduceTensors,
       x \in {<<>>, <<0>>, <<-1>>, <<1>>, <<1, 0>>, <<0, -2>>}}
    \cup Holding({Node(o, [keepdims |-> k, noop_with_empty_axes |-> z], <<t, H(x)>>) :
                    o \in Reductions \ {"ReduceLogSumExp"}, k \in {0, 1}, z \in {0, 1}, t \in ReduceTensors,
                    x \in {<<>>, <<-1>>, <<1, 0>>}}, {2})
    \cup {Node("ReduceLogSumExp", [keepdims |-> k], <<D(s), H(x)>>) :
            k \in {0, 1}, s \in {<<2, 3>>, <<0, 2>>}, x \in {<<>>, <<0>>, <<-1>>}}

AlongNodes ==
    {Node(o, [axis |-> a, keepdims |-> k, select_last_index |-> l], <<t>>) :
       o \in {"ArgMax", "ArgMin"}, a \in {0, 1, -1}, k \in {0, 1}, l \in {0, 1},
       t \in Ties \cup {D(<<2, 2, 2>>)}}
    \cup Holding({[Node(o, [exclusive |-> e, reverse |-> r], <<t, Scalar(a)>>)
                      EXCEPT !.host = TRUE, !.since = 26] :
                    o \in {"CumSum", "CumProd"}, e \in {0, 1}, r \in {0, 1},
                    t \in Ties \cup {D(<<2, 2, 2>>), D(<<0, 2>>)}, a \in {0, 1, -1, 2}}, {2})
    \cup Since({Node("Hardmax", a, <<t>>) :
                  a \in {NoAttr, [axis |-> 0], [axis |-> -1], [axis |-> 1]},
                  t \in Ties \cup {D(<<2, 2, 2>>)}}, {11, 13})
    \cup {[n EXCEPT !.outs = 2] : n \in
            Holding({Node("TopK", [axis |-> a, largest |-> g], <<t, H(<<k>>)>>) :
                       a \in {0, -1}, g \in {0, 1}, t \in Ties \cup {D(<<2, 0>>), D(<<2, 2, 2>>)},
                       k \in {0, 1, 2, 3}}, {2})
            \cup Since({Node("TopK", [axis |-> 1, k |-> 2], <<t>>) : t \in Ties}, {1})}

-----------------------------------------------------------------------------
Typed(nodes, dtype) == {[n EXCEPT !.dtype = dtype] : n \in nodes}
\* Every value of the integer types, down an axis and along one.
Every(lo, hi) == Tabulated([k \in 1 .. hi - lo + 1 |-> lo + k - 1])
Down(seq) == [shape |-> <<Len(seq), 1>>, data |-> seq]
NonZero(seq) == SelectSeq(seq, LAMBDA v : v # 0)
Signed == Every(-8, 7)
Unsigned == Every(0, 15)
Mixed == [shape |-> <<2, 3>>, data |-> <<-4, 3, 0, 2, -1, 6>>]
Pairs == {<<D(s), D(u)>> : s \in {<<2, 3>>, <<2, 1>>, <<>>, <<0, 3>>}, u \in {<<3>>, <<1, 3>>, <<2>>, <<2, 1>>}}

PointwiseNodes ==
    {Node(o, NoAttr, p) : o \in Binaries \ Logical, p \in Pairs}
    \cup {Node(o, NoAttr, <<Down(<<0, 1>>), H(<<0, 1>>)>>) : o \in Logical}
    \cup Typed({Node(o, NoAttr, <<Down(Signed), H(Signed)>>) : o \in Arithmetic}, "int")
    \cup Typed({Node(o, NoAttr, <<Down(Unsigned), H(Unsigned)>>) : o \in Arithmetic}, "uint")
    \cup Typed({Node("Div", NoAttr, <<Down(Every(-7, 7)), H(NonZero(Every(-7, 7)))>>)}, "int")
    \cup Since(Typed({Node("Mod", [fmod |-> f], <<Down(Signed), H(v)>>) :
                        f \in {0, 1}, v \in {NonZero(Signed), <<0, 1>>}}, "int"), {9, 10, 13})
    \cup Since(Typed({Node("Mod", [fmod |-> f], <<Down(Unsigned), H(NonZero(Unsigned))>>) :
                        f \in {0, 1}}, "uint"), {10, 13})
    \cup {Node("Mod", [fmod |-> f], <<Down(Every(-7, 7)), H(NonZero(Every(-4, 4)))>>) : f \in {0, 1}}
    \cup Since(Typed({Node("BitShift", [direction |-> d], <<Down(Unsigned), H(<<0, 1, 3>>)>>) :
                        d \in {"LEFT", "RIGHT"}}, "uint"), {11})
    \cup Since(Typed({Node("BitShift", [direction |-> d], <<Down(Signed), H(<<0, 1, 3>>)>>) :
                        d \in {"LEFT", "RIGHT"}}, "int"), {11, 28})
    \cup {Node("IsInf", [detect_negative |-> b, detect_positive |-> p],
               <<H(<<Lowest, -1, 0, 2, Highest>>)>>) : b \in {0, 1}, p \in {0, 1, 2}}

VariadicNodes ==
    {Node(o, NoAttr, v) : o \in Variadics,
       v \in {<<D(<<2, 3>>)>>, <<Mixed, H(<<2, 3, 1>>)>>, <<Scalar(2), H(<<4, 6, 1>>), Mixed>>,
              <<Down(<<2, 5>>), H(<<4, 3, 9>>), Scalar(6)>>, <<Mixed, H(<<1, 2>>)>>}}

BoundNodes ==
    {Node(o, [alpha |-> a, lambd |-> l, bias |-> b, beta |-> b], <<Mixed>>) :
       o \in Activations, a \in {-2, 1, 3}, l \in {1, 2}, b \in {0, 1}}
    \cup {Node("Clip", a, <<Mixed>> \o b) :
            a \in {NoAttr, [min |-> -1], [min |-> 0, max |-> 2]},
            b \in {<<>>, <<Scalar(-2)>>, <<Absent, Scalar(3)>>, <<Scalar(4), Scalar(1)>>}}
    \cup {Node("PRelu", NoAttr, <<Mixed, t>>) :
            t \in {H(<<2, 3, 4>>), Down(<<2, 3>>), H(<<5>>), H(<<2, 3>>)}}
    \cup Since({Node("Pow", a, <<[shape |-> <<4, 3>>, data |-> [k \in 1 .. 12 |-> <<k % 2 = 0, k % 3>>]], x>>) :
                  a \in {NoAttr} \cup {[broadcast |-> b, axis |-> y] : b \in {0, 1}, y \in {0, 1}},
                  x \in {H(<<-32, -3, 31>>), H(<<-1, 0, 1, 2>>), Down(<<-2, 5, 4, 7>>)}}, {1, 7})
    \cup Since({Node(o, [axis |-> a], <<D(s)>>) :
                  o \in {"Softmax", "LogSoftmax"}, a \in {-1, 0, 1}, s \in {<<2, 3>>, <<2, 2, 2>>}}, {11, 13})

ProductNodes ==
    {Node("MatMul", NoAttr, <<D(s), D(u)>>) :
       s \in {<<2>>, <<2, 2>>, <<2, 1, 2>>, <<1, 0>>, <<0, 2>>}, u \in {<<2>>, <<2, 3>>, <<2, 2, 1>>, <<0, 2>>}}
    \cup {Node("Gemm", [transA |-> a, transB |-> b, alpha |-> 2, beta |-> 3], <<D(s), D(u)>> \o c) :
            a \in {0, 1}, b \in {0, 1}, s \in {<<2, 3>>, <<3, 2>>}, u \in {<<3, 2>>, <<2, 3>>},
            c \in {<<>>, <<D(<<2>>)>>, <<D(<<2, 1>>)>>}}
    \cup Since({Node("FusedMatMul", [transA |-> a, transB |-> b, transBatchA |-> v, transBatchB |-> w, alpha |-> 2],
                    <<D(s), D(u)>>) :
                  a \in {0, 1}, b \in {0, 1}, v \in {0, 1}, w \in {0, 1},
                  s \in {<<2, 2, 3>>, <<3, 2, 2>>, <<2, 3>>}, u \in {<<3, 2, 2>>, <<2, 3, 2>>, <<2, 2, 3>>}}, {1})
    \cup Since({Node("GroupedMatMul", NoAttr, <<D(<<2, 2>>), D(<<3, 2, 2>>), [shape |-> <<2, 2>>, data |-> e]>> \o b) :
                  e \in {<<0, 2, 1, 1>>, <<0, -1, 1, 2>>, <<0, 0, 3, 0>>}, b \in {<<>>, <<D(<<3, 2>>)>>}}
               \cup {Node("GroupedMatMul", NoAttr, <<D(<<2, 0>>), D(<<3, 0, 2>>),
                            [shape |-> <<2, 1>>, data |-> <<2, 0>>], D(<<3, 2>>)>>)}, {29})
    \cup Since({Node("CDist", NoAttr, <<D(s), D(u)>>) : s \in {<<2, 3>>, <<0, 3>>}, u \in {<<3, 3>>, <<1, 2>>}}, {1})

NumberNodes == PointwiseNodes \cup VariadicNodes \cup BoundNodes \cup ProductNodes
-----------------------------------------------------------------------------
\* Data whose windows tell their elements apart; the kernel starts at one.
W(shape) == [shape |-> shape, data |-> Tabulated([k \in 1 .. Product(shape) |-> k * k - 3])]
Strided == {[strides |-> s, dilations |-> d] : s \in {<<1>>, <<2>>}, d \in {<<1>>, <<2>>}}
With(attrs, more) == {b @@ a : a \in attrs, b \in more}
Modes1 == {NoAttr, [pads |-> <<1, 0>>], [pads |-> <<0, 2>>], [auto_pad |-> "SAME_UPPER"],
           [auto_pad |-> "SAME_LOWER"], [auto_pad |-> "VALID"]}
ConvNodes ==
    Holding(
      {Node("Conv", a, <<D(<<1, 2, x>>), W(<<2, 2, k>>)>>) : a \in With(Strided, Modes1), x \in {3, 4}, k \in {2, 3}}
      \cup {Node("Conv", a @@ [group |-> 2], <<D(<<2, 4, 2, 3>>), W(<<2, 2, 2, 2>>), H(<<5, 7>>)>>) :
              a \in {NoAttr, [pads |-> <<1, 0, 0, 1>>], [auto_pad |-> "SAME_LOWER"]}}
      \cup {Node("Conv", [group |-> 2, pads |-> p], <<D(<<1, 2, 1, 2, 2>>), W(<<4, 1, 1, 2, 1>>)>>) :
              p \in {<<0, 0, 0, 0, 0, 0>>, <<0, 1, 0, 0, 1, 1>>}}
      \cup {Node("Conv", [pads |-> <<p, 0>>, strides |-> <<2>>], <<D(<<0, 2, x>>), W(<<3, 2, 2>>)>>) :
              p \in {0, 1}, x \in {1, 4}}
      \cup {Node("ConvTranspose", b @@ a, <<D(<<1, 2, x>>), W(<<2, 1, k>>)>>) :
              x \in {1, 3}, k \in {2, 3}, a \in Strided,
              b \in Modes1 \cup {[pads |-> <<2, 2>>, output_padding |-> <<1>>], [output_shape |-> <<4>>],
                                 [output_shape |-> <<4>>, auto_pad |-> "SAME_UPPER"],
                                 [pads |-> <<3, 0>>], [pads |-> <<1, 3>>, output_padding |-> <<1>>]}}
      \cup {Node("ConvTranspose", [group |-> 2, strides |-> <<2, 1>>], <<D(<<1, 4, 2, 2>>), W(<<4, 2, 2, 1>>), H(<<1, 2, 3, 4>>)>>)},
      {2, 3})
\* The convolutions whose padding follows from the extents.
SamePadNodes ==
    {n \in ConvNodes : n.op = "Conv" /\ StringAttr(n, "auto_pad", "NOTSET") \in {"SAME_UPPER", "SAME_LOWER"}}
\* Reductions and convolutions that build extents in without asking for them.
FreezingNodes == SamePadNodes \cup ReduceNodes
DeformNodes ==
    Holding(Since(
      {Node("DeformConv", [pads |-> <<1, 0, 0, 1>>, strides |-> <<1, 2>>],
            <<D(<<1, 1, 2, 3>>), W(<<1, 1, 2, 1>>), [shape |-> <<1, 4, 2, 2>>, data |-> [k \in 1 .. 16 |-> ((k * z) % 9) - 4]]>>) :
         z \in {2, 5, 7}}
      \cup {Node("DeformConv", [group |-> g, offset_group |-> o],
                 <<D(<<2, 2, 2, 2>>), W(<<2, 2 \div g, 1, 2>>),
                   [shape |-> <<2, 4 * o, 2, 1>>, data |-> [k \in 1 .. 16 * o |-> ((k * 5) % 7) - 2]], H(<<1, 2>>)>>
                 \o m) : g \in {1, 2}, o \in {1, 2}, m \in {<<>>, <<D(<<2, 2, 2, 1>>)>>, <<D(<<2, 4, 2, 1>>)>>}},
      {19}), {2})
PoolNodes ==
    {Node(o, c @@ b @@ a @@ [kernel_shape |-> <<k>>], <<D(<<1, 1, x>>)>>) :
       o \in {"AveragePool", "LpPool"}, k \in {2, 3}, x \in {4, 5},
       a \in {[strides |-> <<2>>], [strides |-> <<3>>, dilations |-> <<2>>]},
       b \in {NoAttr, [pads |-> <<0, 1>>], [pads |-> <<1, 1>>], [auto_pad |-> "SAME_UPPER"]},
       c \in {NoAttr, [ceil_mode |-> 1], [ceil_mode |-> 1, count_include_pad |-> 1]}}
    \cup {Node("MaxPool", [ceil_mode |-> c] @@ b @@ a @@ [kernel_shape |-> <<k>>], <<D(<<1, 1, x>>)>>) :
            k \in {2, 3}, x \in {2, 4, 5}, a \in Strided, b \in Modes1, c \in {0, 1}}
    \cup {[Node("MaxPool", [kernel_shape |-> <<2, 2>>, storage_order |-> s, pads |-> p, strides |-> z],
                <<[shape |-> <<2, 2, 2, 3>>, data |-> [k \in 1 .. 24 |-> (k * 5) % 4]]>>) EXCEPT !.outs = 2] :
            s \in {0, 1}, p \in {<<0, 0, 0, 0>>, <<1, 0, 1, 1>>, <<2, 0, 0, 1>>}, z \in {<<1, 1>>, <<2, 1>>}}
    \cup {Node(o, NoAttr, <<D(s)>>) : o \in GlobalPools, s \in {<<2, 1, 3>>, <<1, 2, 2, 2>>}}
    \cup {Node("MaxPool", [kernel_shape |-> <<2>>], <<D(<<0, 2, 3>>)>>)}
WindowNodes == Since(ConvNodes, {11}) \cup DeformNodes \cup PoolNodes
-----------------------------------------------------------------------------
\* Keys, values and caches with elements of their own.
E(shape, from) == [shape |-> shape, data |-> Tabulated([k \in 1 .. Product(shape) |-> from + k])]
Masks ==
    {[dtype |-> d, t |-> [shape |-> s, data |-> SubSeq(v, 1, Product(s))]] :
       d \in {"bool"}, s \in {<<2, 3>>, <<3>>, <<1, 1, 2, 3>>, <<2, 1>>, <<2, 2>>},
       v \in {<<1, 1, 0, 0, 1, 0>>, <<0, 0, 0, 1, 0, 1>>}}
    \cup {[dtype |-> "float", t |-> [shape |-> s, data |-> SubSeq(<<0, Lowest, -2, 5, 0, Lowest>>, 1, Product(s))]] :
            s \in {<<2, 3>>, <<3>>, <<1>>, <<2, 2>>}}
Attend(attr, ins) ==
    {[Node("Attention", attr, ins) EXCEPT !.since = v, !.outs = o] : v \in {23, 25}, o \in {1, 4}}
Cached(past) == IF past = 0 THEN <<Absent, Absent>> ELSE <<E(<<1, 1, past, 1>>, 200), E(<<1, 1, past, 2>>, 300)>>
Rows(s) == <<E(<<1, 2, s, 1>>, 0)>>
Keyed(s) == <<E(<<1, 1, s, 1>>, 20), E(<<1, 1, s, 2>>, 40)>>
Window1 == {NoAttr, [left_window_size |-> 0], [left_window_size |-> 1, right_window_size |-> 0],
            [right_window_size |-> 1]}
AttentionNodes ==
    UNION {Attend([is_causal |-> c], Rows(q) \o Keyed(k) \o <<Absent>> \o Cached(p)) :
             c \in {0, 1}, q \in {1, 2}, k \in {1, 2, 3}, p \in {0, 1, 2}}
    \cup UNION {{[n EXCEPT !.dtype = m.dtype] : n \in Attend(a, Rows(2) \o Keyed(3) \o <<m.t>> \o x)} :
                  a \in {NoAttr, [is_causal |-> 1, qk_matmul_output_mode |-> 3], [qk_matmul_output_mode |-> 2]},
                  m \in Masks, x \in {<<>>, <<Absent, Absent, H(<<2>>)>>}}
    \cup UNION {Attend(w @@ [is_causal |-> c, qk_matmul_output_mode |-> 3], Rows(2) \o Keyed(3) \o <<Absent>> \o x) :
                  w \in Window1, c \in {0, 1},
                  x \in {Cached(0), Cached(1), <<Absent, Absent, H(<<1>>)>>, <<Absent, Absent, H(<<3>>)>>}}
    \cup UNION {Attend([q_num_heads |-> h, kv_num_heads |-> g, is_causal |-> c] @@ a,
                       <<E(<<2, 2, 4>>, 0), E(<<2, k, (4 * g) \div h>>, 20), E(<<2, k, 2>>, 40)>> \o x) :
                  h \in {2, 4}, g \in {1, 2}, c \in {0, 1}, k \in {2, 3}, a \in {NoAttr, [softmax_precision |-> 1]},
                  x \in {<<>>, <<Absent, Absent, Absent, H(<<1, 2>>)>>}}

MsAttentionNodes ==
    {Node("MsAttention", [num_heads |-> h], <<E(<<b, 2, 2>>, 0), E(<<2, 6>>, 4), E(<<6>>, 30)>>) : h \in {1, 2}, b \in {1, 2}}
MultiHeadNodes ==
    {[Node("MultiHeadAttention", [num_heads |-> 2, unidirectional |-> u],
           <<E(<<1, q, 2>>, 0), E(<<1, k, 2>>, 20), E(<<1, k, 4>>, 40)>> \o x) EXCEPT !.outs = o] :
       u \in {0, 1}, q \in {1, 2}, k \in {1, 2, 3}, o \in 1 .. 4,
       x \in {<<>>, <<E(<<8>>, 60)>>,
              <<Absent, Absent, Absent, E(<<1, 2, 1, 1>>, 200), E(<<1, 2, 1, 2>>, 300)>>}}
    \cup {[Node("MultiHeadAttention", [num_heads |-> 2, unidirectional |-> u],
                <<E(<<1, 2, 2>>, 0), E(<<1, 2, 2, 1>>, 20), E(<<1, 2, 2, 2>>, 40)>>) EXCEPT !.outs = o] :
            u \in {0, 1}, o \in 1 .. 4}
PackedNodes ==
    {Node("PackedMultiHeadAttention", [num_heads |-> h],
          <<E(<<3, 2>>, 0), E(<<3, 2>>, 20), E(<<3, 2>>, 40), Absent, [shape |-> <<1, 3>>, data |-> <<0, 1, 2>>], H(e)>>) :
       h \in {1, 2}, e \in {<<0, 3>>, <<0, 1, 3>>, <<0, 0, 3>>, <<0, 2, 2, 3>>, <<0, 2>>, <<1, 3>>, <<0>>, <<0, 3, 1, 3>>}}

Positions == {[shape |-> s, data |-> SubSeq(v, 1, Product(s))] :
                s \in {<<2, 2>>, <<1>>}, v \in {<<0, 1, 2, 0>>, <<2, 1, 0, 3>>, <<-1, 0, 0, 0>>, <<1, 2, 2, 2>>}}
Data3 == {E(<<2, 2, 8>>, 0), E(<<2, 2, 2, 4>>, 0)}
RotaryNodes ==
    Since({Node("RotaryEmbedding", [num_heads |-> h, interleaved |-> i], <<x, E(<<3, w>>, 50), E(<<3, w>>, 70), p>>) :
             h \in {0, 2}, i \in {0, 1}, w \in {1, 2}, x \in Data3, p \in Positions}
          \cup {Node("RotaryEmbedding", [num_heads |-> 2, interleaved |-> i], <<x, E(<<2, 2, 1>>, 50), E(<<2, 2, 1>>, 70)>>) :
                  i \in {0, 1}, x \in Data3}, {23})
    \cup {Node("MsRotaryEmbedding", [num_heads |-> h, interleaved |-> i], <<x, p, E(<<3, w>>, 50), E(<<3, w>>, 70)>>) :
            h \in {0, 2}, i \in {0, 1}, w \in {1, 2}, x \in Data3, p \in Positions}
    \cup {Node("MRotaryEmbedding", [num_heads |-> 1, rotary_embedding_dim |-> w, mrope_section |-> z, mrope_layout |-> l,
                                    interleaved |-> i],
               <<E(<<1, 2, 8>>, 0), [shape |-> <<3, 1, 2>>, data |-> p], E(<<3, 4>>, 50), E(<<3, 4>>, 70)>>) :
            w \in {0, 8}, z \in {<<2, 1, 1>>, <<1, 2, 1>>, <<0, 4, 0>>, <<1, 1, 1>>}, l \in {0, 1}, i \in {0, 1},
            p \in {<<0, 1, 1, 2, 2, 0>>, <<0, 1, 2, 2, 0, 3>>}}
TokenNodes == AttentionNodes \cup MsAttentionNodes \cup MultiHeadNodes \cup PackedNodes \cup RotaryNodes
-----------------------------------------------------------------------------
T(shape, values) == [shape |-> shape, data |-> SubSeq(values \o values, 1, Product(shape))]
Bytes(shape) == [shape |-> shape, data |-> Tabulated([k \in 1 .. Product(shape) |-> (37 * k + 11) % 256])]
Small(shape) == [shape |-> shape, data |-> Tabulated([k \in 1 .. Product(shape) |-> ((5 * k) % 7) - 3])]
Codes == <<-5, -3, 7, 1, 600, -600>>
\* No zero point, a scalar, or one of the scale's shape.
Zero(z, p) == CASE z = "none" -> <<>> [] z = "one" -> <<Scalar(1)>> [] z = "same" -> <<T(p, <<1, 0, 9, 100>>)>>
Zeros == {"none", "one", "same"}
Scales == {<<>>, <<1>>, <<2>>, <<3>>, <<1, 3>>, <<2, 2>>, <<2, 1>>}
LinearNodes ==
    {[Node("QuantizeLinear", a @@ b, <<T(s, Codes), T(p, <<2, 4, 3, 6>>)>> \o Zero(z, p)) EXCEPT !.dtype = d] :
       a \in {NoAttr, [axis |-> 0], [axis |-> -2], [axis |-> 2]},
       b \in {NoAttr, [block_size |-> 2], [block_size |-> 3]}, s \in {<<2, 3>>}, p \in Scales,
       z \in Zeros, d \in {"uint8", "int8"}}
    \cup {[Node("QuantizeLinear", [output_dtype |-> o], <<T(<<>>, Codes), Scalar(2)>>) EXCEPT !.dtype = d] :
            o \in {"int8", "int16"}, d \in {"uint8", "int8", "int16"}}
    \cup {[Node("DequantizeLinear", a @@ b, <<x, T(p, <<2, 4, 3, 6>>)>> \o Zero(z, p)) EXCEPT !.dtype = "int8"] :
            a \in {NoAttr, [axis |-> 0]}, b \in {NoAttr, [block_size |-> 2]}, x \in {D(<<2, 3>>), D(<<3, 1>>)}, p \in Scales,
            z \in Zeros}
PackedZero(z, p) ==
    IF z = "none" THEN <<>> ELSE <<[shape |-> p, data |-> SubSeq(<<158, 41>>, 1, CeilDiv(Product(p), 2))]>>
PackedLinearNodes ==
    {[Node("DequantizeLinear", a @@ b, <<[shape |-> s, data |-> SubSeq(<<143, 56, 7>>, 1, CeilDiv(Product(s), 2))],
                                         T(p, <<2, 4, 3, 6>>)>> \o PackedZero(z, p)) EXCEPT !.dtype = d, !.since = v] :
       a \in {NoAttr, [axis |-> 0]}, b \in {NoAttr, [block_size |-> 2]}, s \in {<<2, 3>>, <<5>>, <<3, 1>>},
       p \in {<<>>, <<2>>, <<1, 3>>, <<2, 2>>, <<3>>}, v \in {19, 21}, d \in {"int4", "uint4"},
       z \in {"none", "same"}}
\* Sums at either side of what float32 holds.
Long(k) == Node("MatMulInteger", NoAttr, <<T(<<1, k>>, Const(k, 255)), T(<<k, 1>>, Const(k, 255))>>)
IntegerNodes ==
    {Node("MatMulInteger", NoAttr, <<Small(<<2, k>>), D(<<k, 3>>), z, w>>) :
       k \in {2, 3}, z \in {Absent, Scalar(3), H(<<1, 5>>), H(<<4>>)},
       w \in {Absent, Scalar(3), H(<<1, 5, 2>>), H(<<4>>)}}
    \cup {Long(k) : k \in {256, 260}}
    \cup {[Node("QLinearMatMul", NoAttr, <<Small(<<2, 2>>), s, z, D(<<2, 3>>), t, w, y, v>>) EXCEPT !.dtype = d] :
            s \in {Scalar(3), H(<<1, 2>>)}, z \in {Scalar(1), H(<<1, 5>>)}, t \in {Scalar(1), H(<<1, 5, 2>>)},
            w \in {Scalar(2), H(<<1, 5, 2>>)}, y \in {Scalar(4), H(<<2, 4, 6>>)}, v \in {Scalar(7), H(<<1, 0, 9>>)},
            d \in {"int8", "uint8"}}
ConvAttrs == {NoAttr, [pads |-> <<1, 1>>, strides |-> <<2>>], [pads |-> <<1, 0>>], [dilations |-> <<2>>],
              [auto_pad |-> "SAME_UPPER"], [kernel_shape |-> <<3>>]}
IntegerConvNodes ==
    {Node("ConvInteger", a @@ [group |-> g], <<Small(<<1, 2, 4>>), D(<<2, 2 \div g, 2>>), z, w>>) :
       a \in ConvAttrs, g \in {1, 2}, z \in {Absent, H(<<3>>)}, w \in {Absent, Scalar(2), H(<<1, 5>>)}}
    \cup {Node("ConvInteger", [pads |-> <<0, 1, 0, 1>>], <<Small(<<1, 1, 3, 2>>), D(<<1, 1, 2, 2>>), Scalar(1)>>)}
    \cup {[Node("QLinearConv", a, <<Small(<<1, 2, 4>>), Scalar(3), Scalar(1), D(<<2, 2, 2>>), s, z, Scalar(4), Scalar(5)>> \o b)
             EXCEPT !.dtype = d] :
            a \in ConvAttrs, s \in {Scalar(3), H(<<1, 2>>)}, z \in {Scalar(3), H(<<1, 2>>)},
            b \in {<<>>, <<H(<<-40, 9>>)>>}, d \in {"int8", "uint8"}}
DynamicNodes == {[Node("DynamicQuantizeLinear", NoAttr, <<H(v)>>) EXCEPT !.outs = 3] :
                   v \in Seqs({-3, 0, 2, 4}, 1, 3)}

NbitsNodes ==
    {[Node("MatMulNBits", [K |-> k, N |-> 3, block_size |-> b, bits |-> w],
           <<Small(s \o <<k>>), Bytes(<<3, CeilDiv(k, b), (b * w) \div 8>>), Small(<<3 * CeilDiv(k, b)>>), z>> \o x)
        EXCEPT !.dtype = d] :
       k \in {20}, b \in {16, 32}, w \in {2, 4, 8}, s \in {<<2>>},
       z \in {Absent}, d \in {"uint8"}, x \in {<<>>, <<Absent, H(<<7, 0, 9>>)>>}}
    \cup {[Node("MatMulNBits", [K |-> k, N |-> 2, block_size |-> b, bits |-> w],
                <<Small(<<1, 1, k>>), Bytes(<<2, CeilDiv(k, b), (b * w) \div 8>>), Small(<<2, CeilDiv(k, b)>>),
                  IF d = "float" THEN Small(<<2, CeilDiv(k, b)>>) ELSE Bytes(<<2 * CeilDiv(CeilDiv(k, b) * w, 8)>>)>>)
             EXCEPT !.dtype = d] :
            k \in {33}, b \in {16, 32}, w \in {2, 4, 8}, d \in {"uint8", "float"}}
TableNodes ==
    {Node("GatherBlockQuantized", [block_size |-> b],
          <<Bytes(<<3, w>>), x, Small(<<3, CeilDiv(2 * w, b)>>),
            IF z THEN Bytes(<<3, CeilDiv(CeilDiv(2 * w, b), 2)>>) ELSE Absent>>) :
       b \in {16, 32}, w \in {12, 20}, x \in {H(<<2, 0>>), H(<<-1, 3>>), T(<<1, 2>>, <<-4, -3>>)}, z \in BOOLEAN}
Float8Codes == <<56, 1, 192, 9, 70, 129>>
BlockProductNodes ==
    {Node(Fp4, [block_size |-> b], <<Small(<<2, 6>>), Bytes(<<2, 3>>), T(<<2, CeilDiv(6, b)>>, Float8Codes), H(<<3>>), Absent>> \o x) :
       b \in {2, 4, 6}, x \in {<<>>, <<H(<<5, 1>>)>>}}
    \cup {Node(Fp8, [block_size |-> b], <<T(<<2, 3>>, v), T(<<2, 3>>, Float8Codes), T(<<2, CeilDiv(3, b)>>, <<1, 2, 3>>), s>> \o x) :
            b \in {2, 3}, v \in {<<3, -40, 0, 85, 90, 9>>, <<-272, 288, 304, 1000, -5, 17>>, <<300000, 500, -230000, 7, 8, 16>>},
            s \in {Absent, Scalar(2), Scalar(1)}, x \in {<<>>, <<H(<<5, 1>>)>>}}
\* Tokens of extent h, i intermediate features, e experts, weights of b bits.
MoeNode(a, x, logits, e, h, i, b, scales) ==
    LET f == IF "swiglu_fusion" \in DOMAIN a THEN 2 * i ELSE i IN
    Node("QMoE", a, <<Small(x), [shape |-> <<Product(x) \div h, e>>, data |-> logits],
                      Bytes(<<e, f, (h * b) \div 8>>), Small(<<e, f>> \o (IF scales = 0 THEN <<>> ELSE <<h \div scales>>)), Absent,
                      Bytes(<<e, h, (i * b) \div 8>>), Small(<<e, h>> \o (IF scales = 0 THEN <<>> ELSE <<i \div scales>>))>>)
Routes == {<<1, 1, 0, 2, 0, 2>>, <<0, 3, 3, 1, 1, 1>>, <<Lowest, 2, Lowest, 0, 1, 2>>}
MoeNodes ==
    {MoeNode([k |-> k] @@ a, x, l, 3, 2, 2, 4, 0) :
       k \in 1 .. 4, l \in Routes, x \in {<<2, 2>>, <<1, 2, 2>>},
       a \in {NoAttr, [activation_type |-> "swiglu", swiglu_fusion |-> 1, activation_alpha |-> 2, activation_beta |-> 1],
              [activation_type |-> "swiglu", swiglu_fusion |-> 1, swiglu_limit |-> 9]}}
    \cup {MoeNode([k |-> 2, expert_weight_bits |-> 8, activation_type |-> s], <<2, 2>>, l, 3, 2, 1, 8, 0) :
            s \in {"silu", "identity", "tanh"}, l \in Routes}
    \cup {[MoeNode([k |-> 2, block_size |-> c], <<1, 32>>, <<1, 2>>, 2, 32, 16, 4, c) EXCEPT !.ins[5] = Small(<<2, 16>>)] :
            c \in {16, 8}}
QuantNodes ==
    Holding(LinearNodes \cup PackedLinearNodes, {2, 3}) \cup IntegerNodes \cup IntegerConvNodes \cup DynamicNodes
    \cup Holding(NbitsNodes, {2, 3, 4}) \cup Holding(NbitsNodes, {2}) \cup TableNodes
    \cup MoeNodes
    \cup Holding(BlockProductNodes, {2, 3})
-----------------------------------------------------------------------------
AllNodes == QuantNodes \cup TokenNodes \cup WindowNodes \cup NumberNodes \cup ReduceNodes \cup AlongNodes \cup IndexNodes
            \cup LayoutNodes \cup ExtentNodes
=============================================================================
