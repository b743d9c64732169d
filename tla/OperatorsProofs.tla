--------------------------- MODULE OperatorsProofs ---------------------------
(***************************************************************************)
(* A closure that compile_shape_safety calls shape-free is traced once and *)
(* replayed at other shapes.  Whatever its handler read on the host while  *)
(* it was traced must therefore be the same in every run of the session,   *)
(* for any nodes and whatever shape inference and the constants told.  It  *)
(* is, but for the extents and ranks that UnaskedInputs and UnaskedRanks   *)
(* name: those the handler reads although its classifier does not ask.     *)
(*                                                                         *)
(* The classifier sees a node as the session does.  What the session sees  *)
(* of a shape is true of it (SeenTrue), so an extent that is seen is the   *)
(* same in every run (ShapeStays), and so is a constant.  For each         *)
(* operator, the rest of what its handler reads is what its claim and its  *)
(* classifier ask for.                                                     *)
(***************************************************************************)
EXTENDS Operators, TLAPS

\* A node as a session sees it.
Whole(n) ==
    /\ n.sight \in Sights
    /\ Len(n.ins) \in Nat \ {0} /\ DOMAIN n.ins = 1 .. Len(n.ins)
    /\ \A i \in DOMAIN n.ins : n.ins[i].shape \in Seq(Int)
    /\ n.since \in Nat
    /\ n.op = "Attention" /\ n.typed => Len(n.ins) >= 3
    /\ n.op = "Conv" /\ n.typed => Len(n.ins) >= 2

\* An offered node is one of Nodes but for what is known of it.
Offered(n, s, c) == [n EXCEPT !.sight = s, !.const = c]

\* Offering a node changes nothing but what is known of it.
LEMMA OfferedParts ==
  ASSUME NEW n \in Nodes, NEW s, NEW c
  PROVE  LET m == Offered(n, s, c) IN
         /\ m.op = n.op /\ m.attr = n.attr /\ m.ins = n.ins /\ m.since = n.since
         /\ m.host = n.host /\ m.typed = n.typed /\ m.sight = s /\ m.const = c
<1>1. n = [op |-> n.op, attr |-> n.attr, ins |-> n.ins, sight |-> n.sight, const |-> n.const,
              typed |-> n.typed, dtype |-> n.dtype, since |-> n.since, host |-> n.host,
              outs |-> n.outs, outKnown |-> n.outKnown]
  BY NodeAssumption
<1> QED
  BY <1>1 DEF Offered

\* A node of the table is, once offered, a node as a session sees it.
LEMMA OfferedWhole ==
  ASSUME NEW n \in Nodes, NEW s \in Sights, NEW c
  PROVE  Whole(Offered(n, s, c))
<1>1. /\ Offered(n, s, c).ins = n.ins /\ Offered(n, s, c).sight = s
      /\ Offered(n, s, c).op = n.op /\ Offered(n, s, c).typed = n.typed
      /\ Offered(n, s, c).since = n.since
  BY OfferedParts
<1>2. /\ Len(n.ins) \in Nat \ {0} /\ DOMAIN n.ins = 1 .. Len(n.ins)
      /\ \A i \in DOMAIN n.ins : n.ins[i].shape \in Seq(Int)
      /\ n.since \in Nat
      /\ n.op = "Attention" /\ n.typed => Len(n.ins) >= 3
      /\ n.op = "Conv" /\ n.typed => Len(n.ins) >= 2
  BY NodeAssumption
<1> QED
  BY <1>1, <1>2 DEF Whole

\* What is seen of a shape is true of it: its rank, and each extent that is not -1.
LEMMA SeenTrue ==
  ASSUME NEW n, Whole(n), NEW i \in DOMAIN n.ins, RankKnown(n, i)
  PROVE  /\ View(n, i) \in Seq(Int) /\ Len(View(n, i)) = Len(n.ins[i].shape)
         /\ \A k \in DOMAIN View(n, i) :
              k \in DOMAIN n.ins[i].shape /\ (View(n, i)[k] >= 0 => n.ins[i].shape[k] = View(n, i)[k])
<1> DEFINE shape == n.ins[i].shape
<1>1. shape \in Seq(Int) /\ n.sight \in Sights
  BY DEF Whole
<1> HIDE DEF shape
<1>2. CASE View(n, i) = shape
  BY <1>1, <1>2 DEF shape
<1>3. CASE View(n, i) = [k \in DOMAIN shape |-> IF k = 2 THEN -1 ELSE shape[k]]
  <2>1. View(n, i) \in [1 .. Len(shape) -> Int] /\ Len(shape) \in Nat
    BY <1>1, <1>3
  <2>2. View(n, i) \in Seq(Int) /\ Len(View(n, i)) = Len(shape)
    BY <2>1
  <2> QED
    BY <1>1, <1>3, <2>2 DEF shape
<1>4. CASE View(n, i) = [k \in DOMAIN shape |-> IF k = Len(shape) THEN -1 ELSE shape[k]]
  <2>1. View(n, i) \in [1 .. Len(shape) -> Int] /\ Len(shape) \in Nat
    BY <1>1, <1>4
  <2>2. View(n, i) \in Seq(Int) /\ Len(View(n, i)) = Len(shape)
    BY <2>1
  <2> QED
    BY <1>1, <1>4, <2>2 DEF shape
<1> QED
  BY <1>1, <1>2, <1>3, <1>4 DEF View, Seen, RankKnown, Sights, shape

\* Two runs of a session: the second replays what the first was traced with.
Replay(n, m) == /\ Whole(n) /\ Whole(m) /\ SameSession(n, m)
                /\ m.op = n.op /\ m.sight = n.sight /\ m.const = n.const

\* They agree in what the lowering builds in although nobody asked to see it.
Agreeing(n, m) == /\ \A i \in UnaskedInputs(n) : m.ins[i].shape = n.ins[i].shape
                  /\ n.op \in UnaskedRanks => Rank(m.ins[1]) = Rank(n.ins[1])

\* What the runs of a session have in common: attributes, which inputs there are,
\* what is seen of them, and the constants.
LEMMA ReplayParts ==
  ASSUME NEW n, NEW m, Replay(n, m)
  PROVE  /\ m.attr = n.attr /\ m.since = n.since /\ m.host = n.host
         /\ DOMAIN m.ins = DOMAIN n.ins
         /\ \A i \in DOMAIN n.ins :
              /\ RankKnown(n, i) => Len(m.ins[i].shape) = Len(n.ins[i].shape)
              /\ (RankKnown(m, i) <=> RankKnown(n, i))
              /\ View(m, i) = View(n, i)
              /\ i \in n.const => m.ins[i] = n.ins[i]
         /\ \A i : (Present(m, i) <=> Present(n, i)) /\ (Constant(m, i) <=> Constant(n, i))
         /\ \A i : Constant(n, i) => m.ins[i] = n.ins[i]
<1>1. /\ m.attr = n.attr /\ m.since = n.since /\ m.host = n.host /\ Len(n.ins) = Len(m.ins)
  BY DEF Replay, SameSession
<1>2. DOMAIN m.ins = DOMAIN n.ins
  BY <1>1 DEF Replay, Whole
<1>3. \A i \in DOMAIN n.ins :
        /\ RankKnown(n, i) => Len(m.ins[i].shape) = Len(n.ins[i].shape)
        /\ View(m, i) = View(n, i)
        /\ i \in n.const => m.ins[i] = n.ins[i]
  BY DEF Replay, SameSession
<1>4. \A i \in DOMAIN n.ins : RankKnown(m, i) <=> RankKnown(n, i)
  BY DEF Replay, RankKnown
<1>5. ASSUME NEW i
      PROVE  Present(m, i) <=> Present(n, i)
  <2>1. CASE i \in DOMAIN n.ins
    <3>1. Present(n, i) = Present(m, i)
      BY <2>1 DEF Replay, SameSession
    <3> QED
      BY <3>1
  <2>2. CASE i \notin DOMAIN n.ins
    BY <1>2, <2>2 DEF Present
  <2> QED
    BY <2>1, <2>2
<1>6. ASSUME NEW i
      PROVE  /\ Constant(m, i) <=> Constant(n, i)
             /\ Constant(n, i) => m.ins[i] = n.ins[i]
  <2>1. m.const = n.const /\ (Present(m, i) <=> Present(n, i))
    BY <1>5 DEF Replay
  <2>2. Constant(n, i) => i \in n.const /\ i \in DOMAIN n.ins
    BY DEF Constant, Present
  <2> QED
    BY <1>3, <2>1, <2>2 DEF Constant
<1> QED
  BY <1>1, <1>2, <1>3, <1>4, <1>5, <1>6

\* Sequences are equal when their elements are.
LEMMA SameSeq ==
  ASSUME NEW a \in Seq(Int), NEW b \in Seq(Int), Len(a) = Len(b), \A k \in 1 .. Len(a) : a[k] = b[k]
  PROVE  a = b
OBVIOUS

\* A shape all of whose extents are seen is that of every run.
LEMMA ShapeStays ==
  ASSUME NEW n, NEW m, Replay(n, m), NEW i \in DOMAIN n.ins, RankKnown(n, i), Static(View(n, i))
  PROVE  m.ins[i].shape = n.ins[i].shape
<1> DEFINE a == n.ins[i].shape
           b == m.ins[i].shape
           v == View(n, i)
<1>1. /\ i \in DOMAIN m.ins /\ View(m, i) = v /\ RankKnown(m, i) /\ Whole(n) /\ Whole(m)
      /\ Len(a) = Len(b)
  BY ReplayParts DEF Replay
<1>2. a \in Seq(Int) /\ b \in Seq(Int)
  BY <1>1 DEF Whole
<1>3. /\ v \in Seq(Int) /\ Len(v) = Len(a) 
      /\ \A k \in DOMAIN v : v[k] >= 0 => a[k] = v[k]
  BY <1>1, SeenTrue
<1>4. \A k \in DOMAIN v : v[k] >= 0 => b[k] = v[k]
  BY <1>1, SeenTrue
<1>5. Static(v)
  OBVIOUS
<1> HIDE DEF a, b, v
<1>6. DOMAIN v = 1 .. Len(a) /\ \A k \in DOMAIN v : v[k] >= 0
  BY <1>3, <1>5 DEF Static
<1>7. \A k \in 1 .. Len(a) : a[k] = b[k]
  BY <1>3, <1>4, <1>6
<1>8. a = b
  BY <1>1, <1>2, <1>7, SameSeq
<1> QED
  BY <1>8 DEF a, b

-----------------------------------------------------------------------------
\* Each of these operators is registered for the classifier to decide on.
LEMMA Classified ==
  ASSUME NEW e \in Registered, e.op \in FrozenOps
  PROVE  e.rule = "classified"
<1>1. \A ops, min, max, rule : \A x \in RegisterAll(ops, min, max, rule) :
        x.op \in ops /\ x.rule = rule
  BY DEF RegisterAll, Entry
<1>2. \A op, min, max, rule : Entry(op, min, max, rule).op = op /\ Entry(op, min, max, rule).rule = rule
  BY DEF Entry
<1> QED
  BY <1>1, <1>2 DEF Registered, FrozenOps, Reductions, Binaries, Variadics, Arithmetic, Comparisons, Logical,
     GlobalPools, BlockQuantOperators, Fp4, Fp8

\* A frozen operator is shape-free only if its classifier says so.
LEMMA ShapelessMeans ==
  ASSUME NEW n, n.op \in FrozenOps, SafetyOf(n) = "shapeless"
  PROVE  StaysShapeless(n)
<1> DEFINE found == Found(Registered, n.op, n.since)
           rule == (CHOOSE e \in found : TRUE).rule
<1>1. found # {} /\ (IF rule = "classified" THEN Classifier(n) ELSE rule) = "shapeless"
  BY DEF SafetyOf, CompileShapeSafety
<1>2. PICK e \in found : e.rule = rule
  BY <1>1
<1>3. e \in Registered /\ e.op = n.op
  BY DEF Found, Matches
<1>4. rule = "classified"
  BY <1>2, <1>3, Classified
<1>5. Classifier(n) = "shapeless"
  BY <1>1, <1>4
<1> QED
  BY <1>5 DEF Classifier

\* There is a first input, in both runs.
LEMMA ReplayFirst ==
  ASSUME NEW n, NEW m, Replay(n, m)
  PROVE  /\ 1 \in DOMAIN n.ins /\ 1 \in DOMAIN m.ins /\ m.op = n.op /\ Whole(n) /\ Whole(m)
         /\ m.since = n.since
<1>1. 1 \in DOMAIN n.ins
  BY DEF Replay, Whole
<1>2. m.op = n.op /\ Whole(n) /\ Whole(m)
  BY DEF Replay
<1>3. DOMAIN m.ins = DOMAIN n.ins /\ m.since = n.since
  BY ReplayParts
<1> QED
  BY <1>1, <1>2, <1>3

\* An attribute is read alike in every run.
LEMMA AttrStays ==
  ASSUME NEW n, NEW m, Replay(n, m), NEW name, NEW default
  PROVE  /\ Has(m, name) <=> Has(n, name)
         /\ IntAttr(m, name, default) = IntAttr(n, name, default)
         /\ IntsAttr(m, name, default) = IntsAttr(n, name, default)
         /\ StringAttr(m, name, default) = StringAttr(n, name, default)
<1>1. m.attr = n.attr
  BY ReplayParts
<1> QED
  BY <1>1 DEF Has, IntAttr, IntsAttr, StringAttr

\* Transpose reads its permutation, and the rank when there is none.
LEMMA TransposeFreezes ==
  ASSUME NEW n, NEW m, Replay(n, m), TransposeShapeless(n), n.op = "Transpose"
  PROVE  Frozen(m) = Frozen(n)
<1>1. 1 \in DOMAIN n.ins /\ RankKnown(n, 1) /\ m.op = "Transpose"
  BY ReplayFirst DEF TransposeShapeless
<1>2. Rank(m.ins[1]) = Rank(n.ins[1])
  BY <1>1, ReplayParts DEF Rank
<1>3. IntsAttr(m, "perm", None) = IntsAttr(n, "perm", None)
  BY AttrStays
<1> QED
  BY <1>1, <1>2, <1>3 DEF Frozen

\* Flatten reads the whole shape, which the classifier wants static.
LEMMA FlattenFreezes ==
  ASSUME NEW n, NEW m, Replay(n, m), FlattenShapeless(n), n.op = "Flatten"
  PROVE  Frozen(m) = Frozen(n)
<1>1. 1 \in DOMAIN n.ins /\ RankKnown(n, 1) /\ m.op = "Flatten"
  BY ReplayFirst DEF FlattenShapeless
<1>2. Static(View(n, 1))
  <2>1. View(n, 1) \in Seq(Int)
    BY <1>1, SeenTrue DEF Replay
  <2> QED
    BY <2>1 DEF FlattenShapeless, Static
<1>3. m.ins[1].shape = n.ins[1].shape
  BY <1>1, <1>2, ShapeStays
<1>4. IntAttr(m, "axis", 1) = IntAttr(n, "axis", 1)
  BY AttrStays
<1> QED
  BY <1>1, <1>3, <1>4 DEF Frozen, Rank

\* Shape and Size answer the whole shape, which the classifier wants static.
LEMMA MetadataFreezes ==
  ASSUME NEW n, NEW m, Replay(n, m), MetadataShapeless(n), n.op \in {"Shape", "Size"}
  PROVE  Frozen(m) = Frozen(n)
<1>1. 1 \in DOMAIN n.ins /\ RankKnown(n, 1) /\ m.op = n.op /\ Static(View(n, 1))
  BY ReplayFirst DEF MetadataShapeless
<1>2. m.ins[1].shape = n.ins[1].shape
  BY <1>1, ShapeStays
<1> QED
  BY <1>1, <1>2 DEF Frozen

\* ConstantOfShape reads its extents, which must be a constant.
LEMMA ConstantOfShapeFreezes ==
  ASSUME NEW n, NEW m, Replay(n, m), ConstantOfShapeShapeless(n), n.op = "ConstantOfShape"
  PROVE  Frozen(m) = Frozen(n)
<1>1. m.op = n.op /\ m.ins[1] = n.ins[1]
  BY ReplayParts DEF Replay, ConstantOfShapeShapeless
<1> QED
  BY <1>1 DEF Frozen, ReadInts

\* Tile reads the shape, which must be static, and the repeats, a constant.
LEMMA TileFreezes ==
  ASSUME NEW n, NEW m, Replay(n, m), TileShapeless(n)
  PROVE  TileFrozen(m) = TileFrozen(n)
<1>1. 1 \in DOMAIN n.ins /\ RankKnown(n, 1) /\ Constant(n, 2)
  BY ReplayFirst DEF TileShapeless
<1>2. Static(View(n, 1))
  <2>1. View(n, 1) \in Seq(Int)
    BY <1>1, SeenTrue DEF Replay
  <2> QED
    BY <2>1 DEF TileShapeless, Static
<1>3. m.ins[1].shape = n.ins[1].shape /\ m.ins[2] = n.ins[2]
  BY <1>1, <1>2, ShapeStays, ReplayParts
<1> QED
  BY <1>3 DEF TileFrozen, ReadInts

\* A view that shows an axis is that of a known rank.
LEMMA SeesRank ==
  ASSUME NEW n, NEW i, Len(View(n, i)) > 0
  PROVE  RankKnown(n, i)
<1> SUFFICES ASSUME ~RankKnown(n, i) PROVE FALSE
  OBVIOUS
<1>1. View(n, i) = <<>>
  BY DEF RankKnown, View, Seen
<1>2. Len(View(n, i)) = 0
  BY <1>1
<1> QED
  BY <1>2

\* A shape that is seen, all of its extents above zero, is that of every run.
LEMMA PositiveStays ==
  ASSUME NEW n, NEW m, Replay(n, m), NEW i \in DOMAIN n.ins, Len(View(n, i)) > 0,
         \A k \in DOMAIN View(n, i) : View(n, i)[k] > 0
  PROVE  m.ins[i].shape = n.ins[i].shape
<1>1. RankKnown(n, i)
  BY SeesRank
<1>2. View(n, i) \in Seq(Int)
  BY <1>1, SeenTrue DEF Replay
<1>3. Static(View(n, i))
  BY <1>2 DEF Static
<1> QED
  BY <1>1, <1>3, ShapeStays

\* A reduction reads its axes, an attribute or an input that must be a constant, and the
\* rank they count from; a filled one also the extents, which nobody asked to see.
LEMMA ReductionFreezes ==
  ASSUME NEW n, NEW m, Replay(n, m), ReductionShapeless(n), n.op \in Reductions, Agreeing(n, m)
  PROVE  ReductionFrozen(m) = ReductionFrozen(n)
<1>1. m.op = n.op
  BY DEF Replay
<1>2. Present(m, 2) <=> Present(n, 2)
  BY ReplayParts
<1>3. Present(n, 2) => m.ins[2] = n.ins[2]
  BY ReplayParts DEF ReductionShapeless
<1>4. /\ IntsAttr(m, "axes", <<>>) = IntsAttr(n, "axes", <<>>)
      /\ IntAttr(m, "noop_with_empty_axes", 0) = IntAttr(n, "noop_with_empty_axes", 0)
  BY AttrStays
<1>5. ReadAxes(m) = ReadAxes(n)
  BY <1>2, <1>3, <1>4 DEF ReadAxes, ReadInts
<1>6. Len(m.ins[1].shape) = Len(n.ins[1].shape)
  BY DEF Agreeing, UnaskedRanks, Rank
<1>7. CASE KindOf(n.op) \in FilledKinds
  <2>1. UnaskedInputs(n) = {1}
    <3>1. /\ n.op \notin {"Conv", "MatMulNBits"}
          /\ n.op \notin {"GatherBlockQuantized", "QuantizeLinear", "DequantizeLinear"}
      BY DEF Reductions
    <3> QED
      BY <1>7, <3>1 DEF UnaskedInputs
  <2>2. m.ins[1].shape = n.ins[1].shape
    BY <2>1 DEF Agreeing
  <2> QED
    BY <1>1, <1>4, <1>5, <2>2 DEF ReductionFrozen
<1>8. CASE KindOf(n.op) \notin FilledKinds
  BY <1>1, <1>4, <1>5, <1>6, <1>8 DEF ReductionFrozen
<1> QED
  BY <1>7, <1>8

\* TopK reads k and whether there are elements; its claim wants the rank to be known.
LEMMA TopKFreezes ==
  ASSUME NEW n, NEW m, Replay(n, m), TopKShapeless(n), TopKClaim(n)
  PROVE  TopKFrozen(m) = TopKFrozen(n)
<1>1. 1 \in DOMAIN n.ins /\ m.since = n.since
  BY ReplayFirst
<1>2. Len(View(n, 1)) > 0
  <2>1. RankKnown(n, 1)
    <3> SUFFICES ASSUME ~RankKnown(n, 1) PROVE FALSE
      OBVIOUS
    <3>1. View(n, 1) = <<>>
      BY DEF RankKnown, View, Seen
    <3>2. Len(View(n, 1)) = 0
      BY <3>1
    <3> QED
      BY <3>2 DEF TopKClaim
  <2>2. Len(View(n, 1)) \in Nat
    BY <1>1, <2>1, SeenTrue DEF Replay
  <2> QED
    BY <2>2 DEF TopKClaim
<1>3. m.ins[1].shape = n.ins[1].shape
  BY <1>1, <1>2, PositiveStays DEF TopKShapeless
<1>4. n.since < 10 \/ m.ins[2] = n.ins[2]
  BY ReplayParts DEF TopKShapeless
<1> QED
  BY <1>1, <1>3, <1>4 DEF TopKFrozen, ReadInts

\* Softmax counts its axis from the rank, which its claim wants to see.
LEMMA SoftmaxFreezes ==
  ASSUME NEW n, NEW m, Replay(n, m), SoftmaxClaim(n)
  PROVE  SoftmaxFrozen(m) = SoftmaxFrozen(n)
<1>1. 1 \in DOMAIN n.ins /\ m.since = n.since
  BY ReplayFirst
<1>2. RankKnown(n, 1)
  BY DEF SoftmaxClaim, RankKnown, View, Seen
<1>3. Rank(m.ins[1]) = Rank(n.ins[1])
  BY <1>1, <1>2, ReplayParts DEF Rank
<1>4. \A default : IntAttr(m, "axis", default) = IntAttr(n, "axis", default)
  BY AttrStays
<1> QED
  BY <1>1, <1>3, <1>4 DEF SoftmaxFrozen, SoftmaxAxis

\* Since version 7 Pow leaves the laying out to MLX.
LEMMA PowFreezes ==
  ASSUME NEW n, NEW m, Replay(n, m), PowShapeless(n)
  PROVE  PowFrozen(m) = PowFrozen(n)
<1>1. n.since >= 7 /\ n.since \in Nat /\ m.since = n.since
  BY ReplayFirst DEF PowShapeless, Whole
<1> QED
  BY <1>1 DEF PowFrozen

\* Conv reads its padding.  Given explicitly it depends on the rank alone, which the
\* claim wants to see; otherwise on the kernel, which must be static, and on extents
\* that nobody asked to see.
LEMMA ConvFreezes ==
  ASSUME NEW n, NEW m, Replay(n, m), NEW out, ConvClaim(n, out), n.op = "Conv", Agreeing(n, m)
  PROVE  ConvFrozen(m) = ConvFrozen(n)
<1>1. 1 \in DOMAIN n.ins /\ 2 \in DOMAIN n.ins
  BY ReplayFirst DEF ConvClaim, Whole
<1>2. Len(View(n, 1)) - 2 \in 1 .. 3
  BY DEF ConvClaim
<1>3. Len(View(n, 1)) \in 3 .. 5
  <2>1. RankKnown(n, 1)
    <3> SUFFICES ASSUME ~RankKnown(n, 1) PROVE FALSE
      OBVIOUS
    <3>1. View(n, 1) = <<>>
      BY DEF RankKnown, View, Seen
    <3>2. Len(View(n, 1)) = 0
      BY <3>1
    <3>3. 0 - 2 \in 1 .. 3
      BY <1>2, <3>2
    <3> QED
      BY <3>3
  <2>2. Len(View(n, 1)) \in Nat
    BY <1>1, <2>1, SeenTrue DEF Replay
  <2> QED
    BY <1>2, <2>2
<1>4. RankKnown(n, 1)
  BY <1>3, SeesRank
<1>5. Len(m.ins[1].shape) = Len(n.ins[1].shape)
  BY <1>1, <1>4, ReplayParts
<1>6. m.ins[2].shape = n.ins[2].shape
  <2>1. Len(View(n, 2)) = Len(View(n, 1)) /\ Positive(View(n, 2))
    BY DEF ConvClaim
  <2>2. Len(View(n, 2)) > 0
    BY <1>3, <2>1
  <2> QED
    BY <1>1, <2>1, <2>2, PositiveStays DEF Positive
<1>7. /\ \A name : \A default : IntsAttr(m, name, default) = IntsAttr(n, name, default)
      /\ \A name : \A default : StringAttr(m, name, default) = StringAttr(n, name, default)
  BY AttrStays
<1>8. CASE StringAttr(n, "auto_pad", "NOTSET") # "NOTSET" \/ ByConvGeneral(n)
  <2>1. UnaskedInputs(n) = {1}
    <3>1. n.op \notin Reductions
      BY DEF Reductions
    <3> QED
      BY <1>8, <3>1 DEF UnaskedInputs
  <2>2. m.ins[1].shape = n.ins[1].shape
    BY <2>1 DEF Agreeing
  <2>3. ConvPads(m) = ConvPads(n)
    BY <1>6, <1>7, <2>2 DEF ConvPads
  <2>4. ByConvGeneral(m) <=> ByConvGeneral(n)
    BY <2>2, <2>3 DEF ByConvGeneral, Rank
  <2> QED
    BY <2>2, <2>3, <2>4 DEF ConvFrozen
<1>9. CASE StringAttr(n, "auto_pad", "NOTSET") = "NOTSET" /\ ~ByConvGeneral(n)
  <2>1. ConvPads(m) = ConvPads(n)
    BY <1>5, <1>7, <1>9 DEF ConvPads
  <2>2. ByConvGeneral(m) <=> ByConvGeneral(n)
    BY <1>5, <2>1 DEF ByConvGeneral, Rank
  <2> QED
    BY <1>9, <2>1, <2>2 DEF ConvFrozen
<1> QED
  BY <1>8, <1>9

\* A linear quantization reads the scale's extents and the rank: nobody asked for either.
LEMMA LinearFreezes ==
  ASSUME NEW n, NEW m, Replay(n, m), n.op \in {"QuantizeLinear", "DequantizeLinear"}, Agreeing(n, m)
  PROVE  LinearFrozen(m) = LinearFrozen(n)
<1>1. UnaskedInputs(n) = {2} /\ n.op \in UnaskedRanks
  <2>1. n.op \notin Reductions
    BY DEF Reductions
  <2> QED
    BY <2>1 DEF UnaskedInputs, UnaskedRanks
<1>2. m.ins[2].shape = n.ins[2].shape /\ Rank(m.ins[1]) = Rank(n.ins[1])
  BY <1>1 DEF Agreeing
<1>3. IntAttr(m, "axis", 1) = IntAttr(n, "axis", 1)
  BY AttrStays
<1> QED
  BY <1>2, <1>3 DEF LinearFrozen

\* MatMulNBits reads the activations' extents, unasked, and constants.
LEMMA MatmulNbitsFreezes ==
  ASSUME NEW n, NEW m, Replay(n, m), n.op = "MatMulNBits", Agreeing(n, m)
  PROVE  MatmulNbitsFrozen(m) = MatmulNbitsFrozen(n)
<1>1. UnaskedInputs(n) = {1}
  <2>1. n.op \notin Reductions
    BY DEF Reductions
  <2> QED
    BY <2>1 DEF UnaskedInputs
<1>2. m.ins[1].shape = n.ins[1].shape
  BY <1>1 DEF Agreeing
<1>3. m.attr = n.attr
  BY ReplayParts
<1>4. Nbits(m) = Nbits(n)
  BY <1>3 DEF Nbits, IntAttr, Has
<1>5. /\ \A i : Constant(m, i) <=> Constant(n, i)
      /\ \A i : Constant(n, i) => m.ins[i] = n.ins[i]
  BY ReplayParts
<1>6. Repacks(m, Nbits(n)) <=> Repacks(n, Nbits(n))
  BY <1>5 DEF Repacks
<1>7. Repacks(n, Nbits(n)) => m.ins[2] = n.ins[2]
  BY <1>5 DEF Repacks
<1> QED
  BY <1>2, <1>4, <1>5, <1>6, <1>7 DEF MatmulNbitsFrozen

\* GatherBlockQuantized reads the table's extents, which its claim wants static, and
\* those of the indices, unasked.
LEMMA GatherBlockFreezes ==
  ASSUME NEW n, NEW m, Replay(n, m), GatherBlockQuantizedClaim(n), n.op = "GatherBlockQuantized", Agreeing(n, m)
  PROVE  GatherBlockFrozen(m) = GatherBlockFrozen(n)
<1>1. UnaskedInputs(n) = {2}
  <2>1. n.op \notin Reductions
    BY DEF Reductions
  <2> QED
    BY <2>1 DEF UnaskedInputs
<1>2. m.ins[2].shape = n.ins[2].shape
  BY <1>1 DEF Agreeing
<1>3. 1 \in DOMAIN n.ins /\ Len(View(n, 1)) = 2 /\ Positive(View(n, 1))
  BY ReplayFirst DEF GatherBlockQuantizedClaim
<1>4. m.ins[1].shape = n.ins[1].shape
  <2>1. Len(View(n, 1)) > 0
    BY <1>3
  <2> QED
    BY <1>3, <2>1, PositiveStays DEF Positive
<1> QED
  BY <1>2, <1>4 DEF GatherBlockFrozen

\* The block products decode weights on the host: constants, for a claimed node.
LEMMA BlockProductFreezes ==
  ASSUME NEW n, NEW m, Replay(n, m), NEW fp4 \in BOOLEAN, BlockProductClaim(n, fp4)
  PROVE  BlockProductFrozen(m, fp4) = BlockProductFrozen(n, fp4)
<1>1. 1 \in DOMAIN n.ins /\ View(n, 1) # <<>> /\ Positive(View(n, 1))
  BY ReplayFirst DEF BlockProductClaim
<1>2. RankKnown(n, 1)
  BY <1>1 DEF RankKnown, View, Seen
<1>3. View(n, 1) \in Seq(Int)
  BY <1>1, <1>2, SeenTrue DEF Replay
<1>4. Len(View(n, 1)) > 0
  BY <1>1, <1>3
<1>5. m.ins[1].shape = n.ins[1].shape
  BY <1>1, <1>4, PositiveStays DEF Positive
<1>6. m.ins[2] = n.ins[2] /\ (fp4 => m.ins[3] = n.ins[3])
  BY ReplayParts DEF BlockProductClaim
<1> QED
  BY <1>5, <1>6 DEF BlockProductFrozen

\* Causal Attention reads whether there are several queries and keys: the classifier
\* wants one of each, seen as such.
LEMMA AttentionFreezes ==
  ASSUME NEW n, NEW m, Replay(n, m), AttentionShapeless(n), n.op = "Attention"
  PROVE  AttentionFrozen(m) = AttentionFrozen(n)
<1>1. IntAttr(m, "is_causal", 0) = IntAttr(n, "is_causal", 0)
  BY AttrStays
<1>2. CASE IntAttr(n, "is_causal", 0) = 0
  BY <1>1, <1>2 DEF AttentionFrozen
<1>3. CASE IntAttr(n, "is_causal", 0) # 0
  <2>1. \A i \in {1, 2} : Len(View(n, i)) \in {3, 4} /\ View(n, i)[Len(View(n, i)) - 1] = 1
    BY <1>3 DEF AttentionShapeless
  <2>2. \A i \in {1, 2} : i \in DOMAIN n.ins
    <3>1. n.typed
      BY DEF AttentionShapeless, AttentionClaim, AttentionClaimWith
    <3> QED
      BY <3>1 DEF Replay, Whole
  <2> DEFINE Second(t) == IF Rank(t) = 3 THEN t.shape[2] ELSE t.shape[3]
  <2>3. ASSUME NEW i \in {1, 2}
        PROVE  Second(n.ins[i]) = 1 /\ Second(m.ins[i]) = 1
    <3>1. RankKnown(n, i) /\ RankKnown(m, i) /\ View(m, i) = View(n, i)
      <4>1. RankKnown(n, i)
        <5> SUFFICES ASSUME ~RankKnown(n, i) PROVE FALSE
          OBVIOUS
        <5>1. View(n, i) = <<>>
          BY DEF RankKnown, View, Seen
        <5>2. Len(View(n, i)) = 0
          BY <5>1
        <5> QED
          BY <2>1, <5>2
      <4> QED
        BY <2>2, <4>1, ReplayParts
    <3> DEFINE v == View(n, i)
    <3>2. /\ v \in Seq(Int) /\ Len(v) \in {3, 4} /\ v[Len(v) - 1] = 1
          /\ Len(n.ins[i].shape) = Len(v) /\ Len(m.ins[i].shape) = Len(v)
          /\ \A k \in DOMAIN v : v[k] >= 0 => n.ins[i].shape[k] = v[k] /\ m.ins[i].shape[k] = v[k]
      <4>1. i \in DOMAIN n.ins /\ i \in DOMAIN m.ins /\ Whole(n) /\ Whole(m)
        BY <2>2, ReplayParts DEF Replay
      <4>2. /\ v \in Seq(Int) /\ Len(n.ins[i].shape) = Len(v)
            /\ \A k \in DOMAIN v : v[k] >= 0 => n.ins[i].shape[k] = v[k]
        BY <3>1, <4>1, SeenTrue
      <4>3. /\ Len(m.ins[i].shape) = Len(v)
            /\ \A k \in DOMAIN v : v[k] >= 0 => m.ins[i].shape[k] = v[k]
        BY <3>1, <4>1, SeenTrue
      <4> QED
        BY <2>1, <4>2, <4>3
    <3> HIDE DEF v
    <3>3. Len(v) - 1 \in DOMAIN v /\ v[Len(v) - 1] >= 0
      <4>1. DOMAIN v = 1 .. Len(v)
        BY <3>2
      <4> QED
        BY <3>2, <4>1
    <3>4. n.ins[i].shape[Len(v) - 1] = 1 /\ m.ins[i].shape[Len(v) - 1] = 1
      BY <3>2, <3>3
    <3>5. CASE Len(v) = 3
      BY <3>2, <3>4, <3>5 DEF Rank
    <3>6. CASE Len(v) = 4
      BY <3>2, <3>4, <3>6 DEF Rank
    <3> QED
      BY <3>2, <3>5, <3>6
  <2>4. Second(n.ins[1]) = 1 /\ Second(m.ins[1]) = 1 /\ Second(n.ins[2]) = 1 /\ Second(m.ins[2]) = 1
    BY <2>3
  <2> QED
    BY <2>4 DEF AttentionFrozen
<1> QED
  BY <1>2, <1>3

\* Where a node's axes come from does not change between runs.
LEMMA AxesStay ==
  ASSUME NEW n, NEW m, Replay(n, m), RankChangeClaim(n), HaveAxes(n) => KnownAxes(n) # None
  PROVE  /\ AxesOf(m) = AxesOf(n)
         /\ KnownAxes(n) # None => AxesOf(n) = KnownAxes(n)
<1>1. /\ m.since = n.since /\ (Present(m, 2) <=> Present(n, 2))
      /\ Constant(n, 2) => m.ins[2] = n.ins[2]
      /\ IntsAttr(m, "axes", None) = IntsAttr(n, "axes", None)
  BY ReplayParts, AttrStays
<1>2. (n.since < 13 => ~Present(n, 2)) /\ n.since \in Nat
  BY DEF RankChangeClaim, Replay, Whole
<1>3. CASE ~Present(n, 2)
  BY <1>1, <1>3 DEF AxesOf, KnownAxes, ConstInts, Constant
<1>4. CASE Present(n, 2)
  <2>1. ConstInts(n, 2) # None /\ KnownAxes(n) = ConstInts(n, 2)
    BY <1>2, <1>4 DEF HaveAxes, KnownAxes
  <2>2. Constant(n, 2) /\ ConstInts(n, 2) = n.ins[2].data
    BY <2>1 DEF ConstInts
  <2> QED
    BY <1>1, <1>4, <2>1, <2>2 DEF AxesOf, ReadInts
<1> QED
  BY <1>3, <1>4

\* Squeeze may remove these axes: they exist and are not seen to be longer than 1.
Removes(shape, axes, negative) ==
    \A k \in DOMAIN axes :
      /\ AxisIn(axes[k], Len(shape)) /\ (negative \/ axes[k] >= 0)
      /\ shape[NormAxis(axes[k], Len(shape)) + 1] \in {-1, 1}

\* checked_rank_change_axes accepts a list for Squeeze on that condition alone.
LEMMA RemovedAxes ==
  ASSUME NEW shape, NEW axes, axes # None, NEW negative
  PROVE  CheckedRankChangeAxes(shape, axes, FALSE, negative)
           = IF Removes(shape, axes, negative)
             THEN SetToSortSeq({NormAxis(axes[k], Len(shape)) : k \in DOMAIN axes}, <) ELSE Refuse
  BY DEF CheckedRankChangeAxes, Removes

\* Squeeze and Unsqueeze resolve their axes against the rank; Squeeze also looks at
\* the extents removed, which the classifier wants to see as 1 or in a static shape.
LEMMA RankChangeFreezes ==
  ASSUME NEW n, NEW m, Replay(n, m), RankChangeShapeless(n), RankChangeClaim(n),
         n.op \in {"Squeeze", "Unsqueeze"}
  PROVE  Frozen(m) = Frozen(n)
<1> DEFINE axes == AxesOf(n)
           v == View(n, 1)
           a == n.ins[1].shape
           b == m.ins[1].shape
           negative == n.since >= 11
<1>1. 1 \in DOMAIN n.ins /\ RankKnown(n, 1) /\ m.op = n.op /\ m.since = n.since
  BY ReplayFirst DEF RankChangeShapeless
<1>2. HaveAxes(n) => KnownAxes(n) # None
  BY DEF RankChangeShapeless
<1>3. AxesOf(m) = axes /\ (KnownAxes(n) # None => axes = KnownAxes(n))
  BY <1>2, AxesStay
<1>4. Len(a) = Len(b)
  BY <1>1, ReplayParts
<1>5. /\ Frozen(n) = CheckedRankChangeAxes(a, axes, n.op = "Unsqueeze", negative)
      /\ Frozen(m) = CheckedRankChangeAxes(b, axes, n.op = "Unsqueeze", negative)
  BY <1>1, <1>3 DEF Frozen
<1>6. CASE n.op = "Unsqueeze" /\ KnownAxes(n) # None
  <2> HIDE DEF axes, v, a, b, negative
  <2>1. (n.op = "Unsqueeze") = TRUE
    BY <1>6
  <2>2. CheckedRankChangeAxes(a, axes, TRUE, negative) = CheckedRankChangeAxes(b, axes, TRUE, negative)
    BY <1>4 DEF CheckedRankChangeAxes
  <2> QED
    BY <1>5, <2>1, <2>2
<1>7. CASE Static(v)
  BY <1>1, <1>5, <1>7, ShapeStays
<1>8. CASE /\ n.op = "Squeeze" /\ KnownAxes(n) # None
           /\ CheckedRankChangeAxes(v, KnownAxes(n), FALSE, TRUE) # Refuse
           /\ \A k \in DOMAIN KnownAxes(n) : v[NormAxis(KnownAxes(n)[k], Len(v)) + 1] = 1
  <2>1. axes # None /\ Removes(v, axes, TRUE)
    BY <1>3, <1>8, RemovedAxes
  <2>2. /\ v \in Seq(Int) /\ Len(a) = Len(v) /\ Len(b) = Len(v)
        /\ \A k \in DOMAIN v : v[k] >= 0 => a[k] = v[k] /\ b[k] = v[k]
    <3>1. /\ 1 \in DOMAIN m.ins /\ RankKnown(m, 1) /\ View(m, 1) = v /\ Whole(n) /\ Whole(m)
      BY <1>1, ReplayFirst, ReplayParts
    <3>2. /\ Len(b) = Len(v) /\ \A k \in DOMAIN v : v[k] >= 0 => b[k] = v[k]
      BY <3>1, SeenTrue
    <3>3. /\ v \in Seq(Int) /\ Len(a) = Len(v) /\ \A k \in DOMAIN v : v[k] >= 0 => a[k] = v[k]
      BY <1>1, <3>1, SeenTrue
    <3> QED
      BY <3>2, <3>3
  <2>3. \A k \in DOMAIN axes : v[NormAxis(axes[k], Len(v)) + 1] = 1
    BY <1>3, <1>8
  <2> HIDE DEF axes, v, a, b, negative
  <2>4. \A k \in DOMAIN axes : /\ a[NormAxis(axes[k], Len(v)) + 1] = 1
                               /\ b[NormAxis(axes[k], Len(v)) + 1] = 1
    <3> TAKE k \in DOMAIN axes
    <3>1. axes[k] \in -Len(v) .. Len(v) - 1 /\ Len(v) \in Nat /\ DOMAIN v = 1 .. Len(v)
      BY <2>1, <2>2 DEF Removes, AxisIn
    <3>2. NormAxis(axes[k], Len(v)) + 1 \in DOMAIN v
      BY <3>1 DEF NormAxis
    <3> QED
      BY <2>2, <2>3, <3>2
  <2>5. Removes(a, axes, negative) <=> Removes(b, axes, negative)
    BY <2>2, <2>4 DEF Removes
  <2>6. (n.op = "Unsqueeze") = FALSE
    BY <1>8
  <2>7. CheckedRankChangeAxes(a, axes, FALSE, negative) = CheckedRankChangeAxes(b, axes, FALSE, negative)
    BY <1>4, <2>1, <2>5, RemovedAxes
  <2> QED
    BY <1>5, <2>6, <2>7
<1> QED
  BY <1>6, <1>7, <1>8 DEF RankChangeShapeless

\* The claims of the operators whose classification counts on them.
LEMMA ClaimMeans ==
  ASSUME NEW n, NEW out, ClaimDecision(n, out)
  PROVE  /\ n.op \in {"Squeeze", "Unsqueeze"} => RankChangeClaim(n)
         /\ n.op = "TopK" => TopKClaim(n)
         /\ n.op = "Softmax" => SoftmaxClaim(n)
         /\ n.op = "Conv" => ConvClaim(n, out)
         /\ n.op = "GatherBlockQuantized" => GatherBlockQuantizedClaim(n)
         /\ n.op \in {Fp4, Fp8} => BlockProductClaim(n, n.op = Fp4)
<1>1. ClaimOf(n, out)
  BY DEF ClaimDecision
<1>2. CASE n.op \in {"Squeeze", "Unsqueeze"}
  <2>1. /\ n.op \in LayoutOperators
        /\ n.op \notin IndexOperators \cup ExtentOperators \cup ReduceOperators \cup ArithmeticOperators
        /\ n.op \notin MatmulOperators \cup WindowOperators \cup AttentionOperators \cup RotaryOperators
        /\ n.op \notin LinearQuantOperators \cup BlockQuantOperators \cup {"Resize", "Upsample", "QMoE"}
    BY <1>2 DEF LayoutOperators, IndexOperators, ExtentOperators, ReduceOperators, Reductions,
       WindowOperators, GlobalPools, ArithmeticOperators, Binaries, Arithmetic, Comparisons, Logical,
       Variadics, Activations, MatmulOperators, AttentionOperators, RotaryOperators,
       LinearQuantOperators, BlockQuantOperators, Fp4, Fp8
  <2>2. LayoutClaim(n, out)
    BY <1>1, <2>1 DEF ClaimOf
  <2> QED
    BY <1>2, <2>2 DEF LayoutClaim, Fp4, Fp8
<1>3. CASE n.op = "TopK"
  <2>1. /\ n.op \in ReduceOperators
        /\ n.op \notin IndexOperators \cup LayoutOperators \cup ExtentOperators \cup ArithmeticOperators
        /\ n.op \notin MatmulOperators \cup WindowOperators \cup AttentionOperators \cup RotaryOperators
        /\ n.op \notin LinearQuantOperators \cup BlockQuantOperators \cup {"Resize", "Upsample", "QMoE"}
    BY <1>3 DEF LayoutOperators, IndexOperators, ExtentOperators, ReduceOperators, Reductions,
       WindowOperators, GlobalPools, ArithmeticOperators, Binaries, Arithmetic, Comparisons, Logical,
       Variadics, Activations, MatmulOperators, AttentionOperators, RotaryOperators,
       LinearQuantOperators, BlockQuantOperators, Fp4, Fp8
  <2>2. ReduceClaim(n, out)
    BY <1>1, <2>1 DEF ClaimOf
  <2> QED
    BY <1>3, <2>2 DEF ReduceClaim, Reductions, Fp4, Fp8
<1>4. CASE n.op = "Softmax"
  <2>1. /\ n.op \in ArithmeticOperators
        /\ n.op \notin IndexOperators \cup LayoutOperators \cup ExtentOperators \cup ReduceOperators
        /\ n.op \notin MatmulOperators \cup WindowOperators \cup AttentionOperators \cup RotaryOperators
        /\ n.op \notin LinearQuantOperators \cup BlockQuantOperators \cup {"Resize", "Upsample", "QMoE"}
    BY <1>4 DEF LayoutOperators, IndexOperators, ExtentOperators, ReduceOperators, Reductions,
       WindowOperators, GlobalPools, ArithmeticOperators, Binaries, Arithmetic, Comparisons, Logical,
       Variadics, Activations, MatmulOperators, AttentionOperators, RotaryOperators,
       LinearQuantOperators, BlockQuantOperators, Fp4, Fp8
  <2>2. ArithmeticClaim(n, out)
    BY <1>1, <2>1 DEF ClaimOf
  <2> QED
    BY <1>4, <2>2 DEF ArithmeticClaim, Binaries, Arithmetic, Comparisons, Logical, Variadics, Activations, Fp4, Fp8
<1>5. CASE n.op = "Conv"
  <2>1. /\ n.op \in WindowOperators
        /\ n.op \notin IndexOperators \cup LayoutOperators \cup ExtentOperators \cup ReduceOperators
        /\ n.op \notin ArithmeticOperators \cup MatmulOperators \cup AttentionOperators \cup RotaryOperators
        /\ n.op \notin LinearQuantOperators \cup BlockQuantOperators \cup {"Resize", "Upsample", "QMoE"}
    BY <1>5 DEF LayoutOperators, IndexOperators, ExtentOperators, ReduceOperators, Reductions,
       WindowOperators, GlobalPools, ArithmeticOperators, Binaries, Arithmetic, Comparisons, Logical,
       Variadics, Activations, MatmulOperators, AttentionOperators, RotaryOperators,
       LinearQuantOperators, BlockQuantOperators, Fp4, Fp8
  <2>2. WindowClaim(n, out)
    BY <1>1, <2>1 DEF ClaimOf
  <2> QED
    BY <1>5, <2>2 DEF WindowClaim, GlobalPools, Fp4, Fp8
<1>6. CASE n.op \in {"GatherBlockQuantized", Fp4, Fp8}
  <2>1. /\ n.op \in BlockQuantOperators
        /\ n.op \notin IndexOperators \cup LayoutOperators \cup ExtentOperators \cup ReduceOperators
        /\ n.op \notin ArithmeticOperators \cup MatmulOperators \cup WindowOperators \cup AttentionOperators
        /\ n.op \notin RotaryOperators \cup LinearQuantOperators \cup {"Resize", "Upsample", "QMoE"}
    BY <1>6 DEF LayoutOperators, IndexOperators, ExtentOperators, ReduceOperators, Reductions,
       WindowOperators, GlobalPools, ArithmeticOperators, Binaries, Arithmetic, Comparisons, Logical,
       Variadics, Activations, MatmulOperators, AttentionOperators, RotaryOperators,
       LinearQuantOperators, BlockQuantOperators, Fp4, Fp8
  <2>2. BlockQuantClaim(n)
    BY <1>1, <2>1 DEF ClaimOf
  <2> QED
    BY <1>6, <2>2 DEF BlockQuantClaim, Fp4, Fp8
<1> QED
  BY <1>2, <1>3, <1>4, <1>5, <1>6

\* Those with a classifier that is not one of the layout file's.
Named == {"Tile", "TopK", "Attention", "Conv", "Softmax", "Pow", "QuantizeLinear", "DequantizeLinear"}

\* A classified operator is classified by its own rule.
LEMMA RuleOf ==
  ASSUME NEW n, n.op \in FrozenOps, StaysShapeless(n)
  PROVE  /\ n.op = "Tile" => TileShapeless(n)
         /\ n.op \in Reductions => ReductionShapeless(n)
         /\ n.op = "TopK" => TopKShapeless(n)
         /\ n.op = "Attention" => AttentionShapeless(n)
         /\ n.op = "Pow" => PowShapeless(n)
         /\ n.op \notin Reductions \cup BlockQuantOperators \cup Named => LayoutShapeless(n)
<1>1. n.op # "ScatterND"
  BY DEF FrozenOps, Reductions, BlockQuantOperators, Fp4, Fp8
<1>2. /\ n.op \in Reductions => n.op \notin Named \cup BlockQuantOperators \cup LinearQuantOperators
      /\ n.op \in Named => n.op \notin Reductions \cup BlockQuantOperators
      /\ n.op \in Named \ {"QuantizeLinear", "DequantizeLinear"} => n.op \notin LinearQuantOperators
  BY DEF Reductions, Named, BlockQuantOperators, LinearQuantOperators, Fp4, Fp8
<1>3. CASE n.op \in Reductions
  BY <1>1, <1>2, <1>3 DEF StaysShapeless, Named
<1>4. CASE n.op \in Named
  BY <1>1, <1>2, <1>4 DEF StaysShapeless, Named
<1>5. CASE n.op \in BlockQuantOperators
  BY <1>5 DEF BlockQuantOperators, Reductions, Named, Fp4, Fp8
<1>6. CASE n.op \notin Reductions \cup Named \cup BlockQuantOperators
  <2>1. n.op \notin LinearQuantOperators
    BY <1>6 DEF FrozenOps, Named, LinearQuantOperators
  <2> QED
    BY <1>1, <1>6, <2>1 DEF StaysShapeless, Named
<1> QED
  BY <1>3, <1>4, <1>5, <1>6

\* What is compared of an operator.
LEMMA ReadsOf ==
  ASSUME NEW n
  PROVE  /\ n.op = "Tile" => HostReadsOf(n) = TileFrozen(n)
         /\ n.op \in Reductions => HostReadsOf(n) = ReductionFrozen(n)
         /\ n.op = "TopK" => HostReadsOf(n) = TopKFrozen(n)
         /\ n.op = "Attention" => HostReadsOf(n) = AttentionFrozen(n)
         /\ n.op = "Softmax" => HostReadsOf(n) = SoftmaxFrozen(n)
         /\ n.op = "Pow" => HostReadsOf(n) = PowFrozen(n)
         /\ n.op = "Conv" => HostReadsOf(n) = ConvFrozen(n)
         /\ n.op \in {"QuantizeLinear", "DequantizeLinear"} => HostReadsOf(n) = LinearFrozen(n)
         /\ n.op = "MatMulNBits" => HostReadsOf(n) = MatmulNbitsFrozen(n)
         /\ n.op = "GatherBlockQuantized" => HostReadsOf(n) = GatherBlockFrozen(n)
         /\ n.op \in {Fp4, Fp8} => HostReadsOf(n) = BlockProductFrozen(n, n.op = Fp4)
         /\ n.op \notin Reductions \cup BlockQuantOperators \cup Named => HostReadsOf(n) = Frozen(n)
<1>1. CASE n.op \in Reductions
  <2>1. n.op \notin Named \cup BlockQuantOperators
    BY <1>1 DEF Reductions, Named, BlockQuantOperators, Fp4, Fp8
  <2> QED
    BY <1>1, <2>1 DEF HostReadsOf, Named, BlockQuantOperators
<1>2. CASE n.op \in Named \cup BlockQuantOperators
  <2>1. n.op \notin Reductions
    BY <1>2 DEF Reductions, Named, BlockQuantOperators, Fp4, Fp8
  <2>2. CASE n.op \in Named \ {"QuantizeLinear", "DequantizeLinear"}
    BY <2>1, <2>2 DEF HostReadsOf, Named, BlockQuantOperators, Fp4, Fp8
  <2>3. CASE n.op \in {"QuantizeLinear", "DequantizeLinear"} \cup BlockQuantOperators
    <3>1. HostReadsOf(n) = QuantFrozen(n)
      BY <2>1, <2>3 DEF HostReadsOf, BlockQuantOperators, Fp4, Fp8
    <3> QED
      BY <2>1, <2>3, <3>1 DEF QuantFrozen, Named, BlockQuantOperators, Fp4, Fp8
  <2> QED
    BY <1>2, <2>2, <2>3
<1>3. CASE n.op \notin Reductions \cup Named \cup BlockQuantOperators
  BY <1>3 DEF HostReadsOf, Named, BlockQuantOperators
<1> QED
  BY <1>1, <1>2, <1>3

\* For each frozen operator: what its handler reads is fixed by its claim and its
\* classifier, or agreed on.
LEMMA HostReadsStay ==
  ASSUME NEW n, NEW m, Replay(n, m), n.op \in FrozenOps, SafetyOf(n) = "shapeless",
         NEW out, ClaimDecision(n, out), Agreeing(n, m)
  PROVE  HostReadsOf(m) = HostReadsOf(n)
<1>1. StaysShapeless(n) /\ m.op = n.op
  BY ShapelessMeans DEF Replay
<1>2. CASE n.op = "Tile"
  BY <1>1, <1>2, TileFreezes, RuleOf, ReadsOf
<1>3. CASE n.op \in Reductions
  BY <1>1, <1>3, ReductionFreezes, RuleOf, ReadsOf
<1>4. CASE n.op = "TopK"
  BY <1>1, <1>4, TopKFreezes, ClaimMeans, RuleOf, ReadsOf
<1>5. CASE n.op = "Attention"
  BY <1>1, <1>5, AttentionFreezes, RuleOf, ReadsOf
<1>6. CASE n.op \in {"Softmax", "Pow"}
  BY <1>1, <1>6, SoftmaxFreezes, PowFreezes, ClaimMeans, RuleOf, ReadsOf
<1>7. CASE n.op = "Conv"
  BY <1>1, <1>7, ConvFreezes, ClaimMeans, ReadsOf
<1>8. CASE n.op \in {"QuantizeLinear", "DequantizeLinear"}
  BY <1>1, <1>8, LinearFreezes, ReadsOf
<1>9. CASE n.op \in BlockQuantOperators
  <2>1. CASE n.op = "MatMulNBits"
    BY <1>1, <2>1, MatmulNbitsFreezes, ReadsOf
  <2>2. CASE n.op = "GatherBlockQuantized"
    BY <1>1, <2>2, GatherBlockFreezes, ClaimMeans, ReadsOf
  <2>3. CASE n.op \in {Fp4, Fp8}
    <3> DEFINE fp4 == n.op = Fp4
    <3>1. BlockProductClaim(n, fp4) /\ fp4 \in BOOLEAN
      BY <2>3, ClaimMeans
    <3>2. HostReadsOf(n) = BlockProductFrozen(n, fp4) /\ HostReadsOf(m) = BlockProductFrozen(m, fp4)
      BY <1>1, <2>3, ReadsOf
    <3> HIDE DEF fp4
    <3> QED
      BY <3>1, <3>2, BlockProductFreezes
  <2> QED
    BY <1>9, <2>1, <2>2, <2>3 DEF BlockQuantOperators
<1>10. CASE n.op \in {"Transpose", "Squeeze", "Unsqueeze", "Flatten", "Shape", "Size", "ConstantOfShape"}
  <2>1. n.op \notin Reductions \cup BlockQuantOperators \cup Named
    BY <1>10 DEF Reductions, BlockQuantOperators, Named, Fp4, Fp8
  <2>2. LayoutShapeless(n)
    BY <1>1, <2>1, RuleOf
  <2>3. HostReadsOf(m) = Frozen(m) /\ HostReadsOf(n) = Frozen(n)
    BY <1>1, <2>1, ReadsOf
  <2>4. Frozen(m) = Frozen(n)
    BY <1>10, <2>2, ClaimMeans, TransposeFreezes, RankChangeFreezes, FlattenFreezes, MetadataFreezes,
       ConstantOfShapeFreezes DEF LayoutShapeless
  <2> QED
    BY <2>3, <2>4
<1> QED
  BY <1>2, <1>3, <1>4, <1>5, <1>6, <1>7, <1>8, <1>9, <1>10 DEF FrozenOps
-----------------------------------------------------------------------------
\* What a session holds is a node as it was offered, claimed as it was offered.
ClaimInv ==
    /\ stage \in {"offered", "claimed"} => Whole(node)
    /\ stage = "claimed" => ClaimDecision(node, Inferred)

\* The invariant holds: offering makes a node whole, deciding asks the claim.
LEMMA ClaimKept == Spec => []ClaimInv
<1>1. Init => ClaimInv
  BY DEF Init, ClaimInv
<1>2. ClaimInv /\ [Next]_vars => ClaimInv'
  <2> SUFFICES ASSUME ClaimInv, [Next]_vars PROVE ClaimInv'
    OBVIOUS
  <2>1. CASE Offer
    <3>1. PICK n \in Nodes : \E s \in Sights, c \in {{}, n.const \cap DOMAIN n.ins} : node' = Offered(n, s, c)
      BY <2>1 DEF Offer, Offered
    <3>2. \A s \in Sights : \A c : Whole(Offered(n, s, c))
      BY OfferedWhole
    <3>3. Whole(node)'
      BY <3>1, <3>2 DEF Whole
    <3> QED
      BY <2>1, <3>3 DEF Offer, ClaimInv
  <2>2. CASE Decide
    <3>1. node' = node /\ meant' = meant /\ stage = "offered"
      BY <2>2 DEF Decide
    <3>2. stage' = "claimed" => ClaimDecision(node, Inferred)
      BY <2>2 DEF Decide
    <3>3. Inferred' = Inferred
      BY <3>1 DEF Inferred, Checked
    <3>4. Whole(node)'
      BY <3>1 DEF ClaimInv, Whole
    <3>5. stage' = "claimed" => ClaimDecision(node, Inferred)'
      BY <3>1, <3>2, <3>3
    <3> QED
      BY <3>4, <3>5 DEF ClaimInv
  <2>3. CASE RunShape \/ RunNumber \/ RunAttention \/ RunQuant \/ Close
    BY <2>3 DEF RunShape, RunNumber, RunAttention, RunQuant, Close, Finish, ClaimInv
  <2>4. CASE UNCHANGED vars
    <3>1. node' = node /\ meant' = meant /\ stage' = stage
      BY <2>4 DEF vars
    <3>2. Inferred' = Inferred
      BY <3>1 DEF Inferred, Checked
    <3> QED
      BY <3>1, <3>2 DEF ClaimInv, Whole
  <2> QED
    BY <2>1, <2>2, <2>3, <2>4 DEF Next
<1> QED
  BY <1>1, <1>2, PTL DEF Spec

\* A node claimed whose classifier (compile_shape_safety) calls it shape-free builds
\* into its trace nothing that another run of the same session would compute anew, but
\* for the extents and ranks it reads without its classifier having asked to see them:
\* for any nodes, any state of shape inference and any constants.
THEOREM ShapelessReplaysAlike == Spec => []ReplaysAlike
<1>1. ClaimInv => ReplaysAlike
  <2> SUFFICES ASSUME ClaimInv, NEW m \in Replays, UnaskedAgree(m)
               PROVE  HostReadsOf(m) = HostReadsOf(node)
    BY DEF ReplaysAlike
  <2>1. stage = "claimed" /\ node.op \in FrozenOps /\ SafetyOf(node) = "shapeless"
    BY DEF Replays
  <2>2. PICK c \in Candidates[node.op] : m = Offered(c, node.sight, node.const) /\ SameSession(node, m)
    BY <2>1 DEF Replays, Offered
  <2>3. c \in Nodes /\ c.op = node.op
    BY <2>1 DEF Candidates
  <2>4. Whole(node) /\ node.sight \in Sights /\ ClaimDecision(node, Inferred)
    BY <2>1 DEF ClaimInv, Whole
  <2>5. m.op = node.op /\ m.sight = node.sight /\ m.const = node.const /\ Whole(m)
    BY <2>2, <2>3, <2>4, OfferedParts, OfferedWhole
  <2>6. Replay(node, m)
    BY <2>2, <2>4, <2>5 DEF Replay
  <2>7. Agreeing(node, m)
    BY DEF Agreeing, UnaskedAgree
  <2> QED
    BY <2>1, <2>4, <2>6, <2>7, HostReadsStay
<1> QED
  BY <1>1, ClaimKept, PTL
=============================================================================
