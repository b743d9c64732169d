------------------------------- MODULE Operators -------------------------------
(***************************************************************************)
(* The life of one node: a session offers it to the registry, the entry's  *)
(* claim takes it or leaves it to the CPU provider, and the entry's        *)
(* handler lowers it to MLX primitives when the graph runs                 *)
(* (rust/src/registry.rs, rust/src/ops).                                   *)
(*                                                                         *)
(* A session knows of the tensors what shape inference told it and must    *)
(* answer for whatever the node then gets: Exact says that a node taken    *)
(* computes what ONNX defines, for every legal input.                      *)
(***************************************************************************)
EXTENDS OpDefinitions

CONSTANT
    Nodes               \* the nodes offered; const holds what a session may hold of their inputs

\* What a node consists of (NodeDesc); its tensors have extents for axes.
ASSUME NodeAssumption ==
    \A n \in Nodes :
      /\ n = [op |-> n.op, attr |-> n.attr, ins |-> n.ins, sight |-> n.sight, const |-> n.const,
              typed |-> n.typed, dtype |-> n.dtype, since |-> n.since, host |-> n.host,
              outs |-> n.outs, outKnown |-> n.outKnown]
      /\ Len(n.ins) \in Nat \ {0} /\ DOMAIN n.ins = 1 .. Len(n.ins)
      /\ \A i \in DOMAIN n.ins : n.ins[i].shape \in Seq(Int)
      /\ n.since \in Nat
      \* Of the inputs a schema requires, Q, K and V; X and W.
      /\ n.op = "Attention" /\ n.typed => Len(n.ins) >= 3
      /\ n.op = "Conv" /\ n.typed => Len(n.ins) >= 2

\* meant is what ONNX defines the offered node to compute; only shape inference
\* looks at it.
VARIABLES node, meant, stage, result
vars == <<node, meant, stage, result>>

Stages == {"idle", "offered", "claimed", "declined", "done"}
-----------------------------------------------------------------------------
\* The operators whose handlers check bounds that MLX does not.
Checked == (node.op = "ScatterND" /\ StringAttr(node, "reduction", "none") = "add") \/ FamilyOf(node.op) = "rotary"

\* What shape inference says of the output: it sees no more than of the inputs, and
\* not that an index is bad.
Inferred ==
    CASE meant # <<Invalid>> -> Seen(node, meant[1].shape)
      [] meant = <<Invalid>> -> IF Checked THEN Seen(node, node.ins[1].shape) ELSE <<>>
-----------------------------------------------------------------------------
Init == node = None /\ meant = None /\ stage = "idle" /\ result = None

Offer ==
    /\ stage = "idle"
    /\ \E n \in Nodes :      \* whatever is known of it, it means one thing
         \E defined \in {MeaningOf(n)}, s \in Sights, c \in {{}, n.const \cap DOMAIN n.ins} :
           /\ node' = [n EXCEPT !.sight = s, !.const = c]
           /\ meant' = defined
    /\ stage' = "offered"
    /\ UNCHANGED result

Decide ==
    /\ stage = "offered"
    /\ stage' = IF ClaimDecision(node, Inferred) THEN "claimed" ELSE "declined"
    /\ UNCHANGED <<node, meant, result>>

\* The engine runs the handler that the entry registered.
Claimed(families) == stage = "claimed" /\ FamilyOf(node.op) \in families
Finish(arrays) == stage' = "done" /\ result' = arrays /\ UNCHANGED <<node, meant>>
RunShape == Claimed({"index", "layout", "extent"}) /\ Finish(ShapeTranslate(node))
RunNumber == Claimed({"reduce", "arithmetic", "window"}) /\ Finish(NumberTranslate(node))
RunAttention == Claimed({"attention", "rotary"}) /\ Finish(AttentionTranslate(node))
RunQuant == Claimed({"quant"}) /\ Finish(QuantTranslate(node))

\* The session ends; the next one may hold any other node.
Close ==
    /\ stage \in {"declined", "done"}
    /\ node' = None /\ meant' = None /\ stage' = "idle" /\ result' = None

Next == Offer \/ Decide \/ RunShape \/ RunNumber \/ RunAttention \/ RunQuant \/ Close
Spec == Init /\ [][Next]_vars
-----------------------------------------------------------------------------
TypeOK ==
    /\ stage \in Stages
    /\ (node = None) = (stage = "idle")
    /\ (result # None) = (stage = "done")
    \* A handler that does not refuse leaves one array for each output.
    /\ stage = "done" /\ Refused \notin ToSet(result) => Len(result) = node.outs

Exact(family) ==
    stage = "done" /\ FamilyOf(node.op) = family /\ meant # <<Invalid>> => result = meant

\* An operator that indexes a tensor reads and writes the elements ONNX names,
\* whatever was known of the shapes and indices when it was claimed.
IndexExact == Exact("index")

\* An operator that rearranges a tensor or reports its extents agrees with ONNX.
LayoutExact == Exact("layout")

\* An operator that cuts, grows, repeats or resamples an axis agrees with ONNX.
ExtentExact == Exact("extent")

\* An operator that runs along axes agrees with ONNX: the elements it gathers, the
\* ties it breaks, the axes an empty list stands for, the extremum of nothing.
ReduceExact == Exact("reduce")

\* An operator on numbers agrees with ONNX: which elements meet under broadcasting,
\* how quotients and remainders round, and which axes a product contracts.
ArithmeticExact == Exact("arithmetic")

\* A convolution or pool meets the elements ONNX pairs: where windows start and end
\* under padding, strides, dilation and rounding up, and which channels a group sees.
WindowExact == Exact("window")

\* Attention mixes the values of the keys ONNX lets a query see: behind causal and
\* window limits, masks narrower than the keys, padding and caches; a rotation turns
\* the pairs ONNX names by the cache rows of their positions.
AttentionExact == Exact("attention") /\ Exact("rotary")

\* A quantized operator agrees with ONNX: which parameter an element gets, in which
\* bits of which byte it lies, how it rounds and saturates, and that a sum of products
\* stays within what float32 holds exactly.
QuantExact == Exact("quant")

\* Where MLX would not check the bounds the handler does: ScatterND with add refuses
\* indices outside the data, a rotation refuses positions outside its caches.
NeverOutside == stage = "done" /\ Checked /\ meant = <<Invalid>> => result = <<Refused>>

\* Another run of the same session: what was known then holds of it too.
SameSession(n, m) ==
    /\ <<m.attr, m.since, m.host>> = <<n.attr, n.since, n.host>>
    /\ Len(n.ins) = Len(m.ins)
    /\ \A i \in DOMAIN n.ins :
         /\ Len(n.ins[i].shape) = Len(m.ins[i].shape) \/ ~RankKnown(n, i)
         /\ Present(n, i) = Present(m, i)
         /\ View(n, i) = View(m, i)
         /\ i \in n.const => n.ins[i] = m.ins[i]

Candidates ==
    LET those == {m \in Nodes : m.op \in FrozenOps}
    IN [o \in FrozenOps |-> {m \in those : m.op = o}]

\* The runs of the node's session that a closure of it may be replayed in, if it has
\* been claimed and its classifier calls it shapeless.
Replays ==
    IF stage = "claimed" /\ node.op \in FrozenOps /\ SafetyOf(node) = "shapeless"
    THEN LET runs == {[c EXCEPT !.sight = node.sight, !.const = node.const] : c \in Candidates[node.op]}
         IN {m \in runs : SameSession(node, m)}
    ELSE {}

\* Every input has the rank it had.
SameRanks(m) == \A i \in DOMAIN node.ins : Rank(m.ins[i]) = Rank(node.ins[i])

\* What nobody asked to see is as it was: the extents of some inputs, a rank.
UnaskedAgree(m) ==
    /\ \A i \in UnaskedInputs(node) : m.ins[i].shape = node.ins[i].shape
    /\ node.op \in UnaskedRanks => Rank(m.ins[1]) = Rank(node.ins[1])

\* A lowering that its classifier calls shapeless may be replayed at other shapes: it
\* builds nothing into its trace that another run of the session would compute anew,
\* but for the extents and ranks that UnaskedInputs and UnaskedRanks name.
ReplaysAlike == \A m \in Replays : UnaskedAgree(m) => HostReadsOf(m) = HostReadsOf(node)

\* What compiled.rs demands of a shapeless lowering: whatever it reads on the host is
\* proven the same at every shape of the same ranks.
FreezesNothing == \A m \in Replays : SameRanks(m) => HostReadsOf(m) = HostReadsOf(node)
=============================================================================
