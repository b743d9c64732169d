------------------------------ MODULE Partition ------------------------------
(***************************************************************************)
(* How GetCapability cuts one optimized graph into the subgraphs that ORT  *)
(* fuses (rust/src/partition.rs, driven by rust/src/capability.rs): keep   *)
(* proven operator regions whole, merge same-kind neighbours into convex   *)
(* groups, fall back to topological runs when the groups cannot be put in  *)
(* an order, coalesce shapeless groups along such runs, and split what     *)
(* results at transformer-layer boundaries.                                *)
(*                                                                         *)
(* A node's kind stands for its (float64, compile class) colour.  Node     *)
(* numbers are positions in the topological order the snapshot hands over, *)
(* so every edge leads from a smaller number to a larger one.              *)
(***************************************************************************)
EXTENDS Naturals, Sequences, FiniteSets

CONSTANTS
    Kinds,          \* the colours of supported nodes
    Shapeless,      \* those with CompilePartitionClass::Shapeless
    Unsupported,    \* the mark of a node the registry declines
    Mixed,          \* whether a graph mixes packed vision attention and MatMulNBits
    Cases,          \* what to consider: n, the nodes of the optimized graph; sets of
                    \* dependency graphs, of colourings and of the lists of regions lut4
                    \* may propose; span, the layers per part (0 is no split)
    AnchorSets      \* the sets of decoder attention nodes to consider

ASSUME KindAssumption == Shapeless \subseteq Kinds /\ Unsupported \notin Kinds
ASSUME CaseAssumption ==
    \A c \in Cases :
      /\ c.n \in Nat /\ c.span \in Nat
      /\ \A list \in c.lists : list \in Seq(SUBSET (1 .. c.n))
      /\ \A g \in c.graphs : g \subseteq {e \in (1 .. c.n) \X (1 .. c.n) : e[1] < e[2]}
      /\ c.kinds \subseteq [1 .. c.n -> Kinds \cup {Unsupported}]
ASSUME LayerAssumption == AnchorSets \subseteq SUBSET Nat
ASSUME MixedAssumption == Mixed \subseteq BOOLEAN

VARIABLES
    edges,          \* the data dependencies between nodes
    kind,           \* each node's colour, or Unsupported
    phase,          \* where the computation is
    todo,           \* regions still to be considered
    taken,          \* regions accepted so far; they are the atoms of the rest
    order,          \* the atoms in the topological order that numbers them
    groups,         \* the disjoint sets: sets of atoms
    emitted,        \* atoms that the run under construction has scheduled
    current,        \* the colour it is running through
    runs,           \* what it has cut so far
    clusters,       \* the answer: sequences of nodes
    layers          \* what the split did: attention nodes, boundaries, span, clusters before

graph == <<edges, kind, layers>>
vars == <<edges, kind, phase, todo, taken, order, groups, emitted, current, runs,
          clusters, layers>>

Node == DOMAIN kind
-----------------------------------------------------------------------------
(* Reachability, as the bitsets of cluster_edges hold it.                  *)

\* What a path of one or more steps of rel leads to from X.
Beyond(rel, X) ==
    LET Ends == {p[2] : p \in rel} IN
    {b \in Ends : \A S \in SUBSET Ends :
        (\A p \in rel : p[1] \in X \cup S => p[2] \in S) => b \in S}

Converse(rel) == {<<p[2], p[1]>> : p \in rel}

\* Dependencies among disjoint sets of nodes.
Links(units) ==
    {p \in units \X units : p[1] # p[2] /\ \E x \in p[1], y \in p[2] : <<x, y>> \in edges}

\* The code stops its search at the last node of X, which changes nothing where numbers
\* follow the edges: what lies beyond leads back to nothing in X.
Convex(rel, X) == Beyond(rel, X) \cap Beyond(Converse(rel), X) \subseteq X

Acyclic(units) ==
    LET rel == Links(units) IN \A u \in units : u \notin Beyond(rel, {u})

Least(S) == CHOOSE x \in S : \A y \in S : x <= y
Last(S) == CHOOSE x \in S : \A y \in S : x >= y
Ascending(S) ==
    CHOOSE f \in [1 .. Cardinality(S) -> S] : \A i, j \in DOMAIN f : i < j => f[i] < f[j]
Members(seq) == {seq[i] : i \in DOMAIN seq}

Supported(X) == \A n \in X : kind[n] # Unsupported
KindOf(X) == kind[CHOOSE n \in X : TRUE]

\* Accepted regions and every other node by itself.
Atoms == taken \cup {{n} : n \in Node \ UNION taken}
InOrder == [n \in Node |-> {n}]
Merged == {UNION g : g \in groups}

-----------------------------------------------------------------------------
Init ==
    /\ \E c \in Cases :
         /\ edges \in c.graphs
         /\ kind \in c.kinds
         /\ todo \in c.lists
         /\ layers = [anchors |-> {}, ends |-> {}, span |-> c.span, whole |-> {}]
    /\ \E mixed \in Mixed : phase = IF mixed THEN "contiguous" ELSE "regions"
    /\ taken = {}
    /\ order = <<>>
    /\ groups = {}
    /\ emitted = {}
    /\ current = Unsupported
    /\ runs = <<>>
    /\ clusters = {}

Alike(i, j) == Supported(i .. j) /\ \A n \in i .. j : kind[n] = kind[i]

\* build_contiguous_clusters: the maximal intervals of one colour.
Contiguous ==
    /\ phase = "contiguous"
    /\ LET Whole(i, j) == /\ Alike(i, j)
                          /\ i > 1 => ~Alike(i - 1, j)
                          /\ j + 1 \in Node => ~Alike(i, j + 1)
       IN clusters' = {Ascending(p[1] .. p[2]) :
                         p \in {q \in Node \X Node : q[1] <= q[2] /\ Whole(q[1], q[2])}}
    /\ phase' = "split"
    /\ UNCHANGED <<graph, todo, taken, order, groups, emitted, current, runs>>

-----------------------------------------------------------------------------
(* build_convex_clusters_with_regions.                                     *)

\* Mutant: a node may belong to two regions.
AcceptsOverlap(r) ==
    /\ r # {}
    /\ Supported(r)
    /\ \A m, n \in r : kind[m] = kind[n]
    /\ Convex(edges, r)

\* A region is kept whole when it is new, supported, of one kind and convex.
Accepts(r) ==
    /\ r # {}
    /\ r \cap UNION taken = {}
    /\ Supported(r)
    /\ \A m, n \in r : kind[m] = kind[n]
    /\ Convex(edges, r)

TakeRegion ==
    /\ phase = "regions"
    /\ todo # <<>>
    /\ taken' = IF Accepts(Head(todo)) THEN taken \cup {Head(todo)} ELSE taken
    /\ todo' = Tail(todo)
    /\ UNCHANGED <<graph, phase, order, groups, emitted, current, runs, clusters>>

\* cluster_edges starts from one group for each supported atom.
Cluster(newTaken, newOrder) ==
    /\ taken' = newTaken
    /\ order' = newOrder
    /\ groups' = {{a} : a \in {b \in Members(newOrder) : Supported(b)}}
    /\ phase' = "merge"
    /\ emitted' = {}

\* Without a region the nodes are numbered already.
NoRegion ==
    /\ phase = "regions"
    /\ todo = <<>>
    /\ IF taken = {}
         THEN Cluster({}, InOrder)
         ELSE phase' = "order" /\ UNCHANGED <<taken, order, groups, emitted>>
    /\ UNCHANGED <<graph, todo, current, runs, clusters>>

Before(u, units) == {v \in units : <<v, u>> \in Links(units)}
Ready(units) == {u \in units \ emitted : Before(u, units) \subseteq emitted}

\* The heap gives the ready atom with the smallest first node.
OrderAtom ==
    /\ phase = "order"
    /\ \E a \in Ready(Atoms) :
         /\ \A b \in Ready(Atoms) : Least(a) <= Least(b)
         /\ order' = Append(order, a)
         /\ emitted' = emitted \cup {a}
    /\ UNCHANGED <<graph, phase, todo, taken, groups, current, runs, clusters>>

\* Mutant: the regions are forgotten only in the numbering.
OrderDoneWhole ==
    /\ phase = "order"
    /\ Ready(Atoms) = {}
    /\ Cluster(taken, IF emitted = Atoms THEN order ELSE InOrder)
    /\ UNCHANGED <<graph, todo, current, runs, clusters>>

\* Regions that are convex one by one may still depend on each other in a
\* cycle: then none of them is kept.
OrderDone ==
    /\ phase = "order"
    /\ Ready(Atoms) = {}
    /\ IF emitted = Atoms THEN Cluster(taken, order) ELSE Cluster({}, InOrder)
    /\ UNCHANGED <<graph, todo, current, runs, clusters>>

-----------------------------------------------------------------------------
(* cluster_edges: merge along same-kind edges while the result is convex.  *)

\* Mutant: any two neighbours of one kind merge.
MergesAll(g, h) == g # h

\* The tentative merge's bitset test.
Merges(g, h) == g # h /\ Convex(Links(Atoms), g \cup h)

\* The loop passes over the edges until a whole pass merges nothing; the order
\* in which it meets them is left open.
Mergeable ==
    {p \in groups \X groups :
        /\ KindOf(UNION p[1]) = KindOf(UNION p[2])
        /\ \E a \in p[1], b \in p[2] : <<a, b>> \in Links(Atoms)
        /\ Merges(p[1], p[2])}

Merge ==
    /\ phase = "merge"
    /\ \E p \in Mergeable : groups' = (groups \ {p[1], p[2]}) \cup {p[1] \cup p[2]}
    /\ UNCHANGED <<graph, phase, todo, taken, order, emitted, current, runs, clusters>>

\* The groups and, one by one, the atoms that are not supported.
Quotient == Merged \cup {a \in Atoms : ~Supported(a)}

\* Kahn's algorithm over the quotient visits everything.
QuotientOrdered == Acyclic(Quotient)

MergeDone ==
    /\ phase = "merge"
    /\ Mergeable = {}
    /\ phase' = IF QuotientOrdered THEN "coalesce" ELSE "runs"
    /\ UNCHANGED <<graph, todo, taken, order, groups, emitted, current, runs, clusters>>

-----------------------------------------------------------------------------
(* topological_colour_runs, over the atoms or over the merged groups.      *)

Units == IF phase = "runs" THEN Atoms ELSE Quotient

\* Only shapeless groups take part in coalescing.
Colour(u) ==
    IF phase = "coalesce" /\ KindOf(u) \notin Shapeless THEN Unsupported ELSE KindOf(u)

\* Atoms by their number; groups by their first atom, ahead of the rest.
Position(u) == Least({i \in DOMAIN order : order[i] \subseteq u})
Number(u) ==
    IF phase = "coalesce" /\ ~Supported(u) THEN Len(order) + Position(u) ELSE Position(u)

\* Stay with the current colour while it has a ready unit.
Candidates ==
    LET same == {u \in Ready(Units) : Colour(u) = current}
    IN IF emitted # {} /\ same # {} THEN same ELSE Ready(Units)

StartsRun(u) == Colour(u) # current

\* Mutant: a run goes on after a unit that is not part of it.
AfterSkipping(u) == IF Colour(u) = Unsupported THEN current ELSE Colour(u)

After(u) == Colour(u)

Emit ==
    /\ phase \in {"runs", "coalesce"}
    /\ \E u \in Candidates :
         /\ \A v \in Candidates : Number(u) <= Number(v)
         /\ emitted' = emitted \cup {u}
         /\ current' = After(u)
         /\ runs' = IF Colour(u) = Unsupported THEN runs
                    ELSE IF StartsRun(u) THEN Append(runs, Ascending(u))
                    ELSE [runs EXCEPT ![Len(runs)] = @ \o Ascending(u)]
    /\ UNCHANGED <<graph, phase, todo, taken, order, groups, clusters>>

\* The fallback keeps the order of a run unless regions were expanded in it.
RunsDone ==
    /\ phase = "runs"
    /\ Ready(Units) = {}
    /\ clusters' = IF taken = {} THEN Members(runs)
                                 ELSE {Ascending(Members(r)) : r \in Members(runs)}
    /\ phase' = "split"
    /\ UNCHANGED <<graph, todo, taken, order, groups, emitted, current, runs>>

\* Coalescing is kept only if it leaves fewer clusters.
CoalesceDone ==
    /\ phase = "coalesce"
    /\ Ready(Units) = {}
    /\ LET rest == {u \in Merged : Colour(u) = Unsupported}
           fewer == Len(runs) + Cardinality(rest) < Cardinality(Merged)
       IN clusters' = {Ascending(u) : u \in IF fewer
                         THEN rest \cup {Members(r) : r \in Members(runs)} ELSE Merged}
    /\ phase' = "split"
    /\ UNCHANGED <<graph, todo, taken, order, groups, emitted, current, runs>>

-----------------------------------------------------------------------------
(* Layer boundaries: infer_boundary_indices, split_annotated_layer_clusters. *)

\* The Adds on a path from one attention node to the next.
Joints(m, n, adds) == adds \cap Beyond(edges, {m}) \cap Beyond(Converse(edges), {n})

Successive(anchors) ==
    {p \in anchors \X anchors : p[1] < p[2] /\ \A a \in anchors : a <= p[1] \/ a >= p[2]}

\* The last joint of every two successive attention nodes, or none at all.
Inferred(anchors, adds) ==
    IF \E p \in Successive(anchors) : Joints(p[1], p[2], adds) = {} THEN {}
    ELSE {Last(Joints(p[1], p[2], adds)) : p \in Successive(anchors)}

\* Layer ends of a cluster ahead of its position i.
EndsAhead(c, i, ends) == Cardinality({j \in 1 .. i - 1 : c[j] \in ends})

\* Mutant: a part is closed when the count exceeds the span.
PartOneMore(c, i, ends, span) == EndsAhead(c, i, ends) \div (span + 1)

PartOf(c, i, ends, span) == EndsAhead(c, i, ends) \div span

PartAround(c, i, ends, span) ==
    LET Same == {j \in DOMAIN c : PartOf(c, j, ends, span) = PartOf(c, i, ends, span)}
    IN SubSeq(c, Least(Same), Last(Same))

\* Mutant: a boundary at the end of a cluster opens an empty part.
PartsWithEmpty(c, ends, span) ==
    {PartAround(c, i, ends, span) : i \in DOMAIN c}
    \cup {<<>> : n \in {c[Len(c)]} \cap ends}

Parts(c, ends, span) == {PartAround(c, i, ends, span) : i \in DOMAIN c}

\* The boundaries come from the graph's metadata, or are inferred.
Split ==
    /\ phase = "split"
    /\ IF layers.span = 0 THEN UNCHANGED <<clusters, layers>> ELSE
       \E anchors \in AnchorSets, named \in SUBSET Node :
         LET ends == IF anchors = {} THEN named ELSE Inferred(anchors, named) IN
         /\ layers' = [layers EXCEPT !.anchors = anchors, !.ends = ends, !.whole = clusters]
         /\ clusters' = UNION {Parts(c, ends, layers.span) : c \in clusters}
    /\ phase' = "done"
    /\ UNCHANGED <<edges, kind, todo, taken, order, groups, emitted, current, runs>>

\* capability.rs has handed every cluster to ORT.
Done == phase = "done" /\ UNCHANGED vars

Next ==
    \/ Contiguous
    \/ TakeRegion \/ NoRegion \/ OrderAtom \/ OrderDone
    \/ Merge \/ MergeDone
    \/ Emit \/ RunsDone \/ CoalesceDone
    \/ Split \/ Done

Spec == Init /\ [][Next]_vars
-----------------------------------------------------------------------------
\* The shape of the state: atoms, order and groups are made of the graph's
\* nodes, and no part that get_capability is left with is empty.
TypeOK ==
    /\ phase \in {"contiguous", "regions", "order", "merge", "runs", "coalesce", "split", "done"}
    /\ taken \subseteq SUBSET Node
    /\ Members(order) \subseteq SUBSET Node
    /\ groups \subseteq SUBSET Atoms
    /\ \A c \in clusters : c # <<>> /\ c \in Seq(Node)

Answered == phase \in {"split", "done"}
Cut == {Members(c) : c \in clusters}

\* What ORT is asked to fuse is every supported node exactly once, and no
\* subgraph mixes precisions or compile classes.
ClustersCover ==
    Answered =>
        /\ UNION Cut = {n \in Node : kind[n] # Unsupported}
        /\ \A c, d \in clusters : c # d => Members(c) \cap Members(d) = {}
        /\ \A c \in clusters : /\ Len(c) = Cardinality(Members(c))
                               /\ \A m, n \in Members(c) : kind[m] = kind[n]

\* The fused subgraphs and the nodes left to other providers can be put in an
\* order: no dependency leaves a subgraph and comes back to it.  (ORT rejects
\* the fusion otherwise.)
Schedulable ==
    Answered => Acyclic(Cut \cup {{n} : n \in Node \ UNION Cut})

\* Every tentative group stays convex in the graph itself, however the merges
\* are ordered and whatever regions it is made of.
GroupsConvex == \A u \in Merged : Convex(edges, u)

\* An operator region that was accepted ends up whole in one subgraph; only
\* the split at layer boundaries may cut it.
RegionsWhole ==
    phase = "split" => \A r \in taken : \E c \in clusters : r \subseteq Members(c)

\* A split cluster gives parts of at most span layers: one that holds span layer
\* boundaries stops at the last of them, and where the boundaries were inferred
\* and lie in one cluster, no part of it has more than span attention nodes.
LayersApart ==
    LET ends == layers.ends IN
    phase = "done" /\ layers.span > 0 => \A c \in clusters :
        /\ LET n == Cardinality(Members(c) \cap ends)
           IN n <= layers.span /\ (n = layers.span => c[Len(c)] \in ends)
        /\ \A w \in layers.whole :
             Members(c) \subseteq Members(w) /\ ends # {} /\ ends \subseteq Members(w) =>
               Cardinality(Members(c) \cap layers.anchors) <= layers.span
=============================================================================
