--------------------------- MODULE PartitionProofs ---------------------------
(***************************************************************************)
(* What partition.rs answers with, for every graph, colouring, list of     *)
(* regions, order of the merges and set of layer boundaries: every         *)
(* supported node once, in subgraphs that can be scheduled, with regions   *)
(* whole and layers apart.                                                 *)
(*                                                                         *)
(* First, the groups it merges are convex in the graph.  The merge test    *)
(* looks at dependencies among atoms only, but a path of the graph that    *)
(* leaves a group and returns projects to a path of atoms, so a set of     *)
(* atoms that is convex among atoms is convex as a set of nodes.           *)
(*                                                                         *)
(* Then one invariant, CutInv: at every step the units that the step works *)
(* on cut up the graph and depend on each other in no cycle.  Two more     *)
(* facts carry it.  A run of units that are ready in turn can be           *)
(* contracted to one unit without a cycle, because nothing emitted depends *)
(* on the run that goes on.  Cutting the units of an order along that      *)
(* order leaves an order.                                                  *)
(***************************************************************************)
EXTENDS Partition, TLAPS, FiniteSetTheorems, FunctionTheorems

\* The dependencies among units that any relation of nodes induces.
Induced(rel, units) ==
    {p \in units \X units : p[1] # p[2] /\ \E x \in p[1], y \in p[2] : <<x, y>> \in rel}
-----------------------------------------------------------------------------
(* Beyond is the least set closed under the relation.                      *)

\* Beyond lies in every set that is closed under steps from X and from itself.
LEMMA BeyondLeast ==
  ASSUME NEW rel, NEW X, NEW S, NEW b \in Beyond(rel, X),
         \A p \in rel : p[1] \in X \cup S => p[2] \in S
  PROVE  b \in S
<1> DEFINE Ends == {p[2] : p \in rel}
           T == S \cap Ends
<1>1. T \in SUBSET Ends
  OBVIOUS
<1>2. \A p \in rel : p[1] \in X \cup T => p[2] \in T
  OBVIOUS
<1>3. b \in T
  BY <1>1, <1>2 DEF Beyond
<1> QED
  BY <1>3

\* A step from X or from Beyond ends in Beyond.
LEMMA BeyondClosed ==
  ASSUME NEW rel, NEW X, NEW p \in rel, p[1] \in X \cup Beyond(rel, X)
  PROVE  p[2] \in Beyond(rel, X)
<1> DEFINE Ends == {q[2] : q \in rel}
<1>1. p[2] \in Ends
  OBVIOUS
<1>2. ASSUME NEW S \in SUBSET Ends, \A q \in rel : q[1] \in X \cup S => q[2] \in S
      PROVE  p[2] \in S
  <2>1. p[1] \in X \cup S
    BY <1>2, BeyondLeast
  <2> QED
    BY <1>2, <2>1
<1> QED
  BY <1>1, <1>2 DEF Beyond

\* What is reached lies in every set that holds all ends of the relation.
LEMMA BeyondEnds ==
  ASSUME NEW rel, NEW X, NEW V, \A p \in rel : p[2] \in V
  PROVE  Beyond(rel, X) \subseteq V
BY DEF Beyond
-----------------------------------------------------------------------------
(* From atoms to nodes.                                                    *)

\* A path of nodes that leaves a set of units and reaches another unit is a path
\* of units.
LEMMA Project ==
  ASSUME NEW V, NEW rel \in SUBSET (V \X V), NEW units,
         \A x \in V : \E u \in units : x \in u,
         \A u, w \in units : u # w => u \cap w = {},
         NEW G \in SUBSET units, NEW a \in units, a \notin G,
         NEW b \in a, b \in Beyond(rel, UNION G)
  PROVE  a \in Beyond(Induced(rel, units), G)
<1> DEFINE L == Induced(rel, units)
           B == Beyond(L, G)
           S == UNION (G \cup B)
<1>1. B \subseteq units
  <2>1. \A p \in L : p[2] \in units
    BY DEF Induced
  <2> QED
    BY <2>1, BeyondEnds
<1>2. ASSUME NEW p \in rel, p[1] \in (UNION G) \cup S
      PROVE  p[2] \in S
  <2>1. PICK v \in G \cup B : p[1] \in v
    BY <1>2
  <2>2. PICK w \in units : p[2] \in w
    OBVIOUS
  <2>3. CASE w = v
    BY <2>1, <2>2, <2>3
  <2>4. CASE w # v
    <3>1. v \in units
      BY <2>1, <1>1
    <3>2. p = <<p[1], p[2]>>
      OBVIOUS
    <3>3. <<v, w>> \in L
      BY <2>1, <2>2, <2>4, <3>1, <3>2 DEF Induced
    <3>4. <<v, w>>[2] \in B
      BY <3>3, <2>1, BeyondClosed
    <3> QED
      BY <3>4, <2>2
  <2> QED
    BY <2>3, <2>4
<1>3. b \in S
  <2> HIDE DEF S
  <2> QED
    BY <1>2, BeyondLeast
<1>4. PICK v \in G \cup B : b \in v
  BY <1>3
<1>5. v = a
  BY <1>1, <1>4
<1> QED
  BY <1>4, <1>5

\* The inverse of the links is what the inverse edges induce.
LEMMA ConverseInduced ==
  ASSUME NEW V, NEW rel \in SUBSET (V \X V), NEW units
  PROVE  Converse(Induced(rel, units)) = Induced(Converse(rel), units)
<1> DEFINE L == Induced(rel, units)
           R == Induced(Converse(rel), units)
<1>1. ASSUME NEW q \in Converse(L) PROVE q \in R
  <2>1. PICK p \in L : q = <<p[2], p[1]>>
    BY DEF Converse
  <2>2. PICK x \in p[1], y \in p[2] : <<x, y>> \in rel
    BY DEF Induced
  <2>3. <<y, x>> \in Converse(rel)
    BY <2>2 DEF Converse
  <2> QED
    BY <2>1, <2>2, <2>3 DEF Induced
<1>2. ASSUME NEW q \in R PROVE q \in Converse(L)
  <2>1. PICK x \in q[1], y \in q[2] : <<x, y>> \in Converse(rel)
    BY DEF Induced
  <2>2. PICK e \in rel : <<x, y>> = <<e[2], e[1]>>
    BY <2>1 DEF Converse
  <2>3. e = <<y, x>>
    BY <2>2
  <2>4. <<q[2], q[1]>> \in L
    BY <2>1, <2>3 DEF Induced
  <2>5. q = <<q[1], q[2]>>
    BY DEF Induced
  <2> QED
    BY <2>4, <2>5 DEF Converse
<1> QED
  BY <1>1, <1>2

\* A set of units that is convex among units is convex as a set of nodes.
LEMMA ConvexLifts ==
  ASSUME NEW V, NEW rel \in SUBSET (V \X V), NEW units,
         \A x \in V : \E u \in units : x \in u,
         \A u, w \in units : u # w => u \cap w = {},
         NEW G \in SUBSET units, Convex(Induced(rel, units), G)
  PROVE  Convex(rel, UNION G)
<1>1. Converse(rel) \in SUBSET (V \X V)
  BY DEF Converse
<1>2. SUFFICES ASSUME NEW b \in Beyond(rel, UNION G), b \in Beyond(Converse(rel), UNION G)
               PROVE  b \in UNION G
  BY DEF Convex
<1>3. b \in V
  BY BeyondEnds
<1>4. PICK a \in units : b \in a
  BY <1>3
<1>5. CASE a \in G
  BY <1>4, <1>5
<1>6. CASE a \notin G
  <2>1. a \in Beyond(Induced(rel, units), G)
    BY <1>2, <1>4, <1>6, Project
  <2>2. a \in Beyond(Induced(Converse(rel), units), G)
    BY <1>1, <1>2, <1>4, <1>6, Project
  <2>3. a \in G
    BY <2>1, <2>2, ConverseInduced DEF Convex
  <2> QED
    BY <2>3, <1>6
<1> QED
  BY <1>5, <1>6

\* Dependencies lead forward, so a single node is convex.
LEMMA OneNodeConvex ==
  ASSUME NEW V, NEW rel \in SUBSET (V \X V), \A b \in V : b \in Nat,
         \A p \in rel : p[1] < p[2], NEW n \in Nat
  PROVE  Convex(rel, {n})
<1> DEFINE S == {b \in V : b > n}
           T == {b \in V : b < n}
<1>0. \A b \in V : b \in Nat
  OBVIOUS
<1>1. \A p \in rel : p[1] \in V /\ p[2] \in V /\ p[1] \in Nat /\ p[2] \in Nat
  OBVIOUS
<1>2. ASSUME NEW p \in rel, p[1] \in {n} \cup S PROVE p[2] \in S
  <2>1. p[1] >= n
    BY <1>0, <1>2
  <2> QED
    BY <1>0, <1>1, <2>1
<1>3. ASSUME NEW p \in Converse(rel), p[1] \in {n} \cup T PROVE p[2] \in T
  <2>1. PICK e \in rel : p = <<e[2], e[1]>>
    BY DEF Converse
  <2>2. p[1] = e[2] /\ p[2] = e[1]
    BY <2>1
  <2>3. e[2] <= n
    BY <1>0, <1>3, <2>2
  <2> QED
    BY <1>0, <1>1, <2>2, <2>3
<1>4. \A b : ~(b \in S /\ b \in T)
  BY <1>0
<1>5. Beyond(rel, {n}) \subseteq S
  <2> HIDE DEF S
  <2> QED
    BY <1>2, BeyondLeast
<1>6. Beyond(Converse(rel), {n}) \subseteq T
  <2> HIDE DEF T
  <2> QED
    BY <1>3, BeyondLeast
<1> HIDE DEF S, T
<1> QED
  BY <1>4, <1>5, <1>6 DEF Convex
-----------------------------------------------------------------------------
(* The invariant.                                                          *)

\* The snapshot's order: every dependency leads forward.
Forwards ==
    /\ \A n \in Node : n \in Nat
    /\ edges \in SUBSET (Node \X Node)
    /\ \A p \in edges : p[1] < p[2]

\* Accepted regions do not overlap and are convex.
RegionsApart ==
    /\ \A r, s \in taken : r # s => r \cap s = {}
    /\ \A r \in taken : Convex(edges, r)

\* While atoms are numbered there is no group yet, and only atoms get numbers.
Numbering ==
    /\ phase \in {"contiguous", "regions", "order"} => groups = {}
    /\ phase = "regions" => order = <<>>
    /\ phase = "order" => order \in Seq(Atoms)

\* A group is made of atoms and convex in the graph.
GroupsWhole ==
    /\ groups \subseteq SUBSET Atoms
    /\ \A g \in groups : Convex(edges, UNION g)

IInv == Forwards /\ RegionsApart /\ Numbering /\ GroupsWhole

\* Atoms cover the graph and do not overlap.
LEMMA AtomsPartition ==
  ASSUME RegionsApart
  PROVE  /\ \A n \in Node : \E a \in Atoms : n \in a
         /\ \A a, b \in Atoms : a # b => a \cap b = {}
<1>1. ASSUME NEW n \in Node PROVE \E a \in Atoms : n \in a
  <2>1. CASE n \in UNION taken
    BY <2>1 DEF Atoms
  <2>2. CASE n \notin UNION taken
    <3>1. {n} \in Atoms
      BY <2>2 DEF Atoms
    <3> QED
      BY <3>1
  <2> QED
    BY <2>1, <2>2
<1>2. ASSUME NEW a \in Atoms, NEW b \in Atoms, a # b PROVE a \cap b = {}
  <2>1. a \in taken \/ \E n \in Node \ UNION taken : a = {n}
    BY DEF Atoms
  <2>2. b \in taken \/ \E n \in Node \ UNION taken : b = {n}
    BY DEF Atoms
  <2>3. CASE a \in taken /\ b \in taken
    BY <1>2, <2>3 DEF RegionsApart
  <2>4. CASE ~(a \in taken /\ b \in taken)
    BY <1>2, <2>1, <2>2, <2>4
  <2> QED
    BY <2>3, <2>4
<1> QED
  BY <1>1, <1>2

\* The merge test is enough: what is convex among atoms is convex in the graph.
LEMMA MergeTest ==
  ASSUME Forwards, RegionsApart,
         NEW G \in SUBSET Atoms, Convex(Links(Atoms), G)
  PROVE  Convex(edges, UNION G)
<1>1. Links(Atoms) = Induced(edges, Atoms)
  BY DEF Links, Induced
<1>2. Convex(Induced(edges, Atoms), G)
  BY <1>1
<1> QED
  BY <1>2, AtomsPartition, ConvexLifts DEF Forwards

\* Every atom is convex by itself.
LEMMA AtomConvex ==
  ASSUME NEW V, NEW rel \in SUBSET (V \X V), \A b \in V : b \in Nat,
         \A p \in rel : p[1] < p[2],
         NEW T, \A r \in T : Convex(rel, r),
         NEW a \in T \cup {{n} : n \in V \ UNION T}
  PROVE  Convex(rel, a)
<1>1. CASE a \in T
  BY <1>1
<1>2. CASE a \notin T
  <2>1. PICK n \in V : a = {n}
    BY <1>2
  <2>2. n \in Nat
    BY <2>1
  <2>3. Convex(rel, {n})
    BY <2>2, OneNodeConvex
  <2> QED
    BY <2>1, <2>3
<1> QED
  BY <1>1, <1>2

\* Clustering starts from atoms, so from convex groups.
LEMMA ClusterKeeps ==
  ASSUME Forwards, UNCHANGED <<edges, kind>>, RegionsApart',
         NEW newTaken, NEW newOrder, Cluster(newTaken, newOrder),
         Members(newOrder) \subseteq Atoms'
  PROVE  IInv'
<1>1. Forwards'
  BY DEF Forwards, Node
<1>2. Numbering'
  BY DEF Numbering, Cluster
<1>3. ASSUME NEW g \in groups'
      PROVE  g \subseteq Atoms' /\ Convex(edges', UNION g)
  <2>1. PICK a \in Members(newOrder) : g = {a}
    BY DEF Cluster
  <2>2. a \in Atoms' /\ UNION g = a
    BY <2>1
  <2>3. Convex(edges', a)
    <3>1. a \in taken' \cup {{n} : n \in Node' \ UNION taken'}
      BY <2>2 DEF Atoms
    <3>2. \A r \in taken' : Convex(edges', r)
      BY DEF RegionsApart
    <3> QED
      BY <1>1, <3>1, <3>2, AtomConvex DEF Forwards
  <2> QED
    BY <2>1, <2>2, <2>3
<1>4. GroupsWhole'
  BY <1>3 DEF GroupsWhole
<1> QED
  BY <1>1, <1>2, <1>4 DEF IInv

-----------------------------------------------------------------------------
(* Each action.                                                            *)

\* Actions that move none of what the invariant is about keep it, once the phase
\* is past the numbering or stays.
LEMMA QuietKeeps ==
  ASSUME IInv, UNCHANGED <<edges, kind, taken, order, groups>>,
         phase' = phase \/ phase' \notin {"contiguous", "regions", "order"}
  PROVE  IInv'
<1>1. Forwards'
  BY DEF IInv, Forwards, Node
<1>2. RegionsApart'
  BY DEF IInv, RegionsApart
<1>3. Atoms' = Atoms
  BY DEF Atoms, Node
<1>4. Numbering'
  BY <1>3 DEF IInv, Numbering
<1>5. GroupsWhole'
  BY <1>3 DEF IInv, GroupsWhole
<1> QED
  BY <1>1, <1>2, <1>4, <1>5 DEF IInv

\* The numbering that no region changes has one node per place.
LEMMA InOrderAtoms ==
  ASSUME taken' = {}, UNCHANGED kind
  PROVE  Members(InOrder) \subseteq Atoms'
BY DEF Members, InOrder, Atoms, Node

LEMMA TakeRegionKeeps == ASSUME IInv, TakeRegion PROVE IInv'
<1> USE DEF TakeRegion, graph
<1>1. Forwards'
  BY DEF IInv, Forwards, Node
<1>2. RegionsApart'
  <2>1. CASE Accepts(Head(todo))
    BY <2>1 DEF IInv, RegionsApart, Accepts
  <2>2. CASE ~Accepts(Head(todo))
    BY <2>2 DEF IInv, RegionsApart
  <2> QED
    BY <2>1, <2>2
<1>3. Numbering' /\ GroupsWhole'
  BY DEF IInv, Numbering, GroupsWhole
<1> QED
  BY <1>1, <1>2, <1>3 DEF IInv

LEMMA NoRegionKeeps == ASSUME IInv, NoRegion PROVE IInv'
<1>1. CASE taken = {}
  <2>1. Cluster({}, InOrder) /\ UNCHANGED <<edges, kind>>
    BY <1>1 DEF NoRegion, graph
  <2>2. taken' = {} /\ RegionsApart'
    BY <2>1 DEF Cluster, RegionsApart
  <2> QED
    BY <2>1, <2>2, InOrderAtoms, ClusterKeeps DEF IInv
<1>2. CASE taken # {}
  <2>1. /\ phase = "regions" /\ phase' = "order"
        /\ UNCHANGED <<edges, kind, taken, order, groups>>
    BY <1>2 DEF NoRegion, graph
  <2>2. Forwards' /\ RegionsApart'
    BY <2>1 DEF IInv, Forwards, RegionsApart, Node
  <2>3. Atoms' = Atoms
    BY <2>1 DEF Atoms, Node
  <2>4. order = <<>> /\ groups = {}
    BY <2>1 DEF IInv, Numbering
  <2>5. Numbering' /\ GroupsWhole'
    BY <2>1, <2>3, <2>4 DEF Numbering, GroupsWhole
  <2> QED
    BY <2>2, <2>5 DEF IInv
<1> QED
  BY <1>1, <1>2

LEMMA OrderAtomKeeps == ASSUME IInv, OrderAtom PROVE IInv'
<1>1. PICK a \in Ready(Atoms) : order' = Append(order, a)
  BY DEF OrderAtom
<1>2. /\ phase = "order" /\ phase' = phase
      /\ UNCHANGED <<edges, kind, taken, groups>>
  BY DEF OrderAtom, graph
<1>3. Forwards' /\ RegionsApart'
  BY <1>2 DEF IInv, Forwards, RegionsApart, Node
<1>4. Atoms' = Atoms
  BY <1>2 DEF Atoms, Node
<1>5. order' \in Seq(Atoms)
  <2>1. a \in Atoms
    BY DEF Ready
  <2>2. order \in Seq(Atoms)
    BY <1>2 DEF IInv, Numbering
  <2> QED
    BY <1>1, <2>1, <2>2
<1>6. Numbering' /\ GroupsWhole'
  BY <1>2, <1>4, <1>5 DEF IInv, Numbering, GroupsWhole
<1> QED
  BY <1>3, <1>6 DEF IInv

LEMMA OrderDoneKeeps == ASSUME IInv, OrderDone PROVE IInv'
<1>1. UNCHANGED <<edges, kind>>
  BY DEF OrderDone, graph
<1>2. CASE emitted = Atoms
  <2>1. Cluster(taken, order)
    BY <1>2 DEF OrderDone
  <2>2. taken' = taken
    BY <2>1 DEF Cluster
  <2>3. RegionsApart' /\ Atoms' = Atoms
    BY <1>1, <2>2 DEF IInv, RegionsApart, Atoms, Node
  <2>4. Members(order) \subseteq Atoms'
    <3>1. order \in Seq(Atoms)
      BY DEF OrderDone, IInv, Numbering
    <3> QED
      BY <3>1, <2>3 DEF Members
  <2> QED
    BY <1>1, <2>1, <2>3, <2>4, ClusterKeeps DEF IInv
<1>3. CASE emitted # Atoms
  <2>1. Cluster({}, InOrder)
    BY <1>3 DEF OrderDone
  <2>2. taken' = {} /\ RegionsApart'
    BY <2>1 DEF Cluster, RegionsApart
  <2> QED
    BY <1>1, <2>1, <2>2, InOrderAtoms, ClusterKeeps DEF IInv
<1> QED
  BY <1>2, <1>3

LEMMA MergeKeeps == ASSUME IInv, Merge PROVE IInv'
<1>1. PICK p \in Mergeable : groups' = (groups \ {p[1], p[2]}) \cup {p[1] \cup p[2]}
  BY DEF Merge
<1>2. phase = "merge" /\ phase' = phase /\ UNCHANGED <<edges, kind, taken, order>>
  BY DEF Merge, graph
<1>3. Forwards' /\ RegionsApart'
  BY <1>2 DEF IInv, Forwards, RegionsApart, Node
<1>4. Atoms' = Atoms
  BY <1>2 DEF Atoms, Node
<1>5. Numbering'
  BY <1>2 DEF Numbering
<1>6. p[1] \in groups /\ p[2] \in groups /\ Convex(Links(Atoms), p[1] \cup p[2])
  BY DEF Mergeable, Merges
<1>7. p[1] \cup p[2] \in SUBSET Atoms
  BY <1>6 DEF IInv, GroupsWhole
<1>8. Convex(edges, UNION (p[1] \cup p[2]))
  BY <1>6, <1>7, MergeTest DEF IInv
<1>9. GroupsWhole'
  BY <1>1, <1>2, <1>4, <1>7, <1>8 DEF IInv, GroupsWhole
<1> QED
  BY <1>3, <1>5, <1>9 DEF IInv

\* The remaining actions cut what has been merged.
LEMMA CuttingKeeps ==
  ASSUME IInv,
         \/ Contiguous \/ MergeDone \/ Emit \/ RunsDone \/ CoalesceDone \/ Split \/ Done
         \/ UNCHANGED vars
  PROVE  IInv'
<1>1. UNCHANGED <<edges, kind, taken, order, groups>>
  BY DEF Contiguous, MergeDone, Emit, RunsDone, CoalesceDone, Split, Done, graph, vars
<1>2. phase' = phase \/ phase' \notin {"contiguous", "regions", "order"}
  BY DEF Contiguous, MergeDone, Emit, RunsDone, CoalesceDone, Split, Done, vars
<1> QED
  BY <1>1, <1>2, QuietKeeps

LEMMA InitIInv == ASSUME Init PROVE IInv
<1>1. PICK c \in Cases : edges \in c.graphs /\ kind \in c.kinds
  BY DEF Init
<1>2. kind \in [1 .. c.n -> Kinds \cup {Unsupported}] /\ c.n \in Nat
  BY <1>1, CaseAssumption
<1>3. edges \subseteq {e \in (1 .. c.n) \X (1 .. c.n) : e[1] < e[2]}
  BY <1>1, CaseAssumption
<1>4. Node = 1 .. c.n
  BY <1>2 DEF Node
<1>5. \A n \in Node : n \in Nat
  BY <1>2, <1>4
<1>6. edges \in SUBSET (Node \X Node) /\ \A p \in edges : p[1] < p[2]
  BY <1>3, <1>4
<1>7. RegionsApart /\ Numbering /\ GroupsWhole
  BY DEF Init, RegionsApart, Numbering, GroupsWhole
<1> QED
  BY <1>5, <1>6, <1>7 DEF IInv, Forwards

LEMMA NextIInv == ASSUME IInv, [Next]_vars PROVE IInv'
<1>1. CASE TakeRegion
  BY <1>1, TakeRegionKeeps
<1>2. CASE NoRegion
  BY <1>2, NoRegionKeeps
<1>3. CASE OrderAtom
  BY <1>3, OrderAtomKeeps
<1>4. CASE OrderDone
  BY <1>4, OrderDoneKeeps
<1>5. CASE Merge
  BY <1>5, MergeKeeps
<1>6. CASE \/ Contiguous \/ MergeDone \/ Emit \/ RunsDone \/ CoalesceDone \/ Split \/ Done
           \/ UNCHANGED vars
  BY <1>6, CuttingKeeps
<1> QED
  BY <1>1, <1>2, <1>3, <1>4, <1>5, <1>6 DEF Next

\* Whatever the graph, the colours, the regions and the order of the merges, no
\* path leaves a group and returns to it (partition.rs, convex_bitsets in the
\* tentative merge of cluster_edges).
THEOREM GroupsStayConvex == Spec => []GroupsConvex
<1>1. IInv => GroupsConvex
  BY DEF IInv, GroupsWhole, GroupsConvex, Merged
<1> QED
  BY <1>1, InitIInv, NextIInv, PTL DEF Spec
-----------------------------------------------------------------------------
(* Finite sets of naturals.                                                *)

\* Every set of naturals that is not empty has a least element.
LEMMA LeastIn ==
  ASSUME NEW T \in SUBSET Nat, T # {}
  PROVE  Least(T) \in T /\ \A y \in T : Least(T) <= y
<1> DEFINE R == {ss \in Nat \X Nat : ss[1] < ss[2]}
<1>1. IsWellFoundedOn(R, Nat)
  BY NatLessThanWellFounded DEF OpToRel
<1>2. PICK x \in T : \A y \in T : <<y, x>> \notin R
  BY <1>1, WFMin
<1>3. ASSUME NEW y \in T PROVE x <= y
  <2>1. <<y, x>> \in Nat \X Nat /\ x \in Nat /\ y \in Nat
    OBVIOUS
  <2>2. ~(y < x)
    BY <1>2, <2>1
  <2> QED
    BY <2>1, <2>2
<1>4. \E z \in T : \A y \in T : z <= y
  BY <1>3
<1> QED
  BY <1>4 DEF Least

\* One that is bounded has a last element.
LEMMA LastIn ==
  ASSUME NEW n \in Nat, NEW T \in SUBSET (0 .. n), T # {}
  PROVE  Last(T) \in T /\ \A y \in T : Last(T) >= y
<1> DEFINE B == {k \in Nat : \A y \in T : y <= k}
<1>1. n \in B
  OBVIOUS
<1>2. Least(B) \in B /\ \A k \in B : Least(B) <= k
  BY <1>1, LeastIn
<1> DEFINE m == Least(B)
<1>3. m \in T
  <2>1. SUFFICES ASSUME m \notin T PROVE FALSE
    OBVIOUS
  <2>2. PICK y \in T : TRUE
    OBVIOUS
  <2>3. m \in Nat /\ \A z \in T : z < m /\ z \in Nat
    BY <1>2, <2>1
  <2>4. m - 1 \in Nat /\ \A z \in T : z <= m - 1
    BY <2>2, <2>3
  <2>5. m <= m - 1
    BY <1>2, <2>4
  <2> QED
    BY <2>3, <2>5
<1>4. \A y \in T : m >= y
  BY <1>2
<1>5. \E z \in T : \A y \in T : z >= y
  BY <1>3, <1>4
<1> QED
  BY <1>5 DEF Last

\* Up to an element of a finite set there are more of its elements than up to an
\* earlier one.
LEMMA RankGrows ==
  ASSUME NEW S \in SUBSET Nat, IsFiniteSet(S),
         NEW x \in S, NEW y \in S, x < y
  PROVE  Cardinality({z \in S : z <= x}) < Cardinality({z \in S : z <= y})
<1> DEFINE U == {z \in S : z <= x}
           W == {z \in S : z <= y}
<1>0. \A z \in S : z \in Nat
  OBVIOUS
<1>1. U \in SUBSET W /\ y \in W /\ y \notin U
  <2>1. ASSUME NEW z \in U PROVE z \in W
    <3>1. z \in Nat /\ x \in Nat /\ y \in Nat
      BY <1>0
    <3> QED
      BY <3>1
  <2>2. x \in Nat /\ y \in Nat
    BY <1>0
  <2>3. y \in W /\ y \notin U
    BY <2>2
  <2> QED
    BY <2>1, <2>3
<1>2. IsFiniteSet(W)
  <2>1. W \in SUBSET S
    OBVIOUS
  <2> QED
    BY <2>1, FS_Subset
<1>3. Cardinality(U) <= Cardinality(W) /\ Cardinality(U) # Cardinality(W) /\ IsFiniteSet(U)
  BY <1>1, <1>2, FS_Subset
<1>4. Cardinality(U) \in Nat /\ Cardinality(W) \in Nat
  BY <1>2, <1>3, FS_CardinalityType
<1> QED
  BY <1>3, <1>4

\* A finite set of naturals has an ascending enumeration.
LEMMA AscendingEnumerates ==
  ASSUME NEW S \in SUBSET Nat, IsFiniteSet(S)
  PROVE  /\ Ascending(S) \in [1 .. Cardinality(S) -> S]
         /\ \A i, j \in 1 .. Cardinality(S) : i < j => Ascending(S)[i] < Ascending(S)[j]
         /\ \A x \in S : \E i \in 1 .. Cardinality(S) : Ascending(S)[i] = x
         /\ Cardinality(S) \in Nat
<1> DEFINE c == Cardinality(S)
           rank == [x \in S |-> Cardinality({z \in S : z <= x})]
           Ranks(f) == \A i, j \in DOMAIN f : i < j => f[i] < f[j]
<1>1. c \in Nat
  BY FS_CardinalityType
<1>2. \A x, y \in S : x < y => rank[x] < rank[y]
  BY RankGrows
<1>3. rank \in [S -> 1 .. c]
  <2>1. ASSUME NEW x \in S PROVE Cardinality({z \in S : z <= x}) \in 1 .. c
    <3> DEFINE U == {z \in S : z <= x}
    <3>1. U \in SUBSET S /\ x \in U
      OBVIOUS
    <3>2. IsFiniteSet(U) /\ Cardinality(U) <= c
      BY <3>1, FS_Subset
    <3>3. Cardinality(U) \in Nat /\ Cardinality(U) # 0
      BY <3>1, <3>2, FS_CardinalityType, FS_EmptySet
    <3> QED
      BY <1>1, <3>2, <3>3
  <2> QED
    BY <2>1
<1>4. \A x, y \in S : rank[x] = rank[y] => x = y
  <2> SUFFICES ASSUME NEW x \in S, NEW y \in S, rank[x] = rank[y], x # y PROVE FALSE
    OBVIOUS
  <2>1. x \in Nat /\ y \in Nat /\ rank[x] \in Nat
    BY <1>1, <1>3
  <2>2. x < y \/ y < x
    BY <2>1
  <2> HIDE DEF rank
  <2> QED
    BY <1>2, <2>1, <2>2
<1>5. rank \in Injection(S, 1 .. c)
  BY <1>3, <1>4, Fun_IsInj
<1>6. IsFiniteSet(1 .. c) /\ Cardinality(1 .. c) = c
  <2>1. 1 \in Int /\ c \in Int
    BY <1>1
  <2>2. /\ IsFiniteSet(1 .. c)
        /\ Cardinality(1 .. c) = IF 1 > c THEN 0 ELSE c - 1 + 1
    BY <2>1, FS_Interval
  <2> QED
    BY <1>1, <2>2
<1>7. rank \in Surjection(S, 1 .. c)
  BY <1>5, <1>6, FS_Injection
<1>8. \A i \in 1 .. c : \E x \in S : rank[x] = i
  BY <1>7 DEF Surjection
<1> DEFINE g == [i \in 1 .. c |-> CHOOSE x \in S : rank[x] = i]
<1>9. \A i \in 1 .. c : g[i] \in S /\ rank[g[i]] = i
  <2> HIDE DEF rank
  <2> QED
    BY <1>8
<1>10. g \in [1 .. c -> S]
  <2> HIDE DEF rank
  <2> QED
    BY <1>9
<1>11. Ranks(g)
  <2> SUFFICES ASSUME NEW i \in 1 .. c, NEW j \in 1 .. c, i < j PROVE g[i] < g[j]
    BY <1>10
  <2>1. g[i] \in Nat /\ g[j] \in Nat /\ rank[g[i]] = i /\ rank[g[j]] = j
    BY <1>9
  <2> HIDE DEF g, rank
  <2>2. ~(g[j] < g[i]) /\ g[i] # g[j]
    BY <1>1, <1>2, <1>9, <2>1
  <2> QED
    BY <2>1, <2>2
<1>12. Ascending(S) \in [1 .. c -> S] /\ Ranks(Ascending(S))
  <2>1. \E f \in [1 .. c -> S] : Ranks(f)
    BY <1>10, <1>11
  <2>2. Ascending(S) = CHOOSE f \in [1 .. c -> S] : Ranks(f)
    BY DEF Ascending
  <2> HIDE DEF Ranks
  <2> QED
    BY <2>1, <2>2
<1>13. DOMAIN Ascending(S) = 1 .. c
  BY <1>12
<1>14. \A x \in S : \E i \in 1 .. c : Ascending(S)[i] = x
  <2> DEFINE h == Ascending(S)
  <2>1. h \in [1 .. c -> S] /\ \A i, j \in 1 .. c : i < j => h[i] < h[j]
    BY <1>12, <1>13
  <2>2. \A i, j \in 1 .. c : h[i] = h[j] => i = j
    <3> SUFFICES ASSUME NEW i \in 1 .. c, NEW j \in 1 .. c, h[i] = h[j], i # j PROVE FALSE
      OBVIOUS
    <3> HIDE DEF h
    <3>1. i \in Nat /\ j \in Nat /\ h[i] \in Nat
      <4>1. h[i] \in S
        BY <2>1
      <4>2. \A z \in S : z \in Nat
        OBVIOUS
      <4>3. i \in Nat /\ j \in Nat
        <5> HIDE DEF c
        <5> QED
          BY <1>1
      <4> QED
        BY <4>1, <4>2, <4>3
    <3>2. i < j \/ j < i
      BY <3>1
    <3> QED
      BY <2>1, <3>1, <3>2
  <2>3. h \in Injection(1 .. c, S)
    BY <2>1, <2>2, Fun_IsInj
  <2>4. h \in Surjection(1 .. c, S)
    BY <1>6, <2>3, FS_Injection
  <2> QED
    BY <2>4 DEF Surjection
<1> QED
  BY <1>1, <1>12, <1>13, <1>14

-----------------------------------------------------------------------------
(* Paths and cycles.                                                       *)

\* What lies beyond something beyond lies beyond.
LEMMA BeyondOn ==
  ASSUME NEW rel, NEW X, NEW b \in Beyond(rel, X), NEW c \in Beyond(rel, {b})
  PROVE  c \in Beyond(rel, X)
<1> DEFINE S == Beyond(rel, X)
<1>1. \A p \in rel : p[1] \in {b} \cup S => p[2] \in S
  BY BeyondClosed
<1>2. c \in S
  <2> HIDE DEF S
  <2> QED
    BY <1>1, BeyondLeast
<1> QED
  BY <1>2

\* Fewer steps, or fewer starting points, lead no further.
LEMMA BeyondLess ==
  ASSUME NEW rel, NEW small \in SUBSET rel, NEW Y, NEW X \in SUBSET Y
  PROVE  Beyond(small, X) \subseteq Beyond(rel, Y)
<1> DEFINE S == Beyond(rel, Y)
<1>1. \A p \in small : p[1] \in X \cup S => p[2] \in S
  BY BeyondClosed
<1>2. Beyond(small, X) \subseteq S
  <2> HIDE DEF S
  <2> QED
    BY <1>1, BeyondLeast
<1> QED
  BY <1>2

\* No unit of a relation that leads from lower ranks to higher ones is on a cycle.
LEMMA RankedAcyclic ==
  ASSUME NEW rel, NEW rank, NEW u, \A p \in rel : rank[p[1]] \in Int /\ rank[p[2]] \in Int,
         \A p \in rel : rank[p[1]] < rank[p[2]]
  PROVE  u \notin Beyond(rel, {u})
<1> DEFINE S == {v \in Beyond(rel, {u}) : rank[v] \in Int /\ rank[u] < rank[v]}
<1>1. SUFFICES ASSUME rank[u] \in Int PROVE u \notin Beyond(rel, {u})
  <2>1. ASSUME rank[u] \notin Int PROVE u \notin Beyond(rel, {u})
    <3>1. \A p \in rel : p[2] \in {p2 \in {q[2] : q \in rel} : rank[p2] \in Int}
      OBVIOUS
    <3>2. Beyond(rel, {u}) \subseteq {p2 \in {q[2] : q \in rel} : rank[p2] \in Int}
      BY <3>1, BeyondEnds
    <3> QED
      BY <2>1, <3>2
  <2> QED
    BY <2>1
<1>2. ASSUME NEW p \in rel, p[1] \in {u} \cup S PROVE p[2] \in S
  <2>1. p[2] \in Beyond(rel, {u})
    BY <1>2, BeyondClosed
  <2>2. rank[p[1]] \in Int /\ rank[p[2]] \in Int /\ rank[p[1]] < rank[p[2]]
    OBVIOUS
  <2>3. rank[u] <= rank[p[1]]
    BY <1>1, <1>2, <2>2
  <2> QED
    BY <1>1, <2>1, <2>2, <2>3
<1>3. u \notin S
  BY <1>1
<1> HIDE DEF S
<1> QED
  BY <1>2, <1>3, BeyondLeast

\* A unit that takes the place of some others, or comes new, and that nothing else
\* depends on closes no cycle.
LEMMA SinkAcyclic ==
  ASSUME NEW rel, NEW W, NEW whole, NEW rest \in SUBSET W,
         \A u \in W : u \notin Beyond(Induced(rel, W), {u}),
         whole \notin rest,
         \A u \in rest : \A x \in whole, y \in u : <<x, y>> \notin rel,
         NEW u \in rest \cup {whole}
  PROVE  u \notin Beyond(Induced(rel, rest \cup {whole}), {u})
<1> DEFINE L == Induced(rel, W)
           M == Induced(rel, rest \cup {whole})
<1>1. \A p \in M : p[1] \in rest
  BY DEF Induced
<1>2. CASE u = whole
  <2>1. \A p \in M : p[1] \in {whole} \cup {} => p[2] \in {}
    BY <1>1
  <2> QED
    BY <1>2, <2>1, BeyondLeast
<1>3. CASE u \in rest
  <2> DEFINE S == Beyond(L, {u}) \cup {whole}
  <2>1. ASSUME NEW p \in M, p[1] \in {u} \cup S PROVE p[2] \in S
    <3>1. p[1] \in {u} \cup Beyond(L, {u})
      BY <1>1, <2>1
    <3>2. CASE p[2] = whole
      BY <3>2
    <3>3. CASE p[2] # whole
      <4>1. p \in L
        BY <1>1, <3>3 DEF Induced
      <4> QED
        BY <3>1, <4>1, BeyondClosed
    <3> QED
      BY <3>2, <3>3
  <2>2. u \notin S
    BY <1>3
  <2> HIDE DEF S
  <2> QED
    BY <2>1, <2>2, BeyondLeast
<1> QED
  BY <1>2, <1>3

\* Of finitely many units without a cycle, some unit of any choice depends on no other
\* of the choice.
LEMMA SourceExists ==
  ASSUME NEW units, IsFiniteSet(units), NEW rel \in SUBSET (units \X units),
         \A u \in units : u \notin Beyond(rel, {u}),
         NEW T \in SUBSET units, T # {}
  PROVE  \E u \in T : \A v \in T : <<v, u>> \notin rel
<1> DEFINE B(u) == Beyond(rel, {u})
           N == {n \in Nat : \E u \in T : n + Cardinality(B(u)) = Cardinality(units)}
<1>1. \A u \in units : /\ B(u) \in SUBSET units /\ IsFiniteSet(B(u))
                       /\ Cardinality(B(u)) \in Nat /\ Cardinality(B(u)) <= Cardinality(units)
  <2> TAKE u \in units
  <2>1. B(u) \in SUBSET units
    BY BeyondEnds
  <2>2. IsFiniteSet(B(u)) /\ Cardinality(B(u)) <= Cardinality(units)
    BY <2>1, FS_Subset
  <2> QED
    BY <2>1, <2>2, FS_CardinalityType
<1>2. Cardinality(units) \in Nat
  BY FS_CardinalityType
<1> DEFINE Rest(v) == Cardinality(units) - Cardinality(B(v))
<1>0. \A v \in T : Rest(v) \in N
  <2> SUFFICES ASSUME NEW v \in T PROVE Rest(v) \in N
    OBVIOUS
  <2> HIDE DEF B
  <2>1. Rest(v) \in Nat /\ Rest(v) + Cardinality(B(v)) = Cardinality(units)
    BY <1>1, <1>2
  <2> HIDE DEF Rest
  <2> QED
    BY <2>1
<1>3. N # {}
  <2>1. PICK u \in T : TRUE
    OBVIOUS
  <2> QED
    BY <1>0, <2>1
<1>4. Least(N) \in N /\ \A n \in N : Least(N) <= n
  BY <1>3, LeastIn
<1>5. PICK u \in T : Least(N) + Cardinality(B(u)) = Cardinality(units)
  BY <1>4
<1>6. ASSUME NEW v \in T, <<v, u>> \in rel PROVE FALSE
  <2>1. <<v, u>>[1] \in {v} /\ <<v, u>>[2] = u
    OBVIOUS
  <2>2. u \in B(v)
    BY <1>6, <2>1, BeyondClosed
  <2>3. B(u) \subseteq B(v)
    BY <2>2, BeyondOn
  <2>4. u \notin B(u)
    OBVIOUS
  <2>5. Cardinality(B(u)) <= Cardinality(B(v)) /\ Cardinality(B(u)) # Cardinality(B(v))
    BY <1>1, <2>2, <2>3, <2>4, FS_Subset
  <2>6. Rest(v) \in N
    BY <1>0
  <2>7. Least(N) <= Cardinality(units) - Cardinality(B(v))
    BY <1>4, <2>6
  <2> HIDE DEF B, N
  <2>8. Least(N) \in Nat
    BY <1>4 DEF N
  <2> QED
    BY <1>1, <1>2, <1>5, <2>5, <2>7, <2>8
<1> QED
  BY <1>6

-----------------------------------------------------------------------------
(* The invariant.                                                          *)

\* Units that cut up the graph, each of one kind.
Fine(units) ==
    /\ UNION units = Node
    /\ \A u \in units : u # {} /\ \A m, n \in u : kind[m] = kind[n]
    /\ \A u, w \in units : u # w => u \cap w = {}

\* What has been emitted depends on nothing that has not.
DownClosed(units) ==
    /\ emitted \subseteq units
    /\ \A p \in Links(units) : p[2] \in emitted => p[1] \in emitted

\* A sequence that may become a subgraph: supported nodes of one kind, each once, in
\* an order their dependencies allow.
Sound(c) ==
    /\ c \in Seq(Node) /\ c # <<>>
    /\ \A i, j \in DOMAIN c : c[i] = c[j] => i = j
    /\ \A i, j \in DOMAIN c : <<c[i], c[j]>> \in edges => i < j
    /\ Supported(Members(c))
    /\ \A m, n \in Members(c) : kind[m] = kind[n]

\* The sets of nodes of sequences, and an answer: sound, disjoint and complete, and
\* with the nodes left out in an order.
CutOf(cs) == {Members(c) : c \in cs}
Cutting(cs) ==
    /\ \A c \in cs : Sound(c)
    /\ \A c, d \in cs : c # d => Members(c) \cap Members(d) = {}
    /\ UNION CutOf(cs) = {n \in Node : kind[n] # Unsupported}
    /\ Acyclic(CutOf(cs) \cup {{n} : n \in Node \ UNION CutOf(cs)})

\* The nodes are numbered without a gap, and a region is of supported nodes of a kind.
Regions ==
    /\ \E n \in Nat : Node = 1 .. n
    /\ todo \in Seq(SUBSET Node)
    /\ \A r \in taken : /\ r \subseteq Node /\ r # {} /\ Supported(r)
                        /\ \A m, n \in r : kind[m] = kind[n]

\* Nothing is cut before the merges are over.
Early ==
    /\ phase \in {"contiguous", "regions", "order", "merge"} => runs = <<>> /\ current = Unsupported
    /\ phase \in {"contiguous", "regions", "merge"} => emitted = {}
    /\ phase \in {"contiguous", "regions"} => order = <<>>
    /\ phase = "contiguous" => taken = {}
    /\ order \in Seq(SUBSET Node)

\* The numbering goes on along the dependencies.
Numbered ==
    phase = "order" => Members(order) = emitted /\ DownClosed(Atoms) /\ Acyclic(emitted)

\* The groups cut up the supported atoms, each of one kind; regions that stay are on
\* no cycle.
Grouped ==
    phase \in {"merge", "runs", "coalesce"} =>
      /\ UNION groups = {a \in Atoms : Supported(a)}
      /\ \A h \in groups : h # {} /\ \A m, n \in UNION h : kind[m] = kind[n]
      /\ \A h, k \in groups : h # k => h \cap k = {}
      /\ Acyclic(Atoms)

\* The runs are of the emitted units that have a colour; what has been emitted is in
\* an order, and nothing emitted depends on the run that goes on.
Aside == {u \in emitted : Colour(u) = Unsupported}
LastRun == Members(runs[Len(runs)])
RunsApart ==
    /\ runs \in Seq(Seq(Node))
    /\ \A r \in Members(runs) : Sound(r)
    /\ \A i, j \in DOMAIN runs : i # j => Members(runs[i]) \cap Members(runs[j]) = {}
RunsEmitted ==
    /\ UNION CutOf(Members(runs)) = UNION (emitted \ Aside)
    /\ \A u \in emitted \ Aside : \E r \in Members(runs) : u \subseteq Members(r)
RunsOrdered == Acyclic(CutOf(Members(runs)) \cup Aside)
RunGoesOn ==
    current # Unsupported =>
      /\ runs # <<>>
      /\ \A n \in LastRun : kind[n] = current
      /\ \A x \in LastRun, y \in UNION emitted : <<x, y>> \in edges => y \in LastRun
Running ==
    phase \in {"runs", "coalesce"} =>
      /\ Fine(Units) /\ DownClosed(Units) /\ Acyclic(Units)
      /\ RunsApart /\ RunsEmitted /\ RunsOrdered /\ RunGoesOn

\* The answer, whole and after it is split.
AnswerSplit ==
    phase = "done" /\ layers.span > 0 =>
      /\ Cutting(layers.whole)
      /\ clusters = UNION {Parts(c, layers.ends, layers.span) : c \in layers.whole}
      /\ layers.anchors # {} => \E adds \in SUBSET Node : layers.ends = Inferred(layers.anchors, adds)
AnswerSound ==
    /\ ~Answered => clusters = {}
    /\ Answered => Cutting(clusters)
    /\ RegionsWhole
    /\ AnswerSplit

CutInv ==
    /\ IInv /\ Regions /\ Early /\ Numbered
    /\ Grouped /\ Running /\ AnswerSound
-----------------------------------------------------------------------------
(* What holds of sequences and units.                                      *)

\* All that is said of units and sequences is said of the graph alone.
LEMMA Steady ==
  ASSUME UNCHANGED <<edges, kind>>
  PROVE  /\ Node' = Node
         /\ \A c : Sound(c)' <=> Sound(c)
         /\ \A cs : Cutting(cs)' <=> Cutting(cs)
         /\ \A units : Acyclic(units)' <=> Acyclic(units)
         /\ \A units : Fine(units)' <=> Fine(units)
         /\ \A units : Links(units)' = Links(units)
         /\ \A X : Supported(X)' <=> Supported(X)
         /\ \A X : KindOf(X)' = KindOf(X)
<1>1. Node' = Node
  BY DEF Node
<1>2. \A units : Links(units)' = Links(units)
  BY DEF Links
<1>3. \A units : Acyclic(units)' <=> Acyclic(units)
  BY <1>2 DEF Acyclic
<1>4. \A X : Supported(X)' <=> Supported(X)
  BY DEF Supported
<1>5. \A c : Sound(c)' <=> Sound(c)
  BY <1>1, <1>4 DEF Sound
<1>6. \A cs : Cutting(cs)' <=> Cutting(cs)
  <2> TAKE cs
  <2> DEFINE U == CutOf(cs) \cup {{n} : n \in Node \ UNION CutOf(cs)}
             K == {n \in Node : kind[n] # Unsupported}
  <2>1. U' = U /\ K' = K
    BY <1>1
  <2>2. Acyclic(U)' <=> Acyclic(U)
    <3> HIDE DEF U
    <3> QED
      BY <2>1 DEF Acyclic, Links
  <2>3. Cutting(cs) <=> /\ \A c \in cs : Sound(c)
                        /\ \A c, d \in cs : c # d => Members(c) \cap Members(d) = {}
                        /\ UNION CutOf(cs) = K /\ Acyclic(U)
    BY DEF Cutting
  <2>4. Cutting(cs)' <=> /\ \A c \in cs : Sound(c)'
                         /\ \A c, d \in cs : c # d => Members(c) \cap Members(d) = {}
                         /\ UNION CutOf(cs) = K' /\ Acyclic(U)'
    BY DEF Cutting
  <2> HIDE DEF U, K
  <2> QED
    BY <1>5, <2>1, <2>2, <2>3, <2>4
<1>7. \A units : Fine(units)' <=> Fine(units)
  BY <1>1 DEF Fine
<1>8. \A X : KindOf(X)' = KindOf(X)
  BY DEF KindOf
<1> QED
  BY <1>1, <1>2, <1>3, <1>4, <1>5, <1>6, <1>7, <1>8

\* The links among units are what the dependencies induce.
LEMMA LinksInduced ==
  ASSUME NEW units
  PROVE  /\ Links(units) = Induced(edges, units)
         /\ Acyclic(units) <=> \A u \in units : u \notin Beyond(Induced(edges, units), {u})
BY DEF Links, Induced, Acyclic

\* The kind of a unit is that of each of its nodes.
LEMMA KindOfAny ==
  ASSUME NEW X, \A m, n \in X : kind[m] = kind[n], NEW n \in X
  PROVE  kind[n] = KindOf(X)
BY DEF KindOf

\* There are finitely many units.
LEMMA UnitsFinite ==
  ASSUME Regions, NEW units, UNION units = Node
  PROVE  IsFiniteSet(units)
<1>1. PICK n \in Nat : Node = 1 .. n
  BY DEF Regions
<1>2. IsFiniteSet(Node)
  <2>1. 1 \in Int /\ n \in Int
    OBVIOUS
  <2> QED
    BY <1>1, <2>1, FS_Interval
<1>3. IsFiniteSet(SUBSET Node)
  BY <1>2, FS_SUBSET
<1>4. units \in SUBSET SUBSET Node
  OBVIOUS
<1> QED
  BY <1>3, <1>4, FS_Subset

\* When nothing more is ready, everything has been emitted.
LEMMA AllEmitted ==
  ASSUME Regions, NEW units, UNION units = Node, Acyclic(units), DownClosed(units),
         Ready(units) = {}
  PROVE  emitted = units
<1> DEFINE T == units \ emitted
<1>1. IsFiniteSet(units)
  BY UnitsFinite
<1>2. SUFFICES ASSUME T # {} PROVE FALSE
  BY DEF DownClosed
<1>3. Links(units) \in SUBSET (units \X units)
  BY DEF Links
<1>4. \A u \in units : u \notin Beyond(Links(units), {u})
  BY DEF Acyclic
<1>5. T \in SUBSET units
  OBVIOUS
<1>6. PICK u \in T : \A v \in T : <<v, u>> \notin Links(units)
  <2> HIDE DEF T
  <2> QED
    BY <1>1, <1>2, <1>3, <1>4, <1>5, SourceExists
<1>7. u \in Ready(units)
  BY <1>6 DEF Ready, Before
<1> QED
  BY <1>7

\* An enumeration of supported nodes of one kind is sound.
LEMMA AscendingSound ==
  ASSUME Forwards, Regions, NEW S \in SUBSET Node, S # {}, Supported(S),
         \A m, n \in S : kind[m] = kind[n]
  PROVE  Members(Ascending(S)) = S /\ Sound(Ascending(S))
<1> DEFINE c == Ascending(S)
           k == Cardinality(S)
<1>0. S \in SUBSET Nat /\ IsFiniteSet(S)
  <2>1. PICK n \in Nat : Node = 1 .. n
    BY DEF Regions
  <2>2. 1 \in Int /\ n \in Int
    OBVIOUS
  <2>3. IsFiniteSet(Node)
    BY <2>1, <2>2, FS_Interval
  <2> QED
    BY <2>3, FS_Subset DEF Forwards
<1>1. /\ c \in [1 .. k -> S] /\ k \in Nat
      /\ \A i, j \in 1 .. k : i < j => c[i] < c[j]
      /\ \A x \in S : \E i \in 1 .. k : c[i] = x
  BY <1>0, AscendingEnumerates
<1>2. DOMAIN c = 1 .. k /\ c \in Seq(Node)
  BY <1>1
<1> HIDE DEF c, k
<1>3. Members(c) = S
  BY <1>1, <1>2 DEF Members
<1>4. c # <<>>
  BY <1>3 DEF Members
<1>5. \A i, j \in DOMAIN c : i \in Nat /\ j \in Nat /\ c[i] \in Nat /\ c[j] \in Nat
  <2> SUFFICES ASSUME NEW i \in DOMAIN c PROVE i \in Nat /\ c[i] \in Nat
    OBVIOUS
  <2>1. c[i] \in S
    BY <1>1, <1>2
  <2>2. \A x \in S : x \in Nat
    BY <1>0
  <2> QED
    BY <1>1, <1>2, <2>1, <2>2
<1>6. \A i, j \in DOMAIN c : c[i] = c[j] => i = j
  <2> SUFFICES ASSUME NEW i \in DOMAIN c, NEW j \in DOMAIN c, c[i] = c[j], i # j PROVE FALSE
    OBVIOUS
  <2>1. i < j \/ j < i
    BY <1>5
  <2> QED
    BY <1>1, <1>2, <1>5, <2>1
<1>7. \A i, j \in DOMAIN c : <<c[i], c[j]>> \in edges => i < j
  <2> SUFFICES ASSUME NEW i \in DOMAIN c, NEW j \in DOMAIN c, <<c[i], c[j]>> \in edges PROVE i < j
    OBVIOUS
  <2>1. <<c[i], c[j]>>[1] < <<c[i], c[j]>>[2]
    BY DEF Forwards
  <2>2. c[i] < c[j]
    BY <2>1
  <2>3. ~(i = j) /\ ~(j < i)
    BY <1>1, <1>2, <1>5, <2>2
  <2> QED
    BY <1>5, <2>3
<1> QED
  BY <1>2, <1>3, <1>4, <1>6, <1>7 DEF Sound, c

\* The atoms cut up the graph.
LEMMA AtomsFine ==
  ASSUME RegionsApart, Regions
  PROVE  Fine(Atoms)
<1>1. UNION Atoms = Node
  BY DEF Atoms, Regions
<1>2. \A a \in Atoms : a # {} /\ \A m, n \in a : kind[m] = kind[n]
  BY DEF Atoms, Regions
<1> QED
  BY <1>1, <1>2, AtomsPartition DEF Fine

\* Nodes by themselves are on no cycle.
LEMMA NodesAcyclic ==
  ASSUME Forwards
  PROVE  Acyclic({{n} : n \in Node})
<1> DEFINE units == {{n} : n \in Node}
           rank == [u \in units |-> CHOOSE n \in u : TRUE]
           rel == Induced(edges, units)
<1>1. \A n \in Node : rank[{n}] = n
  OBVIOUS
<1>2. ASSUME NEW p \in rel
      PROVE  rank[p[1]] \in Int /\ rank[p[2]] \in Int /\ rank[p[1]] < rank[p[2]]
  <2>1. PICK x \in p[1], y \in p[2] : <<x, y>> \in edges
    BY DEF Induced
  <2>2. p[1] = {x} /\ p[2] = {y} /\ x \in Node /\ y \in Node
    BY DEF Induced
  <2>3. <<x, y>>[1] < <<x, y>>[2] /\ x \in Nat /\ y \in Nat
    BY <2>1, <2>2 DEF Forwards
  <2> HIDE DEF rank
  <2> QED
    BY <1>1, <2>2, <2>3
<1>3. \A u \in units : u \notin Beyond(rel, {u})
  <2> TAKE u \in units
  <2> HIDE DEF rel, rank
  <2> QED
    BY <1>2, RankedAcyclic
<1> QED
  BY <1>3, LinksInduced
-----------------------------------------------------------------------------
(* Numbering and merging.                                                  *)

\* Nothing is cut at first.
LEMMA InitCuts == ASSUME Init PROVE CutInv
<1>1. PICK c \in Cases : kind \in c.kinds /\ todo \in c.lists
  BY DEF Init
<1>2. kind \in [1 .. c.n -> Kinds \cup {Unsupported}] /\ c.n \in Nat /\ todo \in Seq(SUBSET (1 .. c.n))
  BY <1>1, CaseAssumption
<1>3. Node = 1 .. c.n
  BY <1>2 DEF Node
<1>4. Regions
  BY <1>2, <1>3 DEF Init, Regions
<1>5. phase \in {"contiguous", "regions"} /\ clusters = {} /\ taken = {}
  BY DEF Init
<1>6. Early /\ Numbered /\ Grouped /\ Running
  BY <1>5 DEF Init, Early, Numbered, Grouped, Running
<1>7. AnswerSound
  BY <1>5 DEF AnswerSound, AnswerSplit, Answered, RegionsWhole
<1> QED
  BY <1>4, <1>6, <1>7, InitIInv DEF CutInv

\* Nothing is said of an answer before there is one.
LEMMA NoAnswerYet ==
  ASSUME AnswerSound, UNCHANGED clusters, ~Answered, ~Answered'
  PROVE  AnswerSound'
BY DEF AnswerSound, AnswerSplit, Answered, RegionsWhole

\* A region that is accepted is of supported nodes of one kind.
LEMMA TakeRegionCuts == ASSUME CutInv, TakeRegion PROVE CutInv'
<1>1. /\ UNCHANGED <<edges, kind, phase, order, groups, emitted, current, runs, clusters>>
      /\ phase = "regions" /\ todo # <<>> /\ todo' = Tail(todo)
  BY DEF TakeRegion, graph
<1>2. IInv'
  BY TakeRegionKeeps DEF CutInv
<1>3. Regions'
  <2>1. Head(todo) \in SUBSET Node /\ Tail(todo) \in Seq(SUBSET Node)
    BY <1>1 DEF CutInv, Regions
  <2>2. ASSUME NEW r \in taken'
        PROVE  r \subseteq Node /\ r # {} /\ Supported(r) /\ \A m, n \in r : kind[m] = kind[n]
    <3>1. CASE r \in taken
      BY <3>1 DEF CutInv, Regions
    <3>2. CASE r \notin taken
      BY <2>1, <3>2 DEF TakeRegion, Accepts
    <3> QED
      BY <3>1, <3>2
  <2> QED
    BY <1>1, <2>1, <2>2, Steady DEF CutInv, Regions
<1>4. Early' /\ Numbered' /\ Grouped' /\ Running'
  BY <1>1, Steady DEF CutInv, Early, Numbered, Grouped, Running
<1>5. AnswerSound'
  BY <1>1, NoAnswerYet DEF CutInv, Answered
<1> QED
  BY <1>2, <1>3, <1>4, <1>5 DEF CutInv

\* Clustering starts from one group for each supported atom.
LEMMA ClusterCuts ==
  ASSUME CutInv, IInv', UNCHANGED <<edges, kind, todo, current, runs, clusters>>,
         phase \in {"regions", "order"},
         NEW newTaken \in {taken, {}}, NEW newOrder, Cluster(newTaken, newOrder),
         newOrder \in Seq(SUBSET Node), Members(newOrder) = Atoms', Acyclic(Atoms')
  PROVE  CutInv'
<1>1. /\ phase' = "merge" /\ emitted' = {} /\ taken' = newTaken /\ order' = newOrder
      /\ groups' = {{a} : a \in {b \in Atoms' : Supported(b)}}
  BY DEF Cluster
<1>2. Node' = Node
  BY Steady
<1>3. Regions'
  BY <1>1, <1>2, Steady DEF CutInv, Regions
<1>4. Early'
  BY <1>1, <1>2 DEF CutInv, Early
<1>5. Numbered' /\ Running'
  BY <1>1 DEF Numbered, Running
<1>6. Fine(Atoms)'
  BY <1>3, AtomsFine, PTL DEF IInv
<1>7. Fine(Atoms')
  <2>1. /\ UNION Atoms' = Node'
        /\ \A u \in Atoms' : u # {} /\ \A m, n \in u : kind'[m] = kind'[n]
        /\ \A u, w \in Atoms' : u # w => u \cap w = {}
    BY <1>6 DEF Fine
  <2> QED
    BY <1>2, <2>1 DEF Fine
<1>8. Grouped'
  <2>1. UNION groups' = {a \in Atoms' : Supported(a)}
    BY <1>1
  <2>2. \A h \in groups' : h # {} /\ \A m, n \in UNION h : kind[m] = kind[n]
    BY <1>1, <1>7 DEF Fine
  <2>3. ASSUME NEW h \in groups', NEW k \in groups', h # k PROVE h \cap k = {}
    <3>1. \E a, b : h = {a} /\ k = {b}
      BY <1>1
    <3> QED
      BY <2>3, <3>1
  <2>4. \A a \in Atoms' : Supported(a)' <=> Supported(a)
    BY Steady
  <2>5. UNION groups' = {a \in Atoms : Supported(a)}'
    BY <2>1, <2>4
  <2>6. Acyclic(Atoms)'
    BY Steady DEF Acyclic, Links
  <2> QED
    BY <2>2, <2>3, <2>5, <2>6 DEF Grouped
<1>9. AnswerSound'
  BY <1>1, NoAnswerYet DEF CutInv, Answered
<1> QED
  BY <1>3, <1>4, <1>5, <1>8, <1>9 DEF CutInv

\* Without regions the atoms are the nodes, in their own order.
LEMMA InOrderFits ==
  ASSUME CutInv, taken' = {}, UNCHANGED <<edges, kind>>
  PROVE  InOrder \in Seq(SUBSET Node) /\ Members(InOrder) = Atoms' /\ Acyclic(Atoms')
<1>1. Node' = Node
  BY Steady
<1>2. Atoms' = {{n} : n \in Node}
  BY <1>1 DEF Atoms
<1>3. PICK k \in Nat : Node = 1 .. k
  BY DEF CutInv, Regions
<1>4. InOrder \in Seq(SUBSET Node)
  BY <1>3 DEF InOrder
<1>5. Members(InOrder) = {{n} : n \in Node}
  BY DEF Members, InOrder
<1>6. Acyclic({{n} : n \in Node})
  BY NodesAcyclic DEF CutInv, IInv
<1> QED
  BY <1>2, <1>4, <1>5, <1>6

\* Without a region the nodes are the atoms, and their order is theirs.
LEMMA NoRegionCuts == ASSUME CutInv, NoRegion PROVE CutInv'
<1>1. UNCHANGED <<edges, kind, todo, current, runs, clusters>> /\ phase = "regions"
  BY DEF NoRegion, graph
<1>2. IInv'
  BY NoRegionKeeps DEF CutInv
<1>3. CASE taken = {}
  <2>1. Cluster({}, InOrder) /\ taken' = {}
    BY <1>3 DEF NoRegion, Cluster
  <2> QED
    BY <1>1, <1>2, <2>1, InOrderFits, ClusterCuts
<1>4. CASE taken # {}
  <2>1. phase' = "order" /\ UNCHANGED <<taken, order, groups, emitted>>
    BY <1>4 DEF NoRegion
  <2>2. order = <<>> /\ emitted = {} /\ runs = <<>> /\ current = Unsupported
    BY <1>1 DEF CutInv, Early
  <2>3. Regions' /\ Early'
    BY <1>1, <2>1, <2>2, Steady DEF CutInv, Regions, Early
  <2>4. Numbered'
    <3>1. Members(<<>>) = {}
      BY DEF Members
    <3>2. DownClosed(Atoms)' /\ Acyclic(emitted)'
      BY <2>1, <2>2 DEF DownClosed, Acyclic
    <3> QED
      BY <2>1, <2>2, <3>1, <3>2 DEF Numbered
  <2>5. Grouped' /\ Running'
    BY <2>1 DEF Grouped, Running
  <2>6. AnswerSound'
    BY <1>1, <2>1, NoAnswerYet DEF CutInv, Answered
  <2> QED
    BY <1>2, <2>3, <2>4, <2>5, <2>6 DEF CutInv
<1> QED
  BY <1>3, <1>4

\* What is emitted next depends on emitted units only, and nothing emitted on it.
LEMMA EmitClosed ==
  ASSUME NEW units, DownClosed(units), NEW u \in Ready(units), UNCHANGED <<edges, kind>>,
         emitted' = emitted \cup {u}
  PROVE  /\ u \in units /\ u \notin emitted
         /\ \A w \in emitted : \A x \in u, y \in w : <<x, y>> \notin edges
         /\ emitted' \subseteq units
         /\ \A p \in Links(units) : p[2] \in emitted' => p[1] \in emitted'
<1>1. u \in units /\ u \notin emitted /\ Before(u, units) \subseteq emitted
  BY DEF Ready
<1>2. ASSUME NEW w \in emitted, NEW x \in u, NEW y \in w, <<x, y>> \in edges PROVE FALSE
  <2>1. w \in units /\ u # w
    BY <1>1 DEF DownClosed
  <2>2. <<u, w>> \in Links(units)
    BY <1>1, <1>2, <2>1 DEF Links
  <2>3. <<u, w>>[1] \in emitted
    BY <2>2 DEF DownClosed
  <2> QED
    BY <1>1, <2>3
<1>3. ASSUME NEW p \in Links(units), p[2] \in emitted' PROVE p[1] \in emitted'
  <2>1. CASE p[2] \in emitted
    BY <2>1 DEF DownClosed
  <2>2. CASE p[2] = u
    <3>1. p = <<p[1], u>> /\ p[1] \in units
      BY <2>2 DEF Links
    <3>2. p[1] \in Before(u, units)
      BY <3>1 DEF Before
    <3> QED
      BY <1>1, <3>2
  <2> QED
    BY <1>3, <2>1, <2>2
<1> QED
  BY <1>1, <1>2, <1>3 DEF DownClosed

\* A ready atom follows what it depends on.
LEMMA OrderAtomCuts == ASSUME CutInv, OrderAtom PROVE CutInv'
<1>1. PICK a \in Ready(Atoms) : order' = Append(order, a) /\ emitted' = emitted \cup {a}
  BY DEF OrderAtom
<1>2. /\ UNCHANGED <<edges, kind, phase, todo, taken, groups, current, runs, clusters>>
      /\ phase = "order"
  BY DEF OrderAtom, graph
<1>3. IInv'
  BY OrderAtomKeeps DEF CutInv
<1>4. Regions'
  BY <1>2, Steady DEF CutInv, Regions
<1>5. Members(order) = emitted /\ DownClosed(Atoms) /\ Acyclic(emitted)
  BY <1>2 DEF CutInv, Numbered
<1>6. /\ a \in Atoms /\ a \notin emitted
      /\ \A w \in emitted : \A x \in a, y \in w : <<x, y>> \notin edges
      /\ emitted' \subseteq Atoms
      /\ \A p \in Links(Atoms) : p[2] \in emitted' => p[1] \in emitted'
  BY <1>1, <1>2, <1>5, EmitClosed
<1>7. Atoms' = Atoms
  BY <1>2, Steady DEF Atoms
<1>8. a \in SUBSET Node
  BY <1>6, AtomsFine DEF CutInv, IInv, Fine
<1>9. order \in Seq(SUBSET Node)
  BY DEF CutInv, Early
<1>10. Early'
  BY <1>1, <1>2, <1>8, <1>9, Steady DEF CutInv, Early
<1>11. Members(order') = emitted'
  BY <1>1, <1>5, <1>8, <1>9 DEF Members
<1>12. DownClosed(Atoms)'
  BY <1>2, <1>6, <1>7, Steady DEF DownClosed
<1>13. Acyclic(emitted')
  <2>1. \A u \in emitted : u \notin Beyond(Induced(edges, emitted), {u})
    BY <1>5, LinksInduced
  <2>2. \A u \in emitted \cup {a} : u \notin Beyond(Induced(edges, emitted \cup {a}), {u})
    BY <1>6, <2>1, SinkAcyclic
  <2> QED
    BY <1>1, <2>2, LinksInduced
<1>14. Numbered'
  <2>1. Acyclic(emitted)'
    BY <1>2, <1>13, Steady DEF Acyclic, Links
  <2>2. Members(order)' = emitted'
    BY <1>11 DEF Members
  <2> QED
    BY <1>12, <2>1, <2>2 DEF Numbered
<1>15. Grouped' /\ Running'
  BY <1>2 DEF Grouped, Running
<1>16. AnswerSound'
  BY <1>2, NoAnswerYet DEF CutInv, Answered
<1> QED
  BY <1>3, <1>4, <1>10, <1>14, <1>15, <1>16 DEF CutInv

\* Numbering gets stuck exactly when regions depend on each other in a cycle; then
\* none is kept.
LEMMA OrderDoneCuts == ASSUME CutInv, OrderDone PROVE CutInv'
<1>1. UNCHANGED <<edges, kind, todo, current, runs, clusters>> /\ phase = "order"
  BY DEF OrderDone, graph
<1>2. IInv'
  BY OrderDoneKeeps DEF CutInv
<1>3. CASE emitted = Atoms
  <2>1. Cluster(taken, order) /\ taken' = taken
    BY <1>3 DEF OrderDone, Cluster
  <2>2. Atoms' = Atoms
    BY <1>1, <2>1, Steady DEF Atoms
  <2>3. Members(order) = Atoms /\ Acyclic(Atoms) /\ order \in Seq(SUBSET Node)
    BY <1>1, <1>3 DEF CutInv, Numbered, Early
  <2> QED
    BY <1>1, <1>2, <2>1, <2>2, <2>3, ClusterCuts
<1>4. CASE emitted # Atoms
  <2>1. Cluster({}, InOrder) /\ taken' = {}
    BY <1>4 DEF OrderDone, Cluster
  <2> QED
    BY <1>1, <1>2, <2>1, InOrderFits, ClusterCuts
<1> QED
  BY <1>3, <1>4

\* Two groups of one kind make one.
LEMMA MergeCuts == ASSUME CutInv, Merge PROVE CutInv'
<1>1. PICK p \in Mergeable : groups' = (groups \ {p[1], p[2]}) \cup {p[1] \cup p[2]}
  BY DEF Merge
<1>2. /\ UNCHANGED <<edges, kind, phase, todo, taken, order, emitted, current, runs, clusters>>
      /\ phase = "merge"
  BY DEF Merge, graph
<1>3. IInv'
  BY MergeKeeps DEF CutInv
<1>4. Regions' /\ Early' /\ Numbered' /\ Running'
  BY <1>2, Steady DEF CutInv, Regions, Early, Numbered, Running
<1>5. p[1] \in groups /\ p[2] \in groups /\ KindOf(UNION p[1]) = KindOf(UNION p[2])
  BY DEF Mergeable
<1>6. /\ UNION groups = {a \in Atoms : Supported(a)}
      /\ \A h \in groups : h # {} /\ \A m, n \in UNION h : kind[m] = kind[n]
      /\ \A h, k \in groups : h # k => h \cap k = {}
      /\ Acyclic(Atoms)
  BY <1>2 DEF CutInv, Grouped
<1>7. \A m, n \in UNION (p[1] \cup p[2]) : kind[m] = kind[n]
  <2>1. \A h \in groups : \A n \in UNION h : kind[n] = KindOf(UNION h)
    <3> TAKE h \in groups
    <3>1. \A m, n \in UNION h : kind[m] = kind[n]
      BY <1>6
    <3> QED
      BY <3>1, KindOfAny
  <2> QED
    BY <1>5, <2>1
<1>8. Atoms' = Atoms
  BY <1>2, Steady DEF Atoms
<1>9. Grouped'
  <2>1. UNION groups' = UNION groups
    BY <1>1, <1>5
  <2>2. \A h \in groups' : h # {} /\ \A m, n \in UNION h : kind[m] = kind[n]
    BY <1>1, <1>5, <1>6, <1>7
  <2>3. \A h, k \in groups' : h # k => h \cap k = {}
    BY <1>1, <1>5, <1>6
  <2>4. UNION groups' = {a \in Atoms : Supported(a)}'
    <3>1. \A a \in Atoms : Supported(a)' <=> Supported(a)
      BY <1>2, Steady
    <3> QED
      BY <1>6, <1>8, <2>1, <3>1
  <2>5. Acyclic(Atoms)'
    BY <1>2, <1>6, <1>8 DEF Acyclic, Links
  <2> QED
    BY <1>2, <2>2, <2>3, <2>4, <2>5 DEF Grouped
<1>10. AnswerSound'
  BY <1>2, NoAnswerYet DEF CutInv, Answered
<1> QED
  BY <1>3, <1>4, <1>9, <1>10 DEF CutInv
-----------------------------------------------------------------------------
(* Runs.                                                                   *)

\* The merged groups and the unsupported atoms cut up the graph.
LEMMA QuotientFine ==
  ASSUME CutInv, phase \in {"merge", "runs", "coalesce"}
  PROVE  Fine(Quotient)
<1> DEFINE G(n) == {a \in Atoms : n \in a}
<1>1. /\ UNION groups = {a \in Atoms : Supported(a)}
      /\ \A h \in groups : h # {} /\ \A m, n \in UNION h : kind[m] = kind[n]
      /\ \A h, k \in groups : h # k => h \cap k = {}
  BY DEF CutInv, Grouped
<1>2. /\ UNION Atoms = Node
      /\ \A a \in Atoms : a # {} /\ \A m, n \in a : kind[m] = kind[n]
      /\ \A a, b \in Atoms : a # b => a \cap b = {}
  BY AtomsFine DEF CutInv, IInv, Fine
<1>3. UNION Quotient = Node
  <2>1. ASSUME NEW n \in Node PROVE n \in UNION Quotient
    <3>1. PICK a \in Atoms : n \in a
      BY <1>2
    <3>2. CASE Supported(a)
      <4>1. PICK h \in groups : a \in h
        BY <1>1, <3>2
      <4>2. UNION h \in Quotient
        BY DEF Quotient, Merged
      <4> QED
        BY <3>1, <4>1, <4>2
    <3>3. CASE ~Supported(a)
      BY <3>1, <3>3 DEF Quotient
    <3> QED
      BY <3>2, <3>3
  <2>2. ASSUME NEW u \in Quotient PROVE u \subseteq Node
    <3>1. \A h \in groups : \A a \in h : a \subseteq Node
      BY <1>1, <1>2
    <3> QED
      BY <1>2, <3>1 DEF Quotient, Merged
  <2> QED
    BY <2>1, <2>2
<1>4. \A u \in Quotient : u # {} /\ \A m, n \in u : kind[m] = kind[n]
  <2>1. \A h \in groups : UNION h # {}
    <3> TAKE h \in groups
    <3>1. PICK a \in h : TRUE
      BY <1>1
    <3>2. a \in Atoms
      BY <1>1
    <3> QED
      BY <1>2, <3>2
  <2> QED
    BY <1>1, <1>2, <2>1 DEF Quotient, Merged
<1>5. ASSUME NEW u \in Quotient, NEW w \in Quotient, NEW x \in u, x \in w PROVE u = w
  <2>1. \A h \in groups : \A a \in h : a \in Atoms /\ Supported(a)
    BY <1>1
  <2>2. PICK a \in Atoms : x \in a /\ (a = u \/ \E h \in groups : u = UNION h /\ a \in h)
    BY <2>1 DEF Quotient, Merged
  <2>3. PICK b \in Atoms : x \in b /\ (b = w \/ \E h \in groups : w = UNION h /\ b \in h)
    BY <1>5, <2>1 DEF Quotient, Merged
  <2>4. a = b
    BY <1>2, <2>2, <2>3
  <2>5. CASE Supported(a)
    <3>1. PICK h \in groups : a \in h
      BY <1>1, <2>5
    <3>2. ASSUME NEW q \in Quotient, x \in q PROVE q = UNION h
      <4>1. CASE q \in Atoms /\ ~Supported(q)
        BY <1>2, <2>2, <2>5, <3>2, <4>1
      <4>2. CASE q \in Merged
        <5>1. PICK k \in groups : q = UNION k
          BY <4>2 DEF Merged
        <5>2. PICK d \in k : x \in d
          BY <3>2, <5>1
        <5>3. d = a
          BY <1>2, <2>1, <2>2, <5>2
        <5> QED
          BY <1>1, <3>1, <5>1, <5>2, <5>3
      <4> QED
        BY <4>1, <4>2 DEF Quotient
    <3> QED
      BY <1>5, <3>2
  <2>6. CASE ~Supported(a)
    <3>1. \A h \in groups : a \notin h
      BY <2>1, <2>6
    <3> QED
      BY <2>2, <2>3, <2>4, <3>1
  <2> QED
    BY <2>5, <2>6
<1> QED
  BY <1>3, <1>4, <1>5 DEF Fine

\* Merged groups are units of an order or the atoms are: either can be run through.
LEMMA MergeDoneCuts == ASSUME CutInv, MergeDone PROVE CutInv'
<1>1. /\ UNCHANGED <<edges, kind, todo, taken, order, groups, emitted, current, runs, clusters>>
      /\ phase = "merge" /\ phase' = IF QuotientOrdered THEN "coalesce" ELSE "runs"
  BY DEF MergeDone, graph
<1>2. IInv'
  BY CuttingKeeps DEF CutInv
<1>3. Regions' /\ Early' /\ Numbered'
  BY <1>1, Steady DEF CutInv, Regions, Early, Numbered
<1>4. Atoms' = Atoms
  BY <1>1, Steady DEF Atoms
<1>5. \A a \in Atoms : Supported(a)' <=> Supported(a)
  BY <1>1, Steady
<1>6. Grouped'
  <2>1. Acyclic(Atoms)'
    <3>1. Acyclic(Atoms)
      BY <1>1 DEF CutInv, Grouped
    <3> QED
      BY <1>1, <1>4, <3>1 DEF Acyclic, Links
  <2>2. {a \in Atoms : Supported(a)}' = {a \in Atoms : Supported(a)}
    BY <1>4, <1>5
  <2> QED
    BY <1>1, <2>1, <2>2 DEF CutInv, Grouped
<1>7. emitted = {} /\ runs = <<>> /\ current = Unsupported
  BY <1>1 DEF CutInv, Early
<1>8. Units' = IF QuotientOrdered THEN Quotient ELSE Atoms
  <2>1. Quotient' = Quotient
    BY <1>1, <1>4, <1>5 DEF Quotient, Merged
  <2> QED
    BY <1>1, <1>4, <2>1 DEF Units
<1>9. Fine(Units') /\ Acyclic(Units')
  <2>1. Fine(Quotient) /\ Fine(Atoms)
    BY <1>1, QuotientFine, AtomsFine DEF CutInv, IInv
  <2>2. Acyclic(Atoms)
    BY <1>1 DEF CutInv, Grouped
  <2> QED
    BY <1>8, <2>1, <2>2 DEF QuotientOrdered
<1>10. Fine(Units)' /\ Acyclic(Units)' /\ DownClosed(Units)'
  <2>1. Fine(Units)'
    BY <1>1, <1>9, Steady DEF Fine
  <2>2. Acyclic(Units)'
    BY <1>1, <1>9, Steady DEF Acyclic, Links
  <2>3. DownClosed(Units)'
    BY <1>1, <1>7 DEF DownClosed
  <2> QED
    BY <2>1, <2>2, <2>3
<1>11. runs' = <<>> /\ emitted' = {} /\ current' = Unsupported /\ Members(runs)' = {}
  BY <1>1, <1>7 DEF Members
<1>12. Aside' = {}
  BY <1>11 DEF Aside
<1>13. RunsApart' /\ RunGoesOn'
  BY <1>11 DEF RunsApart, RunGoesOn
<1>14. RunsEmitted'
  BY <1>11, <1>12 DEF RunsEmitted, CutOf
<1>15. RunsOrdered'
  <2>1. CutOf(Members(runs))' \cup Aside' = {}
    BY <1>11, <1>12 DEF CutOf
  <2> QED
    BY <2>1 DEF RunsOrdered, Acyclic
<1>16. Running'
  BY <1>10, <1>13, <1>14, <1>15 DEF Running
<1>17. AnswerSound'
  BY <1>1, NoAnswerYet DEF CutInv, Answered
<1> QED
  BY <1>2, <1>3, <1>6, <1>16, <1>17 DEF CutInv

\* Two sound sequences of one kind, none of the second before any of the first.
LEMMA JoinSound ==
  ASSUME NEW c, NEW d, Sound(c), Sound(d), Members(c) \cap Members(d) = {},
         \A x \in Members(c), y \in Members(d) : kind[x] = kind[y],
         \A x \in Members(d), y \in Members(c) : <<x, y>> \notin edges
  PROVE  Sound(c \o d) /\ Members(c \o d) = Members(c) \cup Members(d)
<1> DEFINE e == c \o d
<1>1. c \in Seq(Node) /\ d \in Seq(Node) /\ e \in Seq(Node) /\ Len(e) = Len(c) + Len(d)
      /\ Len(c) \in Nat /\ Len(d) \in Nat
  BY DEF Sound
<1>2. \A i \in 1 .. Len(c) : e[i] = c[i]
  BY <1>1
<1>3. \A i \in 1 .. Len(d) : e[Len(c) + i] = d[i]
  BY <1>1
<1>4. \A i \in DOMAIN e : \/ i \in 1 .. Len(c) /\ e[i] = c[i]
                          \/ \E j \in 1 .. Len(d) : i = Len(c) + j /\ e[i] = d[j]
  <2> SUFFICES ASSUME NEW i \in DOMAIN e, i \notin 1 .. Len(c)
               PROVE  \E j \in 1 .. Len(d) : i = Len(c) + j /\ e[i] = d[j]
    BY <1>2
  <2>1. i - Len(c) \in 1 .. Len(d) /\ i = Len(c) + (i - Len(c))
    BY <1>1
  <2> QED
    BY <1>3, <2>1
<1>5. DOMAIN c = 1 .. Len(c) /\ DOMAIN d = 1 .. Len(d) /\ DOMAIN e = 1 .. (Len(c) + Len(d))
  BY <1>1
<1>6. Members(e) = Members(c) \cup Members(d)
  <2>1. ASSUME NEW i \in 1 .. Len(c) PROVE c[i] \in Members(e)
    BY <1>1, <1>2, <1>5 DEF Members
  <2>2. ASSUME NEW j \in 1 .. Len(d) PROVE d[j] \in Members(e)
    <3>1. Len(c) + j \in DOMAIN e
      BY <1>1, <1>5
    <3> QED
      BY <1>3, <3>1 DEF Members
  <2>3. Members(e) \subseteq Members(c) \cup Members(d)
    BY <1>4, <1>5 DEF Members
  <2> QED
    BY <1>5, <2>1, <2>2, <2>3 DEF Members
<1>7. e # <<>>
  <2>1. Len(c) # 0
    BY <1>1 DEF Sound
  <2> QED
    BY <1>1, <2>1
<1>8. \A i \in 1 .. Len(c) : c[i] \in Members(c)
  BY <1>5 DEF Members
<1>9. \A i \in 1 .. Len(d) : d[i] \in Members(d)
  BY <1>5 DEF Members
<1>10. ASSUME NEW i \in DOMAIN e, NEW j \in DOMAIN e, e[i] = e[j] PROVE i = j
  <2>1. CASE i \in 1 .. Len(c) /\ e[i] = c[i] /\ j \in 1 .. Len(c) /\ e[j] = c[j]
    BY <1>5, <1>10, <2>1 DEF Sound
  <2>2. ASSUME NEW k \in 1 .. Len(d), NEW l \in 1 .. Len(d),
               i = Len(c) + k, e[i] = d[k], j = Len(c) + l, e[j] = d[l]
        PROVE  i = j
    <3>1. k = l
      BY <1>5, <1>10, <2>2 DEF Sound
    <3> QED
      BY <2>2, <3>1
  <2> QED
    BY <1>4, <1>8, <1>9, <1>10, <2>1, <2>2
<1>11. ASSUME NEW i \in DOMAIN e, NEW j \in DOMAIN e, <<e[i], e[j]>> \in edges PROVE i < j
  <2>1. CASE i \in 1 .. Len(c) /\ e[i] = c[i] /\ j \in 1 .. Len(c) /\ e[j] = c[j]
    BY <1>5, <1>11, <2>1 DEF Sound
  <2>2. ASSUME NEW k \in 1 .. Len(d), NEW l \in 1 .. Len(d),
               i = Len(c) + k, e[i] = d[k], j = Len(c) + l, e[j] = d[l]
        PROVE  i < j
    <3>1. k < l
      BY <1>5, <1>11, <2>2 DEF Sound
    <3> QED
      BY <1>1, <2>2, <3>1
  <2>3. CASE i \in 1 .. Len(c) /\ \E l \in 1 .. Len(d) : j = Len(c) + l
    BY <1>1, <2>3
  <2>4. CASE j \in 1 .. Len(c) /\ e[j] = c[j] /\ \E k \in 1 .. Len(d) : e[i] = d[k]
    BY <1>8, <1>9, <1>11, <2>4
  <2> QED
    BY <1>4, <2>1, <2>2, <2>3, <2>4
<1>12. Supported(Members(e)) /\ \A m, n \in Members(e) : kind[m] = kind[n]
  BY <1>6 DEF Sound, Supported
<1> HIDE DEF e
<1>13. Sound(e)
  BY <1>1, <1>7, <1>10, <1>11, <1>12 DEF Sound
<1> QED
  BY <1>6, <1>13 DEF e

\* The colour of a unit that takes part is the kind of its nodes, which are supported.
LEMMA ColourOf ==
  ASSUME phase \in {"runs", "coalesce"}, NEW u, \A m, n \in u : kind[m] = kind[n],
         Colour(u) # Unsupported
  PROVE  Supported(u) /\ \A n \in u : kind[n] = Colour(u)
<1>1. Colour(u) = KindOf(u)
  BY DEF Colour
<1> QED
  BY <1>1, KindOfAny DEF Supported
-----------------------------------------------------------------------------
\* A unit that is emitted: the units stay, and nothing emitted depends on it.
LEMMA EmitUnit ==
  ASSUME CutInv, Emit, NEW u \in Candidates, emitted' = emitted \cup {u}
  PROVE  /\ phase \in {"runs", "coalesce"}
         /\ UNCHANGED <<edges, kind, phase, todo, taken, order, groups, clusters>>
         /\ Fine(Units) /\ RunsApart /\ RunsEmitted /\ RunsOrdered /\ RunGoesOn
         /\ u \in Units /\ u \notin emitted /\ emitted \subseteq Units
         /\ u # {} /\ u \subseteq Node /\ \A m, n \in u : kind[m] = kind[n]
         /\ \A n \in u : n \notin UNION emitted
         /\ \A x \in u, y \in UNION emitted : <<x, y>> \notin edges
         /\ Units' = Units /\ Fine(Units)' /\ DownClosed(Units)' /\ Acyclic(Units)'
         /\ \A w : Colour(w)' = Colour(w)
<1>1. /\ UNCHANGED <<edges, kind, phase, todo, taken, order, groups, clusters>>
      /\ phase \in {"runs", "coalesce"}
  BY DEF Emit, graph
<1>2. /\ Fine(Units) /\ DownClosed(Units) /\ Acyclic(Units)
      /\ RunsApart /\ RunsEmitted /\ RunsOrdered /\ RunGoesOn
  BY <1>1 DEF CutInv, Running
<1>3. u \in Ready(Units)
  BY DEF Candidates
<1>4. /\ u \in Units /\ u \notin emitted
      /\ \A w \in emitted : \A x \in u, y \in w : <<x, y>> \notin edges
      /\ emitted' \subseteq Units
      /\ \A p \in Links(Units) : p[2] \in emitted' => p[1] \in emitted'
  BY <1>1, <1>2, <1>3, EmitClosed
<1>5. Units' = Units
  <2>1. Atoms' = Atoms
    BY <1>1, Steady DEF Atoms
  <2>2. \A a \in Atoms : Supported(a)' <=> Supported(a)
    BY <1>1, Steady
  <2>3. Quotient' = Quotient
    BY <1>1, <2>1, <2>2 DEF Quotient, Merged
  <2> QED
    BY <1>1, <2>1, <2>3 DEF Units
<1>6. Fine(Units)' /\ Acyclic(Units)'
  <2>1. Fine(Units)'
    BY <1>1, <1>2, <1>5, Steady DEF Fine
  <2>2. Acyclic(Units)'
    BY <1>1, <1>2, <1>5, Steady DEF Acyclic, Links
  <2> QED
    BY <2>1, <2>2
<1>7. DownClosed(Units)'
  BY <1>1, <1>4, <1>5, Steady DEF DownClosed
<1>8. u # {} /\ u \subseteq Node /\ \A m, n \in u : kind[m] = kind[n]
  BY <1>2, <1>4 DEF Fine
<1>9. \A n \in u : n \notin UNION emitted
  BY <1>2, <1>4 DEF Fine, DownClosed
<1>10. \A w : Colour(w)' = Colour(w)
  BY <1>1, Steady DEF Colour
<1> QED
  BY <1>1, <1>2, <1>4, <1>5, <1>6, <1>7, <1>8, <1>9, <1>10 DEF DownClosed

\* What the runs are made of has been emitted.
LEMMA RunsWithin ==
  ASSUME Fine(Units), emitted \subseteq Units, RunsEmitted
  PROVE  /\ UNION CutOf(Members(runs)) \subseteq UNION emitted
         /\ \A r \in Members(runs) : Members(r) \subseteq UNION emitted
         /\ \A r \in Members(runs), w \in Aside : Members(r) \cap w = {}
<1>1. \A r \in Members(runs) : Members(r) \in CutOf(Members(runs))
  BY DEF CutOf
<1>2. UNION CutOf(Members(runs)) = UNION (emitted \ Aside)
  BY DEF RunsEmitted
<1>3. \A w \in Aside : \A v \in emitted \ Aside : w \cap v = {}
  BY DEF Fine, Aside
<1> QED
  BY <1>1, <1>2, <1>3

\* A unit without a colour is put aside.
LEMMA EmitAside ==
  ASSUME CutInv, Emit, NEW u \in Candidates, emitted' = emitted \cup {u},
         Colour(u) = Unsupported, runs' = runs, current' = Unsupported
  PROVE  Running'
<1>1. /\ UNCHANGED <<edges, kind>>
      /\ Fine(Units) /\ RunsApart /\ RunsEmitted /\ RunsOrdered
      /\ u \notin emitted /\ emitted \subseteq Units /\ u # {}
      /\ \A n \in u : n \notin UNION emitted
      /\ \A x \in u, y \in UNION emitted : <<x, y>> \notin edges
      /\ Fine(Units)' /\ DownClosed(Units)' /\ Acyclic(Units)'
      /\ \A w : Colour(w)' = Colour(w)
  BY EmitUnit
<1>2. Aside' = Aside \cup {u}
  BY <1>1 DEF Aside
<1>3. emitted' \ Aside' = emitted \ Aside
  BY <1>1, <1>2 DEF Aside
<1>4. RunsApart' /\ RunGoesOn'
  <2>1. \A r \in Members(runs) : Sound(r)'
    BY <1>1, Steady DEF RunsApart
  <2>2. Node' = Node /\ Members(runs)' = Members(runs)
    BY <1>1, Steady DEF Members
  <2>3. \A i, j \in DOMAIN runs : i # j => Members(runs[i]) \cap Members(runs[j]) = {}
    BY <1>1 DEF RunsApart
  <2>4. \A i, j \in DOMAIN runs' : i # j => Members(runs'[i]) \cap Members(runs'[j]) = {}
    BY <2>3
  <2>5. runs' \in Seq(Seq(Node'))
    BY <1>1, <2>2 DEF RunsApart
  <2> QED
    BY <2>1, <2>2, <2>4, <2>5 DEF RunsApart, RunGoesOn, Members
<1>5. Members(runs') = Members(runs) /\ CutOf(Members(runs')) = CutOf(Members(runs))
  OBVIOUS
<1>6. RunsEmitted'
  BY <1>1, <1>3, <1>5 DEF RunsEmitted, CutOf, Members
<1>7. RunsOrdered'
  <2> DEFINE W == CutOf(Members(runs)) \cup Aside
  <2>1. UNION W \subseteq UNION emitted
    BY <1>1, RunsWithin DEF Aside
  <2>2. \A w \in W : u # w /\ \A x \in u, y \in w : <<x, y>> \notin edges
    BY <1>1, <2>1
  <2>3. \A w \in W : w \notin Beyond(Induced(edges, W), {w})
    BY <1>1, LinksInduced DEF RunsOrdered
  <2> HIDE DEF W
  <2>4. \A w \in W \cup {u} : w \notin Beyond(Induced(edges, W \cup {u}), {w})
    BY <2>2, <2>3, SinkAcyclic
  <2>5. Acyclic(W \cup {u})
    BY <2>4, LinksInduced
  <2>6. CutOf(Members(runs))' \cup Aside' = W \cup {u}
    BY <1>2, <1>5 DEF W, CutOf, Members
  <2>7. Acyclic(CutOf(Members(runs))' \cup Aside')
    BY <2>5, <2>6
  <2> QED
    BY <1>1, <2>7 DEF RunsOrdered, Acyclic, Links
<1> QED
  BY <1>1, <1>4, <1>6, <1>7 DEF Running

\* A unit of a new colour starts a run.
LEMMA EmitStarts ==
  ASSUME CutInv, Emit, NEW u \in Candidates, emitted' = emitted \cup {u},
         Colour(u) # Unsupported, runs' = Append(runs, Ascending(u)), current' = Colour(u)
  PROVE  Running'
<1> DEFINE a == Ascending(u)
<1>1. /\ UNCHANGED <<edges, kind>> /\ phase \in {"runs", "coalesce"}
      /\ Fine(Units) /\ RunsApart /\ RunsEmitted /\ RunsOrdered
      /\ u \notin emitted /\ emitted \subseteq Units /\ u # {} /\ u \subseteq Node
      /\ \A m, n \in u : kind[m] = kind[n]
      /\ \A n \in u : n \notin UNION emitted
      /\ \A x \in u, y \in UNION emitted : <<x, y>> \notin edges
      /\ Fine(Units)' /\ DownClosed(Units)' /\ Acyclic(Units)'
      /\ \A w : Colour(w)' = Colour(w)
  BY EmitUnit
<1>2. Supported(u) /\ \A n \in u : kind[n] = Colour(u)
  BY <1>1, ColourOf
<1>3. Members(a) = u /\ Sound(a)
  BY <1>1, <1>2, AscendingSound DEF CutInv, IInv
<1>4. runs \in Seq(Seq(Node)) /\ a \in Seq(Node)
  BY <1>1, <1>3 DEF RunsApart, Sound
<1> HIDE DEF a
<1>5. /\ runs' = Append(runs, a) /\ runs' \in Seq(Seq(Node))
      /\ Len(runs') = Len(runs) + 1 /\ runs'[Len(runs')] = a /\ Len(runs) \in Nat
      /\ DOMAIN runs' = DOMAIN runs \cup {Len(runs) + 1} /\ DOMAIN runs = 1 .. Len(runs)
      /\ \A i \in DOMAIN runs : runs'[i] = runs[i]
  BY <1>4 DEF a
<1>6. Members(runs') = Members(runs) \cup {a}
  BY <1>5 DEF Members
<1>7. CutOf(Members(runs')) = CutOf(Members(runs)) \cup {u}
  BY <1>3, <1>6 DEF CutOf
<1>8. Aside' = Aside
  BY <1>1 DEF Aside
<1>9. \A r \in Members(runs) : Members(r) \cap u = {}
  BY <1>1, RunsWithin
<1>10. RunsApart'
  <2>1. \A r \in Members(runs') : Sound(r)
    BY <1>1, <1>3, <1>6 DEF RunsApart
  <2>2. ASSUME NEW i \in DOMAIN runs', NEW j \in DOMAIN runs', i # j
        PROVE  Members(runs'[i]) \cap Members(runs'[j]) = {}
    <3>1. \A k \in DOMAIN runs : runs[k] \in Members(runs)
      BY DEF Members
    <3>2. CASE i \in DOMAIN runs /\ j \in DOMAIN runs
      BY <1>1, <1>5, <2>2, <3>2 DEF RunsApart
    <3>3. CASE i \in DOMAIN runs /\ j = Len(runs) + 1
      BY <1>3, <1>5, <1>9, <3>1, <3>3
    <3>4. CASE j \in DOMAIN runs /\ i = Len(runs) + 1
      BY <1>3, <1>5, <1>9, <3>1, <3>4
    <3> QED
      BY <1>5, <2>2, <3>2, <3>3, <3>4
  <2>3. \A r \in Members(runs') : Sound(r)'
    BY <1>1, <2>1, Steady
  <2>4. Node' = Node /\ Members(runs)' = Members(runs')
    BY <1>1, Steady DEF Members
  <2> QED
    BY <1>5, <2>2, <2>3, <2>4 DEF RunsApart, Members
<1>11. RunsEmitted'
  <2>1. emitted' \ Aside' = (emitted \ Aside) \cup {u}
    BY <1>1, <1>8 DEF Aside
  <2>2. UNION CutOf(Members(runs')) = UNION (emitted' \ Aside')
    BY <1>1, <1>7, <2>1 DEF RunsEmitted
  <2>3. \A w \in emitted' \ Aside' : \E r \in Members(runs') : w \subseteq Members(r)
    BY <1>1, <1>3, <1>6, <2>1 DEF RunsEmitted
  <2> QED
    BY <2>2, <2>3 DEF RunsEmitted, CutOf, Members
<1>12. RunsOrdered'
  <2> DEFINE W == CutOf(Members(runs)) \cup Aside
  <2>1. UNION W \subseteq UNION emitted
    BY <1>1, RunsWithin DEF Aside
  <2>2. \A w \in W : u # w /\ \A x \in u, y \in w : <<x, y>> \notin edges
    BY <1>1, <2>1
  <2>3. \A w \in W : w \notin Beyond(Induced(edges, W), {w})
    BY <1>1, LinksInduced DEF RunsOrdered
  <2> HIDE DEF W
  <2>4. \A w \in W \cup {u} : w \notin Beyond(Induced(edges, W \cup {u}), {w})
    BY <2>2, <2>3, SinkAcyclic
  <2>5. Acyclic(W \cup {u})
    BY <2>4, LinksInduced
  <2>6. CutOf(Members(runs))' \cup Aside' = W \cup {u}
    BY <1>7, <1>8 DEF W, CutOf, Members
  <2>7. Acyclic(CutOf(Members(runs))' \cup Aside')
    BY <2>5, <2>6
  <2> QED
    BY <1>1, <2>7 DEF RunsOrdered, Acyclic, Links
<1>13. RunGoesOn'
  <2>1. LastRun' = u
    BY <1>3, <1>5 DEF LastRun, Members
  <2>2. \A n \in u : kind'[n] = current'
    BY <1>1, <1>2
  <2>3. \A x \in u, y \in UNION emitted' : <<x, y>> \in edges' => y \in u
    BY <1>1
  <2>4. runs' # <<>>
    BY <1>5
  <2> QED
    BY <2>1, <2>2, <2>3, <2>4 DEF RunGoesOn
<1> QED
  BY <1>1, <1>10, <1>11, <1>12, <1>13 DEF Running
-----------------------------------------------------------------------------
\* A sequence with another last element.
LEMMA ReplaceLast ==
  ASSUME NEW S, NEW s \in Seq(S), s # <<>>, NEW e \in S, NEW t, t = [s EXCEPT ![Len(s)] = e]
  PROVE  /\ t \in Seq(S) /\ Len(t) = Len(s) /\ DOMAIN t = 1 .. Len(s) /\ t[Len(s)] = e
         /\ \A i \in 1 .. Len(s) - 1 : t[i] = s[i]
<1> DEFINE n == Len(s)
<1>1. n \in Nat /\ n # 0 /\ DOMAIN s = 1 .. n /\ s \in [1 .. n -> S]
  OBVIOUS
<1>0. t = [s EXCEPT ![n] = e]
  OBVIOUS
<1> HIDE DEF n
<1>2. t \in [1 .. n -> S] /\ t[n] = e /\ \A i \in 1 .. n - 1 : t[i] = s[i]
  BY <1>0, <1>1
<1>3. t \in Seq(S) /\ Len(t) = n
  BY <1>1, <1>2
<1> QED
  BY <1>2, <1>3 DEF n

\* What a sequence is made of, up to its last element and with it.
LEMMA MembersTo ==
  ASSUME NEW s, NEW t, NEW n \in Nat, n # 0, NEW e, DOMAIN t = 1 .. n, t[n] = e,
         \A i \in 1 .. n - 1 : t[i] = s[i]
  PROVE  Members(t) = {s[i] : i \in 1 .. n - 1} \cup {e}
<1>1. \A i \in 1 .. n : i \in 1 .. n - 1 \/ i = n
  OBVIOUS
<1>2. \A i \in 1 .. n - 1 : i \in 1 .. n
  OBVIOUS
<1>3. n \in 1 .. n
  OBVIOUS
<1> QED
  BY <1>1, <1>2, <1>3 DEF Members

\* The unit and the run it joins, which nothing emitted depends on.
LEMMA RunJoins ==
  ASSUME CutInv, Emit, NEW u \in Candidates, emitted' = emitted \cup {u},
         Colour(u) # Unsupported, Colour(u) = current,
         NEW e, e = runs[Len(runs)] \o Ascending(u)
  PROVE  /\ Supported(u) /\ \A x \in u : kind[x] = current
         /\ runs \in Seq(Seq(Node)) /\ runs # <<>>
         /\ LastRun = Members(runs[Len(runs)])
         /\ LastRun \cap u = {} /\ LastRun \subseteq UNION emitted
         /\ Sound(e) /\ Members(e) = LastRun \cup u
<1> DEFINE a == Ascending(u)
           n == Len(runs)
           c == runs[n]
<1>1. /\ UNCHANGED <<edges, kind>> /\ phase \in {"runs", "coalesce"}
      /\ Fine(Units) /\ RunsApart /\ RunsEmitted /\ RunsOrdered /\ RunGoesOn
      /\ u \notin emitted /\ emitted \subseteq Units /\ u # {} /\ u \subseteq Node
      /\ \A x, y \in u : kind[x] = kind[y]
      /\ \A x \in u : x \notin UNION emitted
      /\ \A x \in u, y \in UNION emitted : <<x, y>> \notin edges
      /\ Fine(Units)' /\ DownClosed(Units)' /\ Acyclic(Units)'
      /\ \A w : Colour(w)' = Colour(w)
  BY EmitUnit
<1>2. Supported(u) /\ \A x \in u : kind[x] = Colour(u)
  BY <1>1, ColourOf
<1>3. Members(a) = u /\ Sound(a)
  BY <1>1, <1>2, AscendingSound DEF CutInv, IInv
<1>4. /\ runs # <<>> /\ \A x \in LastRun : kind[x] = current
      /\ \A x \in LastRun, y \in UNION emitted : <<x, y>> \in edges => y \in LastRun
  BY <1>1 DEF RunGoesOn
<1>5. /\ runs \in Seq(Seq(Node)) /\ \A r \in Members(runs) : Sound(r)
      /\ \A i, j \in DOMAIN runs : i # j => Members(runs[i]) \cap Members(runs[j]) = {}
  BY <1>1 DEF RunsApart
<1>6. n \in Nat /\ n # 0 /\ DOMAIN runs = 1 .. n /\ n \in DOMAIN runs /\ c \in Members(runs)
  BY <1>4, <1>5 DEF Members
<1>7. LastRun = Members(c) /\ Sound(c)
  BY <1>5, <1>6 DEF LastRun
<1>8. \A r \in Members(runs) : Members(r) \subseteq UNION emitted
  BY <1>1, RunsWithin
<1>9. LastRun \cap u = {} /\ LastRun \subseteq UNION emitted
  BY <1>1, <1>6, <1>7, <1>8
<1>10. Sound(e) /\ Members(e) = LastRun \cup u
  <2>1. \A x \in Members(c), y \in Members(a) : kind[x] = kind[y]
    BY <1>2, <1>3, <1>4, <1>7
  <2>2. \A x \in Members(a), y \in Members(c) : <<x, y>> \notin edges
    BY <1>1, <1>3, <1>7, <1>9
  <2> QED
    <3>1. e = c \o a
      OBVIOUS
    <3> HIDE DEF c, a
    <3> QED
      BY <1>3, <1>7, <1>9, <2>1, <2>2, <3>1, JoinSound
<1> QED
  BY <1>2, <1>4, <1>5, <1>7, <1>9, <1>10

\* A unit of the colour the run goes through joins it.
LEMMA EmitExtends ==
  ASSUME CutInv, Emit, NEW u \in Candidates, emitted' = emitted \cup {u},
         Colour(u) # Unsupported, Colour(u) = current, current' = current,
         NEW e, Sound(e), Members(e) = LastRun \cup u,
         Supported(u), \A x \in u : kind[x] = current, LastRun \cap u = {},
         runs' \in Seq(Seq(Node)), Len(runs') = Len(runs), DOMAIN runs' = 1 .. Len(runs),
         runs'[Len(runs)] = e, \A i \in 1 .. Len(runs) - 1 : runs'[i] = runs[i]
  PROVE  Running'
<1> DEFINE n == Len(runs)
           c == runs[n]
           Others == {Members(runs[i]) : i \in 1 .. n - 1}
<1>1. /\ UNCHANGED <<edges, kind>> /\ phase \in {"runs", "coalesce"}
      /\ Fine(Units) /\ RunsApart /\ RunsEmitted /\ RunsOrdered /\ RunGoesOn
      /\ u \notin emitted /\ emitted \subseteq Units /\ u # {} /\ u \subseteq Node
      /\ \A x \in u : x \notin UNION emitted
      /\ \A x \in u, y \in UNION emitted : <<x, y>> \notin edges
      /\ Fine(Units)' /\ DownClosed(Units)' /\ Acyclic(Units)'
      /\ \A w : Colour(w)' = Colour(w)
  BY EmitUnit
<1>4. /\ runs # <<>> /\ \A x \in LastRun : kind[x] = current
      /\ \A x \in LastRun, y \in UNION emitted : <<x, y>> \in edges => y \in LastRun
  BY <1>1 DEF RunGoesOn
<1>5. /\ runs \in Seq(Seq(Node)) /\ \A r \in Members(runs) : Sound(r)
      /\ \A i, j \in DOMAIN runs : i # j => Members(runs[i]) \cap Members(runs[j]) = {}
  BY <1>1 DEF RunsApart
<1>6. n \in Nat /\ n # 0 /\ DOMAIN runs = 1 .. n /\ n \in DOMAIN runs /\ c \in Members(runs)
  BY <1>4, <1>5 DEF Members
<1>7. LastRun = Members(c)
  BY DEF LastRun
<1>8. \A r \in Members(runs) : Members(r) \subseteq UNION emitted
  BY <1>1, RunsWithin
<1>10. Sound(e) /\ Members(e) = LastRun \cup u
  OBVIOUS
<1>11. /\ runs' \in Seq(Seq(Node)) /\ Len(runs') = n /\ DOMAIN runs' = 1 .. n
       /\ runs'[n] = e /\ \A i \in 1 .. n - 1 : runs'[i] = runs[i]
  OBVIOUS
<1>12. 1 .. n = (1 .. n - 1) \cup {n}
  BY <1>6
<1> HIDE DEF c, n
<1>13. Members(runs) = {runs[i] : i \in 1 .. n - 1} \cup {c}
  BY <1>6, <1>12 DEF Members, c
<1>14. Members(runs') = {runs[i] : i \in 1 .. n - 1} \cup {e}
  <2>1. n \in Nat /\ n # 0 /\ DOMAIN runs' = 1 .. n /\ runs'[n] = e
    BY <1>6, <1>11
  <2>2. \A i \in 1 .. n - 1 : runs'[i] = runs[i]
    BY <1>11
  <2> QED
    BY <2>1, <2>2, MembersTo
<1>15. CutOf(Members(runs)) = Others \cup {LastRun}
  BY <1>7, <1>13 DEF CutOf
<1>16. CutOf(Members(runs')) = Others \cup {LastRun \cup u}
  <2> DEFINE X == {runs[i] : i \in 1 .. n - 1}
  <2>1. Others = {Members(r) : r \in X}
    OBVIOUS
  <2> HIDE DEF X, Others
  <2>2. CutOf(X \cup {e}) = {Members(r) : r \in X} \cup {Members(e)}
    BY DEF CutOf
  <2> QED
    BY <1>10, <1>14, <2>1, <2>2 DEF X
<1>17. Others \subseteq SUBSET UNION emitted /\ \A w \in Others : w \cap LastRun = {}
  <2>1. ASSUME NEW i \in 1 .. n - 1
        PROVE  Members(runs[i]) \subseteq UNION emitted /\ Members(runs[i]) \cap LastRun = {}
    <3>1. i \in DOMAIN runs /\ i # n /\ runs[i] \in Members(runs)
      BY <1>6, <1>13
    <3> QED
      BY <1>5, <1>6, <1>7, <1>8, <3>1 DEF c
  <2> QED
    BY <2>1
<1>18. Aside' = Aside
  BY <1>1 DEF Aside
<1>19. RunsApart'
  <2>1. \A r \in Members(runs') : Sound(r)
    BY <1>5, <1>10, <1>13, <1>14
  <2>2. ASSUME NEW i \in DOMAIN runs', NEW j \in DOMAIN runs', i # j
        PROVE  Members(runs'[i]) \cap Members(runs'[j]) = {}
    <3>1. \A k \in 1 .. n - 1 : Members(runs'[k]) \in Others
      BY <1>11
    <3>2. \A w \in Others : w \cap (LastRun \cup u) = {}
      BY <1>1, <1>17
    <3>3. CASE i \in 1 .. n - 1 /\ j \in 1 .. n - 1
      BY <1>5, <1>6, <1>11, <1>12, <2>2, <3>3
    <3>4. CASE i \in 1 .. n - 1 /\ j = n
      BY <1>10, <1>11, <3>1, <3>2, <3>4
    <3>5. CASE j \in 1 .. n - 1 /\ i = n
      BY <1>10, <1>11, <3>1, <3>2, <3>5
    <3> QED
      BY <1>11, <1>12, <2>2, <3>3, <3>4, <3>5
  <2>3. \A r \in Members(runs') : Sound(r)'
    BY <1>1, <2>1, Steady
  <2>4. Node' = Node /\ Members(runs)' = Members(runs')
    BY <1>1, Steady DEF Members
  <2> QED
    BY <1>11, <2>2, <2>3, <2>4 DEF RunsApart, Members
<1>20. RunsEmitted'
  <2>1. emitted' \ Aside' = (emitted \ Aside) \cup {u}
    BY <1>1, <1>18 DEF Aside
  <2>2. UNION CutOf(Members(runs')) = UNION (emitted' \ Aside')
    <3>1. UNION CutOf(Members(runs')) = (UNION CutOf(Members(runs))) \cup u
      <4> HIDE DEF Others
      <4> QED
        BY <1>15, <1>16
    <3>2. UNION (emitted' \ Aside') = (UNION (emitted \ Aside)) \cup u
      BY <2>1
    <3> QED
      BY <1>1, <3>1, <3>2 DEF RunsEmitted
  <2>3. \A r \in Members(runs) : \E s \in Members(runs') : Members(r) \subseteq Members(s)
    BY <1>7, <1>10, <1>13, <1>14
  <2>4. \A w \in emitted' \ Aside' : \E r \in Members(runs') : w \subseteq Members(r)
    <3>1. u \subseteq Members(e) /\ e \in Members(runs')
      BY <1>10, <1>14
    <3>2. \A w \in emitted \ Aside : \E r \in Members(runs) : w \subseteq Members(r)
      BY <1>1 DEF RunsEmitted
    <3>3. ASSUME NEW w \in emitted \ Aside PROVE \E s \in Members(runs') : w \subseteq Members(s)
      <4>1. PICK r \in Members(runs) : w \subseteq Members(r)
        BY <3>2
      <4>2. PICK s \in Members(runs') : Members(r) \subseteq Members(s)
        BY <2>3
      <4> QED
        BY <4>1, <4>2
    <3> QED
      BY <2>1, <3>1, <3>3
  <2> QED
    BY <2>2, <2>4 DEF RunsEmitted, CutOf, Members
<1>21. RunsOrdered'
  <2> DEFINE W == CutOf(Members(runs)) \cup Aside
             rest == Others \cup Aside
             whole == LastRun \cup u
  <2>1. rest \subseteq SUBSET UNION emitted /\ rest \subseteq W
    BY <1>15, <1>17 DEF Aside
  <2>2. whole \notin rest
    BY <1>1, <2>1
  <2>3. \A w \in rest : w \cap LastRun = {}
    BY <1>1, <1>6, <1>7, <1>17, RunsWithin
  <2>4. \A w \in rest : \A x \in whole, y \in w : <<x, y>> \notin edges
    <3> HIDE DEF rest
    <3>1. ASSUME NEW w \in rest, NEW y \in w PROVE y \in UNION emitted /\ y \notin LastRun
      BY <2>1, <2>3
    <3> QED
      BY <1>1, <1>4, <3>1
  <2>5. \A w \in W : w \notin Beyond(Induced(edges, W), {w})
    BY <1>1, LinksInduced DEF RunsOrdered
  <2>6. CutOf(Members(runs')) \cup Aside' = rest \cup {whole}
    BY <1>16, <1>18
  <2> HIDE DEF W, rest, whole
  <2>7. \A w \in rest \cup {whole} : w \notin Beyond(Induced(edges, rest \cup {whole}), {w})
    BY <2>1, <2>2, <2>4, <2>5, SinkAcyclic
  <2>8. Acyclic(rest \cup {whole})
    BY <2>7, LinksInduced
  <2>9. Acyclic(CutOf(Members(runs'))  \cup Aside')
    BY <2>6, <2>8
  <2> QED
    BY <1>1, <2>9 DEF RunsOrdered, Acyclic, Links, CutOf, Members
<1>22. RunGoesOn'
  <2>1. LastRun' = LastRun \cup u
    <3>1. LastRun' = Members(runs'[Len(runs')])
      BY DEF LastRun, Members
    <3> QED
      BY <1>10, <1>11, <3>1
  <2>2. \A x \in LastRun \cup u : kind'[x] = current'
    BY <1>1, <1>4
  <2>3. \A x \in LastRun \cup u, y \in UNION emitted' : <<x, y>> \in edges' => y \in LastRun \cup u
    BY <1>1, <1>4
  <2>4. runs' # <<>>
    BY <1>6, <1>11
  <2> QED
    BY <2>1, <2>2, <2>3, <2>4 DEF RunGoesOn
<1> QED
  BY <1>1, <1>19, <1>20, <1>21, <1>22 DEF Running

\* A run starts with a ready unit, goes on with one or is broken by one that is set
\* aside.
LEMMA EmitCuts == ASSUME CutInv, Emit PROVE CutInv'
<1>1. /\ UNCHANGED <<edges, kind, phase, todo, taken, order, groups, clusters>>
      /\ phase \in {"runs", "coalesce"}
  BY DEF Emit, graph
<1>2. PICK u \in Candidates :
        /\ emitted' = emitted \cup {u} /\ current' = Colour(u)
        /\ runs' = IF Colour(u) = Unsupported THEN runs
                   ELSE IF StartsRun(u) THEN Append(runs, Ascending(u))
                   ELSE [runs EXCEPT ![Len(runs)] = @ \o Ascending(u)]
  BY DEF Emit, After
<1>3. Running'
  <2>1. CASE Colour(u) = Unsupported
    BY <1>2, <2>1, EmitAside
  <2>2. CASE Colour(u) # Unsupported /\ Colour(u) # current
    BY <1>2, <2>2, EmitStarts DEF StartsRun
  <2>3. CASE Colour(u) # Unsupported /\ Colour(u) = current
    <3> DEFINE e == runs[Len(runs)] \o Ascending(u)
               S == Seq(Node)
    <3>1. runs' = [runs EXCEPT ![Len(runs)] = e]
      BY <1>2, <2>3 DEF StartsRun
    <3>0. e = runs[Len(runs)] \o Ascending(u)
      OBVIOUS
    <3> HIDE DEF e
    <3>6. /\ Supported(u) /\ \A x \in u : kind[x] = current
          /\ runs \in Seq(Seq(Node)) /\ runs # <<>> /\ LastRun \cap u = {}
          /\ Sound(e) /\ Members(e) = LastRun \cup u
      BY <1>2, <2>3, <3>0, RunJoins
    <3>2. e \in S /\ runs \in Seq(S) /\ runs # <<>>
      BY <3>6 DEF Sound
    <3> HIDE DEF S
    <3>3. runs' \in Seq(S) /\ Len(runs') = Len(runs) /\ DOMAIN runs' = 1 .. Len(runs)
      BY <3>1, <3>2, ReplaceLast
    <3>4. runs'[Len(runs)] = e
      BY <3>1, <3>2, ReplaceLast
    <3>5. \A i \in 1 .. Len(runs) - 1 : runs'[i] = runs[i]
      BY <3>1, <3>2, ReplaceLast
    <3> QED
      BY <1>1, <1>2, <2>3, <3>3, <3>4, <3>5, <3>6, EmitExtends DEF S
  <2> QED
    BY <2>1, <2>2, <2>3
<1>4. IInv'
  BY CuttingKeeps DEF CutInv
<1>5. Regions' /\ Early' /\ Numbered'
  BY <1>1, Steady DEF CutInv, Regions, Early, Numbered
<1>6. Grouped'
  <2>1. Atoms' = Atoms
    BY <1>1, Steady DEF Atoms
  <2>2. {a \in Atoms : Supported(a)}' = {a \in Atoms : Supported(a)}
    BY <1>1, <2>1, Steady
  <2>3. Acyclic(Atoms) /\ UNION groups = {a \in Atoms : Supported(a)}
    BY <1>1 DEF CutInv, Grouped
  <2>4. Acyclic(Atoms)'
    BY <1>1, <2>1, <2>3 DEF Acyclic, Links
  <2>5. /\ \A h \in groups : h # {} /\ \A m, n \in UNION h : kind[m] = kind[n]
        /\ \A h, k \in groups : h # k => h \cap k = {}
    BY <1>1 DEF CutInv, Grouped
  <2> QED
    BY <1>1, <2>2, <2>3, <2>4, <2>5 DEF Grouped
<1>7. AnswerSound'
  BY <1>1, NoAnswerYet DEF CutInv, Answered
<1> QED
  BY <1>3, <1>4, <1>5, <1>6, <1>7 DEF CutInv
-----------------------------------------------------------------------------
(* The answer.                                                             *)

\* Sets that cut up the supported nodes make an answer.
LEMMA CutFrom ==
  ASSUME Forwards, Regions, NEW U \in SUBSET SUBSET Node,
         \A u \in U : u # {} /\ Supported(u) /\ \A m, n \in u : kind[m] = kind[n],
         \A u, w \in U : u # w => u \cap w = {},
         UNION U = {n \in Node : kind[n] # Unsupported},
         Acyclic(U \cup {{n} : n \in Node \ UNION U})
  PROVE  Cutting({Ascending(u) : u \in U}) /\ CutOf({Ascending(u) : u \in U}) = U
<1> DEFINE cs == {Ascending(u) : u \in U}
<1>1. \A u \in U : Members(Ascending(u)) = u /\ Sound(Ascending(u))
  <2> TAKE u \in U
  <2>1. u \in SUBSET Node /\ u # {} /\ Supported(u) /\ \A m, n \in u : kind[m] = kind[n]
    OBVIOUS
  <2> QED
    BY <2>1, AscendingSound
<1>2. CutOf(cs) = U
  BY <1>1 DEF CutOf
<1>3. \A c \in cs : Sound(c)
  BY <1>1
<1>4. \A c, d \in cs : c # d => Members(c) \cap Members(d) = {}
  <2> SUFFICES ASSUME NEW u \in U, NEW w \in U, Ascending(u) # Ascending(w)
               PROVE  Members(Ascending(u)) \cap Members(Ascending(w)) = {}
    OBVIOUS
  <2>1. u # w
    OBVIOUS
  <2> QED
    BY <1>1, <2>1
<1> HIDE DEF cs
<1>5. Cutting(cs)
  BY <1>2, <1>3, <1>4 DEF Cutting
<1> QED
  BY <1>2, <1>5 DEF cs

\* An answer stays one while the graph stays.
LEMMA AnswerSteady ==
  ASSUME UNCHANGED <<edges, kind>>, Cutting(clusters')
  PROVE  Cutting(clusters)'
<1>1. PICK cs : cs = clusters'
  OBVIOUS
<1>2. Cutting(cs)'
  <2>1. Cutting(cs)
    BY <1>1
  <2> QED
    BY <2>1, Steady
<1> QED
  BY <1>1, <1>2

\* What was whole stays an answer of the same graph.
LEMMA WholeSteady ==
  ASSUME UNCHANGED <<edges, kind>>, Cutting(layers'.whole)
  PROVE  Cutting(layers.whole)'
<1>1. PICK cs : cs = layers'.whole
  OBVIOUS
<1>2. Cutting(cs)'
  <2>1. Cutting(cs)
    BY <1>1
  <2> QED
    BY <2>1, Steady
<1> QED
  BY <1>1, <1>2

\* A sound answer that keeps the regions keeps the invariant.
LEMMA AnswerCuts ==
  ASSUME CutInv, UNCHANGED <<edges, kind, todo, taken, order, groups>>, phase' = "split",
         Cutting(clusters'), \A r \in taken : \E c \in clusters' : r \subseteq Members(c), IInv'
  PROVE  CutInv'
<1>1. Regions' /\ Early' /\ Numbered' /\ Grouped' /\ Running'
  BY Steady DEF CutInv, Regions, Early, Numbered, Grouped, Running
<1>2. Cutting(clusters)'
  BY AnswerSteady
<1>3. RegionsWhole' /\ AnswerSplit'
  BY DEF RegionsWhole, AnswerSplit, Members
<1>4. AnswerSound'
  BY <1>2, <1>3 DEF AnswerSound, Answered
<1> QED
  BY <1>1, <1>4 DEF CutInv

\* Disjoint sets without gaps are on no cycle.
LEMMA IntervalsAcyclic ==
  ASSUME Forwards, NEW units, \A u \in units : u # {} /\ u \subseteq Node,
         \A u \in units : \A x, y \in u, z \in Node : x <= z /\ z <= y => z \in u,
         \A u, w \in units : u # w => u \cap w = {}
  PROVE  Acyclic(units)
<1> DEFINE rank == [u \in units |-> Least(u)]
           rel == Induced(edges, units)
<1>1. \A u \in units : rank[u] \in u /\ rank[u] \in Nat /\ \A y \in u : rank[u] <= y
  <2> TAKE u \in units
  <2>1. u \in SUBSET Nat /\ u # {}
    BY DEF Forwards
  <2>2. Least(u) \in u /\ \A y \in u : Least(u) <= y
    BY <2>1, LeastIn
  <2> QED
    BY <2>1, <2>2
<1> HIDE DEF rank
<1>2. ASSUME NEW p \in rel
      PROVE  rank[p[1]] \in Int /\ rank[p[2]] \in Int /\ rank[p[1]] < rank[p[2]]
  <2>1. p[1] \in units /\ p[2] \in units /\ p[1] # p[2]
    BY DEF Induced
  <2>2. PICK x \in p[1], y \in p[2] : <<x, y>> \in edges
    BY DEF Induced
  <2>3. <<x, y>>[1] < <<x, y>>[2] /\ x \in Nat /\ y \in Nat /\ x \in Node
    BY <2>1, <2>2 DEF Forwards
  <2>4. rank[p[1]] <= x /\ rank[p[1]] \in Nat /\ rank[p[2]] \in Nat /\ rank[p[2]] \in p[2]
    BY <1>1, <2>1, <2>2
  <2>5. x \notin p[2]
    BY <2>1, <2>2
  <2>6. ~(rank[p[2]] <= x)
    <3>1. ~(rank[p[2]] <= x /\ x <= y)
      BY <2>1, <2>2, <2>3, <2>4, <2>5
    <3> QED
      BY <2>3, <3>1
  <2> QED
    BY <2>3, <2>4, <2>6
<1>3. \A u \in units : u \notin Beyond(rel, {u})
  <2> TAKE u \in units
  <2> HIDE DEF rel
  <2> QED
    BY <1>2, RankedAcyclic
<1> QED
  BY <1>3, LinksInduced

\* A stretch of one colour that cannot be made longer.
Longest(i, j) ==
    /\ Alike(i, j)
    /\ i > 1 => ~Alike(i - 1, j)
    /\ j + 1 \in Node => ~Alike(i, j + 1)
Stretches == {p \in Node \X Node : p[1] <= p[2] /\ Longest(p[1], p[2])}

\* Two such stretches with a node in common are one.
LEMMA StretchesApart ==
  ASSUME Regions, NEW i \in Node, NEW j \in Node, NEW k \in Node, NEW l \in Node,
         Longest(i, j), Longest(k, l), NEW x \in i .. j, x \in k .. l
  PROVE  ~(i < k) /\ ~(j < l)
<1>1. PICK n \in Nat : Node = 1 .. n
  BY DEF Regions
<1>2. i \in Nat /\ j \in Nat /\ k \in Nat /\ l \in Nat /\ x \in Nat /\ i >= 1 /\ k >= 1 /\ l <= n
  BY <1>1
<1>3. /\ \A m \in i .. j : kind[m] # Unsupported /\ kind[m] = kind[x]
      /\ \A m \in k .. l : kind[m] # Unsupported /\ kind[m] = kind[x]
  <2>1. \A m \in i .. j : kind[m] # Unsupported /\ kind[m] = kind[i]
    BY DEF Longest, Alike, Supported
  <2>2. \A m \in k .. l : kind[m] # Unsupported /\ kind[m] = kind[k]
    BY DEF Longest, Alike, Supported
  <2> QED
    BY <2>1, <2>2
<1>4. ASSUME i < k PROVE FALSE
  <2>1. \A m \in k - 1 .. l : m \in i .. j \/ m \in k .. l
    BY <1>2, <1>4
  <2>2. k - 1 \in k - 1 .. l
    BY <1>2
  <2>3. Alike(k - 1, l)
    BY <1>3, <2>1, <2>2 DEF Alike, Supported
  <2>4. k > 1
    BY <1>2, <1>4
  <2> QED
    BY <2>3, <2>4 DEF Longest
<1>5. ASSUME j < l PROVE FALSE
  <2>1. \A m \in i .. j + 1 : m \in i .. j \/ m \in k .. l
    BY <1>2, <1>5
  <2>2. i \in i .. j + 1
    BY <1>2
  <2>3. Alike(i, j + 1)
    BY <1>3, <2>1, <2>2 DEF Alike, Supported
  <2>4. j + 1 \in Node
    BY <1>1, <1>2, <1>5
  <2> QED
    BY <2>3, <2>4 DEF Longest
<1> QED
  BY <1>4, <1>5

\* Every supported node lies in one.
LEMMA StretchAround ==
  ASSUME Regions, NEW x \in Node, kind[x] # Unsupported
  PROVE  \E p \in Stretches : x \in p[1] .. p[2]
<1>1. PICK n \in Nat : Node = 1 .. n
  BY DEF Regions
<1>2. x \in Nat /\ x >= 1 /\ x <= n
  BY <1>1
<1> DEFINE I == {i \in Node : i <= x /\ Alike(i, x)}
           i == Least(I)
<1>3. x \in I
  <2>1. x .. x = {x}
    BY <1>2
  <2> QED
    BY <1>2, <2>1 DEF Alike, Supported
<1>4. i \in I /\ \A k \in I : i <= k
  <2>1. I \in SUBSET Nat /\ I # {}
    BY <1>1, <1>3
  <2> HIDE DEF I
  <2> QED
    BY <2>1, LeastIn
<1>5. i \in Nat /\ i >= 1 /\ i <= x /\ Alike(i, x) /\ i \in Node
  BY <1>1, <1>4
<1>6. i > 1 => ~Alike(i - 1, x)
  <2> SUFFICES ASSUME i > 1, Alike(i - 1, x) PROVE FALSE
    OBVIOUS
  <2> HIDE DEF i
  <2>1. i - 1 \in Node /\ i - 1 <= x
    BY <1>1, <1>2, <1>5
  <2>2. i - 1 \in I
    BY <2>1
  <2>3. i <= i - 1
    BY <1>4, <2>2
  <2> QED
    BY <1>5, <2>3
<1> HIDE DEF i, I
<1> DEFINE J == {j \in Node : x <= j /\ Alike(i, j)}
           j == Last(J)
<1>7. j \in J /\ \A k \in J : j >= k
  <2>1. J \in SUBSET (0 .. n) /\ J # {}
    BY <1>1, <1>2, <1>5
  <2> HIDE DEF J
  <2> QED
    BY <2>1, LastIn
<1>8. j \in Nat /\ x <= j /\ Alike(i, j) /\ j \in Node
  BY <1>1, <1>7
<1>9. j + 1 \in Node => ~Alike(i, j + 1)
  <2> SUFFICES ASSUME j + 1 \in Node, Alike(i, j + 1) PROVE FALSE
    OBVIOUS
  <2> HIDE DEF j
  <2>1. j + 1 \in J
    BY <1>2, <1>8
  <2>2. j >= j + 1
    BY <1>7, <2>1
  <2> QED
    BY <1>8, <2>2
<1> HIDE DEF j, J
<1>10. i > 1 => ~Alike(i - 1, j)
  <2> SUFFICES ASSUME i > 1, Alike(i - 1, j) PROVE FALSE
    OBVIOUS
  <2>1. \A m \in i - 1 .. x : m \in i - 1 .. j
    BY <1>2, <1>5, <1>8
  <2>2. Alike(i - 1, x)
    BY <2>1 DEF Alike, Supported
  <2> QED
    BY <1>6, <2>2
<1>11. <<i, j>> \in Stretches
  <2>1. i <= j
    BY <1>2, <1>5, <1>8
  <2> QED
    BY <1>5, <1>8, <1>9, <1>10, <2>1 DEF Stretches, Longest
<1>12. x \in i .. j
  BY <1>2, <1>5, <1>8
<1>13. x \in <<i, j>>[1] .. <<i, j>>[2]
  BY <1>12
<1> QED
  BY <1>11, <1>13

\* The maximal intervals of one colour are an answer.
LEMMA ContiguousCuts == ASSUME CutInv, Contiguous PROVE CutInv'
<1> DEFINE U == {p[1] .. p[2] : p \in Stretches}
           Single == {{n} : n \in Node \ UNION U}
<1>1. /\ UNCHANGED <<edges, kind, todo, taken, order, groups>> /\ phase = "contiguous"
      /\ phase' = "split" /\ taken = {}
  BY DEF Contiguous, graph, CutInv, Early
<1>2. PICK n \in Nat : Node = 1 .. n
  BY DEF CutInv, Regions
<1>3. Regions /\ Forwards
  BY DEF CutInv, IInv
<1>4. clusters' = {Ascending(p[1] .. p[2]) : p \in Stretches}
  BY DEF Contiguous, Stretches, Longest
<1>5. clusters' = {Ascending(u) : u \in U}
  BY <1>4
<1>6. ASSUME NEW p \in Stretches
      PROVE  /\ p[1] \in Node /\ p[2] \in Node /\ p[1] <= p[2] /\ Longest(p[1], p[2])
             /\ p[1] .. p[2] \subseteq Node /\ p[1] \in p[1] .. p[2]
             /\ Supported(p[1] .. p[2])
             /\ \A x, y \in p[1] .. p[2] : kind[x] = kind[y]
  <2>1. p[1] \in Node /\ p[2] \in Node /\ p[1] <= p[2] /\ Longest(p[1], p[2])
    BY DEF Stretches
  <2>2. p[1] .. p[2] \subseteq Node /\ p[1] \in p[1] .. p[2]
    BY <1>2, <2>1
  <2> QED
    BY <2>1, <2>2 DEF Longest, Alike
<1>7. \A u \in U : u # {} /\ u \subseteq Node /\ Supported(u) /\ \A x, y \in u : kind[x] = kind[y]
  <2> SUFFICES ASSUME NEW p \in Stretches
               PROVE  LET u == p[1] .. p[2]
                      IN u # {} /\ u \subseteq Node /\ Supported(u) /\ \A x, y \in u : kind[x] = kind[y]
    OBVIOUS
  <2> QED
    BY <1>6
<1>8. ASSUME NEW p \in Stretches, NEW q \in Stretches, NEW x \in p[1] .. p[2], x \in q[1] .. q[2]
      PROVE  p[1] .. p[2] = q[1] .. q[2]
  <2>1. ~(p[1] < q[1]) /\ ~(p[2] < q[2]) /\ ~(q[1] < p[1]) /\ ~(q[2] < p[2])
    BY <1>3, <1>6, <1>8, StretchesApart
  <2>2. p[1] \in Nat /\ p[2] \in Nat /\ q[1] \in Nat /\ q[2] \in Nat
    BY <1>2, <1>6
  <2> QED
    BY <2>1, <2>2
<1>9. \A u, w \in U : u # w => u \cap w = {}
  BY <1>8
<1>10. UNION U = {x \in Node : kind[x] # Unsupported}
  <2>1. \A x \in UNION U : x \in Node /\ kind[x] # Unsupported
    BY <1>7 DEF Supported
  <2>2. \A x \in Node : kind[x] # Unsupported => x \in UNION U
    BY <1>3, StretchAround
  <2> HIDE DEF U
  <2> QED
    BY <2>1, <2>2
<1>11. Acyclic(U \cup Single)
  <2>1. \A u \in U \cup Single : u # {} /\ u \subseteq Node
    BY <1>7
  <2>2. \A u \in U \cup Single : \A x, y \in u, z \in Node : x <= z /\ z <= y => z \in u
    <3>1. ASSUME NEW p \in Stretches, NEW x \in p[1] .. p[2], NEW y \in p[1] .. p[2], NEW z \in Node,
                 x <= z, z <= y
          PROVE  z \in p[1] .. p[2]
      <4>1. p[1] \in Nat /\ p[2] \in Nat /\ z \in Nat
        BY <1>2, <1>6
      <4> QED
        BY <3>1, <4>1
    <3>2. ASSUME NEW x \in Node, NEW z \in Node, x <= z, z <= x PROVE z = x
      BY <1>2, <3>2
    <3> QED
      BY <3>1, <3>2
  <2>3. \A u, w \in U \cup Single : u # w => u \cap w = {}
    <3> HIDE DEF U
    <3> QED
      BY <1>9
  <2> HIDE DEF U, Single
  <2> QED
    BY <1>3, <2>1, <2>2, <2>3, IntervalsAcyclic
<1>12. Cutting({Ascending(u) : u \in U})
  <2> HIDE DEF U
  <2>1. U \in SUBSET SUBSET Node
    BY <1>7
  <2> QED
    BY <1>3, <1>7, <1>9, <1>10, <1>11, <2>1, CutFrom
<1>13. Cutting(clusters')
  BY <1>5, <1>12
<1>14. IInv'
  BY CuttingKeeps DEF CutInv
<1> QED
  BY <1>1, <1>13, <1>14, AnswerCuts
-----------------------------------------------------------------------------
\* An atom is of supported nodes, or of one node that is not.
LEMMA AtomKinds ==
  ASSUME CutInv
  PROVE  /\ {a \in Atoms : ~Supported(a)} = {{n} : n \in {m \in Node : kind[m] = Unsupported}}
         /\ UNION {a \in Atoms : Supported(a)} = {n \in Node : kind[n] # Unsupported}
         /\ \A r \in taken : r \in Atoms /\ Supported(r)
<1>1. Fine(Atoms)
  BY AtomsFine DEF CutInv, IInv
<1>2. \A r \in taken : r \in Atoms /\ Supported(r)
  BY DEF CutInv, Regions, Atoms
<1>3. \A n \in Node : \E a \in Atoms : n \in a
  BY <1>1 DEF Fine
<1>4. \A a \in Atoms : /\ a \subseteq Node /\ \A m, n \in a : kind[m] = kind[n]
                       /\ a \in taken \/ \E n \in Node : a = {n}
  BY <1>1 DEF Fine, Atoms
<1>5. \A n \in Node : kind[n] = Unsupported => {n} \in Atoms
  <2> SUFFICES ASSUME NEW n \in Node, kind[n] = Unsupported PROVE {n} \in Atoms
    OBVIOUS
  <2>1. PICK a \in Atoms : n \in a
    BY <1>3
  <2>2. a \notin taken
    BY <1>2, <2>1 DEF Supported
  <2> QED
    BY <1>4, <2>1, <2>2
<1>6. ASSUME NEW a \in Atoms, ~Supported(a)
      PROVE  \E n \in {m \in Node : kind[m] = Unsupported} : a = {n}
  <2>1. PICK n \in Node : a = {n}
    BY <1>2, <1>4, <1>6
  <2>2. kind[n] = Unsupported
    BY <1>6, <2>1 DEF Supported
  <2> QED
    BY <2>1, <2>2
<1>7. \A n \in Node : kind[n] = Unsupported => ~Supported({n})
  BY DEF Supported
<1>8. {a \in Atoms : ~Supported(a)} = {{n} : n \in {m \in Node : kind[m] = Unsupported}}
  BY <1>5, <1>6, <1>7
<1>9. UNION {a \in Atoms : Supported(a)} = {n \in Node : kind[n] # Unsupported}
  <2>1. ASSUME NEW n \in Node, kind[n] # Unsupported PROVE \E a \in Atoms : Supported(a) /\ n \in a
    BY <1>3, <1>4, <2>1 DEF Supported
  <2>2. \A a \in Atoms : Supported(a) => \A n \in a : n \in Node /\ kind[n] # Unsupported
    BY <1>4 DEF Supported
  <2> QED
    BY <2>1, <2>2
<1> QED
  BY <1>2, <1>8, <1>9

\* A unit of supported nodes has a colour among the runs.
LEMMA RunsColour ==
  ASSUME phase = "runs", NEW u, u # {}, Supported(u), \A m, n \in u : kind[m] = kind[n]
  PROVE  Colour(u) # Unsupported
<1>1. PICK n \in u : TRUE
  OBVIOUS
<1>2. kind[n] = KindOf(u)
  BY KindOfAny
<1> QED
  BY <1>1, <1>2 DEF Colour, Supported

\* A unit of a node that is not supported has none.
LEMMA AsideColour ==
  ASSUME NEW n, kind[n] = Unsupported
  PROVE  Colour({n}) = Unsupported
<1>1. KindOf({n}) = Unsupported
  BY KindOfAny
<1> QED
  BY <1>1 DEF Colour

\* Once everything has been emitted.
LEMMA EmittedAll ==
  ASSUME CutInv, phase \in {"runs", "coalesce"}, Ready(Units) = {}
  PROVE  /\ emitted = Units /\ Fine(Units) /\ Acyclic(Units) /\ Acyclic(CutOf(Members(runs)) \cup Aside)
         /\ \A r \in Members(runs) : Sound(r)
         /\ \A r, s \in Members(runs) : r # s => Members(r) \cap Members(s) = {}
         /\ UNION CutOf(Members(runs)) = UNION (Units \ Aside)
         /\ \A u \in Units \ Aside : \E r \in Members(runs) : u \subseteq Members(r)
         /\ \A r \in Members(runs), w \in Aside : Members(r) \cap w = {}
<1>1. /\ Fine(Units) /\ DownClosed(Units) /\ Acyclic(Units)
      /\ RunsApart /\ RunsEmitted /\ RunsOrdered
  BY DEF CutInv, Running
<1>2. emitted = Units
  <2>1. UNION Units = Node
    BY <1>1 DEF Fine
  <2> QED
    BY <1>1, <2>1, AllEmitted DEF CutInv
<1>3. \A r, s \in Members(runs) : r # s => Members(r) \cap Members(s) = {}
  <2> SUFFICES ASSUME NEW i \in DOMAIN runs, NEW j \in DOMAIN runs, runs[i] # runs[j]
               PROVE  Members(runs[i]) \cap Members(runs[j]) = {}
    BY DEF Members
  <2> QED
    BY <1>1 DEF RunsApart
<1>4. \A r \in Members(runs), w \in Aside : Members(r) \cap w = {}
  BY <1>1, <1>2, RunsWithin
<1> QED
  BY <1>1, <1>2, <1>3, <1>4 DEF RunsApart, RunsEmitted, RunsOrdered

\* Once every atom has been emitted, the runs are an answer.
LEMMA RunsDoneCuts == ASSUME CutInv, RunsDone PROVE CutInv'
<1> DEFINE R == CutOf(Members(runs))
<1>1. /\ UNCHANGED <<edges, kind, todo, taken, order, groups>> /\ phase = "runs"
      /\ Ready(Units) = {} /\ phase' = "split" /\ Units = Atoms
      /\ clusters' = IF taken = {} THEN Members(runs)
                                   ELSE {Ascending(Members(r)) : r \in Members(runs)}
  BY DEF RunsDone, graph, Units
<1>2. /\ emitted = Atoms /\ Fine(Atoms) /\ Acyclic(R \cup Aside)
      /\ \A r \in Members(runs) : Sound(r)
      /\ \A r, s \in Members(runs) : r # s => Members(r) \cap Members(s) = {}
      /\ UNION R = UNION (Atoms \ Aside)
      /\ \A u \in Atoms \ Aside : \E r \in Members(runs) : u \subseteq Members(r)
  BY <1>1, EmittedAll
<1>3. Aside = {a \in Atoms : ~Supported(a)}
  <2>1. \A a \in Atoms : Supported(a) => Colour(a) # Unsupported
    BY <1>1, <1>2, RunsColour DEF Fine
  <2>2. \A a \in Atoms : Colour(a) # Unsupported => Supported(a)
    BY <1>1, <1>2, ColourOf DEF Fine
  <2> QED
    BY <1>2, <2>1, <2>2 DEF Aside
<1>4. /\ Aside = {{n} : n \in {m \in Node : kind[m] = Unsupported}}
      /\ UNION {a \in Atoms : Supported(a)} = {n \in Node : kind[n] # Unsupported}
      /\ \A r \in taken : r \in Atoms /\ Supported(r)
  BY <1>3, AtomKinds
<1>5. UNION R = {n \in Node : kind[n] # Unsupported}
  <2>1. Atoms \ Aside = {a \in Atoms : Supported(a)}
    BY <1>3
  <2> QED
    BY <1>2, <1>4, <2>1
<1>6. Aside = {{n} : n \in Node \ UNION R}
  <2>1. Node \ UNION R = {m \in Node : kind[m] = Unsupported}
    BY <1>5
  <2> QED
    BY <1>4, <2>1
<1>7. Cutting(clusters')
  <2>1. CASE taken = {}
    <3>1. clusters' = Members(runs)
      BY <1>1, <2>1
    <3>2. Acyclic(R \cup {{n} : n \in Node \ UNION R})
      BY <1>2, <1>6
    <3>3. Cutting(Members(runs))
      BY <1>2, <1>5, <3>2 DEF Cutting
    <3> QED
      BY <3>1, <3>3
  <2>2. CASE taken # {}
    <3>1. clusters' = {Ascending(u) : u \in R}
      <4>1. clusters' = {Ascending(Members(r)) : r \in Members(runs)}
        BY <1>1, <2>2
      <4> QED
        BY <4>1 DEF CutOf
    <3>2. \A u \in R : /\ u # {} /\ u \subseteq Node /\ Supported(u)
                       /\ \A m, n \in u : kind[m] = kind[n]
      <4> SUFFICES ASSUME NEW r \in Members(runs)
                   PROVE  /\ Members(r) # {} /\ Members(r) \subseteq Node /\ Supported(Members(r))
                          /\ \A m, n \in Members(r) : kind[m] = kind[n]
        BY DEF CutOf
      <4>1. Sound(r)
        BY <1>2
      <4>2. r \in Seq(Node) /\ r # <<>>
        BY <4>1 DEF Sound
      <4>3. Members(r) # {} /\ Members(r) \subseteq Node
        BY <4>2 DEF Members
      <4> QED
        BY <4>1, <4>3 DEF Sound
    <3>3. \A u, w \in R : u # w => u \cap w = {}
      BY <1>2 DEF CutOf
    <3>4. Acyclic(R \cup {{n} : n \in Node \ UNION R})
      BY <1>2, <1>6
    <3>5. R \in SUBSET SUBSET Node
      BY <3>2
    <3> HIDE DEF R
    <3>6. Cutting({Ascending(u) : u \in R})
      BY <1>5, <3>2, <3>3, <3>4, <3>5, CutFrom DEF CutInv, IInv
    <3> QED
      BY <3>1, <3>6
  <2> QED
    BY <2>1, <2>2
<1>8. ASSUME NEW t \in taken PROVE \E c \in clusters' : t \subseteq Members(c)
  <2>1. PICK r \in Members(runs) : t \subseteq Members(r)
    BY <1>2, <1>3, <1>4
  <2>2. CASE taken = {}
    BY <2>2
  <2>3. CASE taken # {}
    <3>1. Ascending(Members(r)) \in clusters'
      BY <1>1, <2>3
    <3>2. r \in Seq(Node) /\ r # <<>>
      BY <1>2 DEF Sound
    <3>3. Members(r) \in SUBSET Node /\ Members(r) # {}
      BY <3>2 DEF Members
    <3>4. Members(Ascending(Members(r))) = Members(r)
      BY <1>2, <3>3, AscendingSound DEF Sound, CutInv, IInv
    <3> QED
      BY <2>1, <3>1, <3>4
  <2> QED
    BY <2>2, <2>3
<1>9. IInv'
  BY CuttingKeeps DEF CutInv
<1> QED
  BY <1>1, <1>7, <1>8, <1>9, AnswerCuts

\* Once every group has been emitted, the runs with the groups set aside are an answer,
\* and so are the groups.
LEMMA CoalesceDoneCuts == ASSUME CutInv, CoalesceDone PROVE CutInv'
<1> DEFINE R == CutOf(Members(runs))
           rest == {u \in Merged : Colour(u) = Unsupported}
           Single == {{n} : n \in {m \in Node : kind[m] = Unsupported}}
<1>1. /\ UNCHANGED <<edges, kind, todo, taken, order, groups>> /\ phase = "coalesce"
      /\ Ready(Units) = {} /\ phase' = "split" /\ Units = Quotient
  BY DEF CoalesceDone, graph, Units
<1>2. PICK U : clusters' = {Ascending(u) : u \in U} /\ (U = Merged \/ U = rest \cup R)
  <2>1. clusters' = {Ascending(u) : u \in Merged} \/ clusters' = {Ascending(u) : u \in rest \cup R}
    BY DEF CoalesceDone, CutOf
  <2> HIDE DEF rest, R
  <2> QED
    BY <2>1
<1>3. /\ emitted = Quotient /\ Fine(Quotient) /\ Acyclic(Quotient) /\ Acyclic(R \cup Aside)
      /\ \A r \in Members(runs) : Sound(r)
      /\ \A r, s \in Members(runs) : r # s => Members(r) \cap Members(s) = {}
      /\ UNION R = UNION (Quotient \ Aside)
      /\ \A u \in Quotient \ Aside : \E r \in Members(runs) : u \subseteq Members(r)
      /\ \A r \in Members(runs), w \in Aside : Members(r) \cap w = {}
  BY <1>1, EmittedAll
<1>4. /\ {a \in Atoms : ~Supported(a)} = Single
      /\ UNION {a \in Atoms : Supported(a)} = {n \in Node : kind[n] # Unsupported}
      /\ \A r \in taken : r \in Atoms /\ Supported(r)
  BY AtomKinds
<1>5. Quotient = Merged \cup Single
  BY <1>4 DEF Quotient
<1>6. UNION groups = {a \in Atoms : Supported(a)}
  BY <1>1 DEF CutInv, Grouped
<1>7. UNION Merged = {n \in Node : kind[n] # Unsupported}
  <2>1. UNION Merged = UNION UNION groups
    BY DEF Merged
  <2> QED
    BY <1>4, <1>6, <2>1
<1>8. Aside = rest \cup Single
  <2>1. \A s \in Single : Colour(s) = Unsupported
    BY AsideColour
  <2> HIDE DEF Single
  <2> QED
    BY <1>3, <1>5, <2>1 DEF Aside
<1>9. \A u \in Merged : /\ u # {} /\ u \subseteq Node /\ Supported(u)
                        /\ \A m, n \in u : kind[m] = kind[n]
  <2> TAKE u \in Merged
  <2>1. u \in Quotient
    BY <1>5
  <2>2. u # {} /\ u \subseteq Node /\ \A m, n \in u : kind[m] = kind[n]
    BY <1>3, <2>1 DEF Fine
  <2>3. Supported(u)
    BY <1>7 DEF Supported
  <2> QED
    BY <2>2, <2>3
<1>10. \A u, w \in Merged : u # w => u \cap w = {}
  BY <1>3, <1>5 DEF Fine
<1>11. \A u \in R : /\ u # {} /\ u \subseteq Node /\ Supported(u)
                    /\ \A m, n \in u : kind[m] = kind[n]
  <2> SUFFICES ASSUME NEW r \in Members(runs)
               PROVE  /\ Members(r) # {} /\ Members(r) \subseteq Node /\ Supported(Members(r))
                      /\ \A m, n \in Members(r) : kind[m] = kind[n]
    BY DEF CutOf
  <2>1. Sound(r)
    BY <1>3
  <2>2. r \in Seq(Node) /\ r # <<>>
    BY <2>1 DEF Sound
  <2>3. Members(r) # {} /\ Members(r) \subseteq Node
    BY <2>2 DEF Members
  <2> QED
    BY <2>1, <2>3 DEF Sound
<1>12. \A u, w \in R : u # w => u \cap w = {}
  BY <1>3 DEF CutOf
<1>13. \A u \in R, w \in Aside : u \cap w = {}
  BY <1>3 DEF CutOf
<1>14. UNION U = {n \in Node : kind[n] # Unsupported}
  <2>1. CASE U = Merged
    BY <1>7, <2>1
  <2>2. CASE U = rest \cup R
    <3>1. Quotient \ Aside = Merged \ rest
      <4>1. \A u \in Merged : u \notin Single
        <5>1. \A u \in Merged : u # {} /\ Supported(u)
          BY <1>9
        <5> QED
          BY <5>1 DEF Supported
      <4> HIDE DEF Single, rest
      <4> QED
        BY <1>5, <1>8, <4>1
    <3>2. UNION R = UNION (Merged \ rest)
      BY <1>3, <3>1
    <3>3. rest \subseteq Merged
      OBVIOUS
    <3> HIDE DEF rest, R
    <3>4. UNION (rest \cup R) = UNION Merged
      BY <3>2, <3>3
    <3> QED
      BY <1>7, <2>2, <3>4
  <2> QED
    BY <1>2, <2>1, <2>2
<1>15. {{n} : n \in Node \ UNION U} = Single
  <2>1. Node \ UNION U = {m \in Node : kind[m] = Unsupported}
    BY <1>14
  <2> QED
    BY <2>1
<1>16. /\ \A u \in U : /\ u # {} /\ u \subseteq Node /\ Supported(u)
                       /\ \A m, n \in u : kind[m] = kind[n]
       /\ \A u, w \in U : u # w => u \cap w = {}
       /\ Acyclic(U \cup Single)
  <2>1. CASE U = Merged
    BY <1>3, <1>5, <1>9, <1>10, <2>1
  <2>2. CASE U = rest \cup R
    <3>1. rest \subseteq Merged /\ rest \subseteq Aside
      BY <1>8
    <3>2. U \cup Single = R \cup Aside
      BY <1>8, <2>2
    <3> HIDE DEF rest, R, Single
    <3>3. \A u \in U : /\ u # {} /\ u \subseteq Node /\ Supported(u)
                       /\ \A m, n \in u : kind[m] = kind[n]
      BY <1>9, <1>11, <2>2, <3>1
    <3>4. \A u, w \in U : u # w => u \cap w = {}
      BY <1>10, <1>12, <1>13, <2>2, <3>1
    <3> QED
      BY <1>3, <3>2, <3>3, <3>4
  <2> QED
    BY <1>2, <2>1, <2>2
<1>17. Cutting(clusters') /\ CutOf(clusters') = U
  <2>1. Acyclic(U \cup {{n} : n \in Node \ UNION U})
    BY <1>15, <1>16
  <2>2. U \in SUBSET SUBSET Node
    BY <1>16
  <2>3. Cutting({Ascending(u) : u \in U}) /\ CutOf({Ascending(u) : u \in U}) = U
    BY <1>14, <1>16, <2>1, <2>2, CutFrom DEF CutInv, IInv
  <2> QED
    BY <1>2, <2>3
<1>18. ASSUME NEW t \in taken PROVE \E c \in clusters' : t \subseteq Members(c)
  <2>1. PICK u \in Merged : t \subseteq u
    <3>1. t \in UNION groups
      BY <1>4, <1>6
    <3> QED
      BY <3>1 DEF Merged
  <2>2. \E w \in U : t \subseteq w
    <3>1. CASE U = Merged
      BY <2>1, <3>1
    <3>2. CASE U = rest \cup R
      <4>1. CASE Colour(u) = Unsupported
        BY <2>1, <3>2, <4>1
      <4>2. CASE Colour(u) # Unsupported
        <5>1. u \in Quotient \ Aside
          BY <1>5, <4>2 DEF Aside
        <5>2. PICK r \in Members(runs) : u \subseteq Members(r)
          BY <1>3, <5>1
        <5>3. Members(r) \in R
          BY DEF CutOf
        <5> QED
          BY <2>1, <3>2, <5>2, <5>3
      <4> QED
        BY <4>1, <4>2
    <3> QED
      BY <1>2, <3>1, <3>2
  <2> QED
    BY <1>17, <2>2 DEF CutOf
<1>19. IInv'
  BY CuttingKeeps DEF CutInv
<1> QED
  BY <1>1, <1>17, <1>18, <1>19, AnswerCuts
-----------------------------------------------------------------------------
(* The split.                                                              *)

\* More of a finite stretch of positions.
LEMMA EndsGrow ==
  ASSUME NEW c, NEW ends, NEW i \in Nat, NEW j \in Nat, i <= j
  PROVE  /\ EndsAhead(c, i, ends) \in Nat /\ EndsAhead(c, j, ends) \in Nat
         /\ EndsAhead(c, i, ends) <= EndsAhead(c, j, ends)
<1> DEFINE A == {k \in 1 .. i - 1 : c[k] \in ends}
           B == {k \in 1 .. j - 1 : c[k] \in ends}
<1>1. IsFiniteSet(1 .. j - 1)
  <2>1. 1 \in Int /\ j - 1 \in Int
    OBVIOUS
  <2> QED
    BY <2>1, FS_Interval
<1>2. A \in SUBSET B /\ B \in SUBSET (1 .. j - 1)
  OBVIOUS
<1>3. IsFiniteSet(B)
  BY <1>1, <1>2, FS_Subset
<1>4. IsFiniteSet(A) /\ Cardinality(A) <= Cardinality(B)
  BY <1>2, <1>3, FS_Subset
<1>5. Cardinality(A) \in Nat /\ Cardinality(B) \in Nat
  BY <1>3, <1>4, FS_CardinalityType
<1> QED
  BY <1>4, <1>5 DEF EndsAhead

\* The parts' numbers grow along the sequence.
LEMMA PartGrows ==
  ASSUME NEW c, NEW ends, NEW span \in Nat \ {0}, NEW i \in Nat, NEW j \in Nat, i <= j
  PROVE  /\ PartOf(c, i, ends, span) \in Nat /\ PartOf(c, j, ends, span) \in Nat
         /\ PartOf(c, i, ends, span) <= PartOf(c, j, ends, span)
<1>1. /\ EndsAhead(c, i, ends) \in Nat /\ EndsAhead(c, j, ends) \in Nat
      /\ EndsAhead(c, i, ends) <= EndsAhead(c, j, ends)
  BY EndsGrow
<1> QED
  BY <1>1 DEF PartOf

\* A part is a stretch of the sequence: all positions with one number.
LEMMA PartStretch ==
  ASSUME NEW c \in Seq(Node), NEW ends, NEW span \in Nat \ {0}, NEW i \in DOMAIN c
  PROVE  \E lo, hi \in DOMAIN c :
           /\ lo <= i /\ i <= hi
           /\ \A j \in DOMAIN c : PartOf(c, j, ends, span) = PartOf(c, i, ends, span)
                                    <=> lo <= j /\ j <= hi
           /\ PartAround(c, i, ends, span) = SubSeq(c, lo, hi)
<1> DEFINE P(j) == PartOf(c, j, ends, span)
           Same == {j \in DOMAIN c : P(j) = P(i)}
           lo == Least(Same)
           hi == Last(Same)
<1>1. Len(c) \in Nat /\ DOMAIN c = 1 .. Len(c) /\ i \in Same
  OBVIOUS
<1>2. Same \in SUBSET Nat /\ Same \in SUBSET (0 .. Len(c)) /\ Same # {}
  BY <1>1
<1>3. lo \in Same /\ \A y \in Same : lo <= y
  <2> HIDE DEF Same
  <2> QED
    BY <1>2, LeastIn
<1>4. hi \in Same /\ \A y \in Same : hi >= y
  <2> HIDE DEF Same
  <2> QED
    BY <1>1, <1>2, LastIn
<1> HIDE DEF lo, hi
<1>5. /\ lo \in DOMAIN c /\ hi \in DOMAIN c /\ P(lo) = P(i) /\ P(hi) = P(i)
      /\ lo \in Nat /\ hi \in Nat /\ i \in Nat
  BY <1>1, <1>3, <1>4
<1>6. lo <= i /\ i <= hi
  BY <1>1, <1>3, <1>4, <1>5
<1>7. ASSUME NEW j \in DOMAIN c PROVE P(j) = P(i) <=> lo <= j /\ j <= hi
  <2>1. j \in Nat
    BY <1>1
  <2>2. ASSUME P(j) = P(i) PROVE lo <= j /\ j <= hi
    <3>1. j \in Same
      BY <2>2
    <3> QED
      BY <1>3, <1>4, <1>5, <2>1, <3>1
  <2>3. ASSUME lo <= j, j <= hi PROVE P(j) = P(i)
    <3>1. P(lo) <= P(j) /\ P(lo) \in Nat /\ P(j) \in Nat
      BY <1>5, <2>1, <2>3, PartGrows
    <3>2. P(j) <= P(hi) /\ P(hi) \in Nat
      BY <1>5, <2>1, <2>3, PartGrows
    <3> HIDE DEF P
    <3> QED
      BY <1>5, <3>1, <3>2
  <2> QED
    BY <2>2, <2>3
<1>8. PartAround(c, i, ends, span) = SubSeq(c, lo, hi)
  BY DEF PartAround, lo, hi
<1> QED
  BY <1>5, <1>6, <1>7, <1>8

\* A stretch of a sound sequence is sound.
LEMMA StretchSound ==
  ASSUME NEW c, Sound(c), NEW lo \in Nat, NEW hi \in Nat,
         lo \in DOMAIN c, hi \in DOMAIN c, lo <= hi, NEW p, p = SubSeq(c, lo, hi)
  PROVE  /\ Sound(p) /\ Members(p) \subseteq Members(c)
         /\ \A j \in DOMAIN c : c[j] \in Members(p) <=> lo <= j /\ j <= hi
<1>1. c \in Seq(Node)
  BY DEF Sound
<1>0. Len(c) \in Nat /\ DOMAIN c = 1 .. Len(c) /\ lo >= 1 /\ hi <= Len(c)
  BY <1>1
<1>2. p \in Seq(Node) /\ p # <<>> /\ DOMAIN p = 1 .. (hi - lo) + 1
  <2>1. p \in Seq(Node) /\ Len(p) = (hi - lo) + 1
    BY <1>0, <1>1
  <2>2. (hi - lo) + 1 \in Nat /\ (hi - lo) + 1 # 0
    BY <1>0
  <2>3. Len(p) # 0
    BY <2>1, <2>2
  <2> QED
    BY <2>1, <2>3
<1>3. \A k \in DOMAIN p : lo + k - 1 \in DOMAIN c /\ lo + k - 1 <= hi /\ p[k] = c[lo + k - 1]
  <2> SUFFICES ASSUME NEW k \in 1 .. (hi - lo) + 1
               PROVE  lo + k - 1 \in DOMAIN c /\ lo + k - 1 <= hi /\ p[k] = c[lo + k - 1]
    BY <1>2
  <2> QED
    BY <1>0, <1>1
<1>4. \A x \in Members(p) : \E j \in DOMAIN c : lo <= j /\ j <= hi /\ x = c[j]
  <2> SUFFICES ASSUME NEW k \in DOMAIN p PROVE \E j \in DOMAIN c : lo <= j /\ j <= hi /\ p[k] = c[j]
    BY DEF Members
  <2>1. k \in Nat /\ k >= 1
    BY <1>2
  <2>2. lo <= lo + k - 1
    BY <2>1
  <2> QED
    BY <1>3, <2>2
<1>7. ASSUME NEW j \in DOMAIN c, lo <= j, j <= hi PROVE c[j] \in Members(p)
  <2>1. j - lo + 1 \in 1 .. (hi - lo) + 1 /\ lo + (j - lo + 1) - 1 = j
    BY <1>0, <1>7
  <2>2. p[j - lo + 1] = c[j]
    BY <1>2, <1>3, <2>1
  <2> QED
    BY <1>2, <2>1, <2>2 DEF Members
<1>5. Members(p) \subseteq Members(c)
  BY <1>4 DEF Members
<1>6. \A j \in DOMAIN c : c[j] \in Members(p) <=> lo <= j /\ j <= hi
  <2> TAKE j \in DOMAIN c
  <2>1. \A k \in DOMAIN c : c[k] = c[j] => k = j
    BY DEF Sound
  <2> QED
    BY <1>4, <1>7, <2>1
<1>8. \A k, l \in DOMAIN p : k \in Nat /\ l \in Nat
  BY <1>2
<1>9. ASSUME NEW k \in DOMAIN p, NEW l \in DOMAIN p, p[k] = p[l] PROVE k = l
  <2>1. lo + k - 1 = lo + l - 1
    BY <1>3, <1>9 DEF Sound
  <2> QED
    BY <1>8, <2>1
<1>10. ASSUME NEW k \in DOMAIN p, NEW l \in DOMAIN p, <<p[k], p[l]>> \in edges PROVE k < l
  <2>1. lo + k - 1 < lo + l - 1
    BY <1>3, <1>10 DEF Sound
  <2> QED
    BY <1>8, <2>1
<1>11. Supported(Members(p)) /\ \A m, n \in Members(p) : kind[m] = kind[n]
  BY <1>5 DEF Sound, Supported
<1>12. Sound(p)
  BY <1>2, <1>9, <1>10, <1>11 DEF Sound
<1> QED
  BY <1>5, <1>6, <1>12

\* A part of a sound sequence is sound and holds what the positions of its number do.
LEMMA PartSound ==
  ASSUME NEW c, Sound(c), NEW ends, NEW span \in Nat \ {0}, NEW i \in DOMAIN c,
         NEW p, p = PartAround(c, i, ends, span)
  PROVE  /\ Sound(p) /\ c[i] \in Members(p) /\ Members(p) \subseteq Members(c)
         /\ \A j \in DOMAIN c :
              c[j] \in Members(p) <=> PartOf(c, j, ends, span) = PartOf(c, i, ends, span)
<1>1. c \in Seq(Node)
  BY DEF Sound
<1>2. PICK lo \in DOMAIN c, hi \in DOMAIN c :
        /\ lo <= i /\ i <= hi
        /\ \A j \in DOMAIN c : PartOf(c, j, ends, span) = PartOf(c, i, ends, span)
                                 <=> lo <= j /\ j <= hi
        /\ PartAround(c, i, ends, span) = SubSeq(c, lo, hi)
  BY <1>1, PartStretch, Zenon
<1>3. lo <= hi /\ lo \in Nat /\ hi \in Nat
  BY <1>1, <1>2
<1>4. p = SubSeq(c, lo, hi)
  BY <1>2
<1>5. /\ Sound(p) /\ Members(p) \subseteq Members(c)
      /\ \A j \in DOMAIN c : c[j] \in Members(p) <=> lo <= j /\ j <= hi
  BY <1>3, <1>4, StretchSound
<1> QED
  BY <1>2, <1>5

\* Units that refine others without a cycle have none, when inside one of the others
\* they are in an order.
LEMMA RefinedAcyclic ==
  ASSUME NEW rel, NEW V, NEW W, NEW home, NEW rank,
         \A v \in V : home[v] \in W /\ v \subseteq home[v] /\ rank[v] \in Int,
         \A w \in W : w \notin Beyond(Induced(rel, W), {w}),
         \A p \in Induced(rel, V) : home[p[1]] = home[p[2]] => rank[p[1]] < rank[p[2]],
         NEW u \in V
  PROVE  u \notin Beyond(Induced(rel, V), {u})
<1> DEFINE L == Induced(rel, W)
           M == Induced(rel, V)
           B == Beyond(L, {home[u]})
           S == {v \in V : home[v] \in B \/ (home[v] = home[u] /\ rank[u] < rank[v])}
<1>1. ASSUME NEW p \in M, p[1] \in {u} \cup S PROVE p[2] \in S
  <2>1. p[1] \in V /\ p[2] \in V /\ \E x \in p[1], y \in p[2] : <<x, y>> \in rel
    BY DEF Induced
  <2>2. CASE home[p[1]] = home[p[2]]
    <3>1. rank[p[1]] < rank[p[2]] /\ rank[p[1]] \in Int /\ rank[p[2]] \in Int /\ rank[u] \in Int
      BY <2>1, <2>2
    <3> HIDE DEF B
    <3>2. home[p[1]] \in B \/ (home[p[1]] = home[u] /\ (p[1] = u \/ rank[u] < rank[p[1]]))
      BY <1>1
    <3>3. rank[u] < rank[p[2]] \/ home[p[1]] \in B
      BY <3>1, <3>2
    <3> QED
      BY <2>1, <2>2, <3>2, <3>3
  <2>3. CASE home[p[1]] # home[p[2]]
    <3> DEFINE q == <<home[p[1]], home[p[2]]>>
    <3>1. home[p[1]] \in W /\ home[p[2]] \in W /\ p[1] \subseteq home[p[1]] /\ p[2] \subseteq home[p[2]]
      BY <2>1
    <3>2. q \in L
      BY <2>1, <2>3, <3>1 DEF Induced
    <3>3. q[1] \in {home[u]} \cup B
      BY <1>1
    <3>4. q[2] \in B
      <4> HIDE DEF q, L
      <4> QED
        BY <3>2, <3>3, BeyondClosed
    <3> QED
      BY <2>1, <3>4
  <2> QED
    BY <2>2, <2>3
<1>2. u \notin S
  BY DEF S
<1> HIDE DEF S
<1> QED
  BY <1>1, <1>2, BeyondLeast

\* The parts of an answer make an answer.
LEMMA PartsCut ==
  ASSUME NEW cs, Cutting(cs), NEW ends, NEW span \in Nat \ {0}
  PROVE  Cutting(UNION {Parts(c, ends, span) : c \in cs})
<1> DEFINE new == UNION {Parts(c, ends, span) : c \in cs}
           Single == {{n} : n \in Node \ UNION CutOf(cs)}
           V == CutOf(new) \cup Single
           W == CutOf(cs) \cup Single
           Num(c, j) == PartOf(c, j, ends, span)
           Of(v) == CHOOSE c \in cs : v \subseteq Members(c)
           At(v) == CHOOSE j \in DOMAIN Of(v) : Of(v)[j] \in v
           home == [v \in V |-> IF v \in Single THEN v ELSE Members(Of(v))]
           rank == [v \in V |-> IF v \in Single THEN 0 ELSE Num(Of(v), At(v))]
<1>1. /\ \A c \in cs : Sound(c)
      /\ \A c, d \in cs : c # d => Members(c) \cap Members(d) = {}
      /\ UNION CutOf(cs) = {n \in Node : kind[n] # Unsupported}
      /\ Acyclic(W)
  BY DEF Cutting
<1>2. ASSUME NEW p \in new
      PROVE  \E c \in cs : \E i \in DOMAIN c :
               /\ p = PartAround(c, i, ends, span)
               /\ Sound(p) /\ c[i] \in Members(p) /\ Members(p) \subseteq Members(c)
               /\ \A j \in DOMAIN c : c[j] \in Members(p) <=> Num(c, j) = Num(c, i)
  <2>0. PICK c \in cs : p \in Parts(c, ends, span)
    OBVIOUS
  <2>1. PICK i \in DOMAIN c : p = PartAround(c, i, ends, span)
    BY <2>0 DEF Parts
  <2>2. Sound(c)
    BY <1>1
  <2>3. /\ Sound(p) /\ c[i] \in Members(p) /\ Members(p) \subseteq Members(c)
        /\ \A j \in DOMAIN c : c[j] \in Members(p) <=> Num(c, j) = Num(c, i)
    BY <2>1, <2>2, PartSound
  <2> QED
    BY <2>1, <2>3
<1>3. ASSUME NEW p \in new, NEW q \in new, NEW x \in Members(p), x \in Members(q)
      PROVE  p = q
  <2> HIDE DEF new, Num
  <2>1. PICK c \in cs : \E i \in DOMAIN c :
          /\ p = PartAround(c, i, ends, span) /\ Members(p) \subseteq Members(c)
          /\ \A j \in DOMAIN c : c[j] \in Members(p) <=> Num(c, j) = Num(c, i)
    BY <1>2
  <2>2. PICK d \in cs : \E k \in DOMAIN d :
          /\ q = PartAround(d, k, ends, span) /\ Members(q) \subseteq Members(d)
          /\ \A j \in DOMAIN d : d[j] \in Members(q) <=> Num(d, j) = Num(d, k)
    BY <1>2
  <2>3. c = d
    BY <1>1, <1>3, <2>1, <2>2
  <2>4. PICK j \in DOMAIN c : x = c[j]
    BY <1>3, <2>1 DEF Members
  <2>5. PICK i \in DOMAIN c : p = PartAround(c, i, ends, span) /\ Num(c, j) = Num(c, i)
    BY <1>3, <2>1, <2>4
  <2>6. PICK k \in DOMAIN c : q = PartAround(c, k, ends, span) /\ Num(c, j) = Num(c, k)
    BY <1>3, <2>2, <2>3, <2>4
  <2>7. PartAround(c, i, ends, span) = PartAround(c, k, ends, span)
    BY <2>5, <2>6 DEF PartAround, Num
  <2> QED
    BY <2>5, <2>6, <2>7
<1>4. \A p \in new : Sound(p)
  <2> HIDE DEF new
  <2> QED
    BY <1>2
<1>5. \A p, q \in new : p # q => Members(p) \cap Members(q) = {}
  <2> HIDE DEF new
  <2> QED
    BY <1>3
<1>6. UNION CutOf(new) = UNION CutOf(cs)
  <2>1. ASSUME NEW x \in UNION CutOf(cs) PROVE x \in UNION CutOf(new)
    <3>1. PICK c \in cs : x \in Members(c)
      BY DEF CutOf
    <3>2. PICK i \in DOMAIN c : x = c[i]
      BY <3>1 DEF Members
    <3> DEFINE p == PartAround(c, i, ends, span)
    <3>3. p \in new
      BY DEF Parts
    <3>4. Sound(c) /\ p = PartAround(c, i, ends, span)
      BY <1>1
    <3> HIDE DEF p, new
    <3>5. c[i] \in Members(p)
      BY <3>4, PartSound
    <3> QED
      BY <3>2, <3>3, <3>5 DEF CutOf
  <2>2. ASSUME NEW x \in UNION CutOf(new) PROVE x \in UNION CutOf(cs)
    <3> HIDE DEF new
    <3>1. PICK p \in new : x \in Members(p)
      BY DEF CutOf
    <3>2. PICK c \in cs : Members(p) \subseteq Members(c)
      BY <1>2
    <3> QED
      BY <3>1, <3>2 DEF CutOf
  <2> QED
    BY <2>1, <2>2
<1>7. ASSUME NEW v \in CutOf(new)
      PROVE  \E c \in cs : /\ v # {} /\ v \subseteq Members(c) /\ Members(c) \in W
                           /\ home[v] = Members(c) /\ rank[v] \in Nat
                           /\ \A j \in DOMAIN c : c[j] \in v <=> Num(c, j) = rank[v]
  <2> HIDE DEF new
  <2>1. PICK p \in new : v = Members(p)
    BY DEF CutOf
  <2>0. PICK c \in cs : \E i \in DOMAIN c :
          /\ c[i] \in v /\ v \subseteq Members(c)
          /\ \A j \in DOMAIN c : c[j] \in v <=> Num(c, j) = Num(c, i)
    <3> HIDE DEF Num
    <3> QED
      BY <1>2, <2>1
  <2>2. PICK i \in DOMAIN c :
          /\ c[i] \in v /\ v \subseteq Members(c)
          /\ \A j \in DOMAIN c : c[j] \in v <=> Num(c, j) = Num(c, i)
    BY <2>0
  <2>3. v \notin Single
    BY <2>2 DEF CutOf
  <2>4. Of(v) = c
    <3>1. \A d \in cs : v \subseteq Members(d) => d = c
      BY <1>1, <2>2
    <3> QED
      BY <2>2, <3>1
  <2>5. home[v] = Members(c)
    <3> HIDE DEF Of, Single
    <3> QED
      BY <2>3, <2>4
  <2>6. At(v) \in DOMAIN c /\ c[At(v)] \in v
    <3>1. \E j \in DOMAIN c : c[j] \in v
      BY <2>2
    <3>2. At(v) = CHOOSE j \in DOMAIN c : c[j] \in v
      BY <2>4
    <3> HIDE DEF At
    <3> QED
      BY <3>1, <3>2
  <2>7. rank[v] = Num(c, At(v))
    <3> HIDE DEF Of, At, Single, Num
    <3> QED
      BY <2>3, <2>4
  <2>8. rank[v] = Num(c, i) /\ Num(c, i) \in Nat
    <3>1. Num(c, At(v)) = Num(c, i)
      <4> HIDE DEF At, Num
      <4> QED
        BY <2>2, <2>6
    <3>2. i \in Nat
      BY <1>1 DEF Sound
    <3>3. Num(c, i) \in Nat
      BY <3>2, PartGrows
    <3> HIDE DEF rank, At, Num
    <3> QED
      BY <2>7, <3>1, <3>3
  <2> HIDE DEF home, rank, Num, Single
  <2>9. Members(c) \in W
    BY DEF CutOf
  <2> QED
    BY <2>2, <2>5, <2>8, <2>9
<1>8. ASSUME NEW v \in Single PROVE home[v] = v /\ rank[v] = 0
  <2> HIDE DEF Of, At, Num, Single
  <2> QED
    OBVIOUS
<1>9. \A v \in V : home[v] \in W /\ v \subseteq home[v] /\ rank[v] \in Int
  <2> HIDE DEF home, rank, Num, new, Single
  <2>1. \A v \in CutOf(new) : home[v] \in W /\ v \subseteq home[v] /\ rank[v] \in Int
    <3> HIDE DEF W
    <3> QED
      BY <1>7
  <2> QED
    BY <1>8, <2>1
<1>10. ASSUME NEW p \in Induced(edges, V), home[p[1]] = home[p[2]] PROVE rank[p[1]] < rank[p[2]]
  <2> DEFINE u == p[1]
             v == p[2]
  <2>1. PICK x \in u, y \in v : <<x, y>> \in edges
    BY DEF Induced
  <2>2. u \in V /\ v \in V /\ u # v /\ home[u] = home[v]
    BY <1>10 DEF Induced
  <2> HIDE DEF home, rank, Num, new, u, v
  <2>3. ASSUME NEW s \in Single, NEW w \in CutOf(new), home[s] = home[w] PROVE FALSE
    <3>1. PICK c \in cs : home[w] = Members(c)
      BY <1>7
    <3>2. PICK n \in Node \ UNION CutOf(cs) : s = {n}
      OBVIOUS
    <3>3. n \in Members(c)
      BY <1>8, <2>3, <3>1, <3>2
    <3> QED
      BY <3>2, <3>3 DEF CutOf
  <2>4. u \in CutOf(new) /\ v \in CutOf(new)
    <3> HIDE DEF Single
    <3> QED
      BY <1>8, <2>2, <2>3
  <2>5. PICK c \in cs : /\ u # {} /\ u \subseteq Members(c)
                        /\ home[u] = Members(c) /\ rank[u] \in Nat
                        /\ \A j \in DOMAIN c : c[j] \in u <=> Num(c, j) = rank[u]
    BY <1>7, <2>4
  <2>6. PICK d \in cs : /\ v # {} /\ v \subseteq Members(d)
                        /\ home[v] = Members(d) /\ rank[v] \in Nat
                        /\ \A j \in DOMAIN d : d[j] \in v <=> Num(d, j) = rank[v]
    BY <1>7, <2>4
  <2>7. c = d
    BY <1>1, <2>2, <2>5, <2>6
  <2>8. PICK i, j \in DOMAIN c : x = c[i] /\ y = c[j]
    BY <2>5, <2>6, <2>7 DEF Members
  <2>9. i < j /\ i \in Nat /\ j \in Nat
    BY <1>1, <2>1, <2>8 DEF Sound
  <2>10. Num(c, i) <= Num(c, j)
    BY <2>9, PartGrows DEF Num
  <2>11. rank[u] <= rank[v]
    BY <2>1, <2>5, <2>6, <2>7, <2>8, <2>10
  <2>12. rank[u] # rank[v]
    <3>1. SUFFICES ASSUME rank[u] = rank[v] PROVE u = v
      BY <2>2
    <3>2. \A k \in DOMAIN c : c[k] \in u <=> c[k] \in v
      BY <2>5, <2>6, <2>7, <3>1
    <3>3. \A z \in Members(c) : z \in u <=> z \in v
      BY <3>2 DEF Members
    <3> QED
      BY <2>5, <2>6, <2>7, <3>3
  <2>13. rank[u] < rank[v]
    BY <2>5, <2>6, <2>11, <2>12
  <2> QED
    BY <2>13 DEF u, v
<1>11. Acyclic(V)
  <2>1. \A w \in W : w \notin Beyond(Induced(edges, W), {w})
    <3> HIDE DEF W
    <3> QED
      BY <1>1, LinksInduced
  <2> HIDE DEF V, W, home, rank
  <2>2. \A p \in Induced(edges, V) : home[p[1]] = home[p[2]] => rank[p[1]] < rank[p[2]]
    BY <1>10
  <2>3. \A v \in V : v \notin Beyond(Induced(edges, V), {v})
    <3> TAKE v \in V
    <3> QED
      BY <1>9, <2>1, <2>2, RefinedAcyclic
  <2> QED
    BY <2>3, LinksInduced
<1>12. V = CutOf(new) \cup {{n} : n \in Node \ UNION CutOf(new)}
  <2> HIDE DEF new
  <2> QED
    BY <1>6
<1> HIDE DEF new, V
<1>13. Cutting(new)
  BY <1>1, <1>4, <1>5, <1>6, <1>11, <1>12 DEF Cutting
<1> QED
  BY <1>13 DEF new

\* What the split is told, and records.
Layered ==
    /\ DOMAIN layers = {"anchors", "ends", "span", "whole"}
    /\ layers.span \in Nat
    /\ layers.anchors \in SUBSET Nat

\* At first nothing is recorded but the span.
LEMMA InitLayered == ASSUME Init PROVE Layered
<1>1. PICK c \in Cases : layers = [anchors |-> {}, ends |-> {}, span |-> c.span, whole |-> {}]
  BY DEF Init
<1>2. c.span \in Nat
  BY CaseAssumption
<1> QED
  BY <1>1, <1>2 DEF Layered

\* Only the split adds to the record.
LEMMA NextLayered == ASSUME Layered, [Next]_vars PROVE Layered'
<1>1. CASE Split
  <2>1. CASE layers' = layers
    BY <2>1 DEF Layered
  <2>2. CASE layers' # layers
    <3>1. PICK anchors \in AnchorSets, named \in SUBSET Node :
            layers' = [layers EXCEPT !.anchors = anchors,
                                     !.ends = IF anchors = {} THEN named ELSE Inferred(anchors, named),
                                     !.whole = clusters]
      BY <1>1, <2>2 DEF Split
    <3>2. anchors \in SUBSET Nat
      BY LayerAssumption
    <3> QED
      BY <3>1, <3>2 DEF Layered
  <2> QED
    BY <2>1, <2>2
<1>2. CASE ~Split
  <2>1. UNCHANGED layers
    BY <1>2 DEF Next, Contiguous, TakeRegion, NoRegion, OrderAtom, OrderDone, Merge, MergeDone,
                Emit, RunsDone, CoalesceDone, Done, graph, vars
  <2> QED
    BY <2>1 DEF Layered
<1> QED
  BY <1>1, <1>2

\* The parts of the answer, cut along its sequences, are an answer.
LEMMA SplitCuts == ASSUME CutInv, Layered, Split PROVE CutInv'
<1>1. /\ UNCHANGED <<edges, kind, todo, taken, order, groups, emitted, current, runs>>
      /\ phase = "split" /\ phase' = "done"
  BY DEF Split
<1>2. IInv'
  BY CuttingKeeps DEF CutInv
<1>3. Regions' /\ Early' /\ Numbered' /\ Grouped' /\ Running'
  BY <1>1, Steady DEF CutInv, Regions, Early, Numbered, Grouped, Running
<1>4. Cutting(clusters)
  BY <1>1 DEF CutInv, AnswerSound, Answered
<1>5. RegionsWhole' /\ Answered'
  BY <1>1 DEF RegionsWhole, Answered
<1>6. CASE layers.span = 0
  <2>1. UNCHANGED <<clusters, layers>>
    BY <1>6 DEF Split
  <2>2. Cutting(clusters)'
    BY <1>1, <1>4, <2>1, AnswerSteady
  <2>3. AnswerSplit'
    BY <1>6, <2>1 DEF AnswerSplit
  <2> QED
    BY <1>2, <1>3, <1>5, <2>2, <2>3 DEF CutInv, AnswerSound
<1>7. CASE layers.span # 0
  <2>0. PICK anchors \in AnchorSets, named \in SUBSET Node :
          LET ends == IF anchors = {} THEN named ELSE Inferred(anchors, named) IN
          /\ layers' = [layers EXCEPT !.anchors = anchors, !.ends = ends, !.whole = clusters]
          /\ clusters' = UNION {Parts(c, ends, layers.span) : c \in clusters}
    BY <1>7 DEF Split
  <2> DEFINE ends == IF anchors = {} THEN named ELSE Inferred(anchors, named)
  <2>1. /\ layers' = [layers EXCEPT !.anchors = anchors, !.ends = ends, !.whole = clusters]
        /\ clusters' = UNION {Parts(c, ends, layers.span) : c \in clusters}
    BY <2>0
  <2>2. /\ layers'.anchors = anchors /\ layers'.ends = ends /\ layers'.span = layers.span
        /\ layers'.whole = clusters
    BY <2>1 DEF Layered
  <2>3. layers.span \in Nat \ {0}
    BY <1>7 DEF Layered
  <2>4. Cutting(clusters')
    BY <1>4, <2>1, <2>3, PartsCut
  <2>5. Cutting(clusters)'
    BY <1>1, <2>4, AnswerSteady
  <2>6. Cutting(layers.whole)'
    BY <1>1, <1>4, <2>2, WholeSteady
  <2>7. (clusters = UNION {Parts(c, layers.ends, layers.span) : c \in layers.whole})'
    BY <2>1, <2>2
  <2>8. (layers.anchors # {} => \E adds \in SUBSET Node : layers.ends = Inferred(layers.anchors, adds))'
    <3>1. SUFFICES ASSUME anchors # {}
                   PROVE  (\E adds \in SUBSET Node : layers.ends = Inferred(layers.anchors, adds))'
      BY <2>2
    <3>2. ends = Inferred(anchors, named)
      BY <3>1
    <3>3. Inferred(anchors, named) = Inferred(layers.anchors, named)'
      BY <1>1, <2>2 DEF Inferred, Joints
    <3>4. named \in SUBSET Node'
      BY <1>1, Steady
    <3> QED
      BY <2>2, <3>2, <3>3, <3>4
  <2>9. AnswerSplit'
    BY <2>6, <2>7, <2>8 DEF AnswerSplit
  <2> QED
    BY <1>2, <1>3, <1>5, <2>5, <2>9 DEF CutInv, AnswerSound
<1> QED
  BY <1>6, <1>7

\* A step that changes nothing keeps the invariant.
LEMMA StutterCuts == ASSUME CutInv, UNCHANGED vars PROVE CutInv'
<1>1. UNCHANGED <<edges, kind, phase, todo, taken, order, groups, emitted, current, runs, clusters, layers>>
  BY DEF vars
<1>2. IInv'
  BY CuttingKeeps DEF CutInv
<1>3. Regions' /\ Early'
  BY <1>1, Steady DEF CutInv, Regions, Early
<1>4. Atoms' = Atoms /\ {a \in Atoms : Supported(a)}' = {a \in Atoms : Supported(a)}
  <2>1. Atoms' = Atoms
    BY <1>1, Steady DEF Atoms
  <2> QED
    BY <1>1, <2>1, Steady
<1>5. Numbered'
  BY <1>1, <1>4 DEF CutInv, Numbered, DownClosed, Acyclic, Links, Members
<1>6. Grouped'
  <2>1. Acyclic(Atoms) => Acyclic(Atoms)'
    BY <1>1, <1>4 DEF Acyclic, Links
  <2> QED
    BY <1>1, <1>4, <2>1 DEF CutInv, Grouped
<1>7. Running'
  <2>1. Units' = Units
    <3>1. {a \in Atoms : ~Supported(a)}' = {a \in Atoms : ~Supported(a)}
      BY <1>1, <1>4, Steady
    <3> QED
      BY <1>1, <1>4, <3>1 DEF Units, Quotient, Merged
  <2>2. \A w : Colour(w)' = Colour(w)
    BY <1>1, Steady DEF Colour
  <2>3. Aside' = Aside
    BY <1>1, <2>2 DEF Aside
  <2>4. Fine(Units) => Fine(Units)'
    BY <1>1, <2>1, Steady DEF Fine
  <2>5. (DownClosed(Units) => DownClosed(Units)') /\ (Acyclic(Units) => Acyclic(Units)')
    BY <1>1, <2>1 DEF DownClosed, Acyclic, Links
  <2>6. RunsApart => RunsApart'
    <3>1. Node' = Node /\ \A r : Sound(r)' <=> Sound(r)
      BY <1>1, Steady
    <3>2. Members(runs)' = Members(runs)
      BY <1>1 DEF Members
    <3>3. SUFFICES ASSUME RunsApart PROVE RunsApart'
      OBVIOUS
    <3>4. \A r \in Members(runs) : Sound(r)'
      BY <3>1, <3>3 DEF RunsApart
    <3>5. \A i, j \in DOMAIN runs : i # j => Members(runs[i]) \cap Members(runs[j]) = {}
      BY <3>3 DEF RunsApart
    <3>6. runs' \in Seq(Seq(Node')) /\ runs' = runs
      BY <1>1, <3>1, <3>3 DEF RunsApart
    <3>7. \A i, j \in DOMAIN runs' : i # j => Members(runs'[i]) \cap Members(runs'[j]) = {}
      BY <3>5, <3>6
    <3> QED
      BY <3>2, <3>4, <3>6, <3>7 DEF RunsApart, Members
  <2>7. RunsEmitted => RunsEmitted'
    BY <1>1, <2>3 DEF RunsEmitted, CutOf, Members
  <2>8. RunsOrdered => RunsOrdered'
    <3>1. CutOf(Members(runs))' \cup Aside' = CutOf(Members(runs)) \cup Aside
      BY <1>1, <2>3 DEF CutOf, Members
    <3>2. RunsOrdered => Acyclic(CutOf(Members(runs))' \cup Aside')
      BY <3>1 DEF RunsOrdered
    <3> QED
      BY <1>1, <3>2 DEF RunsOrdered, Acyclic, Links
  <2>9. RunGoesOn => RunGoesOn'
    BY <1>1 DEF RunGoesOn, LastRun, Members
  <2> QED
    BY <1>1, <2>4, <2>5, <2>6, <2>7, <2>8, <2>9 DEF CutInv, Running
<1>8. AnswerSound'
  <2>1. Answered => Cutting(clusters)'
    BY <1>1, AnswerSteady DEF CutInv, AnswerSound
  <2>2. RegionsWhole'
    BY <1>1 DEF CutInv, AnswerSound, RegionsWhole, Members
  <2>3. AnswerSplit'
    <3>1. phase = "done" /\ layers.span > 0 => Cutting(layers.whole)'
      BY <1>1, WholeSteady DEF CutInv, AnswerSound, AnswerSplit
    <3>3. ASSUME phase = "done" /\ layers.span > 0 /\ layers.anchors # {}
          PROVE  (\E adds \in SUBSET Node : layers.ends = Inferred(layers.anchors, adds))'
      <4>1. PICK adds \in SUBSET Node : layers.ends = Inferred(layers.anchors, adds)
        BY <3>3 DEF CutInv, AnswerSound, AnswerSplit
      <4>2. adds \in SUBSET Node'
        BY <1>1, Steady
      <4>3. Inferred(layers.anchors, adds)' = Inferred(layers.anchors, adds)
        BY <1>1 DEF Inferred, Joints
      <4> QED
        BY <1>1, <4>1, <4>2, <4>3
    <3> QED
      BY <1>1, <3>1, <3>3 DEF CutInv, AnswerSound, AnswerSplit
  <2> QED
    BY <1>1, <2>1, <2>2, <2>3 DEF CutInv, AnswerSound, Answered
<1> QED
  BY <1>2, <1>3, <1>5, <1>6, <1>7, <1>8 DEF CutInv

\* Every step keeps the invariant.
LEMMA NextCuts == ASSUME CutInv, Layered, [Next]_vars PROVE CutInv'
BY TakeRegionCuts, NoRegionCuts, OrderAtomCuts, OrderDoneCuts, MergeCuts, MergeDoneCuts,
   EmitCuts, ContiguousCuts, RunsDoneCuts, CoalesceDoneCuts, SplitCuts, StutterCuts DEF Next, Done
-----------------------------------------------------------------------------
(* The theorems.                                                           *)

\* The whole invariant, with what the split records.
CutState == CutInv /\ Layered

\* The invariant holds at first.
LEMMA InitCutState == Init => CutState
BY InitCuts, InitLayered DEF CutState

\* Every step keeps the invariant and the record.
LEMMA NextCutState == CutState /\ [Next]_vars => CutState'
BY NextCuts, NextLayered DEF CutState

\* The steps of partition.rs in their order.
Phased ==
    phase \in {"contiguous", "regions", "order", "merge", "runs", "coalesce", "split", "done"}

\* Every step leads to one of the steps of partition.rs.
LEMMA NextPhased == ASSUME Phased, [Next]_vars PROVE Phased'
<1>1. CASE TakeRegion \/ OrderAtom \/ Merge \/ Emit \/ Done \/ UNCHANGED vars
  BY <1>1 DEF Phased, TakeRegion, OrderAtom, Merge, Emit, Done, vars
<1>2. CASE NoRegion \/ OrderDone
  BY <1>2 DEF Phased, NoRegion, OrderDone, Cluster
<1>3. CASE Contiguous \/ MergeDone \/ RunsDone \/ CoalesceDone \/ Split
  BY <1>3 DEF Phased, Contiguous, MergeDone, RunsDone, CoalesceDone, Split
<1> QED
  BY <1>1, <1>2, <1>3 DEF Next

\* partition.rs starts with the regions, or with the intervals of a mixed graph.
LEMMA InitPhased == ASSUME Init PROVE Phased
BY DEF Init, Phased

\* No part of the state leaves its type, and no cluster that partition.rs answers
\* with, whole or split, is empty.
THEOREM PartitionTypeOK == Spec => []TypeOK
<1>1. ASSUME CutState, Phased PROVE TypeOK
  <2>1. taken \subseteq SUBSET Node
    BY <1>1 DEF CutState, CutInv, Regions
  <2>2. Members(order) \subseteq SUBSET Node
    BY <1>1 DEF CutState, CutInv, Early, Members
  <2>3. groups \subseteq SUBSET Atoms
    BY <1>1 DEF CutState, CutInv, IInv, GroupsWhole
  <2>4. \A c \in clusters : c # <<>> /\ c \in Seq(Node)
    BY <1>1 DEF CutState, CutInv, AnswerSound, Cutting, Sound
  <2> QED
    BY <1>1, <2>1, <2>2, <2>3, <2>4 DEF TypeOK, Phased
<1>2. Init => Phased
  BY InitPhased
<1>3. Phased /\ [Next]_vars => Phased'
  BY NextPhased
<1> QED
  BY <1>1, <1>2, <1>3, InitCutState, NextCutState, PTL DEF Spec

\* A sequence that names each of its members once is as long as they are many.
LEMMA OncePerMember ==
  ASSUME NEW c \in Seq(Node), \A i, j \in DOMAIN c : c[i] = c[j] => i = j
  PROVE  Len(c) = Cardinality(Members(c)) /\ IsFiniteSet(Members(c))
<1> DEFINE S == 1 .. Len(c)
           f == [i \in S |-> c[i]]
<1>1. Len(c) \in Nat /\ DOMAIN c = S
  OBVIOUS
<1>2. IsFiniteSet(S) /\ Cardinality(S) = Len(c)
  <2>1. 1 \in Int /\ Len(c) \in Int
    BY <1>1
  <2>2. /\ IsFiniteSet(S)
        /\ Cardinality(S) = IF 1 > Len(c) THEN 0 ELSE Len(c) - 1 + 1
    BY <2>1, FS_Interval
  <2> QED
    BY <1>1, <2>2
<1>3. f \in Surjection(S, Members(c))
  BY <1>1 DEF Surjection, Members
<1>4. f \in Injection(S, Members(c))
  BY <1>1 DEF Injection, IsInjective, Members
<1> HIDE DEF f
<1> QED
  BY <1>2, <1>3, <1>4, FS_Surjection

\* ORT is asked to fuse every supported node exactly once, in subgraphs of one
\* precision and one compile class, whatever the graph, its colours, the regions, the
\* order of the merges and the layer boundaries.
THEOREM PartitionCovers == Spec => []ClustersCover
<1>1. ASSUME CutState PROVE ClustersCover
  <2>1. SUFFICES ASSUME Answered PROVE ClustersCover
    BY DEF ClustersCover
  <2>2. Cutting(clusters)
    BY <1>1, <2>1 DEF CutState, CutInv, AnswerSound
  <2>3. ASSUME NEW c \in clusters
        PROVE  Len(c) = Cardinality(Members(c)) /\ \A m, n \in Members(c) : kind[m] = kind[n]
    <3>1. Sound(c)
      BY <2>2 DEF Cutting
    <3> QED
      BY <3>1, OncePerMember DEF Sound
  <2> QED
    BY <2>2, <2>3 DEF Cutting, ClustersCover, Cut, CutOf
<1> QED
  BY <1>1, InitCutState, NextCutState, PTL DEF Spec

\* No dependency leaves a fused subgraph and comes back to it, through any mix of
\* other subgraphs and nodes of other providers: ORT can always schedule the answer.
THEOREM PartitionSchedulable == Spec => []Schedulable
<1>1. ASSUME CutState PROVE Schedulable
  <2>1. SUFFICES ASSUME Answered PROVE Schedulable
    BY DEF Schedulable
  <2>2. Cutting(clusters)
    BY <1>1, <2>1 DEF CutState, CutInv, AnswerSound
  <2> QED
    BY <2>2 DEF Cutting, Schedulable, Cut, CutOf
<1> QED
  BY <1>1, InitCutState, NextCutState, PTL DEF Spec

\* An operator region that was accepted is never cut before the split at layer
\* boundaries.
THEOREM RegionsStayWhole == Spec => []RegionsWhole
<1>1. CutState => RegionsWhole
  BY DEF CutState, CutInv, AnswerSound
<1> QED
  BY <1>1, InitCutState, NextCutState, PTL DEF Spec
-----------------------------------------------------------------------------
(* Layers.                                                                 *)

\* A part holds fewer than span layer ends ahead of its last node: they are counted
\* up to a multiple of span.
LEMMA EndsWithin ==
  ASSUME NEW c, NEW ends, NEW span \in Nat \ {0}, NEW lo \in Nat \ {0}, NEW hi \in Nat, lo <= hi,
         PartOf(c, lo, ends, span) = PartOf(c, hi, ends, span)
  PROVE  /\ IsFiniteSet({k \in lo .. hi - 1 : c[k] \in ends})
         /\ Cardinality({k \in lo .. hi - 1 : c[k] \in ends}) \in Nat
         /\ Cardinality({k \in lo .. hi - 1 : c[k] \in ends}) < span
<1> DEFINE A == {k \in 1 .. lo - 1 : c[k] \in ends}
           B == {k \in 1 .. hi - 1 : c[k] \in ends}
           E == {k \in lo .. hi - 1 : c[k] \in ends}
<1>1. IsFiniteSet(1 .. hi - 1)
  <2>1. 1 \in Int /\ hi - 1 \in Int
    OBVIOUS
  <2> QED
    BY <2>1, FS_Interval
<1>2. A \subseteq 1 .. hi - 1 /\ E \subseteq 1 .. hi - 1
  OBVIOUS
<1>3. IsFiniteSet(A) /\ IsFiniteSet(E)
  BY <1>1, <1>2, FS_Subset
<1>4. A \cup E = B /\ A \cap E = {}
  OBVIOUS
<1> DEFINE a == Cardinality(A)
           b == Cardinality(B)
           e == Cardinality(E)
<1>5. a = EndsAhead(c, lo, ends) /\ b = EndsAhead(c, hi, ends)
  BY DEF EndsAhead
<1> HIDE DEF A, B, E
<1>6. a \in Nat /\ e \in Nat
  BY <1>3, FS_CardinalityType
<1>7. b = a + e
  <2>1. Cardinality(A \cup E) = Cardinality(A) + Cardinality(E) - Cardinality(A \cap E)
    BY <1>3, FS_Union
  <2>2. Cardinality({}) = 0
    BY FS_EmptySet
  <2>3. Cardinality(B) = Cardinality(A) + Cardinality(E) - 0
    BY <1>4, <2>1, <2>2
  <2> QED
    BY <1>6, <2>3
<1>8. a \div span = b \div span
  BY <1>5 DEF PartOf
<1> HIDE DEF a, b, e
<1>9. e < span
  BY <1>6, <1>7, <1>8
<1> QED
  BY <1>3, <1>6, <1>9 DEF E, e

\* A part holds at most span layer ends, and stops at one if it holds that many.
LEMMA EndsOfPart ==
  ASSUME NEW c \in Seq(Node), NEW ends, NEW span \in Nat \ {0},
         NEW lo \in Nat \ {0}, NEW hi \in Nat, lo <= hi, hi <= Len(c),
         PartOf(c, lo, ends, span) = PartOf(c, hi, ends, span),
         NEW X, X = {c[k] : k \in lo .. hi}
  PROVE  /\ Cardinality(X \cap ends) \in Nat
         /\ Cardinality(X \cap ends) <= span
         /\ Cardinality(X \cap ends) = span => c[hi] \in ends
<1> DEFINE E == {k \in lo .. hi - 1 : c[k] \in ends}
           F == {k \in lo .. hi : c[k] \in ends}
           f == [k \in F |-> c[k]]
<1>1. IsFiniteSet(E) /\ Cardinality(E) \in Nat /\ Cardinality(E) < span
  BY EndsWithin
<1>2. hi \notin E
  OBVIOUS
<1>3. /\ IsFiniteSet(F) /\ Cardinality(F) \in Nat /\ Cardinality(F) <= span
      /\ c[hi] \notin ends => Cardinality(F) < span
  <2>1. CASE c[hi] \in ends
    <3>1. F = E \cup {hi}
      BY <2>1
    <3> HIDE DEF E, F
    <3>2. IsFiniteSet(E \cup {hi}) /\ Cardinality(E \cup {hi}) = Cardinality(E) + 1
      BY <1>1, <1>2, FS_AddElement
    <3> QED
      BY <1>1, <2>1, <3>1, <3>2
  <2>2. CASE c[hi] \notin ends
    <3>1. F = E
      BY <2>2
    <3> HIDE DEF E, F
    <3> QED
      BY <1>1, <3>1
  <2> QED
    BY <2>1, <2>2
<1>4. f \in Surjection(F, X \cap ends)
  BY DEF Surjection
<1> HIDE DEF f, F
<1>5. IsFiniteSet(X \cap ends) /\ Cardinality(X \cap ends) <= Cardinality(F)
  BY <1>3, <1>4, FS_Surjection
<1>6. Cardinality(X \cap ends) \in Nat
  BY <1>5, FS_CardinalityType
<1> QED
  BY <1>3, <1>5, <1>6

\* A path backwards is a path forwards.
LEMMA BeyondConverse ==
  ASSUME NEW rel, NEW b, NEW e \in Beyond(Converse(rel), {b})
  PROVE  b \in Beyond(rel, {e})
<1> DEFINE S == {y \in {p[1] : p \in rel} : b \in Beyond(rel, {y})}
<1>1. ASSUME NEW q \in Converse(rel), q[1] \in {b} \cup S PROVE q[2] \in S
  <2>1. PICK p \in rel : q = <<p[2], p[1]>>
    BY DEF Converse
  <2>2. q[1] = p[2] /\ q[2] = p[1]
    BY <2>1
  <2>3. p[2] \in Beyond(rel, {p[1]})
    BY BeyondClosed
  <2>4. b \in Beyond(rel, {p[1]})
    BY <1>1, <2>2, <2>3, BeyondOn
  <2> QED
    BY <2>2, <2>4
<1>2. e \in S
  <2> HIDE DEF S
  <2> QED
    BY <1>1, BeyondLeast
<1> QED
  BY <1>2

\* Paths lead to larger numbers.
LEMMA BeyondLater ==
  ASSUME Forwards, NEW x \in Nat, NEW y \in Beyond(edges, {x})
  PROVE  y \in Node /\ x < y
<1> DEFINE S == {b \in Node : x < b}
<1>1. ASSUME NEW p \in edges, p[1] \in {x} \cup S PROVE p[2] \in S
  <2>1. p[1] \in Nat /\ p[2] \in Nat /\ p[2] \in Node /\ p[1] < p[2]
    BY DEF Forwards
  <2> QED
    BY <1>1, <2>1
<1>2. y \in S
  <2> HIDE DEF S
  <2> QED
    BY <1>1, BeyondLeast
<1> QED
  BY <1>2

\* A path between two nodes of one sequence of an answer leads forward in it: if it
\* left the sequence it could not come back.
LEMMA PathInside ==
  ASSUME Forwards, NEW cs, Cutting(cs), NEW w \in cs, NEW i \in DOMAIN w, NEW j \in DOMAIN w,
         w[j] \in Beyond(edges, {w[i]})
  PROVE  i < j
<1> DEFINE U == CutOf(cs) \cup {{n} : n \in Node \ UNION CutOf(cs)}
           L == Induced(edges, U)
           W == Members(w)
           B == Beyond(L, {W})
           T == {w[k] : k \in {l \in DOMAIN w : i < l}}
           S == T \cup UNION B
<1>1. W \in U /\ Sound(w)
  BY DEF Cutting, CutOf
<1>2. W \notin B
  <2>1. Acyclic(U)
    BY DEF Cutting
  <2> HIDE DEF U
  <2> QED
    BY <1>1, <2>1, LinksInduced
<1>3. \A p \in edges : p[1] \in Node /\ p[2] \in Node /\ <<p[1], p[2]>> \in edges
  BY DEF Forwards
<1>4. \A n \in Node : \E u \in U : n \in u
  OBVIOUS
<1>5. \A u \in U : u # W => u \cap W = {}
  BY <1>1 DEF Cutting, CutOf
<1>6. B \subseteq U
  <2>1. \A p \in L : p[2] \in U
    BY DEF Induced
  <2> QED
    BY <2>1, BeyondEnds
<1>7. /\ \A k \in DOMAIN w : k \in Nat
      /\ \A k, l \in DOMAIN w : w[k] = w[l] => k = l
      /\ \A k, l \in DOMAIN w : <<w[k], w[l]>> \in edges => k < l
  BY <1>1 DEF Sound
<1>8. ASSUME NEW p \in edges, p[1] \in {w[i]} \cup S PROVE p[2] \in S
  <2>1. PICK v \in U : p[2] \in v
    BY <1>3, <1>4
  <2>2. ASSUME NEW k \in DOMAIN w, i <= k, p[1] = w[k] PROVE p[2] \in S
    <3>1. CASE v = W
      <4>1. PICK l \in DOMAIN w : p[2] = w[l]
        BY <2>1, <3>1 DEF Members
      <4>2. k < l
        BY <1>3, <1>7, <2>2, <4>1
      <4>3. i < l
        BY <1>7, <2>2, <4>2
      <4> QED
        BY <4>1, <4>3
    <3>2. CASE v # W
      <4>1. p[1] \in W
        BY <2>2 DEF Members
      <4>2. <<W, v>> \in L
        BY <1>1, <1>3, <2>1, <3>2, <4>1 DEF Induced
      <4>3. v \in B
        <5> HIDE DEF L, W
        <5> QED
          BY <4>2, BeyondClosed
      <4> QED
        BY <2>1, <4>3
    <3> QED
      BY <3>1, <3>2
  <2>3. ASSUME NEW u \in B, p[1] \in u PROVE p[2] \in S
    <3>1. CASE v = u
      BY <2>1, <2>3, <3>1
    <3>2. CASE v # u
      <4>1. <<u, v>> \in L
        BY <1>3, <1>6, <2>1, <2>3, <3>2 DEF Induced
      <4>2. v \in B
        <5> HIDE DEF L, W
        <5> QED
          BY <2>3, <4>1, BeyondClosed
      <4> QED
        BY <2>1, <4>2
    <3> QED
      BY <3>1, <3>2
  <2>4. \/ \E k \in DOMAIN w : i <= k /\ p[1] = w[k]
        \/ \E u \in B : p[1] \in u
    <3> HIDE DEF B
    <3> QED
      BY <1>7, <1>8
  <2> HIDE DEF S
  <2> QED
    BY <2>2, <2>3, <2>4
<1>9. w[j] \in S
  <2> HIDE DEF S
  <2> QED
    BY <1>8, BeyondLeast
<1>10. w[j] \in T
  <2>1. w[j] \in W
    BY DEF Members
  <2> HIDE DEF B, W, U, T
  <2> QED
    BY <1>2, <1>5, <1>6, <1>9, <2>1
<1> QED
  BY <1>7, <1>10

\* Every two successive attention nodes are joined, and the last of their joints is a
\* layer end.
Joined(anchors, adds, ends) ==
    \A p \in Successive(anchors) :
        /\ Joints(p[1], p[2], adds) # {}
        /\ Last(Joints(p[1], p[2], adds)) \in ends

\* The nodes are numbered without a gap along their dependencies.
Snapshot == Forwards /\ \E k \in Nat : Node = 1 .. k

\* Two attention nodes with a joint between them, and what joins them.
LEMMA JointBetween ==
  ASSUME Snapshot, NEW m \in Nat, NEW n \in Nat, NEW adds \in SUBSET Node,
         Joints(m, n, adds) # {},
         NEW e, e = Last(Joints(m, n, adds))
  PROVE  /\ e \in Node /\ m < e /\ e < n
         /\ e \in Beyond(edges, {m}) /\ n \in Beyond(edges, {e})
<1>0. Forwards
  BY DEF Snapshot
<1>1. PICK k \in Nat : Node = 1 .. k
  BY DEF Snapshot
<1>2. Joints(m, n, adds) \in SUBSET (0 .. k)
  <2>1. Joints(m, n, adds) \subseteq adds
    BY DEF Joints
  <2>2. Node \subseteq 0 .. k
    BY <1>1
  <2> QED
    BY <2>1, <2>2, Zenon
<1>3. e \in Joints(m, n, adds)
  BY <1>2, LastIn
<1>4. e \in Node /\ e \in Beyond(edges, {m}) /\ e \in Beyond(Converse(edges), {n})
  BY <1>3 DEF Joints
<1>5. n \in Beyond(edges, {e})
  BY <1>4, BeyondConverse
<1>6. e \in Nat
  BY <1>0, <1>4 DEF Forwards
<1>7. m < e /\ e < n
  BY <1>0, <1>4, <1>5, <1>6, BeyondLater
<1> QED
  BY <1>4, <1>5, <1>7

\* When every two successive attention nodes are joined, all are on one path.
LEMMA OnePath ==
  ASSUME Snapshot, NEW anchors \in SUBSET Nat, NEW adds \in SUBSET Node,
         NEW ends, Joined(anchors, adds, ends),
         NEW a \in anchors, NEW b \in anchors, a < b
  PROVE  b \in Beyond(edges, {a})
<1> DEFINE Bad == {y \in anchors : a < y /\ y \notin Beyond(edges, {a})}
           z == Least(Bad)
           Under == {y \in anchors : y < z}
           x == Last(Under)
<1>1. SUFFICES ASSUME Bad # {} PROVE FALSE
  OBVIOUS
<1>2. z \in Bad /\ \A y \in Bad : z <= y
  BY <1>1, LeastIn
<1> HIDE DEF z
<1>3. z \in Nat /\ a \in Under /\ Under \in SUBSET (0 .. z)
  <2>1. z \in Nat /\ z \in anchors /\ a < z
    BY <1>2
  <2>2. \A y \in anchors : y \in Nat
    OBVIOUS
  <2>3. a \in Under
    BY <2>1
  <2>4. \A y \in Under : y \in 0 .. z
    BY <2>1, <2>2
  <2> HIDE DEF Bad, Under
  <2> QED
    BY <2>1, <2>3, <2>4
<1>4. x \in Under /\ \A y \in Under : x >= y
  <2> HIDE DEF Under
  <2> QED
    BY <1>3, LastIn
<1> HIDE DEF x
<1>5. x \in Nat /\ x < z /\ a <= x /\ x \in anchors /\ z \in anchors
  BY <1>2, <1>3, <1>4
<1>6. \A y \in anchors : y <= x \/ y >= z
  <2> TAKE y \in anchors
  <2>1. y \in Nat
    OBVIOUS
  <2> QED
    BY <1>3, <1>4, <1>5, <2>1
<1>7. <<x, z>> \in Successive(anchors)
  BY <1>5, <1>6 DEF Successive
<1> DEFINE e == Last(Joints(x, z, adds))
<1>8. Joints(x, z, adds) # {}
  BY <1>7 DEF Joined
<1>9. e \in Beyond(edges, {x}) /\ z \in Beyond(edges, {e})
  BY <1>3, <1>5, <1>8, JointBetween
<1>10. z \in Beyond(edges, {x})
  <2> HIDE DEF e
  <2> QED
    BY <1>9, BeyondOn
<1>11. z \in Beyond(edges, {a})
  <2>1. CASE x = a
    BY <1>10, <2>1
  <2>2. CASE x # a
    <3>1. x \notin Bad
      <4> HIDE DEF Bad
      <4> QED
        BY <1>2, <1>3, <1>5
    <3>2. x \in Beyond(edges, {a})
      BY <1>5, <2>2, <3>1
    <3> QED
      BY <1>10, <3>2, BeyondOn
  <2> QED
    BY <2>1, <2>2
<1> QED
  BY <1>2, <1>11

\* An attention node that is not the last of its part has a layer end behind it in
\* the part, ahead of the next attention node.
LEMMA EndBehind ==
  ASSUME Snapshot, NEW cs, Cutting(cs), NEW w \in cs,
         NEW anchors \in SUBSET Nat, NEW adds \in SUBSET Node,
         NEW ends, Joined(anchors, adds, ends),
         ends \subseteq Members(w),
         NEW i \in DOMAIN w, NEW j \in DOMAIN w, w[i] \in anchors, w[j] \in anchors, w[i] < w[j]
  PROVE  \E k \in DOMAIN w :
           /\ i < k /\ k < j /\ w[k] \in ends /\ w[i] < w[k]
           /\ \A b \in anchors : w[i] < b => w[k] < b
<1> DEFINE a == w[i]
           m == w[j]
           Over == {y \in anchors : a < y}
           n == Least(Over)
           e == Last(Joints(a, n, adds))
<1>0. a \in Nat /\ m \in Nat /\ a < m
  OBVIOUS
<1>1. n \in Over /\ \A y \in Over : n <= y
  <2>1. m \in Over /\ Over \in SUBSET Nat
    OBVIOUS
  <2> HIDE DEF Over
  <2> QED
    BY <2>1, LeastIn
<1> HIDE DEF n
<1>2. n \in Nat /\ n \in anchors /\ a < n
  BY <1>1
<1>3. \A y \in anchors : y <= a \/ y >= n
  BY <1>0, <1>1
<1>4. <<a, n>> \in Successive(anchors)
  BY <1>2, <1>3 DEF Successive
<1>5. Joints(a, n, adds) # {} /\ e \in ends
  BY <1>4 DEF Joined
<1>6. /\ e \in Node /\ a < e /\ e < n
      /\ e \in Beyond(edges, {a}) /\ n \in Beyond(edges, {e})
  <2> HIDE DEF a
  <2> QED
    BY <1>0, <1>2, <1>5, JointBetween
<1> HIDE DEF e
<1>7. e \in Nat
  BY <1>6 DEF Snapshot, Forwards
<1>8. m \in Beyond(edges, {e})
  <2>1. CASE n = m
    BY <1>6, <2>1
  <2>2. CASE n # m
    <3>1. n < m
      BY <1>0, <1>2, <1>3, <2>2
    <3>2. m \in Beyond(edges, {n})
      BY <1>2, <3>1, OnePath
    <3> QED
      BY <1>6, <3>2, BeyondOn
  <2> QED
    BY <2>1, <2>2
<1>9. PICK k \in DOMAIN w : e = w[k]
  BY <1>5 DEF Members
<1>10. i < k /\ k < j
  BY <1>6, <1>8, <1>9, PathInside DEF Snapshot
<1>11. \A b \in anchors : a < b => e < b
  BY <1>1, <1>2, <1>6, <1>7
<1> QED
  BY <1>5, <1>6, <1>9, <1>10, <1>11

\* Where numbers are kept apart by the values of a sequence at fewer than span
\* positions, there are at most span of them.
LEMMA KeptApart ==
  ASSUME NEW n \in Nat, NEW A \in SUBSET (0 .. n), NEW span \in Nat \ {0},
         NEW E, IsFiniteSet(E), Cardinality(E) < span,
         NEW w, \A k \in E : w[k] \in Nat,
         \A x, y \in A : x < y => \E k \in E : x < w[k] /\ \A b \in A : x < b => w[k] < b
  PROVE  Cardinality(A) <= span
<1> DEFINE m == Last(A)
           Behind(x, k) == x < w[k] /\ \A b \in A : x < b => w[k] < b
           g == [x \in A \ {m} |-> CHOOSE k \in E : Behind(x, k)]
<1>1. CASE A = {}
  <2>1. Cardinality(A) = 0
    BY <1>1, FS_EmptySet
  <2> QED
    BY <2>1
<1>2. CASE A # {}
  <2>1. m \in A /\ \A y \in A : m >= y
    BY <1>2, LastIn
  <2>2. \A x \in A : x \in Nat
    OBVIOUS
  <2> HIDE DEF m
  <2>3. ASSUME NEW x \in A \ {m} PROVE \E k \in E : Behind(x, k)
    <3>1. x < m
      BY <2>1, <2>2
    <3> QED
      BY <2>1, <3>1
  <2>4. \A x \in A \ {m} : g[x] \in E /\ Behind(x, g[x])
    <3> HIDE DEF Behind
    <3> QED
      BY <2>3
  <2>5. g \in [A \ {m} -> E]
    <3> HIDE DEF Behind
    <3> QED
      BY <2>3
  <2> HIDE DEF g
  <2>6. ASSUME NEW x \in A \ {m}, NEW y \in A \ {m}, x < y PROVE g[x] # g[y]
    <3>1. w[g[x]] < y /\ y < w[g[y]]
      BY <2>4, <2>6
    <3>2. y \in Nat /\ w[g[x]] \in Nat /\ w[g[y]] \in Nat
      BY <2>2, <2>4
    <3> QED
      BY <3>1, <3>2
  <2>7. \A x, y \in A \ {m} : g[x] = g[y] => x = y
    BY <2>2, <2>6
  <2>8. g \in Injection(A \ {m}, E)
    BY <2>5, <2>7 DEF Injection, IsInjective
  <2>9. /\ IsFiniteSet(A \ {m}) /\ Cardinality(A \ {m}) <= Cardinality(E)
        /\ Cardinality(A \ {m}) \in Nat /\ Cardinality(E) \in Nat
    BY <2>8, FS_Injection, FS_CardinalityType
  <2>10. Cardinality((A \ {m}) \cup {m}) = Cardinality(A \ {m}) + 1
    BY <2>9, FS_AddElement
  <2>11. (A \ {m}) \cup {m} = A
    BY <2>1
  <2>12. Cardinality(A) = Cardinality(A \ {m}) + 1
    BY <2>10, <2>11
  <2> QED
    BY <2>9, <2>12
<1> QED
  BY <1>1, <1>2

\* No part has more than span layers, wherever the boundaries come from; where they
\* were inferred in one subgraph, that is at most span attention nodes.
THEOREM PartitionLayersApart == Spec => []LayersApart
<1>1. ASSUME CutState PROVE LayersApart
  <2> DEFINE ends == layers.ends
             span == layers.span
             anchors == layers.anchors
  <2>1. SUFFICES ASSUME phase = "done", span > 0, NEW c \in clusters
                 PROVE  /\ LET n == Cardinality(Members(c) \cap ends)
                           IN n <= span /\ (n = span => c[Len(c)] \in ends)
                        /\ \A w \in layers.whole :
                             Members(c) \subseteq Members(w) /\ ends # {} /\ ends \subseteq Members(w) =>
                               Cardinality(Members(c) \cap anchors) <= span
    BY DEF LayersApart
  <2>2. span \in Nat \ {0} /\ anchors \in SUBSET Nat
    BY <1>1, <2>1 DEF CutState, Layered
  <2>3. /\ Cutting(layers.whole)
        /\ clusters = UNION {Parts(d, ends, span) : d \in layers.whole}
        /\ anchors # {} => \E adds \in SUBSET Node : ends = Inferred(anchors, adds)
    BY <1>1, <2>1 DEF CutState, CutInv, AnswerSound, AnswerSplit
  <2>4. Snapshot
    BY <1>1 DEF CutState, CutInv, IInv, Regions, Snapshot
  <2> HIDE DEF ends, span, anchors
  <2>5. PICK v \in layers.whole : c \in Parts(v, ends, span)
    BY <2>3
  <2>6. PICK i \in DOMAIN v : c = PartAround(v, i, ends, span)
    BY <2>5 DEF Parts
  <2>7. Sound(v) /\ v \in Seq(Node) /\ Len(v) \in Nat /\ DOMAIN v = 1 .. Len(v)
    BY <2>3 DEF Cutting, Sound
  <2>8. PICK lo \in DOMAIN v, hi \in DOMAIN v :
          /\ lo <= i /\ i <= hi
          /\ \A j \in DOMAIN v : PartOf(v, j, ends, span) = PartOf(v, i, ends, span)
                                   <=> lo <= j /\ j <= hi
          /\ PartAround(v, i, ends, span) = SubSeq(v, lo, hi)
    BY <2>2, <2>7, PartStretch
  <2>9. lo \in Nat \ {0} /\ hi \in Nat /\ i \in Nat /\ lo <= hi /\ hi <= Len(v)
    BY <2>7, <2>8
  <2>10. PartOf(v, lo, ends, span) = PartOf(v, hi, ends, span)
    BY <2>7, <2>8, <2>9
  <2>11. c = SubSeq(v, lo, hi) /\ Len(c) = (hi - lo) + 1 /\ c[Len(c)] = v[hi]
    BY <2>6, <2>7, <2>8, <2>9
  <2>12. Members(c) = {v[k] : k \in lo .. hi}
    <3>0. lo \in Nat /\ hi \in Nat /\ c = SubSeq(v, lo, hi)
      BY <2>9, <2>11
    <3>1. /\ Members(c) \subseteq Members(v)
          /\ \A j \in DOMAIN v : v[j] \in Members(c) <=> lo <= j /\ j <= hi
      BY <2>7, <2>9, <3>0, StretchSound, Zenon
    <3>2. \A k \in lo .. hi : k \in DOMAIN v /\ lo <= k /\ k <= hi
      BY <2>7, <2>9
    <3>3. \A k \in DOMAIN v : lo <= k /\ k <= hi => k \in lo .. hi
      BY <2>7, <2>9
    <3>4. Members(v) = {v[k] : k \in DOMAIN v}
      BY DEF Members
    <3> QED
      BY <3>1, <3>2, <3>3, <3>4, Zenon
  <2>13. LET n == Cardinality(Members(c) \cap ends)
         IN n <= span /\ (n = span => c[Len(c)] \in ends)
    BY <2>2, <2>7, <2>9, <2>10, <2>11, <2>12, EndsOfPart
  <2>14. ASSUME NEW w \in layers.whole,
                Members(c) \subseteq Members(w), ends # {}, ends \subseteq Members(w)
         PROVE  Cardinality(Members(c) \cap anchors) <= span
    <3>0. i \in lo .. hi
      BY <2>7, <2>8, <2>9
    <3>1. v[i] \in Members(c) /\ v[i] \in Members(v)
      BY <2>12, <3>0, Zenon DEF Members
    <3>2. v = w
      BY <2>3, <2>14, <3>1 DEF Cutting
    <3>3. CASE anchors = {}
      <4>1. Cardinality(Members(c) \cap anchors) = 0
        BY <3>3, FS_EmptySet
      <4> QED
        BY <2>2, <4>1
    <3>4. CASE anchors # {}
      <4>1. PICK adds \in SUBSET Node : ends = Inferred(anchors, adds)
        BY <2>3, <3>4
      <4>2. Joined(anchors, adds, ends)
        BY <2>14, <4>1 DEF Inferred, Joined
      <4>3. \A x \in Members(c) : \E k \in lo .. hi : x = v[k]
        BY <2>12
      <4>4. v \in layers.whole /\ ends \subseteq Members(v)
        BY <2>14, <3>2
      <4> DEFINE A == Members(c) \cap anchors
                 E == {k \in lo .. hi - 1 : v[k] \in ends}
      <4>5. IsFiniteSet(E) /\ Cardinality(E) < span
        BY <2>2, <2>9, <2>10, EndsWithin
      <4>6. PICK n \in Nat : Node = 1 .. n
        BY <2>4 DEF Snapshot
      <4>7. A \in SUBSET (0 .. n)
        <5>1. \A k \in lo .. hi : v[k] \in 0 .. n
          BY <2>7, <2>9, <4>6
        <5> QED
          BY <4>3, <5>1
      <4>8. \A k \in E : v[k] \in Nat
        BY <2>7, <2>9, <4>6
      <4>9. ASSUME NEW x \in A, NEW y \in A, x < y
            PROVE  \E k \in E : x < v[k] /\ \A b \in A : x < b => v[k] < b
        <5>1. PICK j \in lo .. hi, l \in lo .. hi : x = v[j] /\ y = v[l]
          BY <4>3
        <5>2. /\ j \in DOMAIN v /\ l \in DOMAIN v /\ v[j] \in anchors /\ v[l] \in anchors
              /\ v[j] < v[l]
          BY <2>7, <2>9, <4>9, <5>1
        <5>3. PICK k \in DOMAIN v :
                /\ j < k /\ k < l /\ v[k] \in ends /\ v[j] < v[k]
                /\ \A b \in anchors : v[j] < b => v[k] < b
          <6> HIDE DEF A, E
          <6> QED
            BY <2>2, <2>3, <2>4, <4>2, <4>4, <5>2, EndBehind
        <5>4. k \in E
          BY <2>7, <2>9, <5>3
        <5> QED
          BY <5>1, <5>3, <5>4
      <4> HIDE DEF A, E
      <4>10. Cardinality(A) <= span
        BY <2>2, <4>5, <4>6, <4>7, <4>8, <4>9, KeptApart
      <4> QED
        BY <4>10 DEF A
    <3> QED
      BY <3>3, <3>4
  <2> QED
    BY <2>13, <2>14 DEF ends, span, anchors
<1> QED
  BY <1>1, InitCutState, NextCutState, PTL DEF Spec
=============================================================================
