---------------------------- MODULE MCPartition ----------------------------
EXTENDS Partition
CONSTANTS none, f32, f64, eager

\* Every graph of four nodes with every colouring (f64 is another f32, and comes
\* after one).  No region; two that depend on each other in a cycle, in one direction
\* or not at all, depending on the graph; two that overlap.
Forward == {e \in (1 .. 4) \X (1 .. 4) : e[1] < e[2]}
SomeLists == {<<>>, <<{1, 3}, {2, 4}>>, <<{1, 4}, {2, 3}>>, <<{1, 2}, {2, 4}>>}
Small ==
    [n |-> 4, graphs |-> SUBSET Forward, lists |-> SomeLists, span |-> 0,
     kinds |-> {k \in [1 .. 4 -> Kinds \cup {none}] :
                  \A i \in 1 .. 4 : k[i] = f64 => \E j \in 1 .. i : k[j] = f32}]

\* Chains of five with two residual connections, whole or in pieces, at most one
\* node unsupported.
Spine == {<<i, i + 1>> : i \in 1 .. 4} \cup {<<1, 3>>, <<3, 5>>}
Chains(span) ==
    [n |-> 5, graphs |-> SUBSET Spine, lists |-> {<<>>}, span |-> span,
     kinds |-> {k \in [1 .. 5 -> {f32, none}] :
                  \A i, j \in 1 .. 5 : k[i] = none /\ k[j] = none => i = j}]
AllCases == {Small, Chains(1), Chains(2)}

\* Boundaries named by the graph, or attention at both ends and in the middle.
Attentions == {{}, {1, 3, 5}}
=============================================================================
