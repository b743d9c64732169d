------------------------ MODULE MCSharedInitializers ------------------------
EXTENDS SharedInitializers, TLC
CONSTANTS s1, s2, t1, t2, w1, w2, b1, m, n, x1, x2, x3

\* Two large weights of one dtype and shape, and a small bias.
MCMeta == [t \in {w1, w2, b1} |-> IF t = b1 THEN n ELSE m]

Symmetric == Permutations({s1, s2}) \cup Permutations({t1, t2})
             \cup Permutations({w1, w2}) \cup Permutations({x1, x2, x3})
=============================================================================
