------------------------------ MODULE MCSessions ------------------------------
EXTENDS KvGeneration

Plain == [past |-> TRUE, ids |-> FALSE, bias |-> FALSE, causal |-> TRUE, window |-> -1,
          rotary |-> TRUE, sliding |-> FALSE, composed |-> FALSE, ropeRows |-> 9]
Sliding == [Plain EXCEPT !.sliding = TRUE, !.window = 2]
Grown == [node |-> Plain, cap |-> 0, alias |-> FALSE, mask |-> TRUE, scalar |-> TRUE,
          batches |-> {1}, prefill |-> TRUE, users |-> 2, most |-> 4, widest |-> 2]
Bound == [Grown EXCEPT !.cap = 3, !.alias = TRUE]
Alone(s) == [s EXCEPT !.users = 1, !.most = 5, !.widest = 3]
Ragged == [Grown EXCEPT !.batches = {1, 2}]

CapturedSessions ==
    {Grown, Bound, [Bound EXCEPT !.alias = FALSE], [Bound EXCEPT !.mask = FALSE],
     [Bound EXCEPT !.node.rotary = FALSE]}
    \cup {Alone(s) : s \in {Grown, [Grown EXCEPT !.scalar = FALSE], [Grown EXCEPT !.node.rotary = FALSE],
                            [Bound EXCEPT !.cap = 4], [Bound EXCEPT !.cap = 4, !.prefill = FALSE]}}
RaggedSessions ==
    {[Ragged EXCEPT !.node = n] :
       n \in {Plain, [Plain EXCEPT !.causal = FALSE], [Plain EXCEPT !.window = 2],
              [Plain EXCEPT !.ids = TRUE, !.bias = TRUE], [Plain EXCEPT !.past = FALSE]}}
    \cup {[Ragged EXCEPT !.cap = 3, !.alias = a, !.node.bias = TRUE] : a \in BOOLEAN}
SlidingSessions ==
    {[Bound EXCEPT !.batches = {2}, !.node = Sliding]}
    \cup {[Alone(Bound) EXCEPT !.most = 8, !.cap = n, !.alias = a, !.node = [Sliding EXCEPT !.bias = TRUE]] :
            n \in {2, 3}, a \in BOOLEAN}
AllSessions == CapturedSessions \cup RaggedSessions \cup SlidingSessions
=============================================================================
