-------------------------- MODULE MCSubgraphCompute --------------------------
EXTENDS SubgraphCompute
CONSTANTS t1, t2, g1, g2, x1, x2, x3, c1, c2

On(seq, branch, param, kv, borrowed, bound) ==
    [seq |-> seq, branch |-> branch, param |-> param, kv |-> kv,
     borrowed |-> borrowed, bound |-> bound]
Sub(enabled, gqa, cross, control, guarded, device, calls) ==
    [enabled |-> enabled, gqa |-> gqa, cross |-> cross, control |-> control,
     guarded |-> guarded, device |-> device, calls |-> calls]

\* Control flow and a boundary parameter, three host keys in all (one more than
\* SpecLimit), and every placement of the two outputs.
Branching == Sub({General}, FALSE, FALSE, TRUE, TRUE, TRUE,
    {On(0, h[1], h[2], "growing", b, d) : h \in {<<0, 0>>, <<1, 0>>, <<1, 1>>},
                                          b \in BOOLEAN, d \in {{}, {1}, {1, 2}}})

\* A decoder whose cache may be shared or growing from one call to the next.
Decoder == Sub({Decode, Prefill}, TRUE, FALSE, FALSE, FALSE, FALSE,
    {On(q, 0, 0, kv, TRUE, {}) : q \in {1, 2}, kv \in {"shared", "growing", "unknown"}})

\* An encoder-decoder model with cross-attention.
CrossDecoder == Sub({Decode}, FALSE, TRUE, FALSE, FALSE, FALSE,
    {On(q, 0, 0, "growing", TRUE, {}) : q \in {1, 2}})

\* A graph with nothing to specialize, with every placement of its outputs.
Plain == Sub({General}, FALSE, FALSE, FALSE, FALSE, TRUE,
    {On(0, 0, 0, "growing", b, d) : b \in BOOLEAN, d \in {{}, {1}, {1, 2}}})

AllKinds == {Branching, Decoder, CrossDecoder}
OneCross == {CrossDecoder}
OnePlain == {Plain}
Settled == {Plain, Decoder}
=============================================================================
