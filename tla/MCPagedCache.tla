---------------------------- MODULE MCPagedCache ----------------------------
EXTENDS PagedCache, TLC

Both == {"key", "value"}
Plain == [causal |-> TRUE, window |-> -1, rotary |-> TRUE, ropeRows |-> 9, stores |-> Both,
          quant |-> FALSE, direct |-> FALSE, patches |-> TRUE, device |-> FALSE,
          bound |-> "alias", mapped |-> TRUE, ring |-> 0, most |-> 3, bias |-> FALSE]

AllLayers ==
    {Plain,
     [Plain EXCEPT !.direct = TRUE, !.bound = "apart"],
     [Plain EXCEPT !.patches = FALSE, !.stores = {"key"}, !.mapped = FALSE, !.ropeRows = 3],
     [Plain EXCEPT !.quant = TRUE, !.bound = "none", !.causal = FALSE],
     [Plain EXCEPT !.device = TRUE, !.most = 2, !.rotary = FALSE],
     [Plain EXCEPT !.window = 2, !.ring = 2, !.mapped = FALSE, !.most = 5, !.bound = "apart"]}
UserNames == Permutations(Users)
=============================================================================
