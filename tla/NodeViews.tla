------------------------------ MODULE NodeViews ------------------------------
(***************************************************************************)
(* What a claim predicate may know of a node when a session is built, what *)
(* its handler gets when the node runs, which entry of the table it finds  *)
(* and how far its lowering may be compiled (rust/src/registry.rs;         *)
(* rust/src/engine.rs, NodeDesc).  A node is                               *)
(*   op     its operator,                                                  *)
(*   attr   its attributes by name, those present only,                    *)
(*   ins    the tensors it will get; Absent for an omitted input,          *)
(*   sight  what shape inference knew of them,                             *)
(*   const  the positions of the inputs that are initializers,             *)
(*   typed  whether its arity and element types are those the claim asks   *)
(*          for: those conditions of every claim are this one flag.        *)
(* An attribute of another type than the reader's reads as absent.         *)
(***************************************************************************)
EXTENDS MlxArrays

CONSTANT None

Absent == [shape |-> <<-2>>, data |-> <<>>]

\* Every shape; all but the extent of the second axis, or of the last; nothing.
Sights == {"static", "partial", "inner", "unknown"}

Has(n, name) == name \in DOMAIN n.attr
IntAttr(n, name, default) == IF Has(n, name) THEN n.attr[name] ELSE default
IntsAttr(n, name, default) == IF Has(n, name) THEN n.attr[name] ELSE default
StringAttr(n, name, default) == IF Has(n, name) THEN n.attr[name] ELSE default

Present(n, i) == i \in DOMAIN n.ins /\ n.ins[i] # Absent
Constant(n, i) == i \in n.const /\ Present(n, i)

\* input_info: a tensor of unknown rank looks like a scalar.
Seen(n, shape) ==
    CASE n.sight = "static" -> shape
      [] n.sight = "partial" -> [k \in DOMAIN shape |-> IF k = 2 THEN -1 ELSE shape[k]]
      [] n.sight = "inner" -> [k \in DOMAIN shape |-> IF k = Len(shape) THEN -1 ELSE shape[k]]
      [] n.sight = "unknown" -> <<>>
View(n, i) ==
    IF i \in n.const THEN n.ins[i].shape ELSE Seen(n, n.ins[i].shape)
RankKnown(n, i) == n.sight # "unknown" \/ i \in n.const

\* The host values of an initializer, or None.
ConstInts(n, i) == IF Constant(n, i) THEN n.ins[i].data ELSE None

\* read_ints_eval: the host values a handler reads when it translates.
ReadInts(n, i) == n.ins[i].data

NormAxis(axis, rank) == IF axis < 0 THEN axis + rank ELSE axis
AxisIn(axis, rank) == axis \in -rank .. rank - 1
Static(shape) == \A k \in DOMAIN shape : shape[k] >= 0
Compatible(a, b) ==
    Len(a) = Len(b)
    /\ \A k \in DOMAIN a : a[k] < 0 \/ b[k] < 0 \/ a[k] = b[k]
Distinct(seq) == \A i, j \in DOMAIN seq : i # j => seq[i] # seq[j]
Invalid == [shape |-> <<-3>>, data |-> <<>>]
-----------------------------------------------------------------------------
\* The table of lowerings; the operator modules say what is in it.
AnyOpset == -1

\* A registered lowering; rule is "shapeless", "keyed", "eager" or "classified".
Entry(op, min, max, rule) == [op |-> op, min |-> min, max |-> max, rule |-> rule]
RegisterAll(ops, min, max, rule) == {Entry(op, min, max, rule) : op \in ops}

Matches(e, op, since) ==
    /\ e.op = op
    /\ e.min = AnyOpset \/ since >= e.min
    /\ e.max = AnyOpset \/ since <= e.max

\* The entries of a node; the operators modelled have at most one.
Found(entries, op, since) == {e \in entries : Matches(e, op, since)}

Live(n, i) == ~(i \in n.const)
LiveTile(n) == n.op = "Tile" /\ n.since >= 6 /\ Len(n.ins) = 2 /\ DOMAIN n.attr = {}
               /\ Live(n, 2)
LiveRange(n) == n.op = "Range" /\ \E i \in 1 .. 3 : Live(n, i)

\* No entry is compiled conservatively, by shape.  Nodes have no bodies here: what a
\* body makes eager (a live Tile or Range, float64 metadata) is left out.
CompileShapeSafety(entries, Classifier(_), n) ==
    LET found == Found(entries, n.op, n.since) IN
    CASE LiveTile(n) \/ LiveRange(n) -> "eager"
      [] found = {} -> "keyed"
      [] OTHER -> LET rule == (CHOOSE e \in found : TRUE).rule
                  IN IF rule = "classified" THEN Classifier(n) ELSE rule
=============================================================================
