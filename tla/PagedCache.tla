------------------------------ MODULE PagedCache ------------------------------
(***************************************************************************)
(* PagedAttention of com.microsoft (rust/src/ops/attention.rs,             *)
(* rust/src/ops/paged_attention.rs) and the boundary that writes its       *)
(* caches back (rust/src/engine.rs), under a server that schedules         *)
(* several sequences over one pool of cache blocks.                        *)
(*                                                                         *)
(* A call takes the new rows of a batch of sequences, the block table and  *)
(* past length of each, and perhaps a slot for every row (-1 to leave it   *)
(* out).  The handler builds lazy arrays; evaluation, the copies of the    *)
(* outputs and the writes into the cache inputs follow one by one, and any *)
(* of them may be the last before the call fails.                          *)
(*                                                                         *)
(* Heads and numbers are left out, as in GqaRows: key and value caches are *)
(* rows by physical slot.  A layer is a record:                            *)
(*   causal, window, rotary, ropeRows   attributes, rows of the caches,    *)
(*   stores    {"key"} for the LATENT layout, else {"key", "value"},       *)
(*   quant     the caches are of integers, read back for every row,        *)
(*   direct    the fp16 kernel over pages applies to the node,             *)
(*   patches   writing back only the new rows is not switched off,         *)
(*   device    the cache inputs are tensors of the device index,           *)
(*   bound     where the cache outputs go: "none", "alias" or "apart",     *)
(*   mapped    slot_mapping is an input,                                   *)
(*   ring      blocks of a sequence before the first is used again, or 0,  *)
(*   most      bound: the tokens of a sequence,                            *)
(* with bias FALSE, which GqaRows asks for.                                *)
(***************************************************************************)
EXTENDS GqaRows

CONSTANTS
    Layers,         \* the layers to consider
    Users,          \* the server's sequences
    Blocks,         \* blocks of the pool
    BlockSize,      \* rows of a block
    WidestStep,     \* bound: the new rows of a sequence in a call
    MaxRare         \* bound: the rare events: sequences dropped, calls that fail, calls
                    \* with rows that do not stay (failed or not)

ASSUME SizeAssumption ==
    Blocks \in Nat /\ BlockSize \in Nat \ {0} /\ WidestStep \in Nat /\ MaxRare \in Nat
ASSUME LayerAssumption ==
    \A l \in Layers :
      /\ l.stores \in {{"key"}, {"key", "value"}} /\ l.bound \in {"none", "alias", "apart"}
      /\ {l.causal, l.rotary, l.quant, l.direct, l.patches, l.device, l.mapped} \subseteq BOOLEAN
      /\ l.window \in Int /\ {l.ropeRows, l.ring, l.most} \subseteq Nat /\ ~l.bias
\* A ring is wide enough for a step: its new rows replace none that its queries see.
ASSUME RingAssumption ==
    \A l \in Layers :
      l.ring > 0 => l.window > 0 /\ l.window - 1 + WidestStep <= l.ring * BlockSize

VARIABLES
    layer,
    held,           \* the rows each sequence has in the cache
    table,          \* the blocks of each
    rare,           \* how many rare events there have been
    mem,            \* the memory of the cache inputs: a row for each slot
    apart,          \* the memory of cache outputs bound elsewhere
    call            \* the call in progress, or Idle

vars == <<layer, held, table, rare, mem, apart, call>>

Slots == 0 .. Blocks * BlockSize - 1
Idle == [phase |-> "idle"]

Init ==
    /\ layer \in Layers
    /\ held = [s \in Users |-> <<>>]
    /\ table = held
    /\ rare = 0
    /\ mem = [store \in layer.stores |-> [slot \in Slots |-> Zero]]
    /\ apart = mem
    /\ call = Idle
-----------------------------------------------------------------------------
(* One sequence of a call: past, new (its rows), slots (of the rows; -1    *)
(* leaves one out), table.                                                 *)

\* Where a block table puts a position.
SlotOf(e, position) == e.table[(position \div BlockSize) + 1] * BlockSize + (position % BlockSize)

PlaceOf(s, p) == SlotOf([table |-> table[s]], p - 1)

RowsAfter(e) == e.past + Len(e.new)
WriteSlot(e, j) == IF layer.mapped THEN e.slots[j] ELSE SlotOf(e, e.past + j - 1)

\* Rotated by the rows of the caches from past on; <<>> when there are none.
Rows(e) == Rotated(e.new, [j \in DOMAIN e.new |-> IF layer.rotary THEN e.past + j - 1 ELSE -1])

\* The checks of the handler: lengths, table, mapping, positions.  The table of a call
\* is as wide as its longest row, others padded with -1: a sequence past its own blocks
\* is refused for its length or for the padding it would need.
Accepted(batch) ==
    \A k \in DOMAIN batch :
      LET e == batch[k] IN
      /\ RowsAfter(e) <= Len(e.table) * BlockSize
      /\ \A p \in 1 .. CeilDiv(RowsAfter(e), BlockSize) : e.table[p] \in 0 .. Blocks - 1
      /\ layer.mapped => \A j \in DOMAIN e.new : e.slots[j] \in Slots \cup {-1}
      /\ layer.rotary /\ e.new # <<>> => RowsAfter(e) <= layer.ropeRows

\* The rows that have a slot.
Writes(batch) ==
    UNION {{[k |-> k, j |-> j, slot |-> WriteSlot(batch[k], j), row |-> Rows(batch[k])[j]] :
              j \in {i \in DOMAIN batch[k].new : WriteSlot(batch[k], i) >= 0}} :
            k \in DOMAIN batch}
Written(writes) == {w.slot : w \in writes}
Unique(writes) == \A v, w \in writes : v.slot = w.slot => v = w

\* mlx_scatter of them, sequence after sequence: which of two rows a sequence sends to one
\* slot stays there is not defined.
Staying(writes, slot, firstStays) ==
    CHOOSE w \in writes :
      /\ w.slot = slot
      /\ \A v \in writes :
           v.slot = slot => v.k < w.k \/ (v.k = w.k /\ IF firstStays THEN w.j <= v.j ELSE v.j <= w.j)
Updated(pool, writes, firstStays) ==
    [slot \in Slots |-> IF slot \in Written(writes) THEN Staying(writes, slot, firstStays).row
                       ELSE pool[slot]]

\* Whether only the new rows go back: one sequence, no slot twice.
\* Mutant: or some slot twice.
PatchesAnyWrites(batch, writes) ==
    layer.patches /\ Len(batch) = 1 /\ ~layer.quant /\ layer.stores = {"key", "value"} /\ writes # {}
CachePatches(batch, writes) ==
    /\ layer.patches /\ Len(batch) = 1 /\ ~layer.quant /\ layer.stores = {"key", "value"}
    /\ writes # {} /\ Unique(writes)
-----------------------------------------------------------------------------
\* The rows a sequence attends to, from the updated cache and its own new rows; those
\* of an integer cache are all read back.
Pages(pool, e, count) == [p \in 1 .. count |-> pool[SlotOf(e, p - 1)]]
Gathered(pool, e) ==
    IF layer.quant THEN Pages(pool, e, RowsAfter(e)) ELSE Pages(pool, e, e.past) \o Rows(e)

\* The kernel over pages reads the cache as it was, and a new row where one replaces it.
\* Mutant: the new rows replace none of the old.
DirectAsItWas(pool, e, patched) == [p \in 1 .. e.past |-> pool[SlotOf(e, p - 1)]] \o Rows(e)
Direct(pool, e, patched) ==
    LET Newest(slot) ==
          LET those == {j \in DOMAIN e.new : patched /\ WriteSlot(e, j) = slot}
          IN IF those = {} THEN pool[slot] ELSE Rows(e)[CHOOSE j \in those : \A o \in those : o <= j]
    IN [p \in 1 .. e.past |-> Newest(SlotOf(e, p - 1))] \o Rows(e)

PagedMask(e, i, j) ==
    /\ layer.causal => CausalTopLeft(i, j, e.past)
    /\ layer.window > 0 => e.past - layer.window + 1 + i <= j

UsesDirect(e) == layer.direct /\ Len(e.new) \in 1 .. 8 /\ layer.window <= 0
Read(pool, updated, e, patched) ==
    IF ~UsesDirect(e) THEN Gathered(updated, e)
    ELSE IF patched THEN Direct(pool, e, TRUE) ELSE Direct(updated, e, FALSE)

\* What each query of a sequence sees of a cache that held pool.
Sees(e, pool, updated, patched) ==
    LET at == [i \in DOMAIN e.new |-> Rows(e)[i].at]
    IN Attend(layer, Tabulated(Read(pool, updated, e, patched)), at, Len(e.new), 0,
              LAMBDA i, j : PagedMask(e, i, j))
-----------------------------------------------------------------------------
\* input_writeback_ranges: neighbouring rows are copied together.
WritebackRanges(slots) ==
    {r \in slots \X slots :
       /\ r[1] <= r[2] /\ r[1] .. r[2] \subseteq slots
       /\ r[1] - 1 \notin slots /\ r[2] + 1 \notin slots}

\* What goes back into the memory of a cache input: a row for some of the slots.
RowCopies(updated, writes) ==
    [slot \in UNION {r[1] .. r[2] : r \in WritebackRanges(Written(writes))} |-> updated[slot]]
\* Mutant: a patch goes back to the slots from the first on.
PatchesInPlace(writes) ==
    LET first == CHOOSE w \in writes : \A v \in writes : w.j <= v.j
        Place(w) == first.slot + w.j - first.j
    IN [slot \in {Place(w) : w \in writes} |-> (CHOOSE w \in writes : Place(w) = slot).row]
PatchCopies(writes) == [slot \in Written(writes) |-> Staying(writes, slot, FALSE).row]

Copies(store, updated, writes, patched) ==
    IF patched THEN PatchCopies(writes) ELSE RowCopies(updated[store], writes)

\* The rows of an aliased output that are copied: in each block, those between the
\* first and the last that any block had written.
DeltaRows(writes) ==
    LET rows == {slot % BlockSize : slot \in Written(writes)}
    IN {slot \in Slots : \E a, b \in rows : slot % BlockSize \in a .. b}

\* The cache outputs that the boundary copies out, in order; a patched cache that is its own
\* output needs no copy.
CopiedOut(patched) ==
    IF layer.bound = "none" \/ (patched /\ layer.bound = "alias" /\ ~layer.device) THEN {} ELSE layer.stores

\* copy_out: into the memory of the input, or elsewhere and whole.
Out(store) ==
    LET new == call.updated[store] IN
    IF layer.bound = "apart"
    THEN /\ apart' = [apart EXCEPT ![store] = new]
         /\ UNCHANGED mem
    ELSE /\ mem' = [mem EXCEPT ![store] =
                      IF layer.device THEN new
                      ELSE [slot \in Slots |-> IF slot \in DeltaRows(call.writes) THEN new[slot] ELSE @[slot]]]
         /\ UNCHANGED apart
-----------------------------------------------------------------------------
\* The handler builds everything lazily.
Begin(batch, views) ==
    \E firstStays \in [layer.stores -> BOOLEAN] :
      LET writes == Writes(batch)
          patched == CachePatches(batch, writes)
          updated == [store \in layer.stores |-> Updated(mem[store], writes, firstStays[store])]
      IN /\ Unique(writes) => ~\E store \in layer.stores : firstStays[store]
         /\ call' = [phase |-> "translated", batch |-> batch, views |-> views,
                     writes |-> writes, patched |-> patched, updated |-> updated,
                     assigns |-> IF layer.device /\ writes # {} THEN layer.stores ELSE {},
                     outs |-> CopiedOut(patched),
                     back |-> IF layer.device \/ writes = {} THEN {} ELSE layer.stores,
                     pool |-> mem]

\* Of several stores, the first whose turn it is.
First(stores) == IF "key" \in stores THEN "key" ELSE "value"

\* write_back_input_rows and write_back_input_patches: a cache on the device gets its
\* updated array while the graph is still being built.
Assign ==
    /\ call.phase = "translated" /\ call.assigns # {}
    /\ mem' = [mem EXCEPT ![First(call.assigns)] = call.updated[First(call.assigns)]]
    /\ call' = [call EXCEPT !.assigns = @ \ {First(@)}]
    /\ UNCHANGED <<layer, held, table, rare, apart>>

Evaluate ==
    /\ call.phase = "translated" /\ call.assigns = {}
    /\ call' = [call EXCEPT !.phase = "evaluated"]
    /\ UNCHANGED <<layer, held, table, rare, mem, apart>>

CopyOut ==
    /\ call.phase = "evaluated" /\ call.outs # {}
    /\ Out(First(call.outs))
    /\ call' = [call EXCEPT !.outs = @ \ {First(@)}]
    /\ UNCHANGED <<layer, held, table, rare>>

WriteBack ==
    /\ call.phase = "evaluated" /\ call.outs = {} /\ call.back # {}
    /\ LET store == First(call.back)
           copies == Copies(store, call.updated, call.writes, call.patched)
       IN mem' = [mem EXCEPT ![store] =
                    [slot \in Slots |-> IF slot \in DOMAIN copies THEN copies[slot] ELSE @[slot]]]
    /\ call' = [call EXCEPT !.back = @ \ {First(@)}]
    /\ UNCHANGED <<layer, held, table, rare, apart>>

Delivered == call.phase = "evaluated" /\ call.outs = {} /\ call.back = {}
Member(s) == {k \in DOMAIN call.batch : call.batch[k].seq = s}

Return ==
    /\ Delivered
    /\ held' = [s \in Users |->
                  IF Member(s) = {} THEN held[s]
                  ELSE LET k == CHOOSE k \in Member(s) : TRUE
                       IN SubSeq(call.views[k], 1, call.batch[k].kept)]
    /\ call' = Idle
    /\ UNCHANGED <<layer, table, rare, mem, apart>>

PassingRows(batch) == \E k \in DOMAIN batch : batch[k].kept < RowsAfter(batch[k])

\* A tensor that cannot be assigned, an evaluation or an output that fails ends the
\* call; what was written stays, and the caller gives up rows it had sent new ones for.
Fail ==
    /\ call.phase = "translated" \/ (call.phase = "evaluated" /\ call.outs # {})
    /\ held' = [s \in Users |->
                  LET lost == {p \in DOMAIN held[s] : Member(s) # {} /\ PlaceOf(s, p) \in Written(call.writes)}
                  IN IF lost = {} \/ layer.ring > 0 THEN held[s]
                     ELSE SubSeq(held[s], 1, Min(lost) - 1)]
    /\ \/ rare < MaxRare /\ rare' = rare + 1
       \/ PassingRows(call.batch) /\ UNCHANGED rare
    /\ call' = Idle
    /\ UNCHANGED <<layer, table, mem, apart>>
-----------------------------------------------------------------------------
(* External: a server that owns the pool.                                  *)

\* The first block takes rows that are not to be kept, when rows are mapped.
Free ==
    (IF layer.mapped THEN 1 ELSE 0) .. Blocks - 1 \ UNION {ToSet(table[s]) : s \in Users}

\* The rows of a sequence with the new ones of a move.
RowsWith(m) == Len(held[m.seq]) + m.n

\* The blocks the moves of a call lack, by the move and the place in its table: a ring
\* uses the ones it has over again.
Lacking(moves) ==
    UNION {{k} \X {i \in Len(table[moves[k].seq]) + 1 .. CeilDiv(RowsWith(moves[k]), BlockSize) :
                     layer.ring = 0 \/ i <= layer.ring} :
            k \in DOMAIN moves}
Granted(lacking) ==
    CHOOSE f \in [lacking -> Free] : \A a, b \in lacking : f[a] = f[b] => a = b
Round(i) == IF layer.ring > 0 THEN ((i - 1) % layer.ring) + 1 ELSE i
TableOf(m, k, granted) ==
    LET old == table[m.seq]
    IN Tabulated([i \in 1 .. Larger(Len(old), CeilDiv(RowsWith(m), BlockSize)) |->
                    IF i <= Len(old) THEN old[i]
                    ELSE IF Round(i) <= Len(old) THEN old[Round(i)]
                    ELSE granted[<<k, Round(i)>>]])
Grown(moves, granted) ==
    [s \in Users |->
       IF \E k \in DOMAIN moves : moves[k].seq = s
       THEN LET k == CHOOSE k \in DOMAIN moves : moves[k].seq = s
            IN TableOf(moves[k], k, granted)
       ELSE table[s]]

\* Where the rows go that are not to be kept: nowhere, to the first block, or one of them
\* over an earlier row in a block of the sequence's own.
Revisable(s) ==
    IF layer.ring > 0 THEN {}
    ELSE {p \in DOMAIN held[s] :
            \A o \in Users \ {s} : table[s][((p - 1) \div BlockSize) + 1] \notin ToSet(table[o])}
Asides(s, n, keep) ==
    IF n = keep THEN {-1}
    ELSE IF ~layer.mapped \/ layer.quant THEN {}
    ELSE {-1, 0} \cup (IF n = keep + 1 THEN {PlaceOf(s, p) : p \in Revisable(s)} ELSE {})

\* What a sequence does in a call: n new rows, the first `keep` of them to stay.
Moves(s) ==
    UNION {[seq : {s}, n : {w[1]}, keep : {w[2]}, aside : Asides(s, w[1], w[2])] :
             w \in {v \in (0 .. WidestStep) \X (0 .. WidestStep) :
                     v[2] <= v[1] /\ Len(held[s]) + v[1] <= layer.most}}
Token(s, p, stays) == [gen |-> s, tok |-> (100 * rare) + p + (IF stays THEN 0 ELSE 50), at |-> -1]
Entry(m, tables) ==
    LET past == Len(held[m.seq])
        blocks == [table |-> tables[m.seq]]
    IN [seq |-> m.seq, past |-> past, kept |-> past + m.keep, table |-> tables[m.seq],
        new |-> Tabulated([j \in 1 .. m.n |-> Token(m.seq, past + j, j <= m.keep)]),
        slots |-> Tabulated([j \in 1 .. m.n |-> IF j <= m.keep THEN SlotOf(blocks, past + j - 1) ELSE m.aside])]

\* The rows a sequence then consists of, the ones that do not stay included.
View(m, e) ==
    Tabulated([p \in DOMAIN held[m.seq] |->
                 IF m.aside > 0 /\ PlaceOf(m.seq, p) = m.aside THEN Last(Rows(e)) ELSE held[m.seq][p]])
    \o Rows(e)

\* One call, for one sequence or for several; a refused one has grown the tables.
Step(moves) ==
    LET tables == Grown(moves, Granted(Lacking(moves)))
        batch == Tabulated([k \in DOMAIN moves |-> Entry(moves[k], tables)])
        views == Tabulated([k \in DOMAIN moves |-> View(moves[k], batch[k])])
    IN /\ call = Idle
       /\ Cardinality(Lacking(moves)) <= Cardinality(Free)
       /\ table' = tables
       /\ IF PassingRows(batch) THEN rare < MaxRare /\ rare' = rare + 1 ELSE UNCHANGED rare
       /\ \/ Accepted(batch) /\ Begin(batch, views)
          \/ ~Accepted(batch) /\ UNCHANGED call
       /\ UNCHANGED <<layer, held, mem, apart>>
StepOne == \E s \in Users : \E m \in Moves(s) : Step(<<m>>)
StepBoth ==
    \E s, o \in Users :
      /\ s # o
      /\ \E m \in Moves(s), w \in Moves(o) : Step(<<m, w>>)

\* A sequence starts with the full blocks of another's.
Fork(s, o) ==
    LET full == Len(held[s]) \div BlockSize IN
    /\ call = Idle /\ layer.ring = 0
    /\ full > 0 /\ table[o] = <<>>
    /\ held' = [held EXCEPT ![o] = SubSeq(held[s], 1, full * BlockSize)]
    /\ table' = [table EXCEPT ![o] = SubSeq(table[s], 1, full)]
    /\ UNCHANGED <<layer, rare, mem, apart, call>>

Drop(s) ==
    /\ call = Idle /\ table[s] # <<>> /\ rare < MaxRare
    /\ rare' = rare + 1
    /\ held' = [held EXCEPT ![s] = <<>>]
    /\ table' = [table EXCEPT ![s] = <<>>]
    /\ UNCHANGED <<layer, mem, apart, call>>

Next ==
    \/ StepOne \/ StepBoth
    \/ Assign \/ Evaluate \/ CopyOut \/ WriteBack \/ Return \/ Fail
    \/ \E s, o \in Users : Fork(s, o)
    \/ \E s \in Users : Drop(s)

Spec == Init /\ [][Next]_vars
-----------------------------------------------------------------------------
(* Properties.                                                             *)

\* What a query is meant to see: the rows of its own sequence, from the start of its
\* window on and, in a causal layer, up to itself.
Meant(view, position) ==
    {[row |-> view[p], bias |-> -1] :
       p \in {q \in DOMAIN view :
               /\ layer.causal => q <= position
               /\ layer.window > 0 => q > position - layer.window}}

\* Every query of every sequence of a call sees, in the keys and in the values, the rows
\* of its own sequence and no others, whichever blocks they are in, whether other
\* sequences or this call have written to the pool, and by whichever of the routes of
\* paged_attention_op (gathered pages, or the kernel over pages) they are read.
AttendsOwn ==
    Delivered =>
      \A k \in DOMAIN call.batch, store \in layer.stores :
        LET sees == Sees(call.batch[k], call.pool[store], call.updated[store], call.patched)
        IN \A i \in DOMAIN call.batch[k].new :
             sees[i].keys = Meant(call.views[k], call.batch[k].past + i)

\* The rows of a sequence that later queries may need: all, or a ring's last.
Needed(s) ==
    {p \in DOMAIN held[s] : layer.ring > 0 => p > Len(held[s]) - (layer.window - 1)}

\* At every moment, in the middle of the copies of a call and after calls that failed
\* between them, both caches hold the rows every sequence has been promised, except in
\* the slots the call in progress writes itself (finish_boundary, write_back_input_rows,
\* write_back_input_patches, copy_out_raw_delta).
CachesHold ==
    \A s \in Users : \A p \in Needed(s), store \in layer.stores :
      \/ mem[store][PlaceOf(s, p)] = held[s][p]
      \/ call # Idle /\ PlaceOf(s, p) \in Written(call.writes)

\* When a call returns, the memory of the cache inputs and that of outputs bound
\* elsewhere are what attention was computed over, slot by slot: also where a batch has
\* sent two rows to one slot and the order of the writes is not defined.
Coherent ==
    Delivered =>
      \A store \in layer.stores :
        /\ mem[store] = call.updated[store]
        /\ layer.bound = "apart" => apart[store] = call.updated[store]
=============================================================================
