---------------------------- MODULE KvGeneration ----------------------------
(***************************************************************************)
(* Generators that share one session of a decoder whose attention is       *)
(* GroupQueryAttention.  Each call goes the way the runtime sends it:      *)
(* through the captured decode or prefill closure when the slot will have  *)
(* it, through the eager handler otherwise (rust/src/compiled.rs,          *)
(* rust/src/runtime.rs), and the present cache is copied back to the       *)
(* caller, whole or only the new rows (rust/src/engine.rs).                *)
(*                                                                         *)
(* A session is                                                            *)
(*   node      the attributes and inputs of its GroupQueryAttention,       *)
(*   cap       the rows of the buffers the caller binds; 0 when ORT        *)
(*             allocates each present and the caller feeds it back,        *)
(*   alias     present is bound to the buffer past is in; otherwise the    *)
(*             caller swaps two buffers,                                   *)
(*   mask      attention_mask is an input, as wide as the total length,    *)
(*   scalar    total_sequence_length is an input,                          *)
(*   batches   the sizes of batch it is called with,                       *)
(*   prefill   captured prefill is enabled,                                *)
(* and three bounds: its generators (users), the tokens of each (most) and *)
(* the query rows of a call (widest).                                      *)
(***************************************************************************)
EXTENDS GqaRows

CONSTANTS
    Sessions,       \* the sessions to consider
    MaxRewinds      \* bound: how many times the generators go back

ASSUME SessionAssumption ==
    \A s \in Sessions :
      /\ {s.cap, s.users, s.most, s.widest} \subseteq Nat /\ s.batches \subseteq Nat \ {0}
      /\ {s.alias, s.mask, s.scalar, s.prefill} \subseteq BOOLEAN
      /\ {s.node.past, s.node.ids, s.node.bias, s.node.causal, s.node.rotary, s.node.sliding,
          s.node.composed} \subseteq BOOLEAN
      /\ s.node.window \in Int /\ s.node.ropeRows \in Nat
\* group_query_attention_claim: a sliding cache has room for its window.
ASSUME WindowAssumption ==
    \A s \in Sessions : s.node.sliding => s.node.window \in 1 .. s.cap
ASSUME RewindAssumption == MaxRewinds \in Nat

VARIABLES
    session,
    held,           \* what each generator has fed: the rows its cache should hold
    epoch,          \* how many times each has gone back
    cache,          \* the buffer each passes as past
    spare,          \* the other buffer of a pair that is swapped
    warm,           \* the rotary caches are resident
    slots,          \* the decode and prefill slots
    traced,         \* the valid past baked into each prefill trace, by shape key
    answer,         \* what the queries of the last call saw
    refused         \* the total length and capacity of the last call, if it failed

vars == <<session, held, epoch, cache, spare, warm, slots, traced, answer, refused>>

g == session.node
Generators == 1 .. session.users
Fresh == [state |-> "new", shared |-> FALSE, cap |-> 0]

Init ==
    /\ session \in Sessions
    /\ held = [n \in Generators |-> <<>>]
    /\ epoch = [n \in Generators |-> 0]
    /\ cache = [n \in Generators |-> Zeros(session.cap)]
    /\ spare = cache
    /\ warm = FALSE
    /\ slots = [k \in {"decode", "prefill"} |-> Fresh]
    /\ traced = [key \in {} |-> 0]
    /\ answer = {}
    /\ refused = <<>>
-----------------------------------------------------------------------------
\* Where the caller means token number n (from 0) to be.
IdOf(n) == IF ~g.rotary THEN -1 ELSE IF g.ids THEN n + 1 ELSE n
TokenOf(gen, n) == [gen |-> gen, tok |-> (10 * epoch[gen]) + n, at |-> IdOf(n)]
TokensOf(gen, n, count) == Tabulated([i \in 1 .. count |-> TokenOf(gen, n + i - 1)])

\* The call for a batch of generators that add `count[b]` tokens each, padded to s
\* query rows.  Growing caches of different length are padded by the caller.
CallOf(batch, s, count) ==
    LET length(b) == Len(held[batch[b]])
        widest == Widest([b \in DOMAIN batch |-> Len(cache[batch[b]])])
        total == Widest([b \in DOMAIN batch |-> length(b) + count[b]])
    IN [s |-> s, total |-> total,
        lengths |-> [b \in DOMAIN batch |-> length(b) + count[b] - 1],
        past |-> [b \in DOMAIN batch |->
                    cache[batch[b]] \o Zeros(widest - Len(cache[batch[b]]))],
        new |-> [b \in DOMAIN batch |-> TokensOf(batch[b], length(b), s)],
        ids |-> [b \in DOMAIN batch |-> [i \in 1 .. s |-> length(b) + i]]]

\* A read-only layer asks again about the last s tokens of what is already cached.
RereadOf(batch, s) ==
    LET length(b) == Len(held[batch[b]]) IN
    [CallOf(batch, s, [b \in DOMAIN batch |-> 0])
       EXCEPT !.new = [b \in DOMAIN batch |-> <<>>],
              !.ids = [b \in DOMAIN batch |-> [i \in 1 .. s |-> length(b) - s + i]]]

\* group_query_attention_compile_shape_safety, with a batch of one.
Capturable ==
    /\ session.batches = {1} /\ g.past /\ g.causal /\ ~g.sliding /\ g.window < 0
    /\ ~g.bias /\ ~g.composed /\ ~(g.rotary /\ g.ids)

\* detect_shared_kv: what the tensors of the call say of the cache contract.
Contract(c) ==
    LET cap == Len(c.past[1])
        past == c.total - c.s
    IN IF (~session.scalar /\ ~session.mask) \/ past \notin 0 .. cap THEN "unknown"
       ELSE IF cap > past THEN "shared" ELSE "growing"

\* build_closure: the slot after the discovery a call triggers.
Discovered(slot, c) ==
    IF slot.state # "new" \/ (g.rotary /\ ~warm) THEN slot
    ELSE [slot EXCEPT !.state = "built", !.shared = Contract(c) = "shared"]

\* Mutant: the contract detected when the closure was built is taken for granted.
ContractBlind(slot, c) ==
    slot.state = "built" /\ Len(c.past[1]) > 0 /\ c.new[1] # <<>>
\* try_compiled, up to the apply.
Accepts(slot, c) ==
    /\ slot.state = "built"
    /\ Contract(c) = IF slot.shared THEN "shared" ELSE "growing"
    /\ Len(c.past[1]) > 0 /\ c.new[1] # <<>>

LivePast(slot, c) == IF slot.shared THEN c.total - c.s ELSE Len(c.past[1])

\* The shapes and the mask width a prefill trace is keyed by, and the valid past
\* the trace bakes in: set_compiled_trace with narrow, or -1.
ShapeKey(c) == <<c.s, IF session.mask THEN c.total ELSE 0, Len(c.past[1])>>

Narrow(slot) == g.rotary /\ slot.shared /\ session.mask
StaticPast(c) == c.total - c.s
Retraced(slot, c) ==
    [key \in DOMAIN traced \cup {ShapeKey(c)} |->
       IF key \in DOMAIN traced THEN traced[key]
       ELSE IF Narrow(slot) THEN StaticPast(c) ELSE -1]

\* What the closure of a slot computes.
Captured(kind, slot, c) ==
    LET past == LivePast(slot, c)
        at == GqaRotaryRows(g, c, 1, past)
        baked == IF kind = "prefill" THEN Retraced(slot, c)[ShapeKey(c)] ELSE -1
        result == IF ~slot.shared THEN GqaSingle(g, c, past, at, FALSE)
                  ELSE IF baked >= 0 THEN GqaSingle(g, c, baked, at, TRUE)
                  ELSE GqaSharedCompiled(g, c, past, at)
    IN IF ~result.ok THEN Refuses
       ELSE [result EXCEPT !.delta = IF slot.shared THEN [offset |-> past, count |-> c.s]
                                     ELSE WholeCopy]

\* The contract of a captured decode (docs/COMPILED_CAPTURE.md, 280): the mask is
\* as wide as the buffer it was traced with, and nothing compares that width again.
OneCapacity(kind, slot, c) ==
    kind = "decode" /\ slot.shared => slot.cap \in {0, Len(c.past[1])}

SlotOf(c) == IF c.s = 1 THEN "decode" ELSE "prefill"
Tried(c) == Capturable /\ (c.s = 1 \/ session.prefill)
-----------------------------------------------------------------------------
\* copy_out_raw_delta, into a buffer that holds `old`.
\* Mutant: the new rows are enough for any buffer.
NewRowsOnly(old, present, delta, aliased) ==
    [i \in DOMAIN present |->
       IF delta.count = 0 \/ i - 1 \in delta.offset .. delta.offset + delta.count - 1
       THEN present[i] ELSE IF i \in DOMAIN old THEN old[i] ELSE Zero]
CopiedOut(old, present, delta, aliased) ==
    IF delta.count > 0 /\ aliased
    THEN [i \in DOMAIN old |->
            IF i - 1 \in delta.offset .. Smaller(delta.offset + delta.count, Len(old)) - 1
            THEN present[i] ELSE old[i]]
    ELSE present

\* The results reach the caller; a bound buffer must have the shape of the output.
Deliver(batch, count, c, result) ==
    LET gens == ToSet(batch)
        Place(n) == CHOOSE b \in DOMAIN batch : batch[b] = n
        fits == session.cap = 0 \/ \A b \in DOMAIN batch : Len(result.present[b]) = session.cap
        Into(n) == IF session.alias THEN cache[n] ELSE spare[n]
        Out(n) == CopiedOut(Into(n), result.present[Place(n)], result.delta, session.alias)
        reread == c.new[1] = <<>>
        first(b) == IF reread THEN Len(held[batch[b]]) - c.s ELSE Len(held[batch[b]])
        queries(b) == IF reread THEN c.s ELSE count[b]
    IN IF ~result.ok \/ ~fits
       THEN /\ answer' = {} /\ refused' = <<c.total, Len(c.past[1])>>
            /\ UNCHANGED <<held, cache, spare>>
       ELSE /\ cache' = [n \in Generators |-> IF n \in gens THEN Out(n) ELSE cache[n]]
            /\ spare' = [n \in Generators |->
                           IF n \in gens /\ ~session.alias THEN cache[n] ELSE spare[n]]
            /\ held' = [n \in Generators |->
                          IF n \in gens /\ ~reread
                          THEN held[n] \o TokensOf(n, Len(held[n]), count[Place(n)])
                          ELSE held[n]]
            /\ answer' = UNION {{[gen |-> batch[b], query |-> first(b) + i - 1,
                                  saw |-> result.sees[b][i]] : i \in 1 .. queries(b)} :
                                b \in DOMAIN batch}
            /\ refused' = <<>>

\* compute_impl: the slot the call's query length selects, then the eager handler.
Compute(batch, count, c) ==
    LET kind == SlotOf(c)
        slot == Discovered(slots[kind], c)
        result == Captured(kind, slot, c)
        applied == Tried(c) /\ Accepts(slot, c)
        broken == applied /\ ~result.ok
    IN /\ applied => OneCapacity(kind, slot, c)
       /\ slots' = [slots EXCEPT ![kind] =
                      IF ~Tried(c) THEN @
                      ELSE IF broken THEN [slot EXCEPT !.state = "off"]
                      ELSE IF applied THEN [slot EXCEPT !.cap = Len(c.past[1])]
                      ELSE slot]
       /\ traced' = IF applied /\ kind = "prefill" /\ ~broken
                    THEN Retraced(slot, c) ELSE traced
       /\ warm' = (warm \/ ~applied \/ broken)
       /\ Deliver(batch, count, c,
                  IF applied /\ ~broken THEN result ELSE GroupQueryAttention(g, c))
       /\ UNCHANGED <<session, epoch>>

Batches == {b \in UNION {[1 .. k -> Generators] : k \in session.batches} :
              \A i, j \in DOMAIN b : i < j => b[i] < b[j]}

\* What a caller keeps to: the rotary caches have a row for every position, and a
\* prefill captured over the whole buffer is asked for no more than the buffer holds.
WithinContract(c) ==
    /\ c.total <= session.most
    /\ \A b \in DOMAIN c.ids : \A i \in 1 .. c.s : c.ids[b][i] < g.ropeRows
    /\ Capturable /\ c.s > 1 /\ ~(g.rotary /\ session.mask) /\ Contract(c) = "shared"
         => c.total <= Len(c.past[1])

Step ==
    \E batch \in Batches, s \in 1 .. session.widest :
      \E count \in [DOMAIN batch -> 1 .. s] :
        LET c == CallOf(batch, s, count) IN
        \* Only a first prompt is padded on the right, to its longest member.
        /\ \/ \A b \in DOMAIN batch : count[b] = s
           \/ /\ ~g.sliding /\ \E b \in DOMAIN batch : count[b] = s
              /\ \A b \in DOMAIN batch : held[batch[b]] = <<>>
        /\ WithinContract(c)
        /\ \A b \in DOMAIN batch : g.past \/ held[batch[b]] = <<>>
        /\ Compute(batch, count, c)

Reread ==
    \E batch \in Batches, s \in 1 .. session.widest :
        /\ g.past /\ ~g.sliding
        /\ \A b \in DOMAIN batch : Len(held[batch[b]]) >= s
        /\ Compute(batch, [b \in DOMAIN batch |-> 0], RereadOf(batch, s))

\* The caller goes back to an earlier length, keeping the buffers or, when they
\* grow, cutting them.  A sliding cache cannot go back over a block it dropped.
Rewind ==
    \E n \in Generators, cut \in BOOLEAN :
      \E length \in 1 .. Len(held[n]) - 1 :
        /\ g.past /\ Total(epoch) < MaxRewinds
        /\ cut => session.cap = 0
        /\ g.sliding => CacheEnd(length, session.cap, g.window)
                          = CacheEnd(Len(held[n]), session.cap, g.window)
                              - (Len(held[n]) - length)
        /\ held' = [held EXCEPT ![n] = SubSeq(@, 1, length)]
        /\ cache' = IF cut THEN [cache EXCEPT ![n] = RowsOf(@, 0, length)] ELSE cache
        /\ spare' = [spare EXCEPT ![n] = IF cut THEN cache'[n] ELSE @]
        /\ epoch' = [epoch EXCEPT ![n] = @ + 1]
        /\ answer' = {} /\ refused' = <<>>
        /\ UNCHANGED <<session, warm, slots, traced>>

Next == Step \/ Reread \/ Rewind

Spec == Init /\ [][Next]_vars
-----------------------------------------------------------------------------
\* What query q of a generator should see: its own tokens, each at its own
\* position and bias column, up to itself and no further back than the window.
Meant(a) ==
    LET tokens == held[a.gen]
        last == IF g.causal \/ g.window > 0 THEN a.query ELSE Len(tokens) - 1
        first == IF g.window > 0 THEN Larger(0, a.query - g.window + 1) ELSE 0
    IN [at |-> IdOf(a.query),
        keys |-> {[row |-> tokens[k + 1], bias |-> IF g.bias THEN k ELSE -1] :
                    k \in first .. last}]

\* Whatever route computes a call, alone or in a ragged batch, after other
\* generators used the same closures and after going back: every query attends to
\* exactly the tokens of its own sequence that it may see.
AttendsExact == \A a \in answer : a.saw = Meant(a)

\* The buffer a generator will pass next holds its tokens in order, or, in a
\* sliding cache, the last of them that the layout keeps.
CacheHolds ==
    \A n \in Generators :
      LET length == Len(held[n])
          end == IF g.sliding THEN CacheEnd(length, session.cap, g.window) ELSE length
      IN \A k \in 1 .. end : cache[n][k] = held[n][k + (length - end)]

\* The only calls that fail are those that cross the end of a buffer the caller
\* bound, or that a single generator's growing cache still has unused rows in.
RefusesOnlyOverflow ==
    refused # <<>> =>
      /\ refused[1] > refused[2] /\ refused[2] > 0 /\ ~g.sliding
      /\ session.cap = 0 => 1 \in session.batches
=============================================================================
