------------------------------- MODULE GqaRows -------------------------------
(***************************************************************************)
(* GroupQueryAttention as a movement of rows (rust/src/ops/attention.rs):  *)
(* which key and value rows each query sees, and what the present cache    *)
(* holds.  Keys and values move by the same slices, so one sequence of     *)
(* rows stands for both; heads, scores and numbers are left out.  A row is *)
(*   gen   the generator it belongs to, 0 for padding,                     *)
(*   tok   which of its tokens,                                            *)
(*   at    the row of the rotary caches applied to it, -1 for none.        *)
(*                                                                         *)
(* A node g is its attributes and the inputs it has (past, ids, bias); a   *)
(* call c is its live inputs: s query rows of each member of the batch,    *)
(* new key rows (as many, or none), caches of one capacity, the length     *)
(* less one of each member, the total length, and position ids.            *)
(***************************************************************************)
EXTENDS MlxArrays

Zero == [gen |-> 0, tok |-> 0, at |-> -1]
Zeros(n) == [i \in 1 .. n |-> Zero]

\* mlx_slice and mlx_slice_update along the sequence axis; rows from zero.
RowsOf(rows, start, stop) ==
    Tabulated([i \in 1 .. Larger(0, stop - start) |->
                 IF start + i \in DOMAIN rows THEN rows[start + i]
                 ELSE [gen |-> Garbage, tok |-> i, at |-> -1]])
Overwritten(rows, new, start) ==
    [i \in DOMAIN rows |->
       IF i - start \in DOMAIN new THEN new[i - start] ELSE rows[i]]

\* What s queries attend to: a row and the column of the bias added to its score.
\* Allow(i, j) is the mask, of query i and key j.
Attend(g, rows, at, s, origin, Allow(_, _)) ==
    [i \in 1 .. s |->
       [at |-> at[i],
        keys |-> {[row |-> rows[j + 1], bias |-> IF g.bias THEN origin + j ELSE -1] :
                    j \in {k \in 0 .. Len(rows) - 1 : Allow(i - 1, k)}}]]

CausalTopLeft(i, j, past) == j <= past + i
\* MLX's own "causal" mode, aligned to the last key.
CausalBottomRight(i, j, queries, keys) == j <= i + (keys - queries)
CausalWindow(i, j, past, keys, window) ==
    /\ j <= past + i
    /\ Smaller(past - window + 1 + i, keys - window) <= j
-----------------------------------------------------------------------------
Refuses == [ok |-> FALSE]
Answer(sees, present, delta) ==
    [ok |-> TRUE, sees |-> sees, present |-> present, delta |-> delta]
WholeCopy == [offset |-> 0, count |-> 0]

\* The rotary rows of a member whose first query is at past; <<>> when refused.
GqaRotaryRows(g, c, member, past) ==
    LET flat == FlattenSeq(c.ids)
        picked == [i \in 1 .. c.s |->
                     CASE ~g.ids -> past + i - 1
                       [] g.ids /\ c.total = c.s -> flat[1] + i - 1
                       [] OTHER -> flat[(member - 1) * c.s + i]]
    IN IF ~g.rotary THEN [i \in 1 .. c.s |-> -1]
       ELSE IF \A i \in 1 .. c.s : picked[i] \in 0 .. g.ropeRows - 1
            THEN Tabulated(picked) ELSE <<>>
Rotated(new, at) == Tabulated([i \in DOMAIN new |-> [new[i] EXCEPT !.at = at[i]]])
Widest(values) == CHOOSE v \in ToSet(values) : \A w \in ToSet(values) : w <= v
\* Mutant: the longest member is compared with the total length itself.
LengthsOff(c) ==
    /\ Len(c.lengths) = Len(c.past)
    /\ \A b \in DOMAIN c.lengths : c.lengths[b] \in 0 .. c.total
    /\ Widest(c.lengths) = c.total
LengthsAgree(c) ==
    /\ Len(c.lengths) = Len(c.past)
    /\ \A b \in DOMAIN c.lengths : c.lengths[b] \in 0 .. c.total - 1
    /\ Widest(c.lengths) = c.total - 1

\* gqa_batched: each member by itself, at its own length.
GqaMember(g, c, b) ==
    LET cap == Len(c.past[b])
        capacity == Larger(cap, c.total)
        length == c.lengths[b] + 1
        queryPast == Larger(length - c.s, 0)
        empty == c.new[b] = <<>>
        past == IF empty THEN length ELSE queryPast
        newRows == IF empty THEN 0 ELSE length - past
        at == GqaRotaryRows(g, c, b, queryPast)
        stored == RowsOf(c.past[b], 0, past)
                    \o RowsOf(Rotated(c.new[b], at), 0, newRows)
        Allow(i, j) == IF g.window > 0 THEN CausalWindow(i, j, queryPast, length, g.window)
                       ELSE g.causal => CausalTopLeft(i, j, queryPast)
        tail == IF length < cap THEN RowsOf(c.past[b], length, cap)
                ELSE Zeros(capacity - length)
        kept == IF empty THEN c.past[b] ELSE stored \o tail
    IN IF past > cap \/ (~g.past /\ past # 0) \/ at = <<>> THEN Refuses
       ELSE Answer(Attend(g, stored, at, c.s, 0, Allow),
                   kept \o Zeros(capacity - Len(kept)), WholeCopy)
GqaBatched(g, c) ==
    LET members == [b \in DOMAIN c.past |-> GqaMember(g, c, b)] IN
    IF \/ ~LengthsAgree(c)
       \/ \E b \in DOMAIN c.lengths : c.total # c.s /\ c.lengths[b] + 1 < c.s
       \/ \E b \in DOMAIN members : ~members[b].ok
    THEN Refuses
    ELSE Answer([b \in DOMAIN members |-> members[b].sees],
                [b \in DOMAIN members |-> members[b].present], WholeCopy)
-----------------------------------------------------------------------------
\* The sliding cache drops a block of `gap` rows whenever it is full, so the
\* row after the last one depends on the length alone.
CacheEnd(length, cap, window) ==
    LET gap == cap - window + 1 IN
    IF length <= cap THEN length
    ELSE length - gap * CeilDiv(length - cap, gap)

\* What a member's step does to its cache: where its rows end before and after,
\* and how many old rows make room.
Geometry(g, c, b) ==
    LET cap == Len(c.past[b])
        p == Larger(c.lengths[b] + 1 - c.s, 0)
        before == CacheEnd(p, cap, g.window)
        after == CacheEnd(p + c.s, cap, g.window)
    IN [p |-> p, before |-> before, after |-> after, kept |-> after - c.s,
        offset |-> before - (after - c.s)]

\* A member whose window needs rows that the new ones push out.
StagingNeeded(g, geometry) == geometry.kept < Smaller(geometry.p, g.window - 1)

GqaSlidingMember(g, c, b, staging) ==
    LET geo == Geometry(g, c, b)
        cap == Len(c.past[b])
        at == GqaRotaryRows(g, c, b, geo.p)
        seedStart == IF staging THEN 0 ELSE geo.offset
        stored == RowsOf(c.past[b], seedStart, geo.before) \o Rotated(c.new[b], at)
        seedRows == geo.before - seedStart
        keys == seedRows + c.s
        Allow(i, j) == CausalWindow(i, j, seedRows, keys, g.window)
        written == RowsOf(stored, IF staging THEN geo.offset ELSE 0, keys)
    IN IF at = <<>> THEN Refuses
       ELSE Answer(Attend(g, stored, at, c.s, geo.p - geo.before + seedStart, Allow),
                   written \o Zeros(cap - geo.after), WholeCopy)

\* The sliding branch of group_query_attention_op: one choice for the whole batch.
GqaSliding(g, c) ==
    LET staging == \E b \in DOMAIN c.past : StagingNeeded(g, Geometry(g, c, b))
        members == [b \in DOMAIN c.past |-> GqaSlidingMember(g, c, b, staging)]
    IN IF \/ ~LengthsAgree(c)
          \/ \E b \in DOMAIN c.lengths : c.lengths[b] + 1 < c.s
          \/ g.window \notin 1 .. Len(c.past[1])
          \/ \E b \in DOMAIN members : ~members[b].ok
       THEN Refuses
       ELSE Answer([b \in DOMAIN members |-> members[b].sees],
                   [b \in DOMAIN members |-> members[b].present], WholeCopy)
-----------------------------------------------------------------------------
\* One member, causal, at `past`: written in place while the cache is longer than
\* what it holds, appended otherwise.  The delta is what a shared buffer needs back.
GqaSingle(g, c, past, at, shared) ==
    LET cap == Len(c.past[1])
        rows == Rotated(c.new[1], at)
        present == IF shared THEN Overwritten(c.past[1], rows, past) ELSE c.past[1] \o rows
        prefix == IF shared THEN RowsOf(present, 0, past + c.s) ELSE present
        Allow(i, j) == IF g.bias THEN CausalTopLeft(i, j, past)
                       ELSE CausalBottomRight(i, j, c.s, Len(prefix))
    IN IF shared /\ past + c.s > cap THEN Refuses
       ELSE Answer(<<Attend(g, prefix, at, c.s, 0, Allow)>>, <<present>>,
                   IF shared THEN [offset |-> past, count |-> c.s] ELSE WholeCopy)

\* gqa_shared_compiled: the whole buffer under a mask that lets the prefix through.
GqaSharedCompiled(g, c, past, at) ==
    LET present == Overwritten(c.past[1], Rotated(c.new[1], at), past)
        Allow(i, j) == j <= past + i
    IN Answer(<<Attend(g, present, at, c.s, 0, Allow)>>, <<present>>,
              [offset |-> past, count |-> c.s])

\* The eager handler.
Special(g, c) ==
    \/ Len(c.past) # 1 \/ ~g.past \/ ~g.causal \/ g.window >= 0 \/ g.composed
    \/ (g.rotary /\ g.ids) \/ c.new[1] = <<>>
GroupQueryAttention(g, c) ==
    LET past == c.total - Len(c.new[1])
        cap == Len(c.past[1])
        at == GqaRotaryRows(g, c, 1, past)
        mismatched == \E b \in DOMAIN c.new :
              Len(c.new[b]) # c.s /\ (c.new[b] # <<>> \/ ~g.past \/ g.sliding)
        unequal == /\ Len(c.past) = 1 /\ g.past
                   /\ (c.lengths # <<c.total - 1>> \/ past \notin 0 .. cap)
        unturned == ~Special(g, c) /\ at = <<>>
    IN IF mismatched \/ (~g.sliding /\ (unequal \/ unturned)) THEN Refuses
       ELSE IF g.sliding THEN GqaSliding(g, c)
       ELSE IF Special(g, c) THEN GqaBatched(g, c)
       ELSE GqaSingle(g, c, past, at, cap > past)
=============================================================================
