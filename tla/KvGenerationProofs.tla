-------------------------- MODULE KvGenerationProofs --------------------------
(***************************************************************************)
(* Generators that share a session: whatever they call, in whatever order  *)
(* and by whatever route, every query attends to exactly the tokens of its *)
(* own sequence that it may see, and every cache holds its generator's     *)
(* tokens.  The sessions and the number of rewinds are arbitrary.          *)
(*                                                                         *)
(* The invariant adds to what the caches hold (Holds) that a bound buffer  *)
(* keeps its size and a sliding cache in use has its window (Fits), and    *)
(* that a prefill trace baked in the past that its shape key implies       *)
(* (Baked): without it a trace made for one length could serve another.    *)
(*                                                                         *)
(* The last part is about failures: within the caller's contract a call    *)
(* fails only at the end of a buffer.  What is held stays short of the     *)
(* rotary caches (HeldTurn), so no position is ever outside them.          *)
(***************************************************************************)
EXTENDS KvRowsProofs

(* The captured route.                                                     *)

Slot == [state : {"new", "built", "off"}, shared : BOOLEAN, cap : Nat]

\* A call that a captured closure may be applied to: one member, at its own place, in
\* what the caller keeps to.
Caught(c, old, tokens) ==
    /\ Asks(c, 1, old, tokens) /\ Numbers(c, 1, 1, Len(old))
    /\ Len(c.past) = 1 /\ c.new[1] # <<>>
    /\ c.total = Len(tokens) /\ Len(tokens) = Len(old) + c.s
    /\ Capturable /\ WithinContract(c) /\ Typed

\* The trace a call finds or makes baked in its own valid past.
BakedRight(slot, c) ==
    Retraced(slot, c)[ShapeKey(c)] = IF Narrow(slot) THEN c.total - c.s ELSE -1

\* What is known of a caught call.
LEMMA CaughtParts ==
  ASSUME NEW c, NEW old, NEW tokens, Caught(c, old, tokens)
  PROVE  /\ c.s \in Nat \ {0} /\ c.total \in Nat /\ Len(old) \in Nat
         /\ c.past[1] \in Seq(Row) /\ Len(c.past[1]) \in Nat
         /\ First(c, tokens) = Len(old) /\ c.total - c.s = Len(old)
         /\ g.window \in Int /\ g.window < 0 /\ g.causal /\ ~g.bias /\ ~g.sliding
         /\ ~(g.rotary /\ g.ids) /\ g.ropeRows \in Nat
<1>1. Asks(c, 1, old, tokens) /\ c.new[1] # <<>> /\ Capturable
      /\ c.total = Len(tokens) /\ Len(tokens) = Len(old) + c.s
  BY DEF Caught
<1>2. /\ c.s \in Nat \ {0} /\ c.total \in Nat /\ old \in Seq(Row) /\ tokens \in Seq(Row)
      /\ c.past[1] \in Seq(Row) /\ Brings(c, 1, old, tokens)
  BY <1>1, AsksParts
<1>3. Len(old) \in Nat /\ Len(c.past[1]) \in Nat
  BY <1>2
<1>4. First(c, tokens) = Len(old)
  BY <1>2 DEF Brings
<1>5. c.total - c.s = Len(old)
  BY <1>1, <1>2, <1>3
<1>6. g.window \in Int /\ g.ropeRows \in Nat
  BY DEF Caught, Typed, SessionAssumption, g
<1> QED
  BY <1>1, <1>2, <1>3, <1>4, <1>5, <1>6 DEF Capturable

\* Its rotary rows are those of its positions.
LEMMA CaughtTurns ==
  ASSUME NEW c, NEW old, NEW tokens, Caught(c, old, tokens)
  PROVE  Turns(GqaRotaryRows(g, c, 1, Len(old)), c, tokens)
<1> DEFINE first == Len(old)
           s == c.s
           flat == FlattenSeq(c.ids)
           picked == [i \in 1 .. s |->
                        CASE ~g.ids -> first + i - 1
                          [] g.ids /\ c.total = s -> flat[1] + i - 1
                          [] OTHER -> flat[(1 - 1) * s + i]]
           at == GqaRotaryRows(g, c, 1, first)
<1>1. /\ s \in Nat \ {0} /\ first \in Nat /\ First(c, tokens) = first
      /\ ~(g.rotary /\ g.ids) /\ g.ropeRows \in Nat
  BY CaughtParts
<1>2. \A i \in 1 .. s : first + i < g.ropeRows
  <2>1. \A i \in 1 .. s : c.ids[1][i] = first + i /\ 1 \in DOMAIN c.ids
    BY DEF Caught, Numbers, IdRows
  <2>2. \A i \in 1 .. s : c.ids[1][i] < g.ropeRows
    BY <2>1 DEF Caught, WithinContract
  <2> QED
    BY <2>1, <2>2
<1> HIDE DEF first, flat
<1>3. at = IF ~g.rotary THEN [i \in 1 .. s |-> -1]
           ELSE IF \A i \in 1 .. s : picked[i] \in 0 .. g.ropeRows - 1
                THEN Tabulated(picked) ELSE <<>>
  BY DEF GqaRotaryRows, flat, first
<1>4. CASE ~g.rotary
  <2>1. at = [i \in 1 .. s |-> -1]
    BY <1>3, <1>4
  <2> HIDE DEF at
  <2>2. \A i \in 1 .. s : at[i] = IdOf(first + i - 1)
    BY <1>4, <2>1 DEF IdOf
  <2> QED
    BY <1>1, <2>2 DEF Turns, at, first
<1>5. CASE g.rotary
  <2>1. ~g.ids
    BY <1>1, <1>5
  <2>2. \A i \in 1 .. s : picked[i] = first + i - 1
    BY <2>1
  <2>3. \A i \in 1 .. s : picked[i] \in 0 .. g.ropeRows - 1
    <3> HIDE DEF picked
    <3> QED
      BY <1>1, <1>2, <2>2
  <2>4. picked \in [1 .. s -> Int]
    <3>1. picked = [i \in 1 .. s |-> picked[i]]
      OBVIOUS
    <3> HIDE DEF picked
    <3> QED
      BY <1>1, <2>3, <3>1
  <2> HIDE DEF picked
  <2>5. Tabulated(picked) = picked
    BY <1>1, <2>4, TabulatedElements
  <2>6. at = picked
    BY <1>3, <1>5, <2>3, <2>5
  <2> HIDE DEF at
  <2>7. \A i \in 1 .. s : at[i] = IdOf(first + i - 1)
    BY <1>1, <1>5, <2>1, <2>2, <2>6 DEF IdOf
  <2> QED
    BY <1>1, <2>7 DEF Turns, at, first
<1> QED
  BY <1>4, <1>5

\* The tensors of the call are those of the contract the closure was built for.
LEMMA ContractIs ==
  ASSUME NEW slot \in Slot, NEW c, NEW old, NEW tokens, Caught(c, old, tokens), Accepts(slot, c)
  PROVE  /\ LivePast(slot, c) = Len(old) /\ Len(old) <= Len(c.past[1])
         /\ slot.shared => Len(old) < Len(c.past[1]) /\ Contract(c) = "shared"
         /\ ~slot.shared => Len(c.past[1]) = Len(old)
<1> DEFINE cap == Len(c.past[1])
           past == c.total - c.s
<1>1. past = Len(old) /\ past \in Nat /\ cap \in Nat
  BY CaughtParts
<1>2. Contract(c) = IF (~session.scalar /\ ~session.mask) \/ past \notin 0 .. cap THEN "unknown"
                    ELSE IF cap > past THEN "shared" ELSE "growing"
  BY DEF Contract
<1>3. Contract(c) = IF slot.shared THEN "shared" ELSE "growing"
  BY DEF Accepts
<1>4. slot.shared \in BOOLEAN
  BY DEF Slot
<1>5. LivePast(slot, c) = IF slot.shared THEN past ELSE cap
  BY DEF LivePast
<1> HIDE DEF cap, past
<1>6. past \in 0 .. cap
  BY <1>2, <1>3, <1>4
<1>7. slot.shared => cap > past
  BY <1>2, <1>3, <1>6
<1>8. ~slot.shared => cap = past
  BY <1>1, <1>2, <1>3, <1>6
<1> QED
  BY <1>1, <1>3, <1>5, <1>6, <1>7, <1>8 DEF cap

\* The closures compute what the eager handler does.
LEMMA CapturedIsSingle ==
  ASSUME NEW kind, NEW slot \in Slot, NEW c, NEW old, NEW tokens,
         Caught(c, old, tokens), Accepts(slot, c),
         kind = "prefill" => BakedRight(slot, c), kind = SlotOf(c),
         NEW at, at = GqaRotaryRows(g, c, 1, Len(old))
  PROVE  LET result == GqaSingle(g, c, Len(old), at, slot.shared) IN
         Captured(kind, slot, c)
           = IF ~result.ok THEN Refuses
             ELSE [result EXCEPT !.delta = IF slot.shared THEN [offset |-> Len(old), count |-> c.s]
                                           ELSE WholeCopy]
<1> DEFINE past == LivePast(slot, c)
           baked == IF kind = "prefill" THEN Retraced(slot, c)[ShapeKey(c)] ELSE -1
           result == IF ~slot.shared THEN GqaSingle(g, c, past, at, FALSE)
                     ELSE IF baked >= 0 THEN GqaSingle(g, c, baked, at, TRUE)
                     ELSE GqaSharedCompiled(g, c, past, at)
           single == GqaSingle(g, c, Len(old), at, slot.shared)
<1>1. /\ past = Len(old) /\ Len(old) <= Len(c.past[1])
      /\ slot.shared => Len(old) < Len(c.past[1]) /\ Contract(c) = "shared"
  BY ContractIs
<1>2. /\ c.s \in Nat \ {0} /\ c.total \in Nat /\ Len(old) \in Nat /\ c.total - c.s = Len(old)
      /\ Len(c.past[1]) \in Nat /\ ~g.bias /\ c.past[1] \in Seq(Row)
  BY CaughtParts
<1>3. slot.shared \in BOOLEAN
  BY DEF Slot
<1>4. result = single
  <2>1. CASE ~slot.shared
    BY <1>1, <1>3, <2>1
  <2>2. CASE slot.shared /\ kind = "prefill" /\ Narrow(slot)
    <3>1. baked = Len(old)
      BY <1>2, <2>2 DEF BakedRight
    <3> HIDE DEF baked, past
    <3> QED
      BY <1>2, <1>3, <2>2, <3>1
  <2>3. CASE slot.shared /\ ~(kind = "prefill" /\ Narrow(slot))
    <3>1. baked = -1
      BY <2>3 DEF BakedRight
    <3>2. Len(old) + c.s <= Len(c.past[1])
      <4>1. CASE c.s = 1
        BY <1>1, <1>2, <2>3, <4>1
      <4>2. CASE c.s # 1
        <5>1. c.s > 1 /\ kind = "prefill"
          BY <1>2, <4>2 DEF SlotOf
        <5>2. ~(g.rotary /\ session.mask)
          BY <2>3, <5>1 DEF Narrow
        <5>3. c.total <= Len(c.past[1])
          BY <1>1, <2>3, <5>1, <5>2 DEF Caught, WithinContract
        <5> QED
          BY <1>2, <5>3
      <4> QED
        BY <4>1, <4>2
    <3> HIDE DEF baked, past
    <3>3. result = GqaSharedCompiled(g, c, Len(old), at)
      BY <1>1, <2>3, <3>1
    <3>4. GqaSharedCompiled(g, c, Len(old), at) = GqaSingle(g, c, Len(old), at, TRUE)
      BY <1>2, <3>2, RoutesAgree
    <3> QED
      BY <1>3, <2>3, <3>3, <3>4
  <2> QED
    BY <2>1, <2>2, <2>3
<1>5. Captured(kind, slot, c) =
        IF ~result.ok THEN Refuses
        ELSE [result EXCEPT !.delta = IF slot.shared THEN [offset |-> past, count |-> c.s]
                                      ELSE WholeCopy]
  BY <1>1 DEF Captured
<1> HIDE DEF result, single, past
<1> QED
  BY <1>1, <1>4, <1>5 DEF single

\* A captured closure serves its member.
LEMMA CapturedRight ==
  ASSUME NEW kind, NEW slot \in Slot, NEW c, NEW lists, NEW old,
         Caught(c, old, lists[1]), Accepts(slot, c),
         kind = "prefill" => BakedRight(slot, c), kind = SlotOf(c),
         Captured(kind, slot, c).ok
  PROVE  Right(c, 1, lists, Captured(kind, slot, c))
<1> DEFINE tokens == lists[1]
           at == GqaRotaryRows(g, c, 1, Len(old))
           delta == IF slot.shared THEN [offset |-> Len(old), count |-> c.s] ELSE WholeCopy
           single == GqaSingle(g, c, Len(old), at, slot.shared)
<1>1. Captured(kind, slot, c) = IF ~single.ok THEN Refuses ELSE [single EXCEPT !.delta = delta]
  BY CapturedIsSingle
<1>2. single.ok /\ Captured(kind, slot, c) = [single EXCEPT !.delta = delta]
  <2>1. ~Refuses.ok
    BY DEF Refuses
  <2> HIDE DEF single
  <2> QED
    BY <1>1, <2>1
<1>3. /\ g.window \in Int /\ g.window < 0 /\ g.causal /\ ~g.sliding
  BY CaughtParts
<1>4. /\ Asks(c, 1, old, tokens) /\ Len(c.past) = 1 /\ c.new[1] # <<>>
      /\ Len(tokens) = Len(old) + c.s
  BY DEF Caught
<1>5. Turns(at, c, tokens)
  BY CaughtTurns
<1>6. slot.shared \in BOOLEAN /\ (slot.shared \/ Len(c.past[1]) = Len(old))
  BY ContractIs DEF Slot
<1>7. /\ Serves(single.present[1], single.sees[1], c, tokens) /\ Whole(c, single)
      /\ Plainly(single) /\ single.delta = delta
  <2> DEFINE shared == slot.shared
  <2>1. shared \in BOOLEAN /\ (shared \/ Len(c.past[1]) = Len(old))
    BY <1>6
  <2>2. GqaSingle(g, c, Len(old), at, shared).ok
    BY <1>2
  <2> HIDE DEF at, shared
  <2> DEFINE res == GqaSingle(g, c, Len(old), at, shared)
  <2> HIDE DEF tokens
  <2>3. Serves(res.present[1], res.sees[1], c, tokens)
    BY <1>3, <1>4, <1>5, <2>1, <2>2, SingleRight
  <2>4. Whole(c, res)
    BY <1>3, <1>4, <1>5, <2>1, <2>2, SingleRight
  <2>5. Plainly(res)
    BY <1>3, <1>4, <1>5, <2>1, <2>2, SingleRight
  <2>6. res.delta = IF shared THEN [offset |-> Len(old), count |-> c.s] ELSE WholeCopy
    BY <1>3, <1>4, <1>5, <2>1, <2>2, SingleRight
  <2> QED
    BY <2>3, <2>4, <2>5, <2>6 DEF shared, tokens
<1> HIDE DEF single, delta
<1>8. Captured(kind, slot, c) = single
  BY <1>2, <1>7 DEF Answer, Plainly
<1> QED
  BY <1>7, <1>8, OneIsAll
-----------------------------------------------------------------------------
(* The invariant.                                                          *)

KvTypes ==
    /\ session \in Sessions
    /\ held \in [Generators -> Seq(Row)] /\ cache \in [Generators -> Seq(Row)]
    /\ epoch \in [Generators -> Nat]
    /\ slots \in [{"decode", "prefill"} -> Slot]

\* A bound buffer keeps its size; a sliding cache has its window.
Fits == \A n \in Generators :
          /\ session.cap > 0 \/ g.sliding => Len(cache[n]) = session.cap
          /\ g.sliding => held[n] = <<>> \/ g.window \in 1 .. session.cap
Holds == \A n \in Generators : Holding(cache[n], held[n])

\* What a prefill trace baked in is what its key says, once there is a closure.
Baked == \A key \in DOMAIN traced :
           /\ slots["prefill"].state # "new"
           /\ traced[key] = IF Narrow(slots["prefill"]) THEN key[2] - key[1] ELSE -1

KvInv == KvTypes /\ Fits /\ Holds /\ Baked
-----------------------------------------------------------------------------
(* What the calls of the generators ask.                                   *)

Batch(batch, k) ==
    /\ k \in session.batches /\ k \in Nat \ {0}
    /\ batch \in [1 .. k -> Generators] /\ Len(batch) = k
    /\ \A i, j \in 1 .. k : i < j => batch[i] < batch[j]
Olds(batch) == [b \in DOMAIN batch |-> held[batch[b]]]
Listed(batch, count) ==
    [b \in DOMAIN batch |-> held[batch[b]] \o TokensOf(batch[b], Len(held[batch[b]]), count[b])]
Padded(batch, k, s, count) ==
    \/ \A b \in 1 .. k : count[b] = s
    \/ /\ ~g.sliding /\ \E b \in 1 .. k : count[b] = s
       /\ \A b \in 1 .. k : held[batch[b]] = <<>>

\* A batch is of different generators.
LEMMA BatchParts ==
  ASSUME Typed, NEW batch \in Batches
  PROVE  \E k \in Nat : Batch(batch, k)
<1>1. PICK k \in session.batches : batch \in [1 .. k -> Generators]
  BY DEF Batches
<1>2. k \in Nat \ {0}
  BY DEF Typed, SessionAssumption
<1>3. DOMAIN batch = 1 .. k /\ Len(batch) = k
  BY <1>1, <1>2
<1>4. \A i, j \in 1 .. k : i < j => batch[i] < batch[j]
  BY <1>3 DEF Batches
<1> QED
  BY <1>1, <1>2, <1>3, <1>4 DEF Batch

\* What the tokens of a generator from a position on are.
TokensAre(w, n, first, count) ==
    /\ w \in Seq(Row) /\ Len(w) = count
    /\ \A i \in 1 .. count : w[i] = TokenOf(n, first + i - 1) /\ w[i].at = IdOf(first + i - 1)
\* The tokens a generator is fed are rows, in order, at their own positions.
LEMMA TokensRight ==
  ASSUME KvTypes, Typed, NEW n \in Generators, NEW first \in Nat, NEW count \in Nat
  PROVE  TokensAre(TokensOf(n, first, count), n, first, count)
<1> DEFINE f == [i \in 1 .. count |-> TokenOf(n, first + i - 1)]
<1>1. epoch[n] \in Nat /\ n \in Int
  <2>1. session.users \in Nat
    BY DEF Typed, SessionAssumption
  <2> QED
    BY <2>1 DEF KvTypes, Generators
<1>2. ASSUME NEW i \in 1 .. count
      PROVE  f[i] = TokenOf(n, first + i - 1) /\ f[i] \in Row /\ f[i].at = IdOf(first + i - 1)
  <2> DEFINE q == first + i - 1
  <2>1. q \in Int /\ f[i] = TokenOf(n, q)
    OBVIOUS
  <2> HIDE DEF q, f
  <2>2. IdOf(q) \in Int
    BY <2>1 DEF IdOf
  <2>3. 10 * epoch[n] + q \in Int
    BY <1>1, <2>1
  <2>4. TokenOf(n, q) = [gen |-> n, tok |-> 10 * epoch[n] + q, at |-> IdOf(q)]
    BY <1>1, <2>1 DEF TokenOf
  <2> HIDE DEF f
  <2>5. f[i] \in Row /\ f[i].at = IdOf(q)
    BY <1>1, <2>1, <2>2, <2>3, <2>4 DEF Row
  <2> QED
    BY <2>1, <2>5 DEF q
<1>3. f \in [1 .. count -> Row]
  <2>1. f = [i \in 1 .. count |-> f[i]]
    OBVIOUS
  <2> HIDE DEF f
  <2> QED
    BY <1>2, <2>1
<1>4. TokensOf(n, first, count) = Tabulated(f)
  BY DEF TokensOf
<1> HIDE DEF f
<1>5. Tabulated(f) = f
  BY <1>3, TabulatedElements
<1> QED
  BY <1>2, <1>3, <1>4, <1>5 DEF TokensAre

\* The caches of a batch, padded to one capacity.
Past(batch) ==
    [b \in DOMAIN batch |->
       cache[batch[b]] \o Zeros(Widest([d \in DOMAIN batch |-> Len(cache[batch[d]])])
                                  - Len(cache[batch[b]]))]
Caches(past, batch, k) ==
    /\ DOMAIN past = 1 .. k /\ Len(past) = k
    /\ \A b \in 1 .. k : /\ past[b] \in Seq(Row) /\ Holding(past[b], held[batch[b]])
                         /\ session.cap > 0 \/ g.sliding => Len(past[b]) = session.cap
    /\ k = 1 => past[1] = cache[batch[1]]

\* Padding a cache leaves what it holds.
LEMMA HoldingPadded ==
  ASSUME NEW rows \in Seq(Row), NEW tokens \in Seq(Row), NEW more \in Seq(Row),
         Holding(rows, tokens)
  PROVE  Holding(rows \o more, tokens)
<1> DEFINE w == rows \o more
<1>1. /\ w \in Seq(Row) /\ Len(w) = Len(rows) + Len(more)
      /\ \A i \in 1 .. Len(rows) : w[i] = rows[i]
  BY Joining
<1> HIDE DEF w
<1>2. Len(rows) \in Nat /\ Len(more) \in Nat
  OBVIOUS
<1>3. EndOf(Len(tokens)) \in 0 .. Len(w)
  BY <1>1, <1>2 DEF Holding
<1>4. \A k \in 1 .. EndOf(Len(tokens)) : w[k] = rows[k]
  BY <1>1, <1>2 DEF Holding
<1> QED
  BY <1>3, <1>4 DEF Holding, w

\* What the caller passes for a batch holds what its generators hold, each padded to
\* the longest.
LEMMA CachesPadded ==
  ASSUME KvInv, Typed, NEW batch, NEW k, Batch(batch, k)
  PROVE  Caches(Past(batch), batch, k)
<1> DEFINE f == [d \in DOMAIN batch |-> Len(cache[batch[d]])]
           z(b) == Zeros(Widest(f) - Len(cache[batch[b]]))
<1>1. DOMAIN batch = 1 .. k /\ k \in Nat \ {0} /\ \A b \in 1 .. k : batch[b] \in Generators
  BY DEF Batch
<1>2. \A b \in 1 .. k : cache[batch[b]] \in Seq(Row) /\ held[batch[b]] \in Seq(Row)
  BY <1>1 DEF KvInv, KvTypes
<1>3. f \in [1 .. k -> Nat] /\ \A b \in 1 .. k : f[b] = Len(cache[batch[b]])
  BY <1>1, <1>2
<1> HIDE DEF f
<1>4. /\ Widest(f) \in Nat /\ \A b \in 1 .. k : f[b] <= Widest(f)
      /\ \E b \in 1 .. k : f[b] = Widest(f)
  BY <1>1, <1>3, WidestIs
<1>5. \A b \in 1 .. k : z(b) \in Seq(Row) /\ Len(z(b)) = Widest(f) - Len(cache[batch[b]])
  <2> TAKE b \in 1 .. k
  <2>1. PICK n \in Nat : n = Widest(f) - Len(cache[batch[b]])
    BY <1>2, <1>3, <1>4
  <2>2. Zeros(n) \in Seq(Row) /\ Len(Zeros(n)) = n
    BY ZerosType
  <2> QED
    BY <2>1, <2>2
<1>6. Past(batch) = [b \in 1 .. k |-> cache[batch[b]] \o z(b)]
  BY <1>1 DEF Past, f
<1> HIDE DEF z
<1>7. DOMAIN Past(batch) = 1 .. k /\ \A b \in 1 .. k : Past(batch)[b] = cache[batch[b]] \o z(b)
  BY <1>6
<1>8. Len(Past(batch)) = k
  BY <1>1, <1>6
<1>9. ASSUME NEW b \in 1 .. k
      PROVE  /\ Past(batch)[b] \in Seq(Row) /\ Holding(Past(batch)[b], held[batch[b]])
             /\ session.cap > 0 \/ g.sliding => Len(Past(batch)[b]) = session.cap
  <2>1. Holding(cache[batch[b]], held[batch[b]])
    BY <1>1 DEF KvInv, Holds
  <2>2. Holding(cache[batch[b]] \o z(b), held[batch[b]])
    BY <1>2, <1>5, <2>1, HoldingPadded
  <2>3. /\ cache[batch[b]] \o z(b) \in Seq(Row)
        /\ Len(cache[batch[b]] \o z(b)) = Len(cache[batch[b]]) + Len(z(b))
    BY <1>2, <1>5, Joining
  <2>4. session.cap > 0 \/ g.sliding => Widest(f) = session.cap /\ Len(cache[batch[b]]) = session.cap
    BY <1>1, <1>3, <1>4 DEF KvInv, Fits
  <2>5. session.cap > 0 \/ g.sliding => Len(cache[batch[b]] \o z(b)) = session.cap
    <3>1. Len(cache[batch[b]]) \in Nat
      BY <1>2
    <3> QED
      BY <1>4, <1>5, <2>3, <2>4, <3>1
  <2> QED
    BY <1>7, <2>2, <2>3, <2>5
<1>10. k = 1 => Past(batch)[1] = cache[batch[1]]
  <2> SUFFICES ASSUME k = 1 PROVE Past(batch)[1] = cache[batch[1]]
    OBVIOUS
  <2>1. 1 \in 1 .. k /\ \A b \in 1 .. k : b = 1
    OBVIOUS
  <2>2. Widest(f) = Len(cache[batch[1]])
    BY <1>3, <1>4, <2>1
  <2>3. z(1) \in Seq(Row) /\ Len(z(1)) = Len(cache[batch[1]]) - Len(cache[batch[1]])
    BY <1>5, <2>1, <2>2
  <2>4. Len(z(1)) = 0
    <3>1. Len(cache[batch[1]]) \in Nat
      BY <1>2, <2>1
    <3> QED
      BY <2>3, <3>1
  <2>5. cache[batch[1]] \o z(1) = cache[batch[1]]
    <3>1. cache[batch[1]] \in Seq(Row)
      BY <1>2, <2>1
    <3>2. z(1) = <<>>
      BY <2>3, <2>4
    <3> QED
      BY <3>1, <3>2
  <2> QED
    BY <1>7, <2>1, <2>5
<1> QED
  BY <1>7, <1>8, <1>9, <1>10 DEF Caches

\* What a batch has held and what it is to hold.
Lists(batch, k, count) ==
    /\ DOMAIN batch = 1 .. k /\ k \in Nat \ {0}
    /\ \A b \in 1 .. k :
         /\ batch[b] \in Generators /\ count[b] \in Nat
         /\ Olds(batch)[b] = held[batch[b]] /\ held[batch[b]] \in Seq(Row)
         /\ Listed(batch, count)[b] \in Seq(Row)
         /\ Len(Listed(batch, count)[b]) = Len(held[batch[b]]) + count[b]
         /\ \A i \in 1 .. Len(held[batch[b]]) : Listed(batch, count)[b][i] = held[batch[b]][i]
         /\ \A i \in 1 .. count[b] :
              Listed(batch, count)[b][Len(held[batch[b]]) + i]
                = TokenOf(batch[b], Len(held[batch[b]]) + i - 1)

\* What a batch is to hold continues what it held with the tokens it is fed.
LEMMA ListedParts ==
  ASSUME KvTypes, Typed, NEW batch, NEW k, Batch(batch, k), NEW count \in [1 .. k -> Nat]
  PROVE  Lists(batch, k, count)
<1>1. DOMAIN batch = 1 .. k /\ k \in Nat \ {0} /\ \A b \in 1 .. k : batch[b] \in Generators
  BY DEF Batch
<1>2. ASSUME NEW b \in 1 .. k
      PROVE  /\ batch[b] \in Generators /\ count[b] \in Nat
             /\ Olds(batch)[b] = held[batch[b]] /\ held[batch[b]] \in Seq(Row)
             /\ Listed(batch, count)[b] \in Seq(Row)
             /\ Len(Listed(batch, count)[b]) = Len(held[batch[b]]) + count[b]
             /\ \A i \in 1 .. Len(held[batch[b]]) :
                  Listed(batch, count)[b][i] = held[batch[b]][i]
             /\ \A i \in 1 .. count[b] :
                  Listed(batch, count)[b][Len(held[batch[b]]) + i]
                    = TokenOf(batch[b], Len(held[batch[b]]) + i - 1)
  <2>1. batch[b] \in Generators /\ count[b] \in Nat /\ held[batch[b]] \in Seq(Row)
    BY <1>1 DEF KvTypes
  <2>2. PICK first \in Nat : first = Len(held[batch[b]])
    BY <2>1
  <2> DEFINE w == TokensOf(batch[b], first, count[b])
             a == held[batch[b]]
  <2>3. TokensAre(w, batch[b], first, count[b])
    BY <2>1, TokensRight
  <2>4. Listed(batch, count)[b] = a \o w /\ Olds(batch)[b] = a
    BY <1>1, <2>2 DEF Listed, Olds
  <2> HIDE DEF w
  <2>5. /\ w \in Seq(Row) /\ Len(w) = count[b]
        /\ \A i \in 1 .. count[b] : w[i] = TokenOf(batch[b], first + i - 1)
    BY <2>3 DEF TokensAre
  <2>6. /\ a \o w \in Seq(Row) /\ Len(a \o w) = Len(a) + Len(w)
        /\ \A i \in 1 .. Len(a) : (a \o w)[i] = a[i]
        /\ \A i \in 1 .. Len(w) : (a \o w)[Len(a) + i] = w[i]
    BY <2>1, <2>5, Joining
  <2> QED
    BY <2>1, <2>2, <2>4, <2>5, <2>6
<1> QED
  BY <1>1, <1>2 DEF Lists

\* The ids of a step: its positions, from one.
LEMMA StepNumbers ==
  ASSUME NEW c, NEW k \in Nat \ {0}, NEW s \in Nat \ {0}, NEW f \in [1 .. k -> Int],
         c.s = s, c.ids = [b \in 1 .. k |-> [i \in 1 .. s |-> f[b] + i]],
         NEW b \in 1 .. k, f[b] \in Nat, c.total = s => f[b] = 0 /\ f[1] = 0
  PROVE  Numbers(c, k, b, f[b])
<1>1. ASSUME NEW m \in 1 .. k
      PROVE  IdRow(c.ids[m], s) /\ \A i \in 1 .. s : c.ids[m][i] = f[m] + i
  <2>1. c.ids[m] = [i \in 1 .. s |-> f[m] + i]
    OBVIOUS
  <2> DEFINE h == [i \in 1 .. s |-> f[m] + i]
  <2>2. h \in [1 .. s -> Int]
    OBVIOUS
  <2>3. \A i \in 1 .. s : h[i] = f[m] + i
    OBVIOUS
  <2> HIDE DEF h
  <2>4. h \in Seq(Int) /\ Len(h) = s
    BY <2>2
  <2> QED
    BY <2>1, <2>3, <2>4 DEF IdRow, h
<1>2. Len(c.ids) = k
  <2> DEFINE h == [d \in 1 .. k |-> [i \in 1 .. s |-> f[d] + i]]
  <2>1. DOMAIN h = 1 .. k
    OBVIOUS
  <2> HIDE DEF h
  <2>2. Len(h) = k
    BY <2>1
  <2> QED
    BY <2>2 DEF h
<1>3. IdRows(c.ids, k, s)
  BY <1>1, <1>2 DEF IdRows
<1>4. c.ids[1][1] = f[1] + 1
  <2>1. 1 \in 1 .. k /\ 1 \in 1 .. s
    OBVIOUS
  <2> QED
    BY <1>1, <2>1
<1>5. c.total = s => f[b] = 0 /\ c.ids[1][1] = 1
  BY <1>4
<1> QED
  BY <1>1, <1>3, <1>5 DEF Numbers

\* A call that is what its generators mean by it.
Meaning(c, batch, k, s, count) ==
    /\ AskAll(c, k, Olds(batch), Listed(batch, count)) /\ Caches(c.past, batch, k) /\ c.s = s
    /\ \A b \in 1 .. k : Numbers(c, k, b, First(c, Listed(batch, count)[b]))

\* A step asks about the new tokens of each member.
LEMMA StepAsks ==
  ASSUME KvInv, Typed, NEW batch, NEW k, Batch(batch, k), NEW s \in Nat \ {0},
         NEW count \in [1 .. k -> 1 .. s], Padded(batch, k, s, count)
  PROVE  /\ Meaning(CallOf(batch, s, count), batch, k, s, count)
         /\ \A b \in 1 .. k : CallOf(batch, s, count).new[b] # <<>>
<1> DEFINE c == CallOf(batch, s, count)
           L == [b \in 1 .. k |-> Len(held[batch[b]])]
           sums == [b \in 1 .. k |-> Len(held[batch[b]]) + count[b]]
           lists == Listed(batch, count)
           T(b) == lists[b]
<1>0. KvTypes /\ count \in [1 .. k -> Nat]
  BY DEF KvInv
<1>1. Lists(batch, k, count)
  BY <1>0, ListedParts
<1>2. /\ DOMAIN batch = 1 .. k /\ k \in Nat \ {0}
      /\ \A b \in 1 .. k :
           /\ batch[b] \in Generators /\ count[b] \in Nat
           /\ Olds(batch)[b] = held[batch[b]] /\ held[batch[b]] \in Seq(Row)
           /\ T(b) \in Seq(Row)
           /\ Len(T(b)) = Len(held[batch[b]]) + count[b]
           /\ \A i \in 1 .. Len(held[batch[b]]) : T(b)[i] = held[batch[b]][i]
           /\ \A i \in 1 .. count[b] :
                T(b)[Len(held[batch[b]]) + i] = TokenOf(batch[b], Len(held[batch[b]]) + i - 1)
  BY <1>1 DEF Lists
<1>3. /\ c.s = s /\ c.total = Widest(sums)
      /\ c.lengths = [b \in 1 .. k |-> Len(held[batch[b]]) + count[b] - 1]
      /\ c.past = Past(batch)
      /\ c.new = [b \in 1 .. k |-> TokensOf(batch[b], Len(held[batch[b]]), s)]
      /\ c.ids = [b \in 1 .. k |-> [i \in 1 .. s |-> Len(held[batch[b]]) + i]]
  BY <1>2 DEF CallOf, Past
<1>4. /\ L \in [1 .. k -> Nat] /\ sums \in [1 .. k -> Nat]
      /\ \A b \in 1 .. k : L[b] = Len(held[batch[b]]) /\ sums[b] = L[b] + count[b] /\ L[b] \in Nat
  BY <1>2
<1>5. c.ids = [b \in 1 .. k |-> [i \in 1 .. s |-> L[b] + i]]
  BY <1>3
<1> HIDE DEF c, L, sums, lists
<1>6. /\ c.total \in Nat /\ \A b \in 1 .. k : sums[b] <= c.total
      /\ \E b \in 1 .. k : sums[b] = c.total
  <2>1. k \in Nat \ {0} /\ sums \in [1 .. k -> Nat]
    BY <1>2, <1>4
  <2>2. /\ Widest(sums) \in Nat /\ \A b \in 1 .. k : sums[b] <= Widest(sums)
        /\ \E b \in 1 .. k : sums[b] = Widest(sums)
    BY <2>1, WidestIs
  <2> QED
    BY <1>3, <2>2
<1>7. Caches(c.past, batch, k)
  BY <1>3, CachesPadded
<1>8. \A b \in 1 .. k : count[b] \in 1 .. s /\ (count[b] # s => L[b] = 0)
  <2> TAKE b \in 1 .. k
  <2>1. held[batch[b]] = <<>> => L[b] = 0
    BY <1>4
  <2> QED
    BY <2>1 DEF Padded
<1>9. \A b \in 1 .. k : c.total = s => L[b] = 0
  BY <1>4, <1>6, <1>8
<1>10. ASSUME NEW b \in 1 .. k
       PROVE  /\ First(c, T(b)) = L[b] /\ Len(T(b)) = L[b] + count[b]
              /\ L[b] = Len(Olds(batch)[b]) /\ L[b] = Len(held[batch[b]])
              /\ L[b] \in Nat /\ count[b] \in 1 .. s
  <2>1. /\ Len(T(b)) = L[b] + count[b] /\ L[b] \in Nat /\ count[b] \in 1 .. s
        /\ count[b] # s => L[b] = 0
    BY <1>2, <1>4, <1>8
  <2>2. First(c, T(b)) = Larger(L[b] + count[b] - s, 0)
    BY <1>3, <2>1 DEF First
  <2>3. Larger(L[b] + count[b] - s, 0) = L[b]
    BY <2>1 DEF Larger
  <2>4. L[b] = Len(held[batch[b]]) /\ Olds(batch)[b] = held[batch[b]]
    BY <1>2, <1>4
  <2> QED
    BY <2>1, <2>2, <2>3, <2>4
<1>11. \A b \in 1 .. k : Numbers(c, k, b, L[b])
  <2> TAKE b \in 1 .. k
  <2>1. 1 \in 1 .. k
    BY <1>2
  <2>2. L[b] \in Nat /\ (c.total = s => L[b] = 0 /\ L[1] = 0) /\ L \in [1 .. k -> Int]
    BY <1>4, <1>9, <2>1
  <2> QED
    BY <1>2, <1>3, <1>5, <2>2, StepNumbers
<1>12. \A b \in 1 .. k : Turned(c, b, T(b))
  <2> TAKE b \in 1 .. k
  <2> DEFINE first == L[b]
  <2>1. Numbers(c, k, b, first) /\ First(c, T(b)) = first
    BY <1>10, <1>11
  <2> HIDE DEF first
  <2>2. GqaRotaryRows(g, c, b, first) # <<>> =>
          \A i \in 1 .. c.s : GqaRotaryRows(g, c, b, first)[i] = IdOf(first + i - 1)
    BY <2>1, RotaryRight
  <2> QED
    BY <2>1, <2>2 DEF Turned, Turns
<1>13. ASSUME NEW b \in 1 .. k
       PROVE  TokensAre(c.new[b], batch[b], L[b], s)
  <2>1. c.new[b] = TokensOf(batch[b], L[b], s)
    BY <1>3, <1>4
  <2> DEFINE first == L[b]
             n == batch[b]
  <2>2. first \in Nat /\ n \in Generators
    BY <1>2, <1>4
  <2> HIDE DEF first, n
  <2>3. TokensAre(TokensOf(n, first, s), n, first, s)
    BY <1>0, <2>2, TokensRight
  <2> QED
    BY <2>1, <2>3 DEF first, n
<1>14. ASSUME NEW b \in 1 .. k
       PROVE  c.new[b] # <<>> /\ Brings(c, b, Olds(batch)[b], T(b))
  <2>1. /\ c.new[b] \in Seq(Row) /\ Len(c.new[b]) = s
        /\ \A i \in 1 .. s : /\ c.new[b][i] = TokenOf(batch[b], L[b] + i - 1)
                             /\ c.new[b][i].at = IdOf(L[b] + i - 1)
    BY <1>13 DEF TokensAre
  <2>2. c.new[b] # <<>>
    BY <2>1
  <2>3. Len(Olds(batch)[b]) = L[b] /\ First(c, T(b)) = L[b] /\ Len(T(b)) - L[b] = count[b]
    BY <1>10
  <2>4. \A i \in 1 .. count[b] : c.new[b][i] = T(b)[L[b] + i]
    <3>1. \A i \in 1 .. count[b] : i \in 1 .. s
      BY <1>10
    <3>2. \A i \in 1 .. count[b] : T(b)[L[b] + i] = TokenOf(batch[b], L[b] + i - 1)
      <4>1. \A i \in 1 .. count[b] :
              T(b)[Len(held[batch[b]]) + i] = TokenOf(batch[b], Len(held[batch[b]]) + i - 1)
        BY <1>2
      <4>2. L[b] = Len(held[batch[b]])
        BY <1>10
      <4> HIDE DEF T
      <4> QED
        BY <4>1, <4>2
    <3> QED
      BY <2>1, <3>1, <3>2
  <2> QED
    BY <1>3, <2>1, <2>2, <2>3, <2>4 DEF Brings
<1>15. ASSUME NEW b \in 1 .. k
       PROVE  Asks(c, b, Olds(batch)[b], T(b))
  <2>1. c.past[b] \in Seq(Row) /\ Holding(c.past[b], Olds(batch)[b])
        /\ (g.sliding => Len(c.past[b]) = session.cap)
    BY <1>2, <1>7 DEF Caches
  <2>2. Len(T(b)) \in 1 .. c.total
    BY <1>4, <1>6, <1>8, <1>10
  <2>3. c.lengths[b] = Len(T(b)) - 1
    <3>1. PICK n \in Nat : n = Len(held[batch[b]])
      BY <1>2
    <3>2. PICK m \in Nat : m = count[b]
      BY <1>2
    <3>3. c.lengths[b] = n + m - 1
      BY <1>3, <3>1, <3>2
    <3>4. Len(T(b)) = n + m
      BY <1>2, <3>1, <3>2
    <3> QED
      BY <3>3, <3>4
  <2>4. g.sliding => c.s <= Len(T(b))
    BY <1>3, <1>4, <1>8, <1>10 DEF Padded
  <2>5. /\ Len(Olds(batch)[b]) <= Len(T(b))
        /\ \A i \in 1 .. Len(Olds(batch)[b]) : T(b)[i] = Olds(batch)[b][i]
    <3>1. Olds(batch)[b] = held[batch[b]]
      BY <1>2
    <3>2. \A i \in 1 .. Len(held[batch[b]]) : T(b)[i] = held[batch[b]][i]
      BY <1>2
    <3>3. Len(Olds(batch)[b]) <= Len(T(b))
      BY <1>10
    <3> QED
      BY <3>1, <3>2, <3>3
  <2>6. c.s \in Nat \ {0} /\ Olds(batch)[b] \in Seq(Row) /\ T(b) \in Seq(Row)
    BY <1>2, <1>3
  <2> QED
    BY <1>6, <1>14, <2>1, <2>2, <2>3, <2>4, <2>5, <2>6 DEF Asks
<1>16. k = 1 => c.total = Len(T(1)) /\ Len(T(1)) = Len(Olds(batch)[1]) + c.s
  <2> SUFFICES ASSUME k = 1 PROVE c.total = Len(T(1)) /\ Len(T(1)) = Len(Olds(batch)[1]) + c.s
    OBVIOUS
  <2>1. 1 \in 1 .. k /\ \A b \in 1 .. k : b = 1
    OBVIOUS
  <2>2. count[1] = s
    BY <2>1 DEF Padded
  <2>3. c.total = sums[1]
    BY <1>6, <2>1
  <2>4. sums[1] = L[1] + count[1] /\ Len(T(1)) = L[1] + count[1] /\ L[1] = Len(Olds(batch)[1])
    BY <1>4, <1>10, <2>1
  <2> QED
    BY <1>3, <2>2, <2>3, <2>4
<1>17. /\ Len(c.past) = k /\ DOMAIN c.past = 1 .. k /\ DOMAIN c.lengths = 1 .. k
       /\ DOMAIN c.new = 1 .. k
  BY <1>3, <1>7 DEF Caches
<1>18. AskAll(c, k, Olds(batch), lists)
  BY <1>2, <1>12, <1>15, <1>16, <1>17 DEF AskAll
<1>19. \A b \in 1 .. k : Numbers(c, k, b, First(c, T(b)))
  BY <1>10, <1>11
<1>20. Meaning(c, batch, k, s, count)
  BY <1>3, <1>7, <1>18, <1>19 DEF Meaning, lists
<1> QED
  BY <1>14, <1>20 DEF c

\* A read-only layer asks about the last tokens that are held.
LEMMA RereadAsks ==
  ASSUME KvInv, Typed, NEW batch, NEW k, Batch(batch, k), NEW s \in Nat \ {0},
         NEW count, count = [b \in DOMAIN batch |-> 0], ~g.sliding,
         \A b \in 1 .. k : Len(held[batch[b]]) >= s
  PROVE  /\ Meaning(RereadOf(batch, s), batch, k, s, count)
         /\ \A b \in 1 .. k : /\ RereadOf(batch, s).new[b] = <<>>
                              /\ Listed(batch, count)[b] = held[batch[b]]
<1> DEFINE c == RereadOf(batch, s)
           L == [b \in 1 .. k |-> Len(held[batch[b]])]
           F == [b \in 1 .. k |-> Len(held[batch[b]]) - s]
           sums == [b \in 1 .. k |-> Len(held[batch[b]]) + count[b]]
           T(b) == Listed(batch, count)[b]
<1>0. KvTypes /\ DOMAIN batch = 1 .. k /\ k \in Nat \ {0} /\ count \in [1 .. k -> Nat]
      /\ \A b \in 1 .. k : count[b] = 0
  BY DEF KvInv, Batch
<1>1. Lists(batch, k, count)
  BY <1>0, ListedParts
<1>2. \A b \in 1 .. k :
        /\ Olds(batch)[b] = held[batch[b]] /\ held[batch[b]] \in Seq(Row)
        /\ T(b) \in Seq(Row) /\ Len(T(b)) = Len(held[batch[b]]) + count[b]
        /\ \A i \in 1 .. Len(held[batch[b]]) : T(b)[i] = held[batch[b]][i]
  BY <1>1 DEF Lists
<1>3. /\ c.s = s /\ c.total = Widest(sums)
      /\ c.lengths = [b \in 1 .. k |-> Len(held[batch[b]]) + count[b] - 1]
      /\ c.past = Past(batch)
      /\ c.new = [b \in 1 .. k |-> <<>>]
      /\ c.ids = [b \in 1 .. k |-> [i \in 1 .. s |-> Len(held[batch[b]]) - s + i]]
  BY <1>0 DEF RereadOf, CallOf, Past
<1>4. /\ L \in [1 .. k -> Nat] /\ sums \in [1 .. k -> Nat] /\ F \in [1 .. k -> Int]
      /\ \A b \in 1 .. k : /\ L[b] = Len(held[batch[b]]) /\ sums[b] = L[b] /\ L[b] \in Nat
                           /\ F[b] = L[b] - s /\ F[b] \in Nat /\ L[b] >= s
  BY <1>0, <1>2
<1>5. c.ids = [b \in 1 .. k |-> [i \in 1 .. s |-> F[b] + i]]
  BY <1>3
<1> HIDE DEF c, L, F, sums, T
<1>6. c.total \in Nat /\ \A b \in 1 .. k : sums[b] <= c.total
  <2>1. k \in Nat \ {0} /\ sums \in [1 .. k -> Nat]
    BY <1>0, <1>4
  <2>2. Widest(sums) \in Nat /\ \A b \in 1 .. k : sums[b] <= Widest(sums)
    BY <2>1, WidestIs
  <2> QED
    BY <1>3, <2>2
<1>7. Caches(c.past, batch, k)
  BY <1>3, CachesPadded
<1>8. ASSUME NEW b \in 1 .. k PROVE T(b) = held[batch[b]]
  <2>1. T(b) \in Seq(Row) /\ held[batch[b]] \in Seq(Row) /\ Len(T(b)) = L[b] + count[b]
    BY <1>2, <1>4
  <2>2. Len(T(b)) = L[b] /\ Len(held[batch[b]]) = L[b]
    BY <1>0, <1>4, <2>1
  <2>3. \A i \in 1 .. Len(T(b)) : T(b)[i] = held[batch[b]][i]
    BY <1>2, <2>2
  <2> QED
    BY <2>1, <2>2, <2>3, SameRows
<1>9. ASSUME NEW b \in 1 .. k PROVE First(c, T(b)) = F[b] /\ Len(T(b)) = L[b]
  <2>1. Len(T(b)) = L[b]
    BY <1>4, <1>8
  <2>2. First(c, T(b)) = Larger(L[b] - s, 0)
    BY <1>3, <2>1 DEF First
  <2>3. Larger(L[b] - s, 0) = F[b]
    BY <1>4 DEF Larger
  <2> QED
    BY <2>1, <2>2, <2>3
<1>10. \A b \in 1 .. k : c.total = s => F[b] = 0
  BY <1>4, <1>6
<1>11. \A b \in 1 .. k : Numbers(c, k, b, F[b])
  <2> TAKE b \in 1 .. k
  <2>1. 1 \in 1 .. k
    BY <1>0
  <2>2. F[b] \in Nat /\ (c.total = s => F[b] = 0 /\ F[1] = 0) /\ F \in [1 .. k -> Int]
    BY <1>4, <1>10, <2>1
  <2> QED
    BY <1>0, <1>3, <1>5, <2>2, StepNumbers
<1>12. \A b \in 1 .. k : Turned(c, b, T(b))
  <2> TAKE b \in 1 .. k
  <2> DEFINE first == F[b]
  <2>1. Numbers(c, k, b, first) /\ First(c, T(b)) = first
    BY <1>9, <1>11
  <2> HIDE DEF first
  <2>2. GqaRotaryRows(g, c, b, first) # <<>> =>
          \A i \in 1 .. c.s : GqaRotaryRows(g, c, b, first)[i] = IdOf(first + i - 1)
    BY <2>1, RotaryRight
  <2> QED
    BY <2>1, <2>2 DEF Turned, Turns
<1>13. \A b \in 1 .. k : c.new[b] = <<>>
  BY <1>3
<1>14. ASSUME NEW b \in 1 .. k
       PROVE  Asks(c, b, Olds(batch)[b], T(b))
  <2>0. Olds(batch)[b] = T(b) /\ T(b) \in Seq(Row)
    BY <1>2, <1>8
  <2>1. c.past[b] \in Seq(Row) /\ Holding(c.past[b], T(b))
    BY <1>7, <1>8 DEF Caches
  <2>2. Len(T(b)) \in 1 .. c.total
    BY <1>4, <1>6, <1>9
  <2>3. c.lengths[b] = Len(T(b)) - 1
    <3>1. PICK n \in Nat : n = Len(held[batch[b]])
      BY <1>2
    <3>2. c.lengths[b] = n + 0 - 1
      BY <1>0, <1>3, <3>1
    <3>3. Len(T(b)) = n
      BY <1>8, <3>1
    <3> QED
      BY <3>2, <3>3
  <2>4. c.s <= Len(T(b)) /\ c.s \in Nat \ {0}
    BY <1>3, <1>4, <1>9
  <2>5. Len(T(b)) <= Len(T(b))
    BY <2>0
  <2> QED
    BY <1>6, <1>13, <2>0, <2>1, <2>2, <2>3, <2>4, <2>5 DEF Asks
<1>15. /\ Len(c.past) = k /\ DOMAIN c.past = 1 .. k /\ DOMAIN c.lengths = 1 .. k
       /\ DOMAIN c.new = 1 .. k
  BY <1>3, <1>7 DEF Caches
<1>16. AskAll(c, k, Olds(batch), Listed(batch, count))
  <2>1. c.new[1] = <<>>
    BY <1>0, <1>13
  <2> QED
    BY <1>0, <1>12, <1>14, <1>15, <2>1 DEF AskAll, T
<1>17. \A b \in 1 .. k : Numbers(c, k, b, First(c, T(b)))
  BY <1>9, <1>11
<1>18. Meaning(c, batch, k, s, count)
  BY <1>3, <1>7, <1>16, <1>17 DEF Meaning, T
<1> QED
  BY <1>8, <1>13, <1>18 DEF c, T
-----------------------------------------------------------------------------
(* What a step computes.                                                   *)

\* The trace a prefill finds or makes baked in its own past.
LEMMA BakedNow ==
  ASSUME KvInv, NEW c, NEW slot, slot = Discovered(slots["prefill"], c)
  PROVE  BakedRight(slot, c)
<1> DEFINE key == ShapeKey(c)
<1>1. key = <<c.s, IF session.mask THEN c.total ELSE 0, Len(c.past[1])>>
  BY DEF ShapeKey
<1>2. Narrow(slot) => key[1] = c.s /\ key[2] = c.total
  BY <1>1 DEF Narrow
<1> HIDE DEF key
<1>3. CASE key \in DOMAIN traced
  <2>1. /\ slots["prefill"].state # "new"
        /\ traced[key] = IF Narrow(slots["prefill"]) THEN key[2] - key[1] ELSE -1
    BY <1>3 DEF KvInv, Baked
  <2>2. slot = slots["prefill"]
    BY <2>1 DEF Discovered
  <2>3. Retraced(slot, c)[key] = traced[key]
    BY <1>3 DEF Retraced, key
  <2> QED
    BY <1>2, <2>1, <2>2, <2>3 DEF BakedRight, key
<1>4. CASE key \notin DOMAIN traced
  <2>1. Retraced(slot, c)[key] = IF Narrow(slot) THEN c.total - c.s ELSE -1
    BY <1>4 DEF Retraced, StaticPast, key
  <2> QED
    BY <2>1 DEF BakedRight, key
<1> QED
  BY <1>3, <1>4

\* A slot stays a slot, and keeps the contract it was built for.
LEMMA DiscoveredSlot ==
  ASSUME NEW slot \in Slot, NEW c
  PROVE  /\ Discovered(slot, c) \in Slot
         /\ slot.state # "new" => Discovered(slot, c) = slot
<1>1. (Contract(c) = "shared") \in BOOLEAN
  OBVIOUS
<1>2. [slot EXCEPT !.state = "built", !.shared = Contract(c) = "shared"] \in Slot
  BY <1>1 DEF Slot
<1> QED
  BY <1>2 DEF Discovered

\* The call is one that a closure may be applied to when its slot accepts it.
LEMMA AppliedCaught ==
  ASSUME KvInv, Typed, NEW batch, NEW k, Batch(batch, k), NEW s, NEW count, NEW c,
         Meaning(c, batch, k, s, count), c.new[1] # <<>> => WithinContract(c),
         NEW slot, Capturable, Accepts(slot, c)
  PROVE  k = 1 /\ Caught(c, Olds(batch)[1], Listed(batch, count)[1])
<1>1. k = 1
  BY DEF Batch, Capturable
<1>2. c.new[1] # <<>>
  BY DEF Accepts
<1>3. AskAll(c, k, Olds(batch), Listed(batch, count)) /\ 1 \in 1 .. k
  BY <1>1 DEF Meaning
<1>4. /\ Len(c.past) = 1 /\ Asks(c, 1, Olds(batch)[1], Listed(batch, count)[1])
      /\ c.total = Len(Listed(batch, count)[1])
      /\ Len(Listed(batch, count)[1]) = Len(Olds(batch)[1]) + c.s
  BY <1>1, <1>2, <1>3 DEF AskAll
<1>5. Numbers(c, 1, 1, First(c, Listed(batch, count)[1]))
  BY <1>1, <1>3 DEF Meaning
<1>6. Len(Olds(batch)[1]) = First(c, Listed(batch, count)[1])
  <2>1. Brings(c, 1, Olds(batch)[1], Listed(batch, count)[1])
    BY <1>2, <1>4, AsksParts
  <2> QED
    BY <2>1 DEF Brings
<1> QED
  BY <1>1, <1>2, <1>4, <1>5, <1>6 DEF Caught

\* What a call is answered with is right, if it is answered.
Result(c) ==
    LET kind == SlotOf(c)
        slot == Discovered(slots[kind], c)
        result == Captured(kind, slot, c)
        applied == Tried(c) /\ Accepts(slot, c)
        broken == applied /\ ~result.ok
    IN IF applied /\ ~broken THEN result ELSE GroupQueryAttention(g, c)
\* Whichever route answers a call, captured or eager, it answers every member rightly.
LEMMA ResultRight ==
  ASSUME KvInv, Typed, NEW batch, NEW k, Batch(batch, k), NEW s, NEW count, NEW c,
         Meaning(c, batch, k, s, count), c.new[1] # <<>> => WithinContract(c),
         Result(c).ok
  PROVE  /\ Right(c, k, Listed(batch, count), Result(c))
         /\ g.sliding => g.window \in 1 .. session.cap
<1> DEFINE kind == SlotOf(c)
           slot == Discovered(slots[kind], c)
           result == Captured(kind, slot, c)
           applied == Tried(c) /\ Accepts(slot, c)
           broken == applied /\ ~result.ok
           lists == Listed(batch, count)
<1>1. Result(c) = IF applied /\ ~broken THEN result ELSE GroupQueryAttention(g, c)
  BY DEF Result
<1>2. CASE applied /\ ~broken
  <2>1. result.ok /\ Result(c) = result /\ Capturable /\ Accepts(slot, c)
    BY <1>1, <1>2 DEF Tried
  <2>2. kind \in {"decode", "prefill"}
    BY DEF SlotOf
  <2>3. slots[kind] \in Slot
    BY <2>2 DEF KvInv, KvTypes
  <2> HIDE DEF kind
  <2>4. slot \in Slot
    BY <2>3, DiscoveredSlot
  <2>5. kind = "prefill" => BakedRight(slot, c)
    BY BakedNow
  <2> HIDE DEF slot, result
  <2>6. k = 1 /\ Caught(c, Olds(batch)[1], Listed(batch, count)[1])
    BY <2>1, AppliedCaught
  <2> DEFINE old == Olds(batch)[1]
  <2>7. Caught(c, old, lists[1]) /\ kind = SlotOf(c) /\ Captured(kind, slot, c).ok
    BY <2>1, <2>6 DEF kind, result
  <2> HIDE DEF old, lists
  <2>8. Right(c, 1, lists, Captured(kind, slot, c))
    BY <2>1, <2>4, <2>5, <2>7, CapturedRight
  <2>9. ~g.sliding
    BY <2>1 DEF Capturable
  <2> QED
    BY <2>1, <2>6, <2>8, <2>9 DEF result, lists
<1>3. CASE ~(applied /\ ~broken)
  <2>1. Result(c) = GroupQueryAttention(g, c)
    BY <1>1, <1>3
  <2>2. AskAll(c, k, Olds(batch), Listed(batch, count))
    BY DEF Meaning
  <2> DEFINE olds == Olds(batch)
  <2>3. GroupQueryAttention(g, c).ok /\ AskAll(c, k, olds, lists)
    BY <2>1, <2>2
  <2> HIDE DEF applied, broken, olds, lists
  <2>4. /\ Right(c, k, lists, GroupQueryAttention(g, c))
        /\ g.sliding => g.window \in 1 .. session.cap
    BY <2>3, EagerRight
  <2> QED
    BY <2>1, <2>4 DEF lists
<1> QED
  BY <1>2, <1>3
-----------------------------------------------------------------------------
(* What reaches the caller.                                                *)

\* The buffer the caller will pass next is the whole present.
LEMMA OutIs ==
  ASSUME Typed, NEW batch, NEW k \in Nat, NEW c, NEW result,
         Caches(c.past, batch, k), Whole(c, result),
         NEW b \in 1 .. k, NEW into, session.alias => into = cache[batch[b]]
  PROVE  CopiedOut(into, result.present[b], result.delta, session.alias) = result.present[b]
<1>1. CASE result.delta = WholeCopy
  <2>1. ~(result.delta.count > 0)
    BY <1>1 DEF WholeCopy
  <2> QED
    BY <2>1 DEF CopiedOut
<1>2. CASE ~session.alias
  BY <1>2 DEF CopiedOut
<1>3. CASE result.delta # WholeCopy /\ session.alias
  <2>1. PICK rows \in Seq(Row), past \in Nat :
          /\ Len(c.past) = 1 /\ Len(rows) > 0 /\ past + Len(rows) <= Len(c.past[1])
          /\ result.present[1] = Overwritten(c.past[1], rows, past)
          /\ result.delta = [offset |-> past, count |-> Len(rows)]
    BY <1>3 DEF Whole
  <2>2. k = 1 /\ b = 1 /\ c.past[1] \in Seq(Row) /\ c.past[1] = cache[batch[1]]
    BY <2>1 DEF Caches
  <2>3. session.alias = TRUE
    <3>1. session.alias \in BOOLEAN
      BY DEF Typed, SessionAssumption
    <3> QED
      BY <1>3, <3>1
  <2> DEFINE old == c.past[1]
  <2>4. into = old
    BY <1>3, <2>2
  <2>5. old \in Seq(Row) /\ past + Len(rows) <= Len(old) /\ Len(rows) > 0
    BY <2>1, <2>2
  <2> HIDE DEF old
  <2>6. CopiedOut(old, Overwritten(old, rows, past), [offset |-> past, count |-> Len(rows)], TRUE)
          = Overwritten(old, rows, past)
    BY <2>5, DeltaIsWhole
  <2>7. result.present[b] = Overwritten(old, rows, past)
    BY <2>1, <2>2 DEF old
  <2> QED
    BY <2>1, <2>3, <2>4, <2>6, <2>7
<1> QED
  BY <1>1, <1>2, <1>3

\* Every member of a batch has its own place in it.
LEMMA PlaceIs ==
  ASSUME Typed, NEW batch, NEW k, Batch(batch, k), NEW b \in 1 .. k
  PROVE  (CHOOSE d \in DOMAIN batch : batch[d] = batch[b]) = b
<1>1. DOMAIN batch = 1 .. k /\ k \in Nat
  BY DEF Batch
<1>2. \A d \in 1 .. k : batch[d] \in Nat
  <2>1. session.users \in Nat
    BY DEF Typed, SessionAssumption
  <2> QED
    BY <2>1 DEF Batch, Generators
<1>3. ASSUME NEW d \in 1 .. k, batch[d] = batch[b] PROVE d = b
  <2>1. d < b => batch[d] < batch[b]
    BY DEF Batch
  <2>2. b < d => batch[b] < batch[d]
    BY DEF Batch
  <2>3. batch[d] \in Nat /\ batch[b] \in Nat
    BY <1>2
  <2> QED
    BY <1>1, <1>3, <2>1, <2>2, <2>3
<1> QED
  BY <1>1, <1>3

\* A call is made for new rows of every member or of none.
Alike(c, k, count, s) ==
    \/ \A b \in 1 .. k : c.new[b] = <<>>
    \/ (\A b \in 1 .. k : c.new[b] # <<>>) /\ count \in [1 .. k -> 1 .. s]

\* The state after a delivery: presents in the caches, tokens among the held, and
\* answers that are what the queries should see.
Delivered(batch, k, lists, result) ==
    /\ session.cap = 0 \/ \A b \in 1 .. k : Len(result.present[b]) = session.cap
    /\ cache' = [n \in Generators |-> cache'[n]] /\ held' = [n \in Generators |-> held'[n]]
    /\ \A b \in 1 .. k : cache'[batch[b]] = result.present[b] /\ held'[batch[b]] = lists[b]
    /\ \A n \in Generators :
         (\A b \in 1 .. k : n # batch[b]) => cache'[n] = cache[n] /\ held'[n] = held[n]
    /\ \A a \in answer' :
         \E b \in 1 .. k : a.gen = batch[b] /\ a.saw = Sight(lists[b], a.query)
\* Delivering a right result leaves a right state, and a refused one changes nothing.
LEMMA DeliverRight ==
  ASSUME KvInv, Typed, NEW batch, NEW k, Batch(batch, k), NEW s, NEW count, NEW c,
         Meaning(c, batch, k, s, count), Alike(c, k, count, s), NEW result,
         result.ok => Right(c, k, Listed(batch, count), result),
         Deliver(batch, count, c, result)
  PROVE  \/ answer' = {} /\ UNCHANGED <<held, cache>>
         \/ result.ok /\ Delivered(batch, k, Listed(batch, count), result)
<1> DEFINE lists == Listed(batch, count)
           gens == ToSet(batch)
           Place(n) == CHOOSE b \in DOMAIN batch : batch[b] = n
           fits == session.cap = 0 \/ \A b \in DOMAIN batch : Len(result.present[b]) = session.cap
           Into(n) == IF session.alias THEN cache[n] ELSE spare[n]
           Out(n) == CopiedOut(Into(n), result.present[Place(n)], result.delta, session.alias)
           reread == c.new[1] = <<>>
           first(b) == IF reread THEN Len(held[batch[b]]) - c.s ELSE Len(held[batch[b]])
           queries(b) == IF reread THEN c.s ELSE count[b]
<1>1. CASE ~result.ok \/ ~fits
  BY <1>1 DEF Deliver
<1>2. CASE result.ok /\ fits
  <2>1. /\ cache' = [n \in Generators |-> IF n \in gens THEN Out(n) ELSE cache[n]]
        /\ held' = [n \in Generators |->
                      IF n \in gens /\ ~reread
                      THEN held[n] \o TokensOf(n, Len(held[n]), count[Place(n)]) ELSE held[n]]
        /\ answer' = UNION {{[gen |-> batch[b], query |-> first(b) + i - 1,
                              saw |-> result.sees[b][i]] : i \in 1 .. queries(b)} :
                            b \in DOMAIN batch}
    BY <1>2 DEF Deliver
  <2>2. /\ DOMAIN batch = 1 .. k /\ k \in Nat /\ 1 \in 1 .. k
        /\ \A b \in 1 .. k : batch[b] \in Generators
    BY DEF Batch
  <2>3. gens = {batch[b] : b \in 1 .. k}
    BY <2>2 DEF ToSet
  <2>4. \A b \in 1 .. k : Place(batch[b]) = b
    BY PlaceIs
  <2>5. Right(c, k, lists, result)
    BY <1>2
  <2>6. \A b \in 1 .. k : Out(batch[b]) = result.present[b]
    <3> TAKE b \in 1 .. k
    <3> DEFINE into == Into(batch[b])
    <3>1. session.alias => into = cache[batch[b]]
      OBVIOUS
    <3>2. Caches(c.past, batch, k) /\ Whole(c, result)
      BY <2>5 DEF Meaning, Right
    <3>3. Out(batch[b]) = CopiedOut(into, result.present[b], result.delta, session.alias)
      BY <2>4
    <3> HIDE DEF into, Out
    <3> QED
      BY <2>2, <3>1, <3>2, <3>3, OutIs
  <2> HIDE DEF Out
  <2>7. ASSUME NEW b \in 1 .. k
        PROVE  /\ Asks(c, b, held[batch[b]], lists[b])
               /\ c.s = s /\ Serves(result.present[b], result.sees[b], c, lists[b])
    <3>1. Olds(batch)[b] = held[batch[b]]
      BY <2>2 DEF Olds
    <3> QED
      BY <2>5, <3>1 DEF Meaning, AskAll, Right
  <2>8. ASSUME NEW b \in 1 .. k
        PROVE  held'[batch[b]] = lists[b]
    <3>1. CASE reread
      <4>1. c.new[b] = <<>>
        BY <2>2, <3>1 DEF Alike
      <4>2. lists[b] = held[batch[b]]
        BY <2>7, <4>1, AsksParts
      <4> QED
        BY <2>1, <2>2, <3>1, <4>2
    <3>2. CASE ~reread
      <4>1. batch[b] \in gens
        BY <2>3
      <4>2. held'[batch[b]] = held[batch[b]] \o TokensOf(batch[b], Len(held[batch[b]]), count[b])
        BY <2>1, <2>2, <2>4, <3>2, <4>1
      <4> QED
        BY <2>2, <4>2 DEF Listed
    <3> QED
      BY <3>1, <3>2
  <2>9. \A b \in 1 .. k : cache'[batch[b]] = result.present[b]
    BY <2>1, <2>2, <2>3, <2>6
  <2>10. \A n \in Generators :
           (\A b \in 1 .. k : n # batch[b]) => cache'[n] = cache[n] /\ held'[n] = held[n]
    BY <2>1, <2>3
  <2>11. ASSUME NEW b \in 1 .. k, NEW i \in 1 .. queries(b)
         PROVE  result.sees[b][i] = Sight(lists[b], first(b) + i - 1)
    <3>1. /\ c.s \in Nat \ {0} /\ held[batch[b]] \in Seq(Row) /\ lists[b] \in Seq(Row)
          /\ c.new[b] # <<>> => Brings(c, b, held[batch[b]], lists[b])
          /\ c.new[b] = <<>> => lists[b] = held[batch[b]] /\ c.s <= Len(lists[b])
          /\ First(c, lists[b]) \in Nat
      BY <2>7, AsksParts
    <3>2. /\ first(b) = First(c, lists[b]) /\ i \in 1 .. c.s
          /\ First(c, lists[b]) + i - 1 < Len(lists[b])
      <4>1. CASE reread
        <5>1. c.new[b] = <<>>
          BY <2>2, <4>1 DEF Alike
        <5>2. first(b) = Len(lists[b]) - c.s /\ i \in 1 .. c.s
          BY <3>1, <4>1, <5>1
        <5>3. First(c, lists[b]) = Len(lists[b]) - c.s
          BY <3>1, <5>1 DEF First, Larger
        <5> QED
          BY <3>1, <5>2, <5>3
      <4>2. CASE ~reread
        <5>1. c.new[b] # <<>> /\ count[b] \in 1 .. s /\ count \in [1 .. k -> 1 .. s]
          BY <2>2, <4>2 DEF Alike
        <5>2. first(b) = Len(held[batch[b]]) /\ i \in 1 .. count[b]
          BY <4>2
        <5>3. Len(held[batch[b]]) = First(c, lists[b])
          BY <3>1, <5>1 DEF Brings
        <5>4. Len(lists[b]) = Len(held[batch[b]]) + count[b]
          <6>1. s \in Nat /\ c.s = s
            BY <2>7, <3>1
          <6>2. KvTypes /\ count \in [1 .. k -> Nat]
            BY <5>1, <6>1 DEF KvInv
          <6>3. Lists(batch, k, count)
            BY <6>2, ListedParts
          <6> QED
            BY <6>3 DEF Lists
        <5>5. c.s = s
          BY <2>7
        <5> QED
          BY <3>1, <5>1, <5>2, <5>3, <5>4, <5>5
      <4> QED
        BY <4>1, <4>2
    <3> QED
      BY <2>7, <3>2 DEF Serves
  <2>12. ASSUME NEW a \in answer'
         PROVE  \E b \in 1 .. k : a.gen = batch[b] /\ a.saw = Sight(lists[b], a.query)
    <3>1. PICK b \in 1 .. k : \E i \in 1 .. queries(b) :
            a = [gen |-> batch[b], query |-> first(b) + i - 1, saw |-> result.sees[b][i]]
      BY <2>1, <2>2
    <3> HIDE DEF first, queries
    <3>2. PICK i \in 1 .. queries(b) :
            a = [gen |-> batch[b], query |-> first(b) + i - 1, saw |-> result.sees[b][i]]
      BY <3>1
    <3>3. a.gen = batch[b] /\ a.query = first(b) + i - 1 /\ a.saw = result.sees[b][i]
      BY <3>2
    <3> QED
      BY <2>11, <3>3
  <2>13. /\ cache' = [n \in Generators |-> cache'[n]]
         /\ held' = [n \in Generators |-> held'[n]]
    BY <2>1
  <2>14. session.cap = 0 \/ \A b \in 1 .. k : Len(result.present[b]) = session.cap
    BY <1>2, <2>2
  <2> QED
    BY <1>2, <2>8, <2>9, <2>10, <2>12, <2>13, <2>14 DEF Delivered
<1> QED
  BY <1>1, <1>2
-----------------------------------------------------------------------------
(* The invariant is one.                                                   *)

\* The slots and the traces after a call.
LEMMA SlotsRight ==
  ASSUME KvInv, NEW batch, NEW count, NEW c, Compute(batch, count, c),
         Len(c.past[1]) \in Nat
  PROVE  slots' \in [{"decode", "prefill"} -> Slot] /\ Baked'
<1> DEFINE kind == SlotOf(c)
           slot == Discovered(slots[kind], c)
           result == Captured(kind, slot, c)
           applied == Tried(c) /\ Accepts(slot, c)
           broken == applied /\ ~result.ok
           next == IF ~Tried(c) THEN slots[kind]
                   ELSE IF broken THEN [slot EXCEPT !.state = "off"]
                   ELSE IF applied THEN [slot EXCEPT !.cap = Len(c.past[1])]
                   ELSE slot
<1>1. /\ slots' = [slots EXCEPT ![kind] = next]
      /\ traced' = IF applied /\ kind = "prefill" /\ ~broken THEN Retraced(slot, c) ELSE traced
      /\ session' = session
  BY DEF Compute
<1>2. kind \in {"decode", "prefill"}
  BY DEF SlotOf
<1>3. slots \in [{"decode", "prefill"} -> Slot] /\ slots[kind] \in Slot
  BY <1>2 DEF KvInv, KvTypes
<1>4. slot \in Slot /\ (slots[kind].state # "new" => slot = slots[kind])
  BY <1>3, DiscoveredSlot
<1>5. applied => slot.state = "built"
  BY DEF Accepts
<1>6. /\ next \in Slot
      /\ slots[kind].state # "new" => next.state # "new" /\ next.shared = slots[kind].shared
      /\ applied => next.state # "new" /\ next.shared = slot.shared
  <2> HIDE DEF kind, slot, applied, result
  <2> DEFINE off == [slot EXCEPT !.state = "off"]
             kept == [slot EXCEPT !.cap = Len(c.past[1])]
  <2>1. /\ off \in Slot /\ off.state = "off" /\ off.shared = slot.shared
        /\ kept \in Slot /\ kept.state = slot.state /\ kept.shared = slot.shared
    BY <1>4 DEF Slot
  <2>2. next = slots[kind] \/ next = off \/ next = kept \/ next = slot
    OBVIOUS
  <2>3. applied => next = off \/ next = kept
    <3>1. applied => Tried(c)
      BY DEF applied
    <3> HIDE DEF broken
    <3> QED
      BY <3>1
  <2> HIDE DEF next, off, kept
  <2> QED
    BY <1>3, <1>4, <1>5, <2>1, <2>2, <2>3
<1> HIDE DEF next
<1>7. slots' \in [{"decode", "prefill"} -> Slot]
  BY <1>1, <1>2, <1>3, <1>6
<1>8. Baked'
  <2> SUFFICES ASSUME NEW key \in DOMAIN traced'
               PROVE  /\ slots'["prefill"].state # "new"
                      /\ traced'[key] = IF g.rotary /\ slots'["prefill"].shared /\ session.mask
                                        THEN key[2] - key[1] ELSE -1
    BY <1>1 DEF Baked, Narrow, g
  <2>2. CASE applied /\ kind = "prefill" /\ ~broken
    <3>1. /\ traced' = Retraced(slot, c) /\ slots'["prefill"] = next
          /\ next.state # "new" /\ next.shared = slot.shared
      BY <1>1, <1>3, <1>6, <2>2
    <3>2. CASE key \in DOMAIN traced
      <4>1. /\ slots["prefill"].state # "new"
            /\ traced[key] = IF Narrow(slots["prefill"]) THEN key[2] - key[1] ELSE -1
        BY <3>2 DEF KvInv, Baked
      <4>2. slot = slots["prefill"]
        BY <1>4, <2>2, <4>1
      <4>3. traced'[key] = traced[key]
        BY <3>1, <3>2 DEF Retraced
      <4> HIDE DEF slot
      <4> QED
        BY <3>1, <4>1, <4>2, <4>3 DEF Narrow
    <3>3. CASE key \notin DOMAIN traced
      <4>1. key = ShapeKey(c) /\ traced'[key] = IF Narrow(slot) THEN c.total - c.s ELSE -1
        BY <3>1, <3>3 DEF Retraced, StaticPast
      <4>2. session.mask => key[1] = c.s /\ key[2] = c.total
        BY <4>1 DEF ShapeKey
      <4> HIDE DEF slot
      <4> QED
        BY <3>1, <4>1, <4>2 DEF Narrow
    <3> QED
      BY <3>2, <3>3
  <2>3. CASE ~(applied /\ kind = "prefill" /\ ~broken)
    <3>1. /\ traced' = traced /\ slots["prefill"].state # "new"
          /\ traced[key] = IF Narrow(slots["prefill"]) THEN key[2] - key[1] ELSE -1
      BY <1>1, <2>3 DEF KvInv, Baked
    <3>2. slots'["prefill"].state # "new" /\ slots'["prefill"].shared = slots["prefill"].shared
      <4>1. CASE kind = "prefill"
        BY <1>1, <1>3, <1>6, <3>1, <4>1
      <4>2. CASE kind # "prefill"
        BY <1>1, <1>3, <3>1, <4>2
      <4> QED
        BY <4>1, <4>2
    <3> QED
      BY <3>1, <3>2 DEF Narrow
  <2> QED
    BY <2>2, <2>3
<1> QED
  BY <1>7, <1>8

\* Whatever a call computes and the caller gets of it, the caches hold what they should
\* and the queries saw what they should.
LEMMA ComputeKeeps ==
  ASSUME KvInv, Typed, NEW batch, NEW k, Batch(batch, k), NEW s, NEW count, NEW c,
         Meaning(c, batch, k, s, count), Alike(c, k, count, s),
         c.new[1] # <<>> => WithinContract(c), Compute(batch, count, c)
  PROVE  KvInv' /\ AttendsExact'
<1> DEFINE result == Result(c)
           lists == Listed(batch, count)
<1>1. session' = session /\ epoch' = epoch /\ Deliver(batch, count, c, result)
  BY DEF Compute, Result
<1>2. result.ok => Right(c, k, lists, result) /\ (g.sliding => g.window \in 1 .. session.cap)
  BY ResultRight
<1> HIDE DEF result
<1>3. \/ answer' = {} /\ UNCHANGED <<held, cache>>
      \/ result.ok /\ Delivered(batch, k, lists, result)
  BY <1>1, <1>2, DeliverRight
<1>4. Len(c.past[1]) \in Nat
  <2>1. 1 \in 1 .. k
    BY DEF Batch
  <2>2. c.past[1] \in Seq(Row)
    BY <2>1 DEF Meaning, Caches
  <2> QED
    BY <2>2
<1>5. slots' \in [{"decode", "prefill"} -> Slot] /\ Baked'
  BY <1>1, <1>4, SlotsRight
<1>6. /\ held \in [Generators -> Seq(Row)] /\ cache \in [Generators -> Seq(Row)]
      /\ epoch \in [Generators -> Nat] /\ session \in Sessions /\ session.cap \in Nat
  BY DEF KvInv, KvTypes, Typed, SessionAssumption
<1>7. ASSUME result.ok, Delivered(batch, k, lists, result), NEW b \in 1 .. k
      PROVE  /\ result.present[b] \in Seq(Row) /\ lists[b] \in Seq(Row)
             /\ Holding(result.present[b], lists[b])
             /\ session.cap > 0 \/ g.sliding => Len(result.present[b]) = session.cap
  <2>1. Asks(c, b, Olds(batch)[b], lists[b])
    BY DEF Meaning, AskAll
  <2>2. lists[b] \in Seq(Row)
    BY <2>1, AsksParts
  <2>3. result.present[b] \in Seq(Row) /\ Holding(result.present[b], lists[b])
    BY <1>2, <1>7 DEF Right, Serves
  <2>4. session.cap > 0 \/ g.sliding => session.cap # 0
    BY <1>2, <1>6, <1>7
  <2> QED
    BY <1>7, <2>2, <2>3, <2>4 DEF Delivered
<1>8. ASSUME NEW n \in Generators
      PROVE  /\ held'[n] \in Seq(Row) /\ cache'[n] \in Seq(Row)
             /\ Holding(cache'[n], held'[n])
             /\ session.cap > 0 \/ g.sliding => Len(cache'[n]) = session.cap
             /\ g.sliding => held'[n] = <<>> \/ g.window \in 1 .. session.cap
  <2>1. CASE held'[n] = held[n] /\ cache'[n] = cache[n]
    BY <1>6, <2>1 DEF KvInv, Fits, Holds
  <2>2. CASE ~(held'[n] = held[n] /\ cache'[n] = cache[n])
    <3>1. result.ok /\ Delivered(batch, k, lists, result)
      BY <1>3, <2>2
    <3>2. PICK b \in 1 .. k : n = batch[b]
      BY <2>2, <3>1 DEF Delivered
    <3>3. cache'[n] = result.present[b] /\ held'[n] = lists[b]
      BY <3>1, <3>2 DEF Delivered
    <3> HIDE DEF lists
    <3> QED
      BY <1>2, <1>7, <3>1, <3>3
  <2> QED
    BY <2>1, <2>2
<1>9. /\ held' = [n \in Generators |-> held'[n]]
      /\ cache' = [n \in Generators |-> cache'[n]]
  BY <1>3, <1>6 DEF Delivered
<1>10. held' \in [Generators -> Seq(Row)] /\ cache' \in [Generators -> Seq(Row)]
  BY <1>8, <1>9
<1>11. Generators' = Generators /\ g' = g
  BY <1>1 DEF Generators, g
<1>12. KvTypes'
  BY <1>1, <1>5, <1>6, <1>10, <1>11 DEF KvTypes
<1>13. Fits'
  BY <1>1, <1>8, <1>11 DEF Fits
<1>14. Holds'
  <2>1. ASSUME NEW n \in Generators PROVE Holding(cache[n], held[n])'
    BY <1>1, <1>8, <1>11 DEF Holding, EndOf
  <2> QED
    BY <1>11, <2>1 DEF Holds
<1>15. AttendsExact'
  <2>1. ASSUME NEW a \in answer' PROVE a.saw = Meant(a)'
    <3>1. result.ok /\ Delivered(batch, k, lists, result)
      BY <1>3, <2>1
    <3>2. PICK b \in 1 .. k : a.gen = batch[b] /\ a.saw = Sight(lists[b], a.query)
      BY <3>1 DEF Delivered
    <3>3. held'[a.gen] = lists[b]
      BY <3>1, <3>2 DEF Delivered
    <3> HIDE DEF lists
    <3>4. Meant(a)' = Sight(held'[a.gen], a.query)
      BY <1>11 DEF Meant, Sight, Seen, IdOf
    <3> QED
      BY <3>2, <3>3, <3>4
  <2> QED
    BY <2>1 DEF AttendsExact
<1> QED
  BY <1>5, <1>12, <1>13, <1>14, <1>15 DEF KvInv

\* A step of the generators.
LEMMA StepKeeps ==
  ASSUME KvInv, Typed, Step
  PROVE  KvInv' /\ AttendsExact'
<1>1. PICK batch \in Batches, s \in 1 .. session.widest :
        \E count \in [DOMAIN batch -> 1 .. s] :
          LET c == CallOf(batch, s, count) IN
          /\ \/ \A b \in DOMAIN batch : count[b] = s
             \/ /\ ~g.sliding /\ \E b \in DOMAIN batch : count[b] = s
                /\ \A b \in DOMAIN batch : held[batch[b]] = <<>>
          /\ WithinContract(c) /\ Compute(batch, count, c)
  BY DEF Step
<1>2. PICK count \in [DOMAIN batch -> 1 .. s] :
        LET c == CallOf(batch, s, count) IN
        /\ \/ \A b \in DOMAIN batch : count[b] = s
           \/ /\ ~g.sliding /\ \E b \in DOMAIN batch : count[b] = s
              /\ \A b \in DOMAIN batch : held[batch[b]] = <<>>
        /\ WithinContract(c) /\ Compute(batch, count, c)
  BY <1>1
<1>3. PICK k \in Nat : Batch(batch, k)
  BY BatchParts
<1>4. DOMAIN batch = 1 .. k /\ s \in Nat \ {0}
  <2>1. session.widest \in Nat
    BY DEF Typed, SessionAssumption
  <2> QED
    BY <1>3, <2>1 DEF Batch
<1>5. Padded(batch, k, s, count) /\ count \in [1 .. k -> 1 .. s]
  BY <1>2, <1>4 DEF Padded
<1> DEFINE c == CallOf(batch, s, count)
<1>6. Meaning(c, batch, k, s, count) /\ \A b \in 1 .. k : c.new[b] # <<>>
  BY <1>3, <1>4, <1>5, StepAsks
<1>7. Compute(batch, count, c) /\ WithinContract(c)
  BY <1>2
<1> HIDE DEF c
<1>8. Alike(c, k, count, s)
  BY <1>5, <1>6 DEF Alike
<1> QED
  BY <1>3, <1>6, <1>7, <1>8, ComputeKeeps

\* A reread.
LEMMA RereadKeeps ==
  ASSUME KvInv, Typed, Reread
  PROVE  KvInv' /\ AttendsExact'
<1>1. PICK batch \in Batches, s \in 1 .. session.widest :
        /\ ~g.sliding /\ \A b \in DOMAIN batch : Len(held[batch[b]]) >= s
        /\ Compute(batch, [b \in DOMAIN batch |-> 0], RereadOf(batch, s))
  BY DEF Reread
<1>2. PICK k \in Nat : Batch(batch, k)
  BY BatchParts
<1>3. DOMAIN batch = 1 .. k /\ s \in Nat \ {0} /\ 1 \in 1 .. k
  <2>1. session.widest \in Nat
    BY DEF Typed, SessionAssumption
  <2> QED
    BY <1>2, <2>1 DEF Batch
<1> DEFINE count == [b \in DOMAIN batch |-> 0]
           c == RereadOf(batch, s)
<1>4. Compute(batch, count, c) /\ \A b \in 1 .. k : Len(held[batch[b]]) >= s
  BY <1>1, <1>3
<1>5. count = [b \in DOMAIN batch |-> 0]
  OBVIOUS
<1> HIDE DEF count
<1>6. Meaning(c, batch, k, s, count) /\ \A b \in 1 .. k : c.new[b] = <<>>
  <2>1. ~g.sliding /\ \A b \in 1 .. k : Len(held[batch[b]]) >= s
    BY <1>1, <1>4
  <2>2. /\ Meaning(RereadOf(batch, s), batch, k, s, count)
        /\ \A b \in 1 .. k : RereadOf(batch, s).new[b] = <<>>
    BY <1>2, <1>3, <1>5, <2>1, RereadAsks
  <2> QED
    BY <2>2 DEF c
<1> HIDE DEF c
<1>7. Alike(c, k, count, s) /\ c.new[1] = <<>>
  BY <1>3, <1>6 DEF Alike
<1> QED
  BY <1>2, <1>4, <1>6, <1>7, ComputeKeeps

\* The front of what was held.
LEMMA FrontTokens ==
  ASSUME NEW tokens \in Seq(Row), NEW length \in 1 .. Len(tokens)
  PROVE  /\ SubSeq(tokens, 1, length) \in Seq(Row) /\ Len(SubSeq(tokens, 1, length)) = length
         /\ \A i \in 1 .. length : SubSeq(tokens, 1, length)[i] = tokens[i]
OBVIOUS

\* A generator that goes back still holds what is left.
LEMMA HoldingBack ==
  ASSUME NEW rows \in Seq(Row), NEW tokens \in Seq(Row), Holding(rows, tokens),
         NEW length \in 1 .. Len(tokens), NEW kept \in Seq(Row),
         g.sliding => /\ EndOf(length) = EndOf(Len(tokens)) - (Len(tokens) - length)
                      /\ EndOf(length) \in Nat /\ kept = rows,
         ~g.sliding => length <= Len(kept) /\ \A i \in 1 .. length : kept[i] = rows[i]
  PROVE  Holding(kept, SubSeq(tokens, 1, length))
<1> DEFINE front == SubSeq(tokens, 1, length)
<1>1. front \in Seq(Row) /\ Len(front) = length /\ \A i \in 1 .. length : front[i] = tokens[i]
  BY FrontTokens
<1> HIDE DEF front
<1>2. Len(tokens) \in Nat /\ length \in Nat /\ Len(rows) \in Nat /\ length <= Len(tokens)
  OBVIOUS
<1>3. CASE ~g.sliding
  <2>1. Len(tokens) <= Len(rows) /\ \A i \in 1 .. Len(tokens) : rows[i] = tokens[i]
    BY <1>3, HoldingAll
  <2>2. \A i \in 1 .. length : kept[i] = front[i]
    BY <1>1, <1>2, <1>3, <2>1
  <2>3. Holding(kept, front)
    BY <1>1, <1>3, <2>2, HoldingAll
  <2> QED
    BY <2>3 DEF front
<1>4. CASE g.sliding
  <2> DEFINE n == Len(tokens)
             e == EndOf(n)
             f == EndOf(length)
  <2>1. /\ e \in 0 .. Len(rows) /\ e <= n
        /\ \A i \in 1 .. e : rows[i] = tokens[i + (n - e)]
    BY DEF Holding
  <2>2. f = e - (n - length) /\ f \in Nat /\ kept = rows
    BY <1>4
  <2> HIDE DEF e, f, n
  <2>3. n \in Nat /\ length <= n /\ length \in Nat /\ Len(rows) \in Nat
    BY <1>2 DEF n
  <2>4. f \in 0 .. Len(rows) /\ f <= length /\ n - e = length - f
    BY <2>1, <2>2, <2>3
  <2>5. ASSUME NEW i \in 1 .. f PROVE kept[i] = front[i + (length - f)]
    <3>1. i \in 1 .. e /\ i + (length - f) \in 1 .. length
      BY <2>1, <2>2, <2>3, <2>4
    <3>2. rows[i] = tokens[i + (n - e)]
      BY <2>1, <3>1
    <3>3. front[i + (length - f)] = tokens[i + (length - f)]
      BY <1>1, <3>1
    <3> QED
      BY <2>2, <2>4, <3>2, <3>3
  <2>6. Holding(kept, front)
    BY <1>1, <2>2, <2>4, <2>5 DEF Holding, f
  <2> QED
    BY <2>6 DEF front
<1> QED
  BY <1>3, <1>4

\* Going back.
LEMMA RewindKeeps ==
  ASSUME KvInv, Typed, Rewind
  PROVE  KvInv' /\ AttendsExact'
<1>1. PICK n \in Generators, cut \in BOOLEAN : \E length \in 1 .. Len(held[n]) - 1 :
        /\ cut => session.cap = 0
        /\ g.sliding => CacheEnd(length, session.cap, g.window)
                          = CacheEnd(Len(held[n]), session.cap, g.window)
                              - (Len(held[n]) - length)
        /\ held' = [held EXCEPT ![n] = SubSeq(@, 1, length)]
        /\ cache' = IF cut THEN [cache EXCEPT ![n] = RowsOf(@, 0, length)] ELSE cache
        /\ epoch' = [epoch EXCEPT ![n] = @ + 1]
        /\ answer' = {}
        /\ UNCHANGED <<session, slots, traced>>
  BY DEF Rewind
<1>2. PICK length \in 1 .. Len(held[n]) - 1 :
        /\ cut => session.cap = 0
        /\ g.sliding => CacheEnd(length, session.cap, g.window)
                          = CacheEnd(Len(held[n]), session.cap, g.window)
                              - (Len(held[n]) - length)
        /\ held' = [held EXCEPT ![n] = SubSeq(@, 1, length)]
        /\ cache' = IF cut THEN [cache EXCEPT ![n] = RowsOf(@, 0, length)] ELSE cache
        /\ epoch' = [epoch EXCEPT ![n] = @ + 1]
        /\ answer' = {}
        /\ UNCHANGED <<session, slots, traced>>
  BY <1>1
<1> DEFINE rows == cache[n]
           tokens == held[n]
           front == SubSeq(tokens, 1, length)
           kept == IF cut THEN RowsOf(rows, 0, length) ELSE rows
<1>3. /\ held \in [Generators -> Seq(Row)] /\ cache \in [Generators -> Seq(Row)]
      /\ epoch \in [Generators -> Nat] /\ session.cap \in Nat
      /\ slots \in [{"decode", "prefill"} -> Slot] /\ session \in Sessions
  BY DEF KvInv, KvTypes, Typed, SessionAssumption
<1>4. rows \in Seq(Row) /\ tokens \in Seq(Row) /\ length \in 1 .. Len(tokens) /\ length \in Nat
      /\ tokens # <<>>
  BY <1>3
<1>5. Holding(rows, tokens)
  BY DEF KvInv, Holds
<1>6. front \in Seq(Row)
  BY <1>4, FrontTokens
<1>7. g.sliding => g.window \in 1 .. session.cap /\ Len(rows) = session.cap
  BY <1>4 DEF KvInv, Fits
<1>8. g.sliding => ~cut /\ kept = rows
  BY <1>2, <1>7
<1>9. g.sliding => /\ EndOf(length) = EndOf(Len(tokens)) - (Len(tokens) - length)
                   /\ EndOf(length) \in Nat
  <2> SUFFICES ASSUME g.sliding
               PROVE  /\ EndOf(length) = EndOf(Len(tokens)) - (Len(tokens) - length)
                      /\ EndOf(length) \in Nat
    OBVIOUS
  <2> DEFINE cap == session.cap
             window == g.window
  <2>1. cap \in Nat /\ window \in 1 .. cap
    BY <1>3, <1>7
  <2> HIDE DEF cap, window
  <2>2. CacheEnd(length, cap, window) \in 0 .. cap
    BY <1>4, <2>1, WindowFits
  <2>3. CacheEnd(length, cap, window) \in Nat
    BY <2>1, <2>2
  <2> QED
    BY <1>2, <2>3 DEF EndOf, cap, window
<1>10. /\ kept \in Seq(Row)
       /\ ~g.sliding => length <= Len(kept) /\ \A i \in 1 .. length : kept[i] = rows[i]
  <2>1. ~g.sliding => length <= Len(rows)
    <3>1. ~g.sliding => Len(tokens) <= Len(rows)
      BY <1>4, <1>5, HoldingAll
    <3>2. Len(tokens) \in Nat /\ Len(rows) \in Nat
      BY <1>4
    <3> QED
      BY <1>4, <3>1, <3>2
  <2>2. CASE cut
    <3>1. ~g.sliding /\ kept = RowsOf(rows, 0, length)
      BY <1>8, <2>2
    <3> HIDE DEF kept, rows
    <3>2. /\ RowsOf(rows, 0, length) \in Seq(Row) /\ Len(RowsOf(rows, 0, length)) = length
          /\ \A i \in 1 .. length : RowsOf(rows, 0, length)[i] = rows[i]
      BY <1>4, <2>1, <3>1, FrontRows
    <3> QED
      BY <1>4, <3>1, <3>2
  <2>3. CASE ~cut
    BY <1>4, <2>1, <2>3
  <2> QED
    BY <2>2, <2>3
<1>11. Holding(kept, front)
  <2> HIDE DEF kept, rows, tokens
  <2> QED
    BY <1>4, <1>5, <1>8, <1>9, <1>10, HoldingBack
<1>12. /\ held'[n] = front /\ cache'[n] = kept
       /\ \A m \in Generators : m # n => held'[m] = held[m] /\ cache'[m] = cache[m]
       /\ held' = [m \in Generators |-> held'[m]] /\ cache' = [m \in Generators |-> cache'[m]]
  BY <1>2, <1>3
<1>13. epoch' \in [Generators -> Nat]
  BY <1>2, <1>3
<1>14. session.cap > 0 \/ g.sliding => Len(kept) = session.cap
  <2>1. session.cap > 0 \/ g.sliding => ~cut
    BY <1>2, <1>3, <1>8
  <2> QED
    BY <2>1 DEF KvInv, Fits
<1> HIDE DEF kept, front, rows, tokens
<1>15. ASSUME NEW m \in Generators
       PROVE  /\ held'[m] \in Seq(Row) /\ cache'[m] \in Seq(Row)
              /\ Holding(cache'[m], held'[m])
              /\ session.cap > 0 \/ g.sliding => Len(cache'[m]) = session.cap
              /\ g.sliding => held'[m] = <<>> \/ g.window \in 1 .. session.cap
  <2>1. CASE m = n
    BY <1>6, <1>7, <1>10, <1>11, <1>12, <1>14, <2>1
  <2>2. CASE m # n
    BY <1>3, <1>12, <2>2 DEF KvInv, Fits, Holds
  <2> QED
    BY <2>1, <2>2
<1>16. held' \in [Generators -> Seq(Row)] /\ cache' \in [Generators -> Seq(Row)]
  BY <1>12, <1>15
<1>17. Generators' = Generators /\ g' = g /\ session' = session
  BY <1>2 DEF Generators, g
<1>18. KvTypes'
  BY <1>2, <1>3, <1>13, <1>16, <1>17 DEF KvTypes
<1>19. Fits'
  BY <1>15, <1>17 DEF Fits
<1>20. Holds'
  <2>1. ASSUME NEW m \in Generators PROVE Holding(cache[m], held[m])'
    BY <1>15, <1>17 DEF Holding, EndOf
  <2> QED
    BY <1>17, <2>1 DEF Holds
<1>21. Baked'
  BY <1>2, <1>17 DEF KvInv, Baked, Narrow
<1>22. AttendsExact'
  BY <1>2 DEF AttendsExact
<1> QED
  BY <1>18, <1>19, <1>20, <1>21, <1>22 DEF KvInv

\* The invariant holds at first.
LEMMA KvInit ==
  ASSUME SessionAssumption, Init
  PROVE  KvInv /\ AttendsExact
<1>1. /\ session \in Sessions /\ session.cap \in Nat /\ session.users \in Nat
      /\ held = [n \in Generators |-> <<>>] /\ epoch = [n \in Generators |-> 0]
      /\ cache = [n \in Generators |-> Zeros(session.cap)]
      /\ slots = [k \in {"decode", "prefill"} |-> Fresh]
      /\ DOMAIN traced = {} /\ answer = {}
  BY DEF Init, SessionAssumption
<1>2. Zeros(session.cap) \in Seq(Row) /\ Len(Zeros(session.cap)) = session.cap
  <2>1. PICK n \in Nat : n = session.cap
    BY <1>1
  <2> QED
    BY <2>1, ZerosType
<1>3. Fresh \in Slot
  BY DEF Fresh, Slot
<1> DEFINE zeros == Zeros(session.cap)
           none == <<>>
<1>4. none \in Seq(Row) /\ Len(none) = 0
  OBVIOUS
<1> HIDE DEF zeros
<1>5. KvTypes
  BY <1>1, <1>2, <1>3, <1>4 DEF KvTypes, zeros
<1>6. Fits
  BY <1>1, <1>2 DEF Fits, zeros
<1>7. EndOf(0) = 0
  BY <1>1 DEF EndOf, CacheEnd
<1>8. Holding(zeros, none)
  BY <1>1, <1>2, <1>4, <1>7 DEF Holding, zeros
<1>9. Holds
  BY <1>1, <1>8 DEF Holds, zeros
<1>10. Baked /\ AttendsExact
  BY <1>1 DEF Baked, AttendsExact
<1> QED
  BY <1>5, <1>6, <1>9, <1>10 DEF KvInv

\* The invariant, of every session and however the generators take turns.
THEOREM KvCorrect == Spec => [](KvInv /\ AttendsExact)
<1> DEFINE Both == KvInv /\ AttendsExact
<1>0. SessionAssumption
  BY SessionAssumption
<1>1. Init => Both
  BY <1>0, KvInit
<1>2. Both /\ [Next]_vars => Both'
  <2> SUFFICES ASSUME KvInv, AttendsExact, [Next]_vars PROVE KvInv' /\ AttendsExact'
    OBVIOUS
  <2>1. Typed
    BY <1>0 DEF Typed, KvInv, KvTypes
  <2>2. CASE Step
    BY <2>1, <2>2, StepKeeps
  <2>3. CASE Reread
    BY <2>1, <2>3, RereadKeeps
  <2>4. CASE Rewind
    BY <2>1, <2>4, RewindKeeps
  <2>5. CASE UNCHANGED vars
    <3>1. /\ session' = session /\ held' = held /\ cache' = cache /\ epoch' = epoch
          /\ slots' = slots /\ traced' = traced /\ answer' = answer
      BY <2>5 DEF vars
    <3>2. g' = g /\ Generators' = Generators
      BY <3>1 DEF g, Generators
    <3>3. KvTypes' /\ Fits' /\ Baked'
      BY <3>1, <3>2 DEF KvInv, KvTypes, Fits, Baked, Narrow
    <3>4. Holds'
      BY <3>1, <3>2 DEF KvInv, Holds, Holding, EndOf
    <3>5. AttendsExact'
      BY <3>1, <3>2 DEF AttendsExact, Meant, IdOf
    <3> QED
      BY <3>3, <3>4, <3>5 DEF KvInv
  <2> QED
    BY <2>2, <2>3, <2>4, <2>5 DEF Next
<1> QED
  BY <1>1, <1>2, PTL DEF Spec

\* Every query attends to exactly the tokens of its own sequence that it may see
\* (group_query_attention_op and the captured closures).
THEOREM AttendsExactly == Spec => []AttendsExact
BY KvCorrect, PTL

\* The buffer each generator passes next holds its tokens (copy_out_raw_delta,
\* group_query_attention_op).
THEOREM CachesHold == Spec => []CacheHolds
<1>1. KvInv => CacheHolds
  BY DEF KvInv, Holds, Holding, EndOf, CacheHolds
<1> QED
  BY <1>1, KvCorrect, PTL
-----------------------------------------------------------------------------
(* What is refused.                                                        *)

\* What is held has positions in the rotary caches.
HeldTurn == \A n \in Generators : held[n] # <<>> => Len(held[n]) < g.ropeRows

\* Whichever route a call goes, it is refused only where the one buffer ends.
LEMMA ResultAnswers ==
  ASSUME KvInv, Typed, NEW batch, NEW k, Batch(batch, k), NEW s, NEW count, NEW c,
         Meaning(c, batch, k, s, count), c.new[1] # <<>> => WithinContract(c),
         AbleAll(c, k, Listed(batch, count)), g.sliding => g.window \in 1 .. session.cap
  PROVE  Answered(c, k, Result(c))
<1> DEFINE kind == SlotOf(c)
           slot == Discovered(slots[kind], c)
           result == Captured(kind, slot, c)
           applied == Tried(c) /\ Accepts(slot, c)
           broken == applied /\ ~result.ok
           lists == Listed(batch, count)
           olds == Olds(batch)
<1>1. Result(c) = IF applied /\ ~broken THEN result ELSE GroupQueryAttention(g, c)
  BY DEF Result
<1>2. CASE applied /\ ~broken
  <2>1. result.ok /\ Result(c) = result /\ Capturable /\ Accepts(slot, c)
    BY <1>1, <1>2 DEF Tried
  <2>2. kind \in {"decode", "prefill"}
    BY DEF SlotOf
  <2>3. slots[kind] \in Slot
    BY <2>2 DEF KvInv, KvTypes
  <2> HIDE DEF kind
  <2>4. slot \in Slot
    BY <2>3, DiscoveredSlot
  <2>5. kind = "prefill" => BakedRight(slot, c)
    BY BakedNow
  <2> HIDE DEF slot, result
  <2>6. k = 1 /\ Caught(c, olds[1], lists[1])
    BY <2>1, AppliedCaught
  <2> DEFINE old == olds[1]
             tokens == lists[1]
             at == GqaRotaryRows(g, c, 1, Len(old))
             shared == slot.shared
             single == GqaSingle(g, c, Len(old), at, shared)
  <2>7. Caught(c, old, tokens) /\ kind = SlotOf(c)
    BY <2>6 DEF kind
  <2> HIDE DEF olds, lists, old, tokens
  <2>8. result = IF ~single.ok THEN Refuses
                 ELSE [single EXCEPT !.delta = IF slot.shared
                                               THEN [offset |-> Len(old), count |-> c.s]
                                               ELSE WholeCopy]
    BY <2>1, <2>4, <2>5, <2>7, CapturedIsSingle DEF result
  <2>9. /\ Asks(c, 1, old, tokens) /\ c.new[1] # <<>> /\ c.total = Len(tokens)
        /\ Len(tokens) = Len(old) + c.s /\ Turns(at, c, tokens) /\ ~g.sliding
    BY <2>7, CaughtTurns, CaughtParts DEF Caught
  <2>10. /\ shared \in BOOLEAN /\ (shared => Len(c.past[1]) > Len(old))
         /\ (~shared => Len(c.past[1]) = Len(old))
    <3>1. /\ shared => Len(old) < Len(c.past[1])
          /\ ~shared => Len(c.past[1]) = Len(old)
      BY <2>1, <2>4, <2>7, ContractIs
    <3>2. Len(old) \in Nat /\ Len(c.past[1]) \in Nat
      BY <2>7, CaughtParts
    <3> HIDE DEF shared
    <3>3. shared \in BOOLEAN
      BY <2>4 DEF Slot, shared
    <3> QED
      BY <3>1, <3>2, <3>3
  <2> HIDE DEF at, shared
  <2>11. Answered(c, 1, single)
    BY <2>9, <2>10, SingleAnswers
  <2> HIDE DEF single
  <2>12. single.ok /\ result.present = single.present
    <3>1. ~Refuses.ok
      BY DEF Refuses
    <3>2. single.ok
      BY <2>1, <2>8, <3>1
    <3>3. \A d : [single EXCEPT !.delta = d].present = single.present
      BY <3>2
    <3> QED
      BY <2>8, <3>2, <3>3
  <2> QED
    BY <2>1, <2>6, <2>11, <2>12 DEF Answered, Sized
<1>3. CASE ~(applied /\ ~broken)
  <2>1. Result(c) = GroupQueryAttention(g, c)
    BY <1>1, <1>3
  <2>2. AskAll(c, k, olds, lists) /\ AbleAll(c, k, lists)
    BY DEF Meaning
  <2> HIDE DEF applied, broken, olds, lists
  <2> QED
    BY <2>1, <2>2, EagerAnswers
<1> QED
  BY <1>2, <1>3

\* The lengths and the total of a call.
Told(c, batch, k, count) ==
    /\ c.lengths = [b \in DOMAIN batch |-> Len(held[batch[b]]) + count[b] - 1]
    /\ c.total = Widest([b \in DOMAIN batch |-> Len(held[batch[b]]) + count[b]])

\* They are those of its members.
LEMMA ToldRight ==
  ASSUME KvInv, Typed, NEW batch, NEW k, Batch(batch, k), NEW count \in [1 .. k -> Nat],
         NEW c, Told(c, batch, k, count), NEW s, Meaning(c, batch, k, s, count)
  PROVE  /\ c.lengths \in [1 .. k -> Nat]
         /\ \E b \in 1 .. k : c.total = Len(Listed(batch, count)[b])
         /\ \A b \in 1 .. k : Len(Listed(batch, count)[b]) <= c.total
<1> DEFINE sums == [b \in 1 .. k |-> Len(held[batch[b]]) + count[b]]
           lists == Listed(batch, count)
<1>0. KvTypes
  BY DEF KvInv
<1>1. Lists(batch, k, count)
  BY <1>0, ListedParts
<1>2. /\ DOMAIN batch = 1 .. k /\ k \in Nat \ {0}
      /\ \A b \in 1 .. k : /\ Len(held[batch[b]]) \in Nat /\ count[b] \in Nat
                           /\ Len(lists[b]) = Len(held[batch[b]]) + count[b]
  BY <1>1 DEF Lists
<1> HIDE DEF lists
<1>3. c.total = Widest(sums) /\ sums \in [1 .. k -> Nat]
      /\ \A b \in 1 .. k : sums[b] = Len(lists[b])
  BY <1>2 DEF Told
<1> HIDE DEF sums
<1>4. /\ \A b \in 1 .. k : sums[b] <= c.total
      /\ \E b \in 1 .. k : sums[b] = c.total
  BY <1>2, <1>3, WidestIs
<1>5. ASSUME NEW b \in 1 .. k PROVE c.lengths[b] \in Nat
  <2>1. Asks(c, b, Olds(batch)[b], lists[b])
    BY DEF Meaning, AskAll, lists
  <2>2. c.lengths[b] = Len(lists[b]) - 1 /\ Len(lists[b]) \in 1 .. c.total /\ c.total \in Nat
    BY <2>1, AsksParts
  <2> QED
    BY <2>2
<1>6. c.lengths = [b \in 1 .. k |-> c.lengths[b]]
  BY <1>2 DEF Told
<1> QED
  BY <1>3, <1>4, <1>5, <1>6 DEF lists

\* A step within the caller's contract is one the node can take.
LEMMA StepAble ==
  ASSUME KvInv, Typed, NEW batch, NEW k, Batch(batch, k), NEW s \in Nat \ {0},
         NEW count \in [1 .. k -> 1 .. s], Padded(batch, k, s, count),
         WithinContract(CallOf(batch, s, count)),
         \A b \in 1 .. k : g.past \/ held[batch[b]] = <<>>
  PROVE  AbleAll(CallOf(batch, s, count), k, Listed(batch, count))
<1> DEFINE c == CallOf(batch, s, count)
           lists == Listed(batch, count)
<1>1. Meaning(c, batch, k, s, count) /\ \A b \in 1 .. k : c.new[b] # <<>>
  BY StepAsks
<1>2. Told(c, batch, k, count)
  BY DEF Told, CallOf
<1>3. WithinContract(c) /\ count \in [1 .. k -> Nat] /\ KvTypes
  BY DEF KvInv
<1>4. DOMAIN c.ids = 1 .. k
  BY DEF CallOf, Batch
<1> HIDE DEF c
<1>5. /\ c.lengths \in [1 .. k -> Nat]
      /\ \E b \in 1 .. k : c.total = Len(lists[b])
      /\ \A b \in 1 .. k : Len(lists[b]) <= c.total
  BY <1>1, <1>2, <1>3, ToldRight
<1>6. Lists(batch, k, count)
  BY <1>3, ListedParts
<1> HIDE DEF lists
<1>7. \A b \in 1 .. k : /\ Len(held[batch[b]]) \in Nat /\ Olds(batch)[b] = held[batch[b]]
                        /\ Len(lists[b]) = Len(held[batch[b]]) + count[b]
  BY <1>6 DEF Lists, lists
<1>8. ASSUME NEW b \in 1 .. k PROVE Able(c, k, b, lists[b])
  <2>1. Numbers(c, k, b, First(c, lists[b])) /\ c.s = s
        /\ Asks(c, b, Olds(batch)[b], lists[b])
    BY <1>1 DEF Meaning, AskAll, lists
  <2>2. First(c, lists[b]) + c.s < g.ropeRows
    <3>1. s \in 1 .. s
      OBVIOUS
    <3>2. c.ids[b][s] = First(c, lists[b]) + s
      BY <2>1, <3>1 DEF Numbers
    <3>3. c.ids[b][s] < g.ropeRows
      BY <1>3, <1>4, <2>1, <3>1 DEF WithinContract
    <3> QED
      BY <2>1, <3>2, <3>3
  <2>3. c.s <= Len(lists[b]) \/ c.total = c.s
    <3>1. CASE \A d \in 1 .. k : count[d] = s
      BY <1>7, <2>1, <3>1
    <3>2. CASE ~ \A d \in 1 .. k : count[d] = s
      <4>1. /\ \E d \in 1 .. k : count[d] = s
            /\ \A d \in 1 .. k : held[batch[d]] = <<>>
        BY <3>2 DEF Padded
      <4>2. \A d \in 1 .. k : Len(lists[d]) = count[d] /\ count[d] \in 1 .. s
        BY <1>7, <4>1
      <4>3. PICK d \in 1 .. k : c.total = Len(lists[d])
        BY <1>5
      <4>4. PICK e \in 1 .. k : count[e] = s
        BY <4>1
      <4>5. s <= c.total /\ c.total <= s /\ c.total \in Nat
        BY <1>5, <4>2, <4>3, <4>4
      <4> QED
        BY <2>1, <4>5
    <3> QED
      BY <3>1, <3>2
  <2>4. g.past \/ (c.new[b] # <<>> /\ First(c, lists[b]) = 0)
    <3>1. Brings(c, b, Olds(batch)[b], lists[b])
      BY <1>1, <2>1, AsksParts
    <3>2. Len(held[batch[b]]) = First(c, lists[b])
      BY <1>7, <3>1 DEF Brings
    <3> QED
      BY <1>1, <3>2
  <2> QED
    BY <2>1, <2>2, <2>3, <2>4 DEF Able
<1> QED
  BY <1>5, <1>8 DEF AbleAll, c, lists

\* So is a reread.
LEMMA RereadAble ==
  ASSUME KvInv, HeldTurn, Typed, NEW batch, NEW k, Batch(batch, k), NEW s \in Nat \ {0},
         NEW count, count = [b \in DOMAIN batch |-> 0], g.past, ~g.sliding,
         \A b \in 1 .. k : Len(held[batch[b]]) >= s
  PROVE  AbleAll(RereadOf(batch, s), k, Listed(batch, count))
<1> DEFINE c == RereadOf(batch, s)
           lists == Listed(batch, count)
<1>1. /\ Meaning(c, batch, k, s, count)
      /\ \A b \in 1 .. k : lists[b] = held[batch[b]]
  BY RereadAsks
<1>2. Told(c, batch, k, count)
  BY DEF Told, RereadOf, CallOf
<1>3. DOMAIN batch = 1 .. k /\ \A b \in 1 .. k : batch[b] \in Generators
  BY DEF Batch
<1>4. count \in [1 .. k -> Nat]
  BY <1>3
<1> HIDE DEF c
<1>5. /\ c.lengths \in [1 .. k -> Nat]
      /\ \E b \in 1 .. k : c.total = Len(lists[b])
  BY <1>1, <1>2, <1>4, ToldRight
<1>6. ASSUME NEW b \in 1 .. k PROVE Able(c, k, b, lists[b])
  <2>1. Numbers(c, k, b, First(c, lists[b])) /\ c.s = s
    BY <1>1 DEF Meaning
  <2>2. lists[b] = held[batch[b]] /\ held[batch[b]] \in Seq(Row) /\ Len(held[batch[b]]) >= s
    BY <1>1, <1>3 DEF KvInv, KvTypes
  <2>3. First(c, lists[b]) + c.s = Len(held[batch[b]])
    BY <2>1, <2>2 DEF First, Larger
  <2>4. Len(held[batch[b]]) < g.ropeRows
    <3>1. held[batch[b]] # <<>>
      BY <2>2
    <3> QED
      BY <1>3, <3>1 DEF HeldTurn
  <2> QED
    BY <2>1, <2>2, <2>3, <2>4 DEF Able
<1> HIDE DEF lists
<1> QED
  BY <1>5, <1>6 DEF AbleAll, c, lists

\* What a delivery refuses.
LEMMA DeliverRefuses ==
  ASSUME Typed, NEW batch, NEW k, Batch(batch, k), NEW count, NEW c,
         Caches(c.past, batch, k), c.total \in Nat, NEW result, Answered(c, k, result),
         Deliver(batch, count, c, result), session' = session
  PROVE  RefusesOnlyOverflow'
<1> DEFINE fits == session.cap = 0 \/ \A b \in DOMAIN batch : Len(result.present[b]) = session.cap
<1>0. g' = g /\ session' = session
  BY DEF g
<1> SUFFICES ASSUME refused' # <<>>
             PROVE  /\ refused'[1] > refused'[2] /\ refused'[2] > 0 /\ ~g.sliding
                    /\ session.cap = 0 => 1 \in session.batches
  BY <1>0 DEF RefusesOnlyOverflow
<1>1. (~result.ok \/ ~fits) /\ refused' = <<c.total, Len(c.past[1])>>
  BY DEF Deliver
<1>2. refused'[1] = c.total /\ refused'[2] = Len(c.past[1])
  BY <1>1
<1>3. DOMAIN batch = 1 .. k /\ k \in session.batches /\ 1 \in 1 .. k
  BY DEF Batch
<1>4. CASE ~result.ok
  <2>1. Overflows(c, k)
    BY <1>4 DEF Answered
  <2> QED
    BY <1>2, <1>3, <2>1 DEF Overflows
<1>5. CASE result.ok
  <2>1. session.cap # 0 /\ session.cap \in Nat
    BY <1>1, <1>5 DEF Typed, SessionAssumption
  <2>2. PICK b \in 1 .. k : Len(result.present[b]) # session.cap
    BY <1>1, <1>3, <1>5
  <2>3. \A d \in 1 .. k : Len(c.past[d]) = session.cap
    BY <2>1 DEF Caches
  <2>4. Len(result.present[b]) = IF g.sliding THEN session.cap ELSE Larger(session.cap, c.total)
    BY <1>5, <2>3 DEF Answered, Sized, Room
  <2>5. ~g.sliding /\ c.total > session.cap
    BY <2>1, <2>2, <2>4 DEF Larger
  <2> QED
    BY <1>2, <1>3, <2>1, <2>3, <2>5
<1> QED
  BY <1>4, <1>5

\* What the theorem needs besides the invariant.
Refusing == HeldTurn /\ RefusesOnlyOverflow

\* A call that the node can take is refused only where the one buffer ends, and what
\* it leaves held has positions in the rotary caches.
LEMMA ComputeRefuses ==
  ASSUME KvInv, HeldTurn, Typed, NEW batch, NEW k, Batch(batch, k), NEW s, NEW count,
         NEW c, Meaning(c, batch, k, s, count), Alike(c, k, count, s),
         AbleAll(c, k, Listed(batch, count)),
         c.new[1] # <<>> => WithinContract(c), Compute(batch, count, c)
  PROVE  Refusing'
<1> DEFINE result == Result(c)
           lists == Listed(batch, count)
<1>1. session' = session /\ Deliver(batch, count, c, result)
  BY DEF Compute, Result
<1>2. result.ok => Right(c, k, lists, result)
  BY ResultRight
<1>3. Answered(c, k, result)
  <2>1. g.sliding => g.window \in 1 .. session.cap
    BY WindowAssumption DEF Typed, g
  <2> QED
    BY <2>1, ResultAnswers
<1> HIDE DEF result
<1>4. \/ answer' = {} /\ UNCHANGED <<held, cache>>
      \/ result.ok /\ Delivered(batch, k, lists, result)
  BY <1>1, <1>2, DeliverRight
<1>5. RefusesOnlyOverflow'
  <2>1. 1 \in 1 .. k /\ Caches(c.past, batch, k)
    BY DEF Batch, Meaning
  <2>2. Asks(c, 1, Olds(batch)[1], lists[1])
    BY <2>1 DEF Meaning, AskAll
  <2>3. c.total \in Nat
    BY <2>2, AsksParts
  <2> QED
    BY <1>1, <1>3, <2>1, <2>3, DeliverRefuses
<1>6. ASSUME NEW b \in 1 .. k PROVE Len(lists[b]) < g.ropeRows
  <2>1. Asks(c, b, Olds(batch)[b], lists[b]) /\ First(c, lists[b]) + c.s < g.ropeRows
    BY DEF Meaning, AskAll, AbleAll, Able
  <2>2. lists[b] \in Seq(Row) /\ c.s \in Nat /\ g.ropeRows \in Nat
    BY <2>1, AsksParts DEF Typed, SessionAssumption, g
  <2> HIDE DEF lists
  <2> QED
    BY <2>1, <2>2 DEF First, Larger
<1> HIDE DEF lists
<1>7. Generators' = Generators /\ g' = g
  BY <1>1 DEF Generators, g
<1>8. ASSUME NEW n \in Generators, held'[n] # <<>>
      PROVE  Len(held'[n]) < g.ropeRows
  <2>1. CASE held'[n] = held[n]
    BY <1>8, <2>1 DEF HeldTurn
  <2>2. CASE held'[n] # held[n]
    <3>1. Delivered(batch, k, lists, result)
      BY <1>4, <2>2
    <3>2. PICK b \in 1 .. k : n = batch[b]
      BY <2>2, <3>1 DEF Delivered
    <3>3. held'[n] = lists[b]
      BY <3>1, <3>2 DEF Delivered
    <3> QED
      BY <1>6, <3>3
  <2> QED
    BY <2>1, <2>2
<1>9. HeldTurn'
  BY <1>7, <1>8 DEF HeldTurn
<1> QED
  BY <1>5, <1>9 DEF Refusing

\* A step of the generators refuses nothing else.
LEMMA StepRefuses ==
  ASSUME KvInv, HeldTurn, Typed, Step
  PROVE  Refusing'
<1>1. PICK batch \in Batches, s \in 1 .. session.widest :
        \E count \in [DOMAIN batch -> 1 .. s] :
          LET c == CallOf(batch, s, count) IN
          /\ \/ \A b \in DOMAIN batch : count[b] = s
             \/ /\ ~g.sliding /\ \E b \in DOMAIN batch : count[b] = s
                /\ \A b \in DOMAIN batch : held[batch[b]] = <<>>
          /\ WithinContract(c)
          /\ \A b \in DOMAIN batch : g.past \/ held[batch[b]] = <<>>
          /\ Compute(batch, count, c)
  BY DEF Step
<1>2. PICK count \in [DOMAIN batch -> 1 .. s] :
        LET c == CallOf(batch, s, count) IN
        /\ \/ \A b \in DOMAIN batch : count[b] = s
           \/ /\ ~g.sliding /\ \E b \in DOMAIN batch : count[b] = s
              /\ \A b \in DOMAIN batch : held[batch[b]] = <<>>
        /\ WithinContract(c)
        /\ \A b \in DOMAIN batch : g.past \/ held[batch[b]] = <<>>
        /\ Compute(batch, count, c)
  BY <1>1
<1>3. PICK k \in Nat : Batch(batch, k)
  BY BatchParts
<1>4. DOMAIN batch = 1 .. k /\ s \in Nat \ {0}
  <2>1. session.widest \in Nat
    BY DEF Typed, SessionAssumption
  <2> QED
    BY <1>3, <2>1 DEF Batch
<1>5. Padded(batch, k, s, count) /\ count \in [1 .. k -> 1 .. s]
  BY <1>2, <1>4 DEF Padded
<1> DEFINE c == CallOf(batch, s, count)
<1>6. Meaning(c, batch, k, s, count) /\ \A b \in 1 .. k : c.new[b] # <<>>
  BY <1>3, <1>4, <1>5, StepAsks
<1>7. Compute(batch, count, c) /\ WithinContract(c)
      /\ \A b \in 1 .. k : g.past \/ held[batch[b]] = <<>>
  BY <1>2, <1>4
<1>8. AbleAll(c, k, Listed(batch, count))
  BY <1>3, <1>4, <1>5, <1>7, StepAble
<1> HIDE DEF c
<1>9. Alike(c, k, count, s)
  BY <1>5, <1>6 DEF Alike
<1> QED
  BY <1>3, <1>6, <1>7, <1>8, <1>9, ComputeRefuses

\* Nor does a reread.
LEMMA RereadRefuses ==
  ASSUME KvInv, HeldTurn, Typed, Reread
  PROVE  Refusing'
<1>1. PICK batch \in Batches, s \in 1 .. session.widest :
        /\ g.past /\ ~g.sliding /\ \A b \in DOMAIN batch : Len(held[batch[b]]) >= s
        /\ Compute(batch, [b \in DOMAIN batch |-> 0], RereadOf(batch, s))
  BY DEF Reread
<1>2. PICK k \in Nat : Batch(batch, k)
  BY BatchParts
<1>3. DOMAIN batch = 1 .. k /\ s \in Nat \ {0} /\ 1 \in 1 .. k
  <2>1. session.widest \in Nat
    BY DEF Typed, SessionAssumption
  <2> QED
    BY <1>2, <2>1 DEF Batch
<1> DEFINE count == [b \in DOMAIN batch |-> 0]
           c == RereadOf(batch, s)
<1>4. Compute(batch, count, c) /\ \A b \in 1 .. k : Len(held[batch[b]]) >= s
  BY <1>1, <1>3
<1>5. count = [b \in DOMAIN batch |-> 0]
  OBVIOUS
<1> HIDE DEF count
<1>6. Meaning(c, batch, k, s, count) /\ \A b \in 1 .. k : c.new[b] = <<>>
  <2>1. g.past /\ ~g.sliding /\ \A b \in 1 .. k : Len(held[batch[b]]) >= s
    BY <1>1, <1>4
  <2>2. /\ Meaning(RereadOf(batch, s), batch, k, s, count)
        /\ \A b \in 1 .. k : RereadOf(batch, s).new[b] = <<>>
    BY <1>2, <1>3, <1>5, <2>1, RereadAsks
  <2> QED
    BY <2>2 DEF c
<1>7. AbleAll(c, k, Listed(batch, count))
  <2>1. g.past /\ ~g.sliding /\ \A b \in 1 .. k : Len(held[batch[b]]) >= s
    BY <1>1, <1>4
  <2> QED
    BY <1>2, <1>3, <1>5, <2>1, RereadAble DEF c
<1> HIDE DEF c
<1>8. Alike(c, k, count, s) /\ c.new[1] = <<>>
  BY <1>3, <1>6 DEF Alike
<1> QED
  BY <1>2, <1>4, <1>6, <1>7, <1>8, ComputeRefuses

\* Going back leaves less held and refuses nothing.
LEMMA RewindRefuses ==
  ASSUME KvInv, HeldTurn, Typed, Rewind
  PROVE  Refusing'
<1>1. PICK n \in Generators : \E length \in 1 .. Len(held[n]) - 1 :
        /\ held' = [held EXCEPT ![n] = SubSeq(@, 1, length)]
        /\ refused' = <<>> /\ session' = session
  BY DEF Rewind
<1>2. PICK length \in 1 .. Len(held[n]) - 1 :
        /\ held' = [held EXCEPT ![n] = SubSeq(@, 1, length)]
        /\ refused' = <<>> /\ session' = session
  BY <1>1
<1>3. Generators' = Generators /\ g' = g
  BY <1>2 DEF Generators, g
<1>4. held \in [Generators -> Seq(Row)] /\ g.ropeRows \in Nat
  BY DEF KvInv, KvTypes, Typed, SessionAssumption, g
<1>5. ASSUME NEW m \in Generators, held'[m] # <<>>
      PROVE  Len(held'[m]) < g.ropeRows
  <2>1. CASE m = n
    <3>1. held[n] \in Seq(Row) /\ length \in 1 .. Len(held[n]) /\ held[n] # <<>>
          /\ length < Len(held[n])
      BY <1>4
    <3>2. Len(held'[n]) = length
      <4>1. Len(SubSeq(held[n], 1, length)) = length
        BY <3>1, FrontTokens
      <4> QED
        BY <1>2, <1>4, <4>1
    <3>3. Len(held[n]) < g.ropeRows
      BY <3>1 DEF HeldTurn
    <3>4. Len(held[n]) \in Nat
      BY <3>1
    <3> QED
      BY <1>4, <2>1, <3>1, <3>2, <3>3, <3>4
  <2>2. CASE m # n
    <3>1. held'[m] = held[m]
      BY <1>2, <1>4, <2>2
    <3> QED
      BY <1>5, <3>1 DEF HeldTurn
  <2> QED
    BY <2>1, <2>2
<1>6. HeldTurn'
  BY <1>3, <1>5 DEF HeldTurn
<1>7. RefusesOnlyOverflow'
  BY <1>2 DEF RefusesOnlyOverflow
<1> QED
  BY <1>6, <1>7 DEF Refusing

\* A call within the caller's contract fails only where it crosses the end of a buffer
\* the caller bound, or of a single generator's growing cache that still has unused rows
\* (group_query_attention_op, try_compiled): never for its lengths, its positions, its
\* batch or its window.
THEOREM RefusesRightly == Spec => []RefusesOnlyOverflow
<1>0. SessionAssumption
  BY SessionAssumption
<1>1. Init => Refusing
  <2> SUFFICES ASSUME Init PROVE Refusing
    OBVIOUS
  <2>1. (\A n \in Generators : held[n] = <<>>) /\ refused = <<>>
    BY DEF Init
  <2> QED
    BY <2>1 DEF Refusing, HeldTurn, RefusesOnlyOverflow
<1>2. KvInv /\ Refusing /\ [Next]_vars => Refusing'
  <2> SUFFICES ASSUME KvInv, Refusing, [Next]_vars PROVE Refusing'
    OBVIOUS
  <2>1. Typed /\ HeldTurn
    BY <1>0 DEF Typed, KvInv, KvTypes, Refusing
  <2>2. CASE Step
    BY <2>1, <2>2, StepRefuses
  <2>3. CASE Reread
    BY <2>1, <2>3, RereadRefuses
  <2>4. CASE Rewind
    BY <2>1, <2>4, RewindRefuses
  <2>5. CASE UNCHANGED vars
    <3>1. session' = session /\ held' = held /\ refused' = refused
      BY <2>5 DEF vars
    <3>2. g' = g /\ Generators' = Generators
      BY <3>1 DEF g, Generators
    <3> QED
      BY <3>1, <3>2 DEF Refusing, HeldTurn, RefusesOnlyOverflow
  <2> QED
    BY <2>2, <2>3, <2>4, <2>5 DEF Next
<1>3. Refusing => RefusesOnlyOverflow
  BY DEF Refusing
<1> QED
  BY <1>1, <1>2, <1>3, KvCorrect, PTL DEF Spec
=============================================================================
