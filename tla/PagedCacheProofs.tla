--------------------------- MODULE PagedCacheProofs ---------------------------
(***************************************************************************)
(* What PagedAttention promises (paged_attention_op of                     *)
(* rust/src/ops/attention.rs, the boundary in rust/src/engine.rs), for any *)
(* layers, any sequences, any pool of blocks and any rows in a call.       *)
(*                                                                         *)
(* Rows reach a cache one by one and a call may stop between any two, so   *)
(* the properties rest on who may write where.  That is SharedFront: two   *)
(* sequences share blocks only at the front of both their tables, and only *)
(* full ones.  The new rows of a sequence go behind its rows, into blocks  *)
(* no other has (NewPrivate); one that is not to stay goes nowhere, to the *)
(* first block, or over an earlier row in such a block.  So no call writes *)
(* over another sequence's rows (NotTheirs), of one's own rows one at most *)
(* goes to each slot queries need (OwnOnce), and a sequence reads back its *)
(* view of itself (ReadRight).  Roomy says which positions of a sequence   *)
(* share a slot: those a whole round of its ring apart, and a ring is wide *)
(* enough for a step by RingAssumption.                                    *)
(*                                                                         *)
(* Of a call in progress the invariant keeps what it read, what it is to   *)
(* write, and that memory differs from the result at most in the slots the *)
(* call writes and the stores still to do (ProgressRight).                 *)
(***************************************************************************)
EXTENDS PagedCache, FiniteSetTheorems, TLAPS

\* The place in its table of the block that a position is in.
Block(p) == ((p - 1) \div BlockSize) + 1

\* Division with a rest.
LEMMA Divided ==
  ASSUME NEW x \in Nat, NEW b \in Nat \ {0}
  PROVE  /\ x \div b \in Nat /\ x % b \in 0 .. b - 1
         /\ x = (x \div b) * b + (x % b)
BY Z3

\* A row of a block is in no other block.
LEMMA SameRow ==
  ASSUME NEW a \in Nat, NEW c \in Nat, NEW b \in Nat \ {0},
         NEW x \in 0 .. b - 1, NEW y \in 0 .. b - 1, a * b + x = c * b + y
  PROVE  a = c /\ x = y
<1>1. ASSUME NEW m \in Nat, NEW n \in Nat, NEW u \in 0 .. b - 1, NEW v \in 0 .. b - 1,
             m * b + u = n * b + v
      PROVE  ~(m > n)
  <2>1. SUFFICES ASSUME m > n PROVE FALSE
    OBVIOUS
  <2>2. PICK d \in Nat : m = n + 1 + d
    <3>1. m - n - 1 \in Nat /\ m = n + 1 + (m - n - 1)
      BY <2>1
    <3> QED
      BY <3>1
  <2>3. m * b = n * b + b + d * b
    BY <2>2
  <2>4. d * b \in Nat /\ n * b \in Nat
    BY <2>2
  <2> QED
    BY <1>1, <2>3, <2>4
<1>2. ~(a > c) /\ ~(c > a)
  BY <1>1
<1>3. a = c
  BY <1>2
<1> QED
  BY <1>3

\* Blocks are as many as the rows need.
LEMMA BlockIn ==
  ASSUME NEW n \in Nat, NEW p \in 1 .. n * BlockSize
  PROVE  /\ Block(p) \in 1 .. n
         /\ Block(p) * BlockSize >= p /\ (Block(p) - 1) * BlockSize < p
<1> DEFINE x == p - 1
<1> BlockSize \in Nat \ {0}
  BY SizeAssumption
<1>0. n * BlockSize \in Nat
  OBVIOUS
<1>1. x \in Nat /\ p = x + 1
  BY <1>0
<1> DEFINE q == x \div BlockSize
<1>2. q \in Nat /\ x % BlockSize \in 0 .. BlockSize - 1 /\ x = q * BlockSize + (x % BlockSize)
  BY <1>1, Divided
<1>3. Block(p) = q + 1
  BY DEF Block
<1> HIDE DEF x, q
<1>4. (q + 1) * BlockSize = q * BlockSize + BlockSize /\ q * BlockSize \in Nat
  BY <1>2
<1>5. q + 1 <= n
  <2>1. SUFFICES ASSUME n <= q PROVE FALSE
    BY <1>2
  <2>2. PICK d \in Nat : q = n + d
    <3>1. q - n \in Nat /\ q = n + (q - n)
      BY <1>2, <2>1
    <3> QED
      BY <3>1
  <2>3. q * BlockSize = n * BlockSize + d * BlockSize /\ d * BlockSize \in Nat
    BY <2>2
  <2> QED
    BY <1>0, <1>1, <1>2, <1>4, <2>3
<1>6. q + 1 - 1 = q /\ q + 1 \in 1 .. n
  BY <1>2, <1>5
<1>7. (q + 1) * BlockSize >= p /\ q * BlockSize < p
  BY <1>1, <1>2, <1>4
<1>8. Block(p) - 1 = q
  BY <1>2, <1>3
<1> QED
  BY <1>3, <1>6, <1>7, <1>8

\* Numbers with one rest differ by the divisor or more.
LEMMA SameRest ==
  ASSUME NEW a \in Nat, NEW c \in Nat, NEW b \in Nat \ {0}, a % b = c % b, a < c
  PROVE  a + b <= c
<1> DEFINE q == a \div b
           r == c \div b
           x == a % b
<1>1. q \in Nat /\ r \in Nat /\ x \in Nat /\ a = q * b + x /\ c = r * b + x
  <2>1. q \in Nat /\ x \in 0 .. b - 1 /\ a = q * b + x
    BY Divided
  <2>2. r \in Nat /\ c = r * b + (c % b)
    BY Divided
  <2> QED
    BY <2>1, <2>2
<1> HIDE DEF q, r, x
<1>2. r >= q + 1
  <2>1. SUFFICES ASSUME r <= q PROVE FALSE
    BY <1>1
  <2>2. PICK d \in Nat : q = r + d
    <3>1. q - r \in Nat /\ q = r + (q - r)
      BY <1>1, <2>1
    <3> QED
      BY <3>1
  <2>3. q * b = r * b + d * b /\ d * b \in Nat
    BY <1>1, <2>2
  <2> QED
    BY <1>1, <2>3
<1>3. PICK d \in Nat : r = q + 1 + d
  <2>1. r - q - 1 \in Nat /\ r = q + 1 + (r - q - 1)
    BY <1>1, <1>2
  <2> QED
    BY <2>1
<1>4. r * b = q * b + b + d * b /\ d * b \in Nat /\ q * b \in Nat
  BY <1>1, <1>3
<1> QED
  BY <1>1, <1>4
-----------------------------------------------------------------------------
(* The invariant.                                                          *)

\* A row: whose it is, its token, and the position it was rotated for.
Row == [gen : Users, tok : Int, at : Int]

\* A cache has a row for every slot, in every store.
Pools(m) ==
    /\ m = [store \in layer.stores |-> m[store]]
    /\ \A store \in layer.stores : m[store] = [slot \in Slots |-> m[store][slot]]

\* The types of the state.
PTypes ==
    /\ layer \in Layers
    /\ held \in [Users -> Seq(Row)]
    /\ table \in [Users -> Seq((IF layer.mapped THEN 1 ELSE 0) .. Blocks - 1)]
    /\ rare \in Nat
    /\ Pools(mem) /\ Pools(apart)

\* No other sequence has the block that a sequence has at a place of its table.
Private(s, i) ==
    \A o \in Users \ {s} : \A j \in 1 .. Len(table[o]) : table[o][j] # table[s][i]

\* A sequence has the blocks for its rows, each once, unless it goes round a ring.
Roomy ==
    \A s \in Users :
      /\ Len(held[s]) <= Len(table[s]) * BlockSize
      /\ \A i, j \in 1 .. Len(table[s]) : table[s][i] = table[s][j] <=> Round(i) = Round(j)

\* What two sequences share is the front of both their tables, and full.
SharedFront ==
    \A s, o \in Users : s # o =>
      \A i \in 1 .. Len(table[s]), j \in 1 .. Len(table[o]) :
        table[s][i] = table[o][j] =>
          /\ layer.ring = 0 /\ i = j
          /\ i * BlockSize <= Len(held[s]) /\ i * BlockSize <= Len(held[o])
          /\ \A h \in 1 .. i : table[s][h] = table[o][h]

Tables == Roomy /\ SharedFront

\* The caches as the calls that have returned left them.
Settled == IF call = Idle THEN mem ELSE call.pool

\* They hold the rows that later queries may need.
Holds ==
    \A s \in Users : \A p \in Needed(s), store \in layer.stores :
      Settled[store][PlaceOf(s, p)] = held[s][p]

\* Where row j of an entry goes: to its place, or if it does not stay to nowhere, to the
\* first block, or, when it is the only one, over an earlier row in a private block.
Aside(e, j) ==
    /\ layer.mapped /\ ~layer.quant
    /\ \/ WriteSlot(e, j) \in {-1, 0}
       \/ /\ layer.ring = 0 /\ j = Len(e.new) /\ j = e.kept - e.past + 1
          /\ \E p \in 1 .. e.past : WriteSlot(e, j) = PlaceOf(e.seq, p) /\ Private(e.seq, Block(p))

\* An entry: what its sequence is, and for each of its rows where it goes.
EntryRight(e) ==
    /\ e.seq \in Users /\ e.past = Len(held[e.seq]) /\ e.table = table[e.seq]
    /\ e.new \in Seq(Row) /\ Len(e.new) <= WidestStep
    /\ e.kept \in e.past .. RowsAfter(e) /\ RowsAfter(e) <= Len(e.table) * BlockSize
    /\ \A j \in 1 .. Len(e.new) :
         IF j <= e.kept - e.past THEN WriteSlot(e, j) = SlotOf(e, e.past + j - 1) ELSE Aside(e, j)

\* The view of an entry: what its sequence is, with the rows that do not stay.
ViewRight(e, view) ==
    /\ view \in Seq(Row) /\ Len(view) = RowsAfter(e)
    /\ \A j \in 1 .. Len(e.new) : view[e.past + j] = Rows(e)[j]
    /\ \A p \in 1 .. e.past :
         \/ \E j \in 1 .. Len(e.new) :
              j > e.kept - e.past /\ WriteSlot(e, j) = PlaceOf(e.seq, p) /\ view[p] = Rows(e)[j]
         \/ /\ \A j \in 1 .. Len(e.new) : j > e.kept - e.past => WriteSlot(e, j) # PlaceOf(e.seq, p)
            /\ view[p] = held[e.seq][p]

\* The call in progress has an entry for each of its sequences.
BatchRight ==
    /\ Len(call.batch) \in Nat /\ DOMAIN call.batch = 1 .. Len(call.batch)
    /\ \A k \in DOMAIN call.batch : EntryRight(call.batch[k]) /\ ViewRight(call.batch[k], call.views[k])
    /\ \A k, l \in DOMAIN call.batch : call.batch[k].seq = call.batch[l].seq => k = l

\* Its writes, and the caches it read with them.
UpdatesRight ==
    /\ call.writes = Writes(call.batch) /\ call.patched = CachePatches(call.batch, call.writes)
    /\ Pools(call.pool) /\ Pools(call.updated)
    /\ \A store \in layer.stores :
         \E firstStays \in BOOLEAN :
           /\ call.updated[store] = Updated(call.pool[store], call.writes, firstStays)
           /\ Unique(call.writes) => ~firstStays

\* How far it is: memory differs from the result only where it is still to write.
ProgressRight ==
    /\ call = [phase |-> call.phase, batch |-> call.batch, views |-> call.views,
               writes |-> call.writes, patched |-> call.patched, updated |-> call.updated,
               assigns |-> call.assigns, outs |-> call.outs, back |-> call.back, pool |-> call.pool]
    /\ call.phase \in {"translated", "evaluated"}
    /\ call.assigns \subseteq layer.stores /\ call.outs \subseteq layer.stores /\ call.back \subseteq layer.stores
    /\ IF layer.device THEN call.back = {} ELSE call.assigns = {}
    /\ call.phase = "evaluated" => call.assigns = {}
    /\ \A store \in layer.stores :
         /\ store \notin call.assigns \cup call.back => mem[store] = call.updated[store]
         /\ \A slot \in Slots :
              slot \notin Written(call.writes) => mem[store][slot] = call.updated[store][slot]
         /\ layer.bound = "apart" /\ store \notin call.outs => apart[store] = call.updated[store]

CallRight == call # Idle => BatchRight /\ UpdatesRight /\ ProgressRight

PagedInv == PTypes /\ Tables /\ Holds /\ CallRight
-----------------------------------------------------------------------------
(* Places.                                                                 *)

\* The values the parts of a layer have.
LEMMA LayerIs ==
  ASSUME PTypes
  PROVE  /\ layer.stores \in {{"key"}, {"key", "value"}} /\ layer.bound \in {"none", "alias", "apart"}
         /\ layer.causal \in BOOLEAN /\ layer.rotary \in BOOLEAN /\ layer.quant \in BOOLEAN
         /\ layer.direct \in BOOLEAN /\ layer.patches \in BOOLEAN /\ layer.device \in BOOLEAN
         /\ layer.mapped \in BOOLEAN /\ ~layer.bias
         /\ layer.window \in Int /\ layer.ropeRows \in Nat /\ layer.ring \in Nat /\ layer.most \in Nat
         /\ layer.ring > 0 => layer.window > 0
              /\ layer.window - 1 + WidestStep <= layer.ring * BlockSize
BY LayerAssumption, RingAssumption DEF PTypes

\* The place of a position is a slot of its block.
LEMMA PlaceIn ==
  ASSUME PTypes, NEW s \in Users, NEW p \in 1 .. Len(table[s]) * BlockSize
  PROVE  /\ Block(p) \in 1 .. Len(table[s])
         /\ table[s][Block(p)] \in (IF layer.mapped THEN 1 ELSE 0) .. Blocks - 1
         /\ (p - 1) % BlockSize \in 0 .. BlockSize - 1
         /\ PlaceOf(s, p) = table[s][Block(p)] * BlockSize + ((p - 1) % BlockSize)
         /\ PlaceOf(s, p) \in Slots /\ (layer.mapped => PlaceOf(s, p) > 0)
<1> DEFINE n == Len(table[s])
           b == table[s][Block(p)]
           x == (p - 1) % BlockSize
<1>1. BlockSize \in Nat \ {0} /\ Blocks \in Nat
  BY SizeAssumption
<1>2. table[s] \in Seq((IF layer.mapped THEN 1 ELSE 0) .. Blocks - 1) /\ n \in Nat
  BY DEF PTypes
<1>3. n * BlockSize \in Nat
  BY <1>1, <1>2
<1>4. p \in Nat /\ p - 1 \in Nat /\ Block(p) \in 1 .. n
  BY <1>2, <1>3, BlockIn
<1>5. b \in (IF layer.mapped THEN 1 ELSE 0) .. Blocks - 1
  <2> DEFINE S == (IF layer.mapped THEN 1 ELSE 0) .. Blocks - 1
  <2>1. table[s] \in Seq(S) /\ Block(p) \in 1 .. Len(table[s])
    BY <1>2, <1>4
  <2> HIDE DEF S
  <2>2. table[s][Block(p)] \in S
    BY <2>1
  <2> QED
    BY <2>2 DEF S
<1>6. x \in 0 .. BlockSize - 1
  BY <1>1, <1>4, Divided
<1>7. PlaceOf(s, p) = b * BlockSize + x
  BY DEF PlaceOf, SlotOf, Block
<1> HIDE DEF b, x, n
<1>8. b \in Nat /\ b <= Blocks - 1 /\ (layer.mapped => b >= 1)
  BY <1>1, <1>5
<1>9. PICK d \in Nat : Blocks = b + 1 + d
  <2>1. Blocks - b - 1 \in Nat /\ Blocks = b + 1 + (Blocks - b - 1)
    BY <1>1, <1>8
  <2> QED
    BY <2>1
<1>10. Blocks * BlockSize = b * BlockSize + BlockSize + d * BlockSize /\ d * BlockSize \in Nat
       /\ b * BlockSize \in Nat
  BY <1>1, <1>8, <1>9
<1>11. b * BlockSize + x \in Slots
  BY <1>1, <1>6, <1>10 DEF Slots
<1>12. ASSUME layer.mapped PROVE b * BlockSize + x > 0
  <2>1. PICK c \in Nat : b = 1 + c
    <3>1. b - 1 \in Nat /\ b = 1 + (b - 1)
      BY <1>8, <1>12
    <3> QED
      BY <3>1
  <2>2. b * BlockSize = BlockSize + c * BlockSize /\ c * BlockSize \in Nat
    BY <1>1, <2>1
  <2> QED
    BY <1>1, <1>6, <2>2
<1> QED
  BY <1>4, <1>5, <1>6, <1>7, <1>11, <1>12 DEF n, b, x

\* Two positions in one slot are in one block, at one row of it.
LEMMA SamePlace ==
  ASSUME PTypes, NEW s \in Users, NEW p \in 1 .. Len(table[s]) * BlockSize,
         NEW o \in Users, NEW q \in 1 .. Len(table[o]) * BlockSize,
         PlaceOf(s, p) = PlaceOf(o, q)
  PROVE  table[s][Block(p)] = table[o][Block(q)] /\ (p - 1) % BlockSize = (q - 1) % BlockSize
<1> DEFINE b == table[s][Block(p)]
           c == table[o][Block(q)]
           x == (p - 1) % BlockSize
           y == (q - 1) % BlockSize
<1>1. BlockSize \in Nat \ {0} /\ Blocks \in Nat
  BY SizeAssumption
<1>2. b \in Nat /\ x \in 0 .. BlockSize - 1 /\ PlaceOf(s, p) = b * BlockSize + x
  BY PlaceIn
<1>3. c \in Nat /\ y \in 0 .. BlockSize - 1 /\ PlaceOf(o, q) = c * BlockSize + y
  BY PlaceIn
<1> HIDE DEF b, c, x, y
<1>4. b = c /\ x = y
  <2>1. b * BlockSize + x = c * BlockSize + y
    BY <1>2, <1>3
  <2> QED
    BY <1>1, <1>2, <1>3, <2>1, SameRow
<1> QED
  BY <1>4 DEF b, c, x, y

\* A position by its block and its row of it.
LEMMA BlockAndRow ==
  ASSUME NEW p \in Nat \ {0}
  PROVE  /\ Block(p) \in Nat \ {0} /\ (p - 1) % BlockSize \in Nat
         /\ p = (Block(p) - 1) * BlockSize + ((p - 1) % BlockSize) + 1
<1> DEFINE x == p - 1
           q == x \div BlockSize
           y == x % BlockSize
<1>1. x \in Nat /\ p = x + 1 /\ BlockSize \in Nat \ {0}
  BY SizeAssumption
<1>2. q \in Nat /\ y \in Nat /\ x = q * BlockSize + y
  BY <1>1, Divided
<1>3. Block(p) = q + 1
  BY DEF Block
<1> HIDE DEF x, q, y
<1>4. Block(p) - 1 = q
  BY <1>2, <1>3
<1> QED
  BY <1>1, <1>2, <1>3, <1>4 DEF x, y

\* A sequence has two positions in one slot only a whole round apart.
LEMMA OwnPlaces ==
  ASSUME PTypes, Roomy, NEW s \in Users, NEW p \in 1 .. Len(table[s]) * BlockSize,
         NEW q \in 1 .. Len(table[s]) * BlockSize, PlaceOf(s, p) = PlaceOf(s, q), p < q
  PROVE  layer.ring > 0 /\ p + layer.ring * BlockSize <= q
<1> DEFINE n == Len(table[s]) * BlockSize
           a == Block(p) - 1
           c == Block(q) - 1
           x == (p - 1) % BlockSize
<1>1. BlockSize \in Nat \ {0} /\ layer.ring \in Nat /\ n \in Nat
  BY SizeAssumption, LayerIs DEF PTypes
<1>2. p \in Nat \ {0} /\ q \in Nat \ {0}
  BY <1>1
<1>3. /\ a \in Nat /\ c \in Nat /\ x \in Nat
      /\ p = a * BlockSize + x + 1 /\ q = c * BlockSize + ((q - 1) % BlockSize) + 1
  <2>1. Block(p) \in Nat \ {0} /\ x \in Nat /\ p = a * BlockSize + x + 1
    BY <1>2, BlockAndRow
  <2>2. Block(q) \in Nat \ {0} /\ q = c * BlockSize + ((q - 1) % BlockSize) + 1
    BY <1>2, BlockAndRow
  <2> QED
    BY <2>1, <2>2
<1>4. table[s][Block(p)] = table[s][Block(q)] /\ x = (q - 1) % BlockSize
  BY SamePlace
<1>5. Block(p) \in 1 .. Len(table[s]) /\ Block(q) \in 1 .. Len(table[s])
  BY PlaceIn
<1>6. Round(Block(p)) = Round(Block(q))
  BY <1>4, <1>5 DEF Roomy
<1>7. q = c * BlockSize + x + 1
  BY <1>3, <1>4
<1>8. a < c
  <2>1. SUFFICES ASSUME c <= a PROVE FALSE
    BY <1>3
  <2> HIDE DEF a, c, x, n
  <2>2. PICK d \in Nat : a = c + d
    <3>1. a - c \in Nat /\ a = c + (a - c)
      BY <1>3, <2>1
    <3> QED
      BY <3>1
  <2>3. a * BlockSize = c * BlockSize + d * BlockSize /\ d * BlockSize \in Nat /\ c * BlockSize \in Nat
    BY <1>1, <1>3, <2>2
  <2> QED
    BY <1>1, <1>3, <1>7, <2>3
<1>9. layer.ring > 0
  <2>1. SUFFICES ASSUME layer.ring = 0 PROVE FALSE
    BY <1>1
  <2>2. Block(p) = Block(q)
    BY <1>6, <2>1 DEF Round
  <2> QED
    BY <1>3, <1>8, <2>2
<1>10. a % layer.ring = c % layer.ring
  <2> DEFINE r == layer.ring
  <2>0. r \in Nat \ {0} /\ a \in Nat /\ c \in Nat
    BY <1>1, <1>3, <1>9
  <2>1. a % r \in 0 .. r - 1 /\ c % r \in 0 .. r - 1
    <3> HIDE DEF a, c, r
    <3> QED
      BY <2>0, Divided
  <2>2. (a % r) + 1 = (c % r) + 1
    BY <1>6, <1>9 DEF Round
  <2> HIDE DEF a, c, r
  <2>3. a % r = c % r
    BY <2>0, <2>1, <2>2
  <2> QED
    BY <2>3 DEF r
<1>11. a + layer.ring <= c
  <2> HIDE DEF a, c
  <2>1. a \in Nat /\ c \in Nat /\ layer.ring \in Nat \ {0}
    BY <1>1, <1>3, <1>9
  <2> QED
    BY <1>8, <1>10, <2>1, SameRest
<1> DEFINE r == layer.ring
<1> HIDE DEF a, c, x, n, r
<1>12. PICK d \in Nat : c = a + r + d
  <2>1. c - a - r \in Nat /\ c = a + r + (c - a - r)
    BY <1>1, <1>3, <1>11 DEF r
  <2> QED
    BY <2>1
<1>13. c * BlockSize = a * BlockSize + r * BlockSize + d * BlockSize
       /\ d * BlockSize \in Nat /\ a * BlockSize \in Nat /\ r * BlockSize \in Nat
  <2>1. r \in Nat
    BY <1>1 DEF r
  <2>2. (a + r + d) * BlockSize = a * BlockSize + r * BlockSize + d * BlockSize
    BY <1>1, <1>3, <2>1
  <2> QED
    BY <1>1, <1>3, <1>12, <2>1, <2>2
<1>14. p + r * BlockSize <= q
  BY <1>1, <1>3, <1>7, <1>13
<1> QED
  BY <1>9, <1>14 DEF r

\* What two sequences have in one slot is one position of a full block they share.
LEMMA OthersPlaces ==
  ASSUME PTypes, Tables, NEW s \in Users, NEW p \in 1 .. Len(table[s]) * BlockSize,
         NEW o \in Users, NEW q \in 1 .. Len(table[o]) * BlockSize,
         PlaceOf(s, p) = PlaceOf(o, q), s # o
  PROVE  /\ layer.ring = 0 /\ p = q /\ p <= Len(held[s]) /\ p <= Len(held[o])
         /\ Block(p) * BlockSize <= Len(held[s])
         /\ ~Private(s, Block(p)) /\ ~Private(o, Block(p))
         /\ \A h \in 1 .. Block(p) : ~Private(o, h)
<1>1. BlockSize \in Nat \ {0} /\ Len(table[s]) \in Nat /\ Len(table[o]) \in Nat
      /\ Len(held[s]) \in Nat /\ Len(held[o]) \in Nat
  BY SizeAssumption DEF PTypes
<1>2. table[s][Block(p)] = table[o][Block(q)] /\ (p - 1) % BlockSize = (q - 1) % BlockSize
  BY SamePlace
<1>3. Block(p) \in 1 .. Len(table[s]) /\ Block(q) \in 1 .. Len(table[o])
  BY PlaceIn
<1>4. /\ layer.ring = 0 /\ Block(p) = Block(q)
      /\ Block(p) * BlockSize <= Len(held[s]) /\ Block(p) * BlockSize <= Len(held[o])
      /\ \A h \in 1 .. Block(p) : table[s][h] = table[o][h]
  BY <1>2, <1>3 DEF Tables, SharedFront
<1>5. Len(table[s]) * BlockSize \in Nat /\ Len(table[o]) * BlockSize \in Nat
  BY <1>1
<1>6. p \in Nat \ {0} /\ q \in Nat \ {0}
  BY <1>5
<1>7. p = (Block(p) - 1) * BlockSize + ((p - 1) % BlockSize) + 1
      /\ q = (Block(q) - 1) * BlockSize + ((q - 1) % BlockSize) + 1
  BY <1>6, BlockAndRow
<1>8. p = q
  BY <1>2, <1>4, <1>7
<1>9. Block(p) * BlockSize >= p /\ Block(p) * BlockSize \in Nat
  <2>1. Block(p) * BlockSize >= p
    BY <1>1, BlockIn
  <2> QED
    BY <1>1, <1>3, <2>1
<1>10. p <= Len(held[s]) /\ p <= Len(held[o])
  BY <1>1, <1>4, <1>6, <1>9
<1>11. ASSUME NEW h \in 1 .. Block(p) PROVE ~Private(o, h) /\ ~Private(s, h)
  <2>1. h \in 1 .. Len(table[s]) /\ h \in 1 .. Len(table[o]) /\ table[s][h] = table[o][h]
    BY <1>1, <1>3, <1>4
  <2> QED
    BY <2>1 DEF Private
<1>12. Block(p) \in 1 .. Block(p)
  BY <1>1, <1>3
<1> QED
  BY <1>4, <1>8, <1>10, <1>11, <1>12
-----------------------------------------------------------------------------
(* Where the rows of a call go.                                            *)

\* The types of the parts of an entry.
LEMMA EntryParts ==
  ASSUME PTypes, NEW e, EntryRight(e)
  PROVE  /\ e.seq \in Users /\ e.past \in Nat /\ Len(e.new) \in 0 .. WidestStep /\ WidestStep \in Nat
         /\ DOMAIN e.new = 1 .. Len(e.new) /\ RowsAfter(e) = e.past + Len(e.new)
         /\ e.kept \in e.past .. e.past + Len(e.new) /\ e.past = Len(held[e.seq])
         /\ Len(table[e.seq]) * BlockSize \in Nat
         /\ e.past + Len(e.new) <= Len(table[e.seq]) * BlockSize
         /\ \A q : SlotOf(e, q - 1) = PlaceOf(e.seq, q)
<1>1. e.past \in Nat /\ e.past = Len(held[e.seq]) /\ e.seq \in Users
  BY DEF EntryRight, PTypes
<1>2. Len(e.new) \in Nat /\ DOMAIN e.new = 1 .. Len(e.new) /\ WidestStep \in Nat
  BY SizeAssumption DEF EntryRight
<1>3. Len(table[e.seq]) \in Nat /\ BlockSize \in Nat
  BY <1>1, SizeAssumption DEF PTypes
<1>4. \A q : SlotOf(e, q - 1) = PlaceOf(e.seq, q)
  BY DEF SlotOf, PlaceOf, EntryRight
<1>5. RowsAfter(e) = e.past + Len(e.new) /\ Len(e.new) <= WidestStep
      /\ e.kept \in e.past .. RowsAfter(e) /\ RowsAfter(e) <= Len(table[e.seq]) * BlockSize
  BY DEF EntryRight, RowsAfter
<1>6. Len(e.new) \in 0 .. WidestStep /\ Len(table[e.seq]) * BlockSize \in Nat
  BY <1>2, <1>3, <1>5
<1>7. e.kept \in e.past .. e.past + Len(e.new)
      /\ e.past + Len(e.new) <= Len(table[e.seq]) * BlockSize
  BY <1>5
<1> QED
  BY <1>1, <1>2, <1>4, <1>5, <1>6, <1>7

\* Rotation (rope_with_offset) leaves as many rows.
LEMMA RowsAre ==
  ASSUME PTypes, NEW e, EntryRight(e)
  PROVE  Rows(e) \in Seq(Row) /\ Len(Rows(e)) = Len(e.new)
<1> DEFINE at == [j \in DOMAIN e.new |-> IF layer.rotary THEN e.past + j - 1 ELSE -1]
           f == [i \in DOMAIN e.new |-> [e.new[i] EXCEPT !.at = at[i]]]
<1>1. e.past \in Nat /\ DOMAIN e.new = 1 .. Len(e.new) /\ Len(e.new) \in Nat /\ e.new \in Seq(Row)
  BY EntryParts DEF EntryRight
<1>2. ASSUME NEW i \in DOMAIN e.new PROVE at[i] \in Int /\ e.new[i] \in Row
  BY <1>1, <1>2
<1>3. f \in [1 .. Len(e.new) -> Row]
  <2> HIDE DEF at
  <2> QED
    BY <1>1, <1>2 DEF Row
<1>4. f \in Seq(Row) /\ Len(f) = Len(e.new)
  <2> HIDE DEF f
  <2> QED
    BY <1>1, <1>3
<1>5. Rows(e) = SubSeq(f, 1, Len(f))
  BY DEF Rows, Rotated, Tabulated
<1> HIDE DEF f
<1>6. Rows(e) = f
  BY <1>1, <1>4, <1>5
<1> QED
  BY <1>4, <1>6

\* A row that stays goes to a block no other sequence has.
LEMMA NewPrivate ==
  ASSUME PTypes, Tables, NEW e, EntryRight(e), NEW j \in 1 .. Len(e.new), j <= e.kept - e.past
  PROVE  /\ WriteSlot(e, j) = PlaceOf(e.seq, e.past + j)
         /\ e.past + j \in 1 .. Len(table[e.seq]) * BlockSize
         /\ Private(e.seq, Block(e.past + j))
<1> DEFINE s == e.seq
           q == e.past + j
<1>1. /\ s \in Users /\ e.past \in Nat /\ e.past = Len(held[s]) /\ j \in Nat \ {0}
      /\ Len(table[s]) * BlockSize \in Nat /\ q <= Len(table[s]) * BlockSize
      /\ Len(table[s]) \in Nat /\ BlockSize \in Nat \ {0}
  BY EntryParts, SizeAssumption DEF PTypes
<1>2. q \in 1 .. Len(table[s]) * BlockSize
  BY <1>1
<1>3. WriteSlot(e, j) = PlaceOf(s, q)
  <2>1. WriteSlot(e, j) = SlotOf(e, e.past + j - 1)
    BY DEF EntryRight
  <2>2. SlotOf(e, q - 1) = PlaceOf(s, q)
    BY EntryParts
  <2>3. q - 1 = e.past + j - 1
    BY <1>1
  <2> QED
    BY <2>1, <2>2, <2>3
<1>4. ASSUME NEW o \in Users \ {s}, NEW i \in 1 .. Len(table[o]), table[o][i] = table[s][Block(q)]
      PROVE  FALSE
  <2>1. Block(q) \in 1 .. Len(table[s]) /\ Block(q) * BlockSize >= q
    BY <1>1, <1>2, BlockIn
  <2>2. Block(q) * BlockSize <= Len(held[s])
    <3> HIDE DEF q, s
    <3>1. SharedFront /\ o \in Users /\ s # o /\ s \in Users
      BY <1>1 DEF Tables
    <3> QED
      BY <1>4, <2>1, <3>1 DEF SharedFront
  <2>3. Block(q) * BlockSize \in Nat
    BY <1>1, <2>1
  <2> QED
    BY <1>1, <2>1, <2>2, <2>3
<1> QED
  BY <1>2, <1>3, <1>4 DEF Private

\* No entry writes over a position of another sequence.
LEMMA NotTheirs ==
  ASSUME PTypes, Tables, NEW e, EntryRight(e), NEW j \in 1 .. Len(e.new),
         NEW s \in Users, s # e.seq, NEW p \in 1 .. Len(table[s]) * BlockSize
  PROVE  WriteSlot(e, j) # PlaceOf(s, p)
<1> SUFFICES ASSUME WriteSlot(e, j) = PlaceOf(s, p) PROVE FALSE
  OBVIOUS
<1>1. ASSUME NEW q \in 1 .. Len(table[e.seq]) * BlockSize, PlaceOf(s, p) = PlaceOf(e.seq, q),
             Private(e.seq, Block(q))
      PROVE  FALSE
  <2>1. PlaceOf(e.seq, q) = PlaceOf(s, p) /\ e.seq # s /\ e.seq \in Users
    BY <1>1, EntryParts
  <2>2. ~Private(e.seq, Block(q))
    BY <2>1, OthersPlaces
  <2> QED
    BY <1>1, <2>2
<1>2. CASE j <= e.kept - e.past
  BY <1>1, <1>2, NewPrivate
<1>3. CASE ~(j <= e.kept - e.past)
  <2>1. Aside(e, j)
    BY <1>3 DEF EntryRight
  <2>2. layer.mapped /\ PlaceOf(s, p) > 0 /\ PlaceOf(s, p) \in Nat
    BY <2>1, PlaceIn, SizeAssumption DEF Aside, Slots
  <2>3. PICK q \in 1 .. e.past : WriteSlot(e, j) = PlaceOf(e.seq, q) /\ Private(e.seq, Block(q))
    BY <2>1, <2>2 DEF Aside
  <2>4. q \in 1 .. Len(table[e.seq]) * BlockSize
    BY EntryParts
  <2> QED
    BY <1>1, <2>3, <2>4
<1> QED
  BY <1>2, <1>3

\* An entry writes over a position its sequence keeps and queries may need only with the
\* row that the position is to have.
LEMMA OwnWrites ==
  ASSUME PTypes, Tables, NEW e, EntryRight(e), NEW j \in 1 .. Len(e.new),
         NEW p \in 1 .. e.kept, layer.ring > 0 => p > e.past - (layer.window - 1),
         WriteSlot(e, j) = PlaceOf(e.seq, p)
  PROVE  \/ j <= e.kept - e.past /\ p = e.past + j
         \/ j > e.kept - e.past /\ p <= e.past /\ j = Len(e.new) /\ j = e.kept - e.past + 1
<1> DEFINE s == e.seq
           n == Len(table[s]) * BlockSize
           round == layer.ring * BlockSize
<1>1. /\ s \in Users /\ e.past \in Nat /\ e.kept \in e.past .. e.past + Len(e.new)
      /\ Len(e.new) \in 0 .. WidestStep /\ WidestStep \in Nat
      /\ n \in Nat /\ e.past + Len(e.new) <= n /\ Roomy
  BY EntryParts DEF Tables
<1>2. p \in 1 .. n
  BY <1>1
<1>3. layer.ring \in Nat /\ round \in Nat /\ layer.window \in Int
      /\ (layer.ring > 0 => layer.window > 0 /\ layer.window - 1 + WidestStep <= round)
  BY LayerIs, SizeAssumption
<1> HIDE DEF n, round
<1>4. CASE j <= e.kept - e.past
  <2> DEFINE q == e.past + j
  <2>1. q \in 1 .. n /\ PlaceOf(s, q) = PlaceOf(s, p)
    BY <1>4, NewPrivate DEF n
  <2>2. CASE q < p
    <3>1. layer.ring > 0 /\ q + round <= p
      BY <1>1, <1>2, <2>1, <2>2, OwnPlaces DEF n, round
    <3>2. p \in Nat /\ p <= e.past + WidestStep /\ j \in Nat \ {0}
      BY <1>1
    <3>3. round >= WidestStep /\ q + round <= p
      BY <1>1, <1>3, <3>1
    <3>4. FALSE
      <4> HIDE DEF q
      <4>1. q > e.past /\ q \in Nat
        BY <1>1, <3>2 DEF q
      <4> QED
        BY <1>1, <1>3, <3>2, <3>3, <4>1
    <3> QED
      BY <3>4
  <2>3. CASE p < q
    <3>1. layer.ring > 0 /\ p + round <= q
      BY <1>1, <1>2, <2>1, <2>3, OwnPlaces DEF n, round
    <3> QED
      BY <1>1, <1>3, <3>1
  <2>4. q \in Nat /\ p \in Nat
    BY <1>1
  <2> QED
    BY <1>4, <2>2, <2>3, <2>4
<1>5. CASE ~(j <= e.kept - e.past)
  <2>1. Aside(e, j)
    BY <1>5 DEF EntryRight
  <2>2. layer.mapped /\ PlaceOf(s, p) > 0 /\ PlaceOf(s, p) \in Nat
    <3>1. layer.mapped /\ \A slot \in Slots : slot \in Int
      BY <2>1 DEF Aside, Slots
    <3>2. PlaceOf(s, p) \in Slots /\ PlaceOf(s, p) > 0
      BY <1>1, <1>2, <3>1, PlaceIn DEF n
    <3> QED
      BY <3>1, <3>2
  <2>3. layer.ring = 0 /\ j = Len(e.new) /\ j = e.kept - e.past + 1
    BY <2>1, <2>2 DEF Aside
  <2>4. PICK q \in 1 .. e.past : PlaceOf(s, p) = PlaceOf(s, q)
    BY <2>1, <2>2 DEF Aside
  <2>5. q \in 1 .. n
    BY <1>1
  <2>6. ~(q < p) /\ ~(p < q)
    <3>1. q < p => layer.ring > 0
      BY <1>1, <1>2, <2>4, <2>5, OwnPlaces DEF n
    <3>2. p < q => layer.ring > 0
      BY <1>1, <1>2, <2>4, <2>5, OwnPlaces DEF n
    <3> QED
      BY <2>3, <3>1, <3>2
  <2>7. p = q
    BY <1>1, <2>6
  <2> QED
    BY <1>1, <1>5, <2>3, <2>7
<1> QED
  BY <1>4, <1>5
-----------------------------------------------------------------------------
(* What a call leaves in a slot.                                           *)

\* A write is a row of an entry and its slot.
LEMMA WriteIs ==
  ASSUME NEW batch, NEW w \in Writes(batch)
  PROVE  /\ w.k \in DOMAIN batch /\ w.j \in DOMAIN batch[w.k].new
         /\ w.slot = WriteSlot(batch[w.k], w.j) /\ w.slot >= 0 /\ w.row = Rows(batch[w.k])[w.j]
         /\ w = [k |-> w.k, j |-> w.j, slot |-> w.slot, row |-> w.row]
BY DEF Writes

\* Every row of an entry that has a slot is a write.
LEMMA WriteMade ==
  ASSUME NEW batch, NEW k \in DOMAIN batch, NEW j \in DOMAIN batch[k].new, WriteSlot(batch[k], j) >= 0
  PROVE  \E w \in Writes(batch) :
           w.k = k /\ w.j = j /\ w.slot = WriteSlot(batch[k], j) /\ w.row = Rows(batch[k])[j]
<1> DEFINE w == [k |-> k, j |-> j, slot |-> WriteSlot(batch[k], j), row |-> Rows(batch[k])[j]]
           Of(l) == {[k |-> l, j |-> i, slot |-> WriteSlot(batch[l], i), row |-> Rows(batch[l])[i]] :
                       i \in {i \in DOMAIN batch[l].new : WriteSlot(batch[l], i) >= 0}}
<1>1. w \in Of(k)
  OBVIOUS
<1>2. Of(k) \in {Of(l) : l \in DOMAIN batch}
  OBVIOUS
<1>3. w \in Writes(batch)
  BY <1>1, <1>2 DEF Writes
<1> QED
  BY <1>3

\* Of a slot that one row is sent to, that row.
LEMMA StayingOne ==
  ASSUME NEW writes, NEW w \in writes, w.j \in Nat, NEW firstStays \in BOOLEAN,
         \A v \in writes : v.slot = w.slot => v = w
  PROVE  Staying(writes, w.slot, firstStays) = w
<1> DEFINE Stays(x) ==
             /\ x.slot = w.slot
             /\ \A v \in writes :
                  v.slot = w.slot => v.k < x.k \/ (v.k = x.k /\ IF firstStays THEN x.j <= v.j ELSE v.j <= x.j)
<1>1. Stays(w)
  OBVIOUS
<1>2. Staying(writes, w.slot, firstStays) = CHOOSE x \in writes : Stays(x)
  BY DEF Staying
<1>3. (CHOOSE x \in writes : Stays(x)) \in writes /\ Stays(CHOOSE x \in writes : Stays(x))
  BY <1>1
<1> QED
  BY <1>2, <1>3

\* What the invariant says during a call.
InCall == PTypes /\ Tables /\ Holds /\ call # Idle /\ BatchRight /\ UpdatesRight /\ ProgressRight

\* Every row of the call that is sent to a slot.
LEMMA SentTo ==
  ASSUME InCall, NEW slot, slot \in Written(call.writes)
  PROVE  \E k \in DOMAIN call.batch : \E j \in 1 .. Len(call.batch[k].new) :
           /\ WriteSlot(call.batch[k], j) = slot
           /\ EntryRight(call.batch[k]) /\ slot >= 0
           /\ \E w \in call.writes : w.k = k /\ w.j = j /\ w.slot = slot
<1>1. call.writes = Writes(call.batch)
  BY DEF InCall, UpdatesRight
<1>2. PICK w \in call.writes : w.slot = slot
  BY DEF Written
<1>3. w.k \in DOMAIN call.batch /\ w.j \in DOMAIN call.batch[w.k].new
      /\ w.slot = WriteSlot(call.batch[w.k], w.j) /\ w.slot >= 0
  BY <1>1, WriteIs
<1>4. EntryRight(call.batch[w.k])
  BY <1>3 DEF InCall, BatchRight
<1>5. DOMAIN call.batch[w.k].new = 1 .. Len(call.batch[w.k].new)
  BY <1>4 DEF EntryRight
<1> QED
  BY <1>2, <1>3, <1>4, <1>5

\* A slot that nothing is sent to keeps what it had.
LEMMA NotSentTo ==
  ASSUME InCall, NEW store \in layer.stores, NEW slot \in Slots, slot \notin Written(call.writes)
  PROVE  call.updated[store][slot] = call.pool[store][slot]
BY DEF InCall, UpdatesRight, Updated

\* A slot that one row is sent to has that row.
LEMMA SentOnce ==
  ASSUME InCall, NEW store \in layer.stores, NEW slot \in Slots, NEW k \in DOMAIN call.batch,
         NEW j \in 1 .. Len(call.batch[k].new), WriteSlot(call.batch[k], j) = slot,
         \A l \in DOMAIN call.batch : \A i \in 1 .. Len(call.batch[l].new) :
           WriteSlot(call.batch[l], i) = slot => l = k /\ i = j
  PROVE  call.updated[store][slot] = Rows(call.batch[k])[j]
<1>1. call.writes = Writes(call.batch)
  BY DEF InCall, UpdatesRight
<1>2. ASSUME NEW l \in DOMAIN call.batch
      PROVE  DOMAIN call.batch[l].new = 1 .. Len(call.batch[l].new)
  BY DEF InCall, BatchRight, EntryRight
<1>3. slot >= 0
  BY SizeAssumption DEF Slots
<1>4. PICK w \in call.writes : /\ w.k = k /\ w.j = j /\ w.slot = slot
                               /\ w.row = Rows(call.batch[k])[j]
  BY <1>1, <1>2, <1>3, WriteMade
<1>5. ASSUME NEW v \in call.writes, v.slot = w.slot PROVE v = w
  <2>1. /\ v.k \in DOMAIN call.batch /\ v.j \in DOMAIN call.batch[v.k].new
        /\ v.slot = WriteSlot(call.batch[v.k], v.j) /\ v.row = Rows(call.batch[v.k])[v.j]
        /\ v = [k |-> v.k, j |-> v.j, slot |-> v.slot, row |-> v.row]
    BY <1>1, WriteIs
  <2>2. v.k = k /\ v.j = j
    BY <1>2, <1>4, <1>5, <2>1
  <2>3. w = [k |-> w.k, j |-> w.j, slot |-> w.slot, row |-> w.row]
    BY <1>1, WriteIs
  <2> QED
    BY <1>4, <1>5, <2>1, <2>2, <2>3
<1>6. PICK firstStays \in BOOLEAN :
        call.updated[store] = Updated(call.pool[store], call.writes, firstStays)
  BY DEF InCall, UpdatesRight
<1>7. Staying(call.writes, slot, firstStays) = w
  <2>1. w.j \in Nat
    BY <1>4
  <2> QED
    BY <1>4, <1>5, <2>1, StayingOne
<1>8. slot \in Written(call.writes)
  BY <1>4 DEF Written
<1> QED
  BY <1>4, <1>6, <1>7, <1>8 DEF Updated

\* Of an entry's rows only one goes to a position that queries may need.
LEMMA OwnOnce ==
  ASSUME PTypes, Tables, NEW e, EntryRight(e), NEW j \in 1 .. Len(e.new), NEW i \in 1 .. Len(e.new),
         NEW p \in 1 .. e.kept, layer.ring > 0 => p > e.past - (layer.window - 1),
         WriteSlot(e, j) = PlaceOf(e.seq, p), WriteSlot(e, i) = PlaceOf(e.seq, p)
  PROVE  i = j
<1>1. \/ j <= e.kept - e.past /\ p = e.past + j
      \/ j > e.kept - e.past /\ p <= e.past /\ j = Len(e.new) /\ j = e.kept - e.past + 1
  BY OwnWrites
<1>2. \/ i <= e.kept - e.past /\ p = e.past + i
      \/ i > e.kept - e.past /\ p <= e.past /\ i = Len(e.new) /\ i = e.kept - e.past + 1
  BY OwnWrites
<1>3. e.past \in Nat /\ e.kept \in Nat /\ Len(e.new) \in Nat
  BY EntryParts
<1> QED
  BY <1>1, <1>2, <1>3

\* A call leaves a sequence's positions as its view has them.
LEMMA ReadRight ==
  ASSUME InCall, NEW store \in layer.stores, NEW k \in DOMAIN call.batch,
         NEW p \in 1 .. call.batch[k].kept,
         layer.ring > 0 => p > call.batch[k].past - (layer.window - 1)
  PROVE  call.updated[store][PlaceOf(call.batch[k].seq, p)] = call.views[k][p]
<1> DEFINE e == call.batch[k]
           s == e.seq
           view == call.views[k]
           place == PlaceOf(s, p)
<1>1. PTypes /\ Tables /\ EntryRight(e) /\ ViewRight(e, view)
  BY DEF InCall, BatchRight
<1>2. /\ s \in Users /\ e.past \in Nat /\ Len(e.new) \in Nat
      /\ e.kept \in e.past .. e.past + Len(e.new) /\ e.past = Len(held[s])
      /\ e.past + Len(e.new) <= Len(table[s]) * BlockSize /\ Len(table[s]) * BlockSize \in Nat
  BY <1>1, EntryParts
<1>3. p \in 1 .. Len(table[s]) * BlockSize
  <2> DEFINE n == Len(table[s]) * BlockSize
  <2>1. /\ p \in 1 .. e.kept /\ e.past \in Nat /\ Len(e.new) \in Nat /\ n \in Nat
        /\ e.kept \in e.past .. e.past + Len(e.new) /\ e.past + Len(e.new) <= n
    BY <1>2
  <2> HIDE DEF n, e
  <2>2. p \in 1 .. n
    BY <2>1
  <2> QED
    BY <2>2 DEF n
<1>4. place \in Slots
  BY <1>1, <1>2, <1>3, PlaceIn
<1>5. ASSUME NEW l \in DOMAIN call.batch, NEW i \in 1 .. Len(call.batch[l].new),
             WriteSlot(call.batch[l], i) = place
      PROVE  l = k
  <2>1. SUFFICES ASSUME l # k PROVE FALSE
    OBVIOUS
  <2>2. EntryRight(call.batch[l]) /\ call.batch[l].seq # s
    BY <2>1 DEF InCall, BatchRight
  <2> QED
    BY <1>1, <1>2, <1>3, <1>5, <2>2, NotTheirs
<1>6. CASE \E j \in 1 .. Len(e.new) : WriteSlot(e, j) = place
  <2>1. PICK j \in 1 .. Len(e.new) : WriteSlot(e, j) = place
    BY <1>6
  <2>2. ASSUME NEW i \in 1 .. Len(e.new), WriteSlot(e, i) = place PROVE i = j
    BY <1>1, <2>1, <2>2, OwnOnce
  <2>3. ASSUME NEW l \in DOMAIN call.batch, NEW i \in 1 .. Len(call.batch[l].new),
               WriteSlot(call.batch[l], i) = place
        PROVE  l = k /\ i = j
    BY <1>5, <2>2, <2>3
  <2>4. call.updated[store][place] = Rows(e)[j]
    BY <1>4, <2>1, <2>3, SentOnce
  <2>5. \/ j <= e.kept - e.past /\ p = e.past + j
        \/ j > e.kept - e.past /\ p <= e.past
    BY <1>1, <2>1, OwnWrites
  <2>6. CASE p = e.past + j
    BY <1>1, <2>4, <2>6 DEF ViewRight
  <2>7. CASE j > e.kept - e.past /\ p <= e.past
    <3>1. p \in 1 .. e.past
      BY <1>2, <2>7
    <3>2. PICK i \in 1 .. Len(e.new) : WriteSlot(e, i) = place /\ view[p] = Rows(e)[i]
      BY <1>1, <2>1, <2>7, <3>1 DEF ViewRight
    <3> QED
      BY <2>2, <2>4, <3>2
  <2> QED
    BY <2>5, <2>6, <2>7
<1>7. CASE \A j \in 1 .. Len(e.new) : WriteSlot(e, j) # place
  <2>1. place \notin Written(call.writes)
    <3> SUFFICES ASSUME place \in Written(call.writes) PROVE FALSE
      OBVIOUS
    <3>1. PICK l \in DOMAIN call.batch : \E i \in 1 .. Len(call.batch[l].new) :
                                           WriteSlot(call.batch[l], i) = place
      BY SentTo
    <3> QED
      BY <1>5, <1>7, <3>1
  <2>2. call.updated[store][place] = call.pool[store][place]
    BY <1>4, <2>1, NotSentTo
  <2>3. p <= e.past
    <3> SUFFICES ASSUME ~(p <= e.past) PROVE FALSE
      OBVIOUS
    <3> DEFINE j == p - e.past
    <3>1. j \in 1 .. Len(e.new) /\ j <= e.kept - e.past /\ e.past + j = p
      <4>1. /\ p \in 1 .. e.kept /\ e.past \in Nat /\ Len(e.new) \in Nat
            /\ e.kept \in e.past .. e.past + Len(e.new)
        BY <1>2
      <4> HIDE DEF e
      <4> QED
        BY <4>1
    <3>2. WriteSlot(e, j) = PlaceOf(s, e.past + j)
      <4> HIDE DEF j
      <4> QED
        BY <1>1, <3>1, NewPrivate
    <3> QED
      BY <1>7, <3>1, <3>2
  <2>4. p \in Needed(s)
    <3>1. DOMAIN held[s] = 1 .. e.past
      BY <1>1, <1>2 DEF PTypes
    <3> QED
      BY <1>2, <2>3, <3>1 DEF Needed
  <2>5. call.pool[store][place] = held[s][p]
    BY <1>2, <2>4 DEF InCall, Holds, Settled
  <2>6. p \in 1 .. e.past
    BY <1>2, <2>3
  <2>7. view[p] = held[s][p]
    BY <1>1, <1>7, <2>6 DEF ViewRight
  <2> QED
    BY <2>2, <2>5, <2>7
<1> QED
  BY <1>6, <1>7

\* Of the other sequences it changes nothing.
LEMMA OthersKept ==
  ASSUME InCall, NEW store \in layer.stores, NEW s \in Users,
         \A k \in DOMAIN call.batch : call.batch[k].seq # s, NEW p \in 1 .. Len(held[s])
  PROVE  call.updated[store][PlaceOf(s, p)] = call.pool[store][PlaceOf(s, p)]
<1>1. PTypes /\ Tables
  BY DEF InCall
<1>2. p \in 1 .. Len(table[s]) * BlockSize
  BY <1>1, SizeAssumption DEF Tables, Roomy, PTypes
<1>3. PlaceOf(s, p) \in Slots
  BY <1>1, <1>2, PlaceIn
<1>4. PlaceOf(s, p) \notin Written(call.writes)
  <2> SUFFICES ASSUME PlaceOf(s, p) \in Written(call.writes) PROVE FALSE
    OBVIOUS
  <2>1. PICK k \in DOMAIN call.batch :
          EntryRight(call.batch[k]) /\ \E j \in 1 .. Len(call.batch[k].new) :
                                         WriteSlot(call.batch[k], j) = PlaceOf(s, p)
    BY SentTo
  <2> QED
    BY <1>1, <1>2, <2>1, NotTheirs
<1> QED
  BY <1>3, <1>4, NotSentTo

\* What the invariant says of the memory.
LEMMA MemoryHolds == PagedInv => CachesHold /\ Coherent
<1> SUFFICES ASSUME PagedInv PROVE CachesHold /\ Coherent
  OBVIOUS
<1>1. ASSUME NEW s \in Users, NEW p \in Needed(s), NEW store \in layer.stores,
             ~(call # Idle /\ PlaceOf(s, p) \in Written(call.writes))
      PROVE  mem[store][PlaceOf(s, p)] = held[s][p]
  <2>1. Settled[store][PlaceOf(s, p)] = held[s][p]
    BY DEF PagedInv, Holds
  <2>2. CASE call = Idle
    BY <2>1, <2>2 DEF Settled
  <2>3. CASE call # Idle
    <3>1. InCall
      BY <2>3 DEF PagedInv, CallRight, InCall
    <3>2. p \in 1 .. Len(held[s]) /\ Len(held[s]) \in Nat /\ Len(table[s]) \in Nat
      BY <3>1 DEF Needed, InCall, PTypes
    <3>3. p \in 1 .. Len(table[s]) * BlockSize
      BY <3>1, <3>2, SizeAssumption DEF InCall, Tables, Roomy
    <3>4. PlaceOf(s, p) \in Slots
      BY <3>1, <3>3, PlaceIn DEF InCall
    <3>5. mem[store][PlaceOf(s, p)] = call.updated[store][PlaceOf(s, p)]
      BY <1>1, <2>3, <3>1, <3>4 DEF InCall, ProgressRight
    <3>6. call.updated[store][PlaceOf(s, p)] = call.pool[store][PlaceOf(s, p)]
      BY <1>1, <2>3, <3>1, <3>4, NotSentTo
    <3> QED
      BY <2>1, <2>3, <3>5, <3>6 DEF Settled
  <2> QED
    BY <2>2, <2>3
<1>2. CachesHold
  BY <1>1 DEF CachesHold
<1>3. Coherent
  <2> SUFFICES ASSUME Delivered, NEW store \in layer.stores
               PROVE  /\ mem[store] = call.updated[store]
                      /\ layer.bound = "apart" => apart[store] = call.updated[store]
    BY DEF Coherent
  <2>1. call # Idle
    BY DEF Delivered, Idle
  <2>2. ProgressRight
    BY <2>1 DEF PagedInv, CallRight
  <2>3. call.assigns = {} /\ call.back = {} /\ call.outs = {}
    BY <2>2 DEF Delivered, ProgressRight
  <2> QED
    BY <2>2, <2>3 DEF ProgressRight
<1> QED
  BY <1>2, <1>3
-----------------------------------------------------------------------------
(* What the queries read.                                                  *)

\* A function of 1 .. n.
Listed(f, n) == f = [i \in 1 .. n |-> f[i]]
LEMMA Appended ==
  ASSUME NEW n \in Nat, NEW f, Listed(f, n), NEW m \in Nat, NEW g, Listed(g, m)
  PROVE  /\ \A i \in 1 .. n + m : (f \o g)[i] = IF i <= n THEN f[i] ELSE g[i - n]
         /\ Tabulated(f \o g) = f \o g /\ Len(f \o g) = n + m
<1> DEFINE S == {f[i] : i \in 1 .. n} \cup {g[i] : i \in 1 .. m}
<1>1. f \in [1 .. n -> S] /\ g \in [1 .. m -> S]
  BY DEF Listed
<1> HIDE DEF S
<1>2. f \in Seq(S) /\ Len(f) = n /\ g \in Seq(S) /\ Len(g) = m
  BY <1>1
<1>3. f \o g \in Seq(S) /\ Len(f \o g) = n + m
  BY <1>2
<1>4. \A i \in 1 .. n + m : (f \o g)[i] = IF i <= n THEN f[i] ELSE g[i - n]
  BY <1>2, <1>3
<1>5. Tabulated(f \o g) = f \o g
  <2> DEFINE h == f \o g
  <2>1. h \in Seq(S)
    BY <1>3
  <2> HIDE DEF h
  <2>2. Tabulated(h) = h
    BY <2>1 DEF Tabulated
  <2> QED
    BY <2>2 DEF h
<1> QED
  BY <1>3, <1>4, <1>5

\* The kernel over pages reads a patched cache as it is to be.
LEMMA PatchedPages ==
  ASSUME InCall, NEW store \in layer.stores, NEW k \in DOMAIN call.batch, call.patched
  PROVE  Direct(call.pool[store], call.batch[k], TRUE)
           = Pages(call.updated[store], call.batch[k], call.batch[k].past) \o Rows(call.batch[k])
<1> DEFINE e == call.batch[k]
           pool == call.pool[store]
           Those(slot) == {j \in DOMAIN e.new : WriteSlot(e, j) = slot}
           Newest(slot) == IF Those(slot) = {} THEN pool[slot]
                           ELSE Rows(e)[CHOOSE j \in Those(slot) : \A o \in Those(slot) : o <= j]
<1>1. PTypes /\ EntryRight(e)
  BY DEF InCall, BatchRight
<1>2. Len(call.batch) = 1 /\ Unique(call.writes) /\ call.writes = Writes(call.batch) /\ DOMAIN call.batch = 1 .. 1
  BY DEF InCall, UpdatesRight, BatchRight, CachePatches
<1>3. /\ DOMAIN e.new = 1 .. Len(e.new) /\ Len(e.new) \in Nat /\ e.past \in Nat /\ e.seq \in Users
      /\ e.past + Len(e.new) <= Len(table[e.seq]) * BlockSize /\ Len(table[e.seq]) * BlockSize \in Nat
      /\ \A q : SlotOf(e, q - 1) = PlaceOf(e.seq, q)
  BY <1>1, EntryParts
<1>4. ASSUME NEW slot \in Slots PROVE Newest(slot) = call.updated[store][slot]
  <2>1. CASE Those(slot) = {}
    <3>1. slot \notin Written(call.writes)
      <4> SUFFICES ASSUME slot \in Written(call.writes) PROVE FALSE
        OBVIOUS
      <4>1. PICK l \in DOMAIN call.batch : \E j \in 1 .. Len(call.batch[l].new) :
                                             WriteSlot(call.batch[l], j) = slot
        BY SentTo
      <4>2. l = k
        BY <1>2
      <4> QED
        BY <1>3, <2>1, <4>1, <4>2
    <3> QED
      BY <2>1, <3>1, NotSentTo
  <2>2. CASE Those(slot) # {}
    <3>1. PICK j \in Those(slot) : TRUE
      BY <2>2
    <3>2. j \in 1 .. Len(e.new) /\ WriteSlot(e, j) = slot /\ slot >= 0
      BY <1>3, <3>1, SizeAssumption DEF Slots
    <3>3. ASSUME NEW l \in DOMAIN call.batch, NEW i \in 1 .. Len(call.batch[l].new),
                 WriteSlot(call.batch[l], i) = slot
          PROVE  l = k /\ i = j
      <4>1. l = k
        BY <1>2
      <4>2. PICK v \in call.writes : v.j = i /\ v.slot = slot
        BY <1>2, <1>3, <3>2, <3>3, <4>1, WriteMade
      <4>3. PICK w \in call.writes : w.j = j /\ w.slot = slot
        BY <1>2, <1>3, <3>2, WriteMade
      <4> QED
        BY <1>2, <4>1, <4>2, <4>3 DEF Unique
    <3>4. Those(slot) = {j}
      BY <1>3, <3>2, <3>3
    <3>5. (CHOOSE i \in Those(slot) : \A o \in Those(slot) : o <= i) = j
      BY <3>2, <3>4
    <3>6. call.updated[store][slot] = Rows(e)[j]
      BY <3>2, <3>3, SentOnce
    <3> HIDE DEF Those
    <3> QED
      BY <2>2, <3>5, <3>6
  <2> QED
    BY <2>1, <2>2
<1>5. ASSUME NEW p \in 1 .. e.past PROVE Newest(SlotOf(e, p - 1)) = call.updated[store][SlotOf(e, p - 1)]
  <2>1. p \in 1 .. Len(table[e.seq]) * BlockSize
    <3> DEFINE n == Len(table[e.seq]) * BlockSize
    <3>1. e.past \in Nat /\ Len(e.new) \in Nat /\ n \in Nat /\ e.past + Len(e.new) <= n
      BY <1>3
    <3> HIDE DEF n, e
    <3>2. p \in 1 .. n
      BY <3>1
    <3> QED
      BY <3>2 DEF n
  <2>2. SlotOf(e, p - 1) \in Slots
    BY <1>1, <1>3, <2>1, PlaceIn
  <2> QED
    BY <1>4, <2>2
<1>6. Direct(pool, e, TRUE) = [p \in 1 .. e.past |-> Newest(SlotOf(e, p - 1))] \o Rows(e)
  BY DEF Direct
<1>7. [p \in 1 .. e.past |-> Newest(SlotOf(e, p - 1))] = Pages(call.updated[store], e, e.past)
  <2> HIDE DEF Newest
  <2> QED
    BY <1>5 DEF Pages
<1> QED
  BY <1>6, <1>7

\* Where positions of an integer cache are read back, all stay.
LEMMA QuantKeepsAll ==
  ASSUME PTypes, NEW e, EntryRight(e), layer.quant
  PROVE  e.kept = RowsAfter(e)
<1>1. e.past \in Nat /\ Len(e.new) \in Nat /\ e.kept \in e.past .. e.past + Len(e.new)
      /\ RowsAfter(e) = e.past + Len(e.new)
  BY EntryParts
<1>2. SUFFICES ASSUME e.kept < e.past + Len(e.new) PROVE FALSE
  BY <1>1
<1> DEFINE j == e.kept - e.past + 1
<1>3. j \in 1 .. Len(e.new) /\ ~(j <= e.kept - e.past)
  BY <1>1, <1>2
<1>4. Aside(e, j)
  <2> HIDE DEF j
  <2> QED
    BY <1>3 DEF EntryRight
<1> QED
  BY <1>4 DEF Aside

\* By whichever route, what is read is the view, but for rows a ring has let go.
LEMMA ReadIs ==
  ASSUME InCall, NEW store \in layer.stores, NEW k \in DOMAIN call.batch,
         NEW rows, rows = Read(call.pool[store], call.updated[store], call.batch[k], call.patched)
  PROVE  /\ Tabulated(rows) = rows /\ Len(rows) = Len(call.views[k])
         /\ \A p \in 1 .. Len(call.views[k]) :
              (layer.ring > 0 => p > call.batch[k].past - (layer.window - 1)) => rows[p] = call.views[k][p]
<1> DEFINE e == call.batch[k]
           view == call.views[k]
           new == call.updated[store]
           pages == Pages(new, e, e.past)
           Seen(p) == layer.ring > 0 => p > e.past - (layer.window - 1)
<1>1. PTypes /\ EntryRight(e) /\ ViewRight(e, view)
  BY DEF InCall, BatchRight
<1>2. /\ e.past \in Nat /\ Len(e.new) \in Nat /\ e.kept \in e.past .. e.past + Len(e.new)
      /\ RowsAfter(e) = e.past + Len(e.new) /\ \A q : SlotOf(e, q - 1) = PlaceOf(e.seq, q)
  BY <1>1, EntryParts
<1>3. Len(view) = e.past + Len(e.new) /\ \A j \in 1 .. Len(e.new) : view[e.past + j] = Rows(e)[j]
  BY <1>1, <1>2 DEF ViewRight
<1>4. ASSUME NEW p \in 1 .. e.kept, Seen(p) PROVE new[SlotOf(e, p - 1)] = view[p]
  BY <1>2, <1>4, ReadRight
<1>5. CASE rows = pages \o Rows(e)
  <2>1. Listed(pages, e.past)
    BY DEF Pages, Listed
  <2>2. Listed(Rows(e), Len(e.new))
    BY <1>1, RowsAre DEF Listed
  <2>3. /\ \A i \in 1 .. e.past + Len(e.new) : rows[i] = IF i <= e.past THEN pages[i] ELSE Rows(e)[i - e.past]
        /\ Tabulated(rows) = rows /\ Len(rows) = e.past + Len(e.new)
    <3> DEFINE all == pages \o Rows(e)
    <3>1. /\ \A i \in 1 .. e.past + Len(e.new) : all[i] = IF i <= e.past THEN pages[i] ELSE Rows(e)[i - e.past]
          /\ Tabulated(all) = all /\ Len(all) = e.past + Len(e.new)
      <4> DEFINE f == pages
                 g == Rows(e)
                 n == e.past
                 m == Len(e.new)
      <4>1. n \in Nat /\ m \in Nat /\ Listed(f, n) /\ Listed(g, m) /\ all = f \o g
        BY <1>2, <2>1, <2>2
      <4> HIDE DEF f, g, n, m, all
      <4>2. \A i \in 1 .. n + m : (f \o g)[i] = IF i <= n THEN f[i] ELSE g[i - n]
        BY <4>1, Appended
      <4>3. Tabulated(f \o g) = f \o g
        BY <4>1, Appended
      <4>4. Len(f \o g) = n + m
        BY <4>1, Appended
      <4> QED
        BY <4>1, <4>2, <4>3, <4>4 DEF f, g, n, m
    <3>2. rows = all
      BY <1>5
    <3> HIDE DEF all
    <3> QED
      BY <3>1, <3>2
  <2>4. ASSUME NEW p \in 1 .. e.past + Len(e.new), Seen(p) PROVE rows[p] = view[p]
    <3>1. CASE p <= e.past
      <4>1. p \in 1 .. e.kept /\ p \in 1 .. e.past
        <5> HIDE DEF e
        <5> QED
          BY <1>2, <3>1
      <4>2. rows[p] = new[SlotOf(e, p - 1)]
        BY <2>3, <3>1, <4>1 DEF Pages
      <4> QED
        BY <1>4, <2>4, <4>1, <4>2
    <3>2. CASE ~(p <= e.past)
      <4>1. p - e.past \in 1 .. Len(e.new) /\ e.past + (p - e.past) = p
        <5> HIDE DEF e
        <5> QED
          BY <1>2, <3>2
      <4>2. rows[p] = Rows(e)[p - e.past]
        BY <2>3, <3>2
      <4> QED
        BY <1>3, <4>1, <4>2
    <3> QED
      BY <3>1, <3>2
  <2> QED
    BY <1>3, <2>3, <2>4
<1>6. CASE layer.quant /\ rows = Pages(new, e, RowsAfter(e))
  <2>1. rows = [p \in 1 .. e.past + Len(e.new) |-> new[SlotOf(e, p - 1)]]
    BY <1>2, <1>6 DEF Pages
  <2>2. e.kept = e.past + Len(e.new)
    BY <1>1, <1>2, <1>6, QuantKeepsAll
  <2>3. Len(rows) = e.past + Len(e.new) /\ Tabulated(rows) = rows
    <3> DEFINE m == e.past + Len(e.new)
               none == [i \in 1 .. 0 |-> i]
               S == {rows[p] : p \in 1 .. m}
    <3>1. m \in Nat
      BY <1>2
    <3> HIDE DEF m
    <3>2. rows \in [1 .. m -> S]
      BY <2>1 DEF m
    <3> HIDE DEF S
    <3>3. rows \in Seq(S) /\ Len(rows) = m
      BY <3>1, <3>2
    <3>4. Tabulated(rows) = rows
      BY <3>3 DEF Tabulated
    <3> QED
      BY <3>3, <3>4 DEF m
  <2>4. ASSUME NEW p \in 1 .. e.past + Len(e.new), Seen(p) PROVE rows[p] = view[p]
    BY <1>4, <2>1, <2>2, <2>4
  <2> QED
    BY <1>3, <2>3, <2>4
<1>7. rows = pages \o Rows(e) \/ (layer.quant /\ rows = Pages(new, e, RowsAfter(e)))
  <2>1. CASE ~UsesDirect(e)
    BY <2>1 DEF Read, Gathered
  <2>2. CASE UsesDirect(e) /\ call.patched
    BY <2>2, PatchedPages DEF Read
  <2>3. CASE UsesDirect(e) /\ ~call.patched
    BY <2>3 DEF Read, Direct, Pages
  <2> QED
    BY <2>1, <2>2, <2>3
<1> QED
  BY <1>5, <1>6, <1>7

\* Every query sees the rows meant for it.
LEMMA ReadsRight == PagedInv => AttendsOwn
<1> SUFFICES ASSUME PagedInv, Delivered, NEW k \in DOMAIN call.batch, NEW store \in layer.stores,
                    NEW i \in DOMAIN call.batch[k].new
             PROVE  Sees(call.batch[k], call.pool[store], call.updated[store], call.patched)[i].keys
                      = Meant(call.views[k], call.batch[k].past + i)
  BY DEF AttendsOwn
<1> DEFINE e == call.batch[k]
           view == call.views[k]
           rows == Read(call.pool[store], call.updated[store], e, call.patched)
           Masked == {j \in 0 .. Len(rows) - 1 : PagedMask(e, i - 1, j)}
           keys == {[row |-> rows[j + 1], bias |-> -1] : j \in Masked}
           Wanted == {q \in DOMAIN view : /\ layer.causal => q <= e.past + i
                                          /\ layer.window > 0 => q > (e.past + i) - layer.window}
<1>1. InCall
  BY DEF PagedInv, CallRight, Delivered, Idle, InCall
<1>2. PTypes /\ EntryRight(e) /\ ViewRight(e, view)
  BY <1>1 DEF InCall, BatchRight
<1>3. e.past \in Nat /\ Len(e.new) \in Nat /\ i \in 1 .. Len(e.new) /\ layer.window \in Int /\ ~layer.bias
      /\ (layer.ring > 0 => layer.window > 0)
  BY <1>2, EntryParts, LayerIs
<1>4. DOMAIN view = 1 .. Len(view) /\ Len(view) \in Nat
  BY <1>2 DEF ViewRight
<1>5. /\ Tabulated(rows) = rows /\ Len(rows) = Len(view)
      /\ \A p \in 1 .. Len(view) :
           (layer.ring > 0 => p > e.past - (layer.window - 1)) => rows[p] = view[p]
  <2> HIDE DEF rows
  <2> QED
    BY <1>1, ReadIs DEF rows
<1>6. Sees(e, call.pool[store], call.updated[store], call.patched)[i].keys = keys
  BY <1>3, <1>5 DEF Sees, Attend
<1>7. ASSUME NEW j \in Masked PROVE j + 1 \in Wanted /\ rows[j + 1] = view[j + 1]
  <2> HIDE DEF e, rows, view
  <2>1. j + 1 \in 1 .. Len(view) /\ j \in Int
    BY <1>4, <1>5
  <2>2. /\ layer.causal => j + 1 <= e.past + i
        /\ layer.window > 0 => j + 1 > (e.past + i) - layer.window
    <3>1. PagedMask(e, i - 1, j)
      OBVIOUS
    <3>2. /\ layer.causal => j <= e.past + (i - 1)
          /\ layer.window > 0 => e.past - layer.window + 1 + (i - 1) <= j
      BY <3>1 DEF PagedMask, CausalTopLeft
    <3>3. e.past \in Int /\ i \in Int /\ layer.window \in Int
      BY <1>3
    <3> HIDE DEF Masked, Wanted, keys
    <3> QED
      BY <2>1, <3>2, <3>3
  <2>3. layer.ring > 0 => j + 1 > e.past - (layer.window - 1)
    BY <1>3, <2>1, <2>2
  <2> QED
    BY <1>4, <1>5, <2>1, <2>2, <2>3
<1>8. ASSUME NEW q \in Wanted PROVE q - 1 \in Masked /\ (q - 1) + 1 = q
  <2> HIDE DEF e, rows, view
  <2>1. q \in 1 .. Len(view) /\ q - 1 \in 0 .. Len(rows) - 1 /\ (q - 1) + 1 = q
    BY <1>4, <1>5
  <2>2. PagedMask(e, i - 1, q - 1)
    BY <1>3, <1>4 DEF PagedMask, CausalTopLeft
  <2> QED
    BY <2>1, <2>2
<1>9. keys = {[row |-> view[p], bias |-> -1] : p \in Wanted}
  <2> HIDE DEF Masked, Wanted, rows, view
  <2>1. ASSUME NEW x \in keys PROVE x \in {[row |-> view[p], bias |-> -1] : p \in Wanted}
    BY <1>7
  <2>2. ASSUME NEW p \in Wanted PROVE [row |-> view[p], bias |-> -1] \in keys
    BY <1>7, <1>8
  <2> QED
    BY <2>1, <2>2
<1>10. Meant(view, e.past + i) = {[row |-> view[p], bias |-> -1] : p \in Wanted}
  BY DEF Meant
<1> QED
  BY <1>6, <1>9, <1>10
-----------------------------------------------------------------------------
(* The steps between the beginning of a call and its end.                  *)

\* Of rows that go back to some slots, each goes to its own.
LEMMA RunOf ==
  ASSUME NEW N \in Nat, NEW S \in SUBSET (0 .. N), NEW x \in S
  PROVE  \E r \in WritebackRanges(S) : x \in r[1] .. r[2]
<1> DEFINE R == {ss \in Nat \X Nat : ss[1] < ss[2]}
           Below == {a \in Nat : a <= x /\ a .. x \subseteq S}
           Above == {c \in Nat : x + c + 1 \notin S}
<1>1. IsWellFoundedOn(R, Nat)
  BY NatLessThanWellFounded DEF OpToRel
<1>2. PICK a \in Below : \A y \in Below : <<y, a>> \notin R
  <2>1. x \in Below /\ Below \in SUBSET Nat
    OBVIOUS
  <2> HIDE DEF Below, R
  <2>2. Below # {}
    BY <2>1
  <2> QED
    BY <1>1, <2>1, <2>2, WFMin
<1>3. PICK c \in Above : \A y \in Above : <<y, c>> \notin R
  <2>1. N - x \in Above /\ Above \in SUBSET Nat
    OBVIOUS
  <2> HIDE DEF Above, R
  <2>2. Above # {}
    BY <2>1
  <2> QED
    BY <1>1, <2>1, <2>2, WFMin
<1>4. a - 1 \notin S
  <2> SUFFICES ASSUME a - 1 \in S PROVE FALSE
    OBVIOUS
  <2>1. a - 1 \in Nat /\ a - 1 <= x
    BY <1>2
  <2>2. \A i \in (a - 1) .. x : i = a - 1 \/ i \in a .. x
    BY <1>2
  <2>3. a - 1 \in Below
    BY <1>2, <2>1, <2>2
  <2>4. <<a - 1, a>> \in R
    BY <1>2, <2>1
  <2> QED
    BY <1>2, <2>3, <2>4
<1>5. ASSUME NEW i \in x .. x + c PROVE i \in S
  <2> SUFFICES ASSUME i \notin S PROVE FALSE
    OBVIOUS
  <2>1. i # x /\ i - x - 1 \in Nat /\ x + (i - x - 1) + 1 = i /\ i - x - 1 < c
    BY <1>3
  <2>2. i - x - 1 \in Above
    BY <2>1
  <2> QED
    BY <1>3, <2>1, <2>2
<1>6. x + c + 1 \notin S /\ x + c \in S /\ a \in S
  BY <1>2, <1>3, <1>5
<1>7. ASSUME NEW i \in a .. x + c PROVE i \in S
  <2>1. i \in a .. x \/ i \in x .. x + c
    BY <1>2, <1>3
  <2> QED
    BY <1>2, <1>5, <2>1
<1>8. <<a, x + c>> \in WritebackRanges(S)
  BY <1>2, <1>3, <1>4, <1>6, <1>7 DEF WritebackRanges
<1> QED
  BY <1>2, <1>3, <1>8

\* Rows are sent to slots of the pool.
LEMMA WrittenIn == ASSUME InCall PROVE Written(call.writes) \subseteq Slots
<1> SUFFICES ASSUME NEW slot \in Written(call.writes) PROVE slot \in Slots
  OBVIOUS
<1>0. PICK k \in DOMAIN call.batch : \E j \in 1 .. Len(call.batch[k].new) :
        WriteSlot(call.batch[k], j) = slot /\ EntryRight(call.batch[k]) /\ slot >= 0
  BY SentTo
<1>1. PICK j \in 1 .. Len(call.batch[k].new) :
        WriteSlot(call.batch[k], j) = slot /\ EntryRight(call.batch[k]) /\ slot >= 0
  BY <1>0
<1> DEFINE e == call.batch[k]
<1>2. PTypes /\ Tables
  BY DEF InCall
<1> DEFINE n == Len(table[e.seq]) * BlockSize
<1>3. e.seq \in Users /\ n \in Nat /\ e.past \in Nat /\ Len(e.new) \in Nat /\ e.past + Len(e.new) <= n
  BY <1>1, <1>2, EntryParts
<1>4. \A p \in 1 .. n : PlaceOf(e.seq, p) \in Slots
  BY <1>2, <1>3, PlaceIn
<1>5. 1 \in 1 .. n /\ \A p \in 1 .. e.past : p \in 1 .. n
  <2> HIDE DEF n, e
  <2> QED
    BY <1>1, <1>3 DEF e
<1>6. CASE j <= e.kept - e.past
  <2> HIDE DEF e, n
  <2>1. WriteSlot(e, j) = PlaceOf(e.seq, e.past + j) /\ e.past + j \in 1 .. n
    BY <1>1, <1>2, <1>6, NewPrivate DEF e, n
  <2> QED
    BY <1>1, <1>4, <2>1 DEF e
<1>7. CASE ~(j <= e.kept - e.past)
  <2>1. Aside(e, j)
    BY <1>1, <1>7 DEF EntryRight
  <2>2. CASE slot = 0
    <3>1. PlaceOf(e.seq, 1) \in 0 .. Blocks * BlockSize - 1 /\ Blocks * BlockSize \in Nat
      BY <1>4, <1>5, SizeAssumption DEF Slots
    <3> QED
      BY <2>2, <3>1 DEF Slots
  <2>3. CASE slot # 0
    <3>1. slot # -1
      BY <1>1
    <3>2. PICK p \in 1 .. e.past : slot = PlaceOf(e.seq, p)
      BY <1>1, <2>1, <2>3, <3>1 DEF Aside
    <3> QED
      BY <1>4, <1>5, <3>2
  <2> QED
    BY <2>2, <2>3
<1> QED
  BY <1>6, <1>7

\* The copies bring what they are of to all the slots that rows are sent to.
LEMMA CopiesWhole ==
  ASSUME InCall, NEW store \in layer.stores, NEW slot \in Slots,
         NEW copies, copies = Copies(store, call.updated, call.writes, call.patched)
  PROVE  /\ slot \in DOMAIN copies => copies[slot] = call.updated[store][slot]
         /\ slot \in Written(call.writes) => slot \in DOMAIN copies
<1> DEFINE written == Written(call.writes)
<1>1. CASE call.patched
  <2>1. Unique(call.writes)
    BY <1>1 DEF InCall, UpdatesRight, CachePatches
  <2>2. call.updated[store] = Updated(call.pool[store], call.writes, FALSE)
    BY <2>1 DEF InCall, UpdatesRight
  <2>3. copies = [i \in written |-> Staying(call.writes, i, FALSE).row]
    BY <1>1 DEF Copies, PatchCopies
  <2> QED
    BY <2>2, <2>3 DEF Updated
<1>2. CASE ~call.patched
  <2> DEFINE D == UNION {r[1] .. r[2] : r \in WritebackRanges(written)}
  <2>1. copies = [i \in D |-> call.updated[store][i]]
    BY <1>2 DEF Copies, RowCopies
  <2>2. ASSUME slot \in written PROVE slot \in D
    <3> DEFINE N == Blocks * BlockSize
    <3>1. N \in Nat /\ Slots \subseteq 0 .. N
      <4>1. N \in Nat
        BY SizeAssumption
      <4> HIDE DEF N
      <4>2. 0 .. N - 1 \subseteq 0 .. N
        BY <4>1
      <4> QED
        BY <4>1, <4>2 DEF N, Slots
    <3>2. written \in SUBSET (0 .. N)
      BY <3>1, WrittenIn
    <3> HIDE DEF N, written
    <3>3. PICK r \in WritebackRanges(written) : slot \in r[1] .. r[2]
      BY <2>2, <3>1, <3>2, RunOf
    <3> QED
      BY <3>3
  <2> HIDE DEF D
  <2> QED
    BY <2>1, <2>2
<1> QED
  BY <1>1, <1>2

\* What an entry is depends on the layer, the rows and the tables.
LEMMA SameEntries ==
  ASSUME UNCHANGED <<layer, held, table>>, NEW e, NEW view
  PROVE  /\ EntryRight(e)' <=> EntryRight(e)
         /\ ViewRight(e, view)' <=> ViewRight(e, view)
<1>1. \A j : WriteSlot(e, j)' = WriteSlot(e, j)
  BY DEF WriteSlot, SlotOf
<1>2. \A s, p : PlaceOf(s, p)' = PlaceOf(s, p)
  BY DEF PlaceOf, SlotOf
<1>3. \A s, i : Private(s, i)' <=> Private(s, i)
  BY DEF Private
<1>4. Rows(e)' = Rows(e)
  BY DEF Rows
<1>5. \A j : Aside(e, j)' <=> Aside(e, j)
  BY <1>1, <1>2, <1>3 DEF Aside
<1> QED
  BY <1>1, <1>2, <1>4, <1>5 DEF EntryRight, ViewRight, SlotOf, RowsAfter

\* The tables are right as long as no row and no block of a sequence changes.
LEMMA SameTables ==
  ASSUME UNCHANGED <<layer, held, table>>
  PROVE  Tables' <=> Tables
BY DEF Tables, Roomy, SharedFront, Round

\* A memory is one as long as the layer is the same.
LEMMA SamePools ==
  ASSUME UNCHANGED layer, NEW m
  PROVE  Pools(m)' <=> Pools(m)
BY DEF Pools

\* A call goes on with what it has computed.
LEMMA Continues ==
  ASSUME PagedInv, call # Idle, UNCHANGED <<layer, held, table, rare>>,
         call'.batch = call.batch, call'.views = call.views, call'.writes = call.writes,
         call'.patched = call.patched, call'.updated = call.updated, call'.pool = call.pool,
         Pools(mem)', Pools(apart)', ProgressRight'
  PROVE  PagedInv'
<1>1. PTypes' /\ Tables'
  BY SameTables DEF PagedInv, PTypes
<1>2. call' # Idle
  BY DEF ProgressRight, Idle
<1>3. Holds'
  <2>1. Settled' = Settled
    BY <1>2 DEF Settled
  <2>2. \A s, p : PlaceOf(s, p)' = PlaceOf(s, p)
    BY DEF PlaceOf, SlotOf
  <2>3. \A s : Needed(s)' = Needed(s)
    BY DEF Needed
  <2> QED
    BY <2>1, <2>2, <2>3 DEF PagedInv, Holds
<1>4. BatchRight'
  <2>1. BatchRight
    BY DEF PagedInv, CallRight
  <2> QED
    BY <2>1, SameEntries DEF BatchRight
<1>5. UpdatesRight'
  <2>1. UpdatesRight
    BY DEF PagedInv, CallRight
  <2>2. Writes(call.batch)' = Writes(call.batch)
    BY DEF Writes, WriteSlot, SlotOf, Rows
  <2>3. CachePatches(call.batch, call.writes)' = CachePatches(call.batch, call.writes)
    BY DEF CachePatches
  <2>4. call'.writes = Writes(call.batch)' /\ call'.patched = CachePatches(call.batch, call.writes)'
    BY <2>1, <2>2, <2>3 DEF UpdatesRight
  <2>5. Pools(call.pool)' /\ Pools(call.updated)'
    <3>1. Pools(call.pool) /\ Pools(call.updated)
      BY <2>1 DEF UpdatesRight
    <3> QED
      BY <3>1, SamePools
  <2>6. ASSUME NEW store \in layer.stores
        PROVE  \E firstStays \in BOOLEAN :
                 /\ call'.updated[store] = Updated(call'.pool[store], call'.writes, firstStays)
                 /\ Unique(call'.writes) => ~firstStays
    BY <2>1 DEF UpdatesRight
  <2> QED
    BY <2>4, <2>5, <2>6 DEF UpdatesRight
<1> QED
  BY <1>1, <1>3, <1>4, <1>5 DEF PagedInv, CallRight

\* The store whose turn it is, is one of those to do.
LEMMA FirstIn ==
  ASSUME PTypes, NEW stores, stores \subseteq layer.stores, stores # {}
  PROVE  First(stores) \in stores
BY LayerIs DEF First

\* write_back_input_rows on the device: one cache gets its updated array while the graph
\* is being built; the rows the call does not write stay as they were.
LEMMA AssignStep == PagedInv /\ Assign => PagedInv'
<1> SUFFICES ASSUME PagedInv, Assign PROVE PagedInv'
  OBVIOUS
<1>1. call # Idle
  BY DEF Assign, Idle
<1>2. InCall
  BY <1>1 DEF PagedInv, CallRight, InCall
<1> DEFINE st == First(call.assigns)
<1>3. st \in layer.stores /\ st \in call.assigns
  BY <1>2, FirstIn DEF InCall, ProgressRight, Assign
<1>4. /\ mem' = [mem EXCEPT ![st] = call.updated[st]]
      /\ call' = [call EXCEPT !.assigns = @ \ {st}]
      /\ UNCHANGED <<layer, held, table, rare, apart>>
  BY DEF Assign
<1> HIDE DEF st
<1>5. /\ call'.phase = call.phase /\ call'.batch = call.batch /\ call'.views = call.views
      /\ call'.writes = call.writes /\ call'.patched = call.patched /\ call'.updated = call.updated
      /\ call'.pool = call.pool /\ call'.outs = call.outs /\ call'.back = call.back
      /\ call'.assigns = call.assigns \ {st}
  BY <1>2, <1>4 DEF InCall, ProgressRight
<1>6. mem'[st] = call.updated[st] /\ \A store \in layer.stores : store # st => mem'[store] = mem[store]
  BY <1>2, <1>3, <1>4 DEF InCall, PTypes, Pools
<1>7. Pools(mem)' /\ Pools(apart)'
  <2>1. Pools(mem) /\ Pools(apart) /\ Pools(call.updated)
    BY <1>2 DEF InCall, PTypes, UpdatesRight
  <2>2. Pools(apart)'
    BY <1>4, <2>1 DEF Pools
  <2>3. mem' = [store \in layer.stores |-> mem'[store]]
    BY <1>3, <1>4, <2>1 DEF Pools
  <2>4. \A store \in layer.stores : mem'[store] = [slot \in Slots |-> mem'[store][slot]]
    BY <1>3, <1>6, <2>1 DEF Pools
  <2> QED
    BY <1>4, <2>2, <2>3, <2>4 DEF Pools
<1>8. ProgressRight'
  <2>1. ProgressRight
    BY <1>2 DEF InCall
  <2>2. call' = [phase |-> call'.phase, batch |-> call'.batch, views |-> call'.views,
                 writes |-> call'.writes, patched |-> call'.patched, updated |-> call'.updated,
                 assigns |-> call'.assigns, outs |-> call'.outs, back |-> call'.back, pool |-> call'.pool]
    BY <1>4, <1>5, <2>1 DEF ProgressRight
  <2>3. Written(call.writes)' = Written(call.writes)
    BY <1>5 DEF Written
  <2>4. ASSUME NEW store \in layer.stores
        PROVE  /\ store \notin call'.assigns \cup call'.back => mem'[store] = call'.updated[store]
               /\ \A slot \in Slots :
                    slot \notin Written(call.writes) => mem'[store][slot] = call'.updated[store][slot]
               /\ layer.bound = "apart" /\ store \notin call'.outs => apart'[store] = call'.updated[store]
    <3>1. CASE store = st
      BY <1>4, <1>5, <1>6, <2>1, <3>1 DEF ProgressRight
    <3>2. CASE store # st
      BY <1>4, <1>5, <1>6, <2>1, <3>2 DEF ProgressRight
    <3> QED
      BY <3>1, <3>2
  <2>5. /\ call'.phase \in {"translated", "evaluated"}
        /\ call'.assigns \subseteq layer.stores /\ call'.outs \subseteq layer.stores
        /\ call'.back \subseteq layer.stores
        /\ IF layer.device THEN call'.back = {} ELSE call'.assigns = {}
        /\ call'.phase = "evaluated" => call'.assigns = {}
    BY <1>5, <2>1 DEF ProgressRight
  <2> QED
    BY <1>4, <2>2, <2>3, <2>4, <2>5 DEF ProgressRight
<1> QED
  BY <1>1, <1>4, <1>5, <1>7, <1>8, Continues

\* Evaluation leaves the memory alone.
LEMMA EvaluateStep == PagedInv /\ Evaluate => PagedInv'
<1> SUFFICES ASSUME PagedInv, Evaluate PROVE PagedInv'
  OBVIOUS
<1>1. call # Idle /\ call.assigns = {}
  BY DEF Evaluate, Idle
<1>2. InCall
  BY <1>1 DEF PagedInv, CallRight, InCall
<1>3. call' = [call EXCEPT !.phase = "evaluated"] /\ UNCHANGED <<layer, held, table, rare, mem, apart>>
  BY DEF Evaluate
<1>4. /\ call'.phase = "evaluated" /\ call'.batch = call.batch /\ call'.views = call.views
      /\ call'.writes = call.writes /\ call'.patched = call.patched /\ call'.updated = call.updated
      /\ call'.pool = call.pool /\ call'.outs = call.outs /\ call'.back = call.back
      /\ call'.assigns = call.assigns
  BY <1>2, <1>3 DEF InCall, ProgressRight
<1>5. Pools(mem)' /\ Pools(apart)'
  BY <1>2, <1>3 DEF InCall, PTypes, Pools
<1>6. ProgressRight'
  <2>1. ProgressRight
    BY <1>2 DEF InCall
  <2>2. call' = [phase |-> call'.phase, batch |-> call'.batch, views |-> call'.views,
                 writes |-> call'.writes, patched |-> call'.patched, updated |-> call'.updated,
                 assigns |-> call'.assigns, outs |-> call'.outs, back |-> call'.back, pool |-> call'.pool]
    BY <1>3, <1>4, <2>1 DEF ProgressRight
  <2>3. Written(call.writes)' = Written(call.writes)
    BY <1>4 DEF Written
  <2> QED
    BY <1>1, <1>3, <1>4, <2>1, <2>2, <2>3 DEF ProgressRight
<1> QED
  BY <1>1, <1>3, <1>4, <1>5, <1>6, Continues

\* copy_out_raw_delta: an output copied, whole or its changed rows, into the memory of
\* the input or elsewhere.
LEMMA CopyOutStep == PagedInv /\ CopyOut => PagedInv'
<1> SUFFICES ASSUME PagedInv, CopyOut PROVE PagedInv'
  OBVIOUS
<1>1. call # Idle /\ call.phase = "evaluated" /\ call.outs # {}
  BY DEF CopyOut, Idle
<1>2. InCall
  BY <1>1 DEF PagedInv, CallRight, InCall
<1>3. ProgressRight /\ Pools(mem) /\ Pools(apart) /\ Pools(call.updated) /\ PTypes
  BY <1>2 DEF InCall, PTypes, UpdatesRight
<1> DEFINE st == First(call.outs)
           new == call.updated[st]
           copied == IF layer.device THEN new
                     ELSE [slot \in Slots |-> IF slot \in DeltaRows(call.writes) THEN new[slot] ELSE mem[st][slot]]
<1>4. st \in layer.stores /\ st \in call.outs
  BY <1>1, <1>3, FirstIn DEF ProgressRight
<1>5. /\ Out(st) /\ call' = [call EXCEPT !.outs = @ \ {st}]
      /\ UNCHANGED <<layer, held, table, rare>>
  BY DEF CopyOut
<1>6. /\ call'.phase = call.phase /\ call'.batch = call.batch /\ call'.views = call.views
      /\ call'.writes = call.writes /\ call'.patched = call.patched /\ call'.updated = call.updated
      /\ call'.pool = call.pool /\ call'.outs = call.outs \ {st} /\ call'.back = call.back
      /\ call'.assigns = call.assigns
  BY <1>3, <1>5 DEF ProgressRight
<1>7. CASE layer.bound = "apart"
  <2>1. mem' = mem /\ apart' = [apart EXCEPT ![st] = new]
    BY <1>5, <1>7 DEF Out
  <2>2. apart'[st] = new /\ \A store \in layer.stores : store # st => apart'[store] = apart[store]
    BY <1>3, <1>4, <2>1 DEF Pools
  <2>3. Pools(mem)' /\ Pools(apart)'
    <3>1. Pools(mem)'
      BY <1>3, <1>5, <2>1 DEF Pools
    <3>2. apart' = [store \in layer.stores |-> apart'[store]]
      BY <1>3, <1>4, <2>1 DEF Pools
    <3>3. \A store \in layer.stores : apart'[store] = [slot \in Slots |-> apart'[store][slot]]
      BY <1>3, <1>4, <2>2 DEF Pools
    <3> QED
      BY <1>5, <3>1, <3>2, <3>3 DEF Pools
  <2>4. \A store \in layer.stores : store \notin call'.outs => apart'[store] = call'.updated[store]
    BY <1>3, <1>6, <1>7, <2>2 DEF ProgressRight
  <2> HIDE DEF st, new
  <2>5. ProgressRight'
    <3>1. call' = [phase |-> call'.phase, batch |-> call'.batch, views |-> call'.views,
                   writes |-> call'.writes, patched |-> call'.patched, updated |-> call'.updated,
                   assigns |-> call'.assigns, outs |-> call'.outs, back |-> call'.back, pool |-> call'.pool]
      BY <1>3, <1>5, <1>6 DEF ProgressRight
    <3>2. Written(call.writes)' = Written(call.writes)
      BY <1>6 DEF Written
    <3> QED
      BY <1>3, <1>5, <1>6, <2>1, <2>4, <3>1, <3>2 DEF ProgressRight
  <2> QED
    BY <1>1, <1>5, <1>6, <2>3, <2>5, Continues
<1>8. CASE layer.bound # "apart"
  <2>1. apart' = apart /\ mem' = [mem EXCEPT ![st] = copied]
    BY <1>5, <1>8 DEF Out
  <2>2. mem'[st] = copied /\ \A store \in layer.stores : store # st => mem'[store] = mem[store]
    BY <1>3, <1>4, <2>1 DEF Pools
  <2>3. copied = [slot \in Slots |-> copied[slot]]
    BY <1>3, <1>4 DEF Pools
  <2>4. \A slot \in Slots : copied[slot] \in {mem[st][slot], new[slot]}
    OBVIOUS
  <2>5. mem[st] = new => copied = new
    BY <1>3, <1>4, <2>3, <2>4 DEF Pools
  <2> HIDE DEF st, new, copied
  <2>6. Pools(mem)' /\ Pools(apart)'
    <3>1. Pools(apart)'
      BY <1>3, <1>5, <2>1 DEF Pools
    <3>2. mem' = [store \in layer.stores |-> mem'[store]]
      BY <1>3, <1>4, <2>1 DEF Pools
    <3>3. \A store \in layer.stores : mem'[store] = [slot \in Slots |-> mem'[store][slot]]
      BY <1>3, <1>4, <2>2, <2>3 DEF Pools
    <3> QED
      BY <1>5, <3>1, <3>2, <3>3 DEF Pools
  <2>7. ASSUME NEW store \in layer.stores
        PROVE  /\ store \notin call'.assigns \cup call'.back => mem'[store] = call'.updated[store]
               /\ \A slot \in Slots :
                    slot \notin Written(call.writes) => mem'[store][slot] = call'.updated[store][slot]
    <3>1. CASE store = st
      <4>1. store \notin call'.assigns \cup call'.back => mem'[store] = call'.updated[store]
        BY <1>3, <1>6, <2>2, <2>5, <3>1 DEF ProgressRight, new
      <4>2. ASSUME NEW slot \in Slots, slot \notin Written(call.writes)
            PROVE  mem'[store][slot] = call'.updated[store][slot]
        BY <1>3, <1>6, <2>2, <2>4, <3>1, <4>2 DEF ProgressRight, new
      <4> QED
        BY <4>1, <4>2
    <3>2. CASE store # st
      BY <1>3, <1>6, <2>2, <3>2 DEF ProgressRight
    <3> QED
      BY <3>1, <3>2
  <2>8. ProgressRight'
    <3>1. call' = [phase |-> call'.phase, batch |-> call'.batch, views |-> call'.views,
                   writes |-> call'.writes, patched |-> call'.patched, updated |-> call'.updated,
                   assigns |-> call'.assigns, outs |-> call'.outs, back |-> call'.back, pool |-> call'.pool]
      BY <1>3, <1>5, <1>6 DEF ProgressRight
    <3>2. Written(call.writes)' = Written(call.writes)
      BY <1>6 DEF Written
    <3> QED
      BY <1>3, <1>5, <1>6, <1>8, <2>7, <3>1, <3>2 DEF ProgressRight
  <2> QED
    BY <1>1, <1>5, <1>6, <2>6, <2>8, Continues
<1> QED
  BY <1>7, <1>8

\* finish_boundary: rows or patches copied into the memory of one cache.
LEMMA WriteBackStep == PagedInv /\ WriteBack => PagedInv'
<1> SUFFICES ASSUME PagedInv, WriteBack PROVE PagedInv'
  OBVIOUS
<1>1. call # Idle /\ call.phase = "evaluated" /\ call.back # {}
  BY DEF WriteBack, Idle
<1>2. InCall
  BY <1>1 DEF PagedInv, CallRight, InCall
<1>3. ProgressRight /\ Pools(mem) /\ Pools(apart) /\ Pools(call.updated) /\ PTypes
  BY <1>2 DEF InCall, PTypes, UpdatesRight
<1> DEFINE st == First(call.back)
           copies == Copies(st, call.updated, call.writes, call.patched)
           copied == [slot \in Slots |-> IF slot \in DOMAIN copies THEN copies[slot] ELSE mem[st][slot]]
<1>4. st \in layer.stores /\ st \in call.back
  BY <1>1, <1>3, FirstIn DEF ProgressRight
<1>5. /\ mem' = [mem EXCEPT ![st] = copied] /\ call' = [call EXCEPT !.back = @ \ {st}]
      /\ UNCHANGED <<layer, held, table, rare, apart>>
  BY DEF WriteBack
<1>6. /\ call'.phase = call.phase /\ call'.batch = call.batch /\ call'.views = call.views
      /\ call'.writes = call.writes /\ call'.patched = call.patched /\ call'.updated = call.updated
      /\ call'.pool = call.pool /\ call'.outs = call.outs /\ call'.back = call.back \ {st}
      /\ call'.assigns = call.assigns
  BY <1>3, <1>5 DEF ProgressRight
<1>7. ASSUME NEW slot \in Slots PROVE copied[slot] = call.updated[st][slot]
  <2> HIDE DEF copies, st
  <2>1. /\ slot \in DOMAIN copies => copies[slot] = call.updated[st][slot]
        /\ slot \in Written(call.writes) => slot \in DOMAIN copies
    BY <1>2, <1>4, CopiesWhole DEF copies
  <2>2. slot \notin Written(call.writes) => mem[st][slot] = call.updated[st][slot]
    BY <1>3, <1>4 DEF ProgressRight
  <2> QED
    BY <2>1, <2>2
<1>8. copied = call.updated[st]
  <2>1. copied = [slot \in Slots |-> copied[slot]]
    OBVIOUS
  <2> HIDE DEF copied
  <2> QED
    BY <1>3, <1>4, <1>7, <2>1 DEF Pools
<1> HIDE DEF st, copies, copied
<1>9. mem'[st] = call.updated[st] /\ \A store \in layer.stores : store # st => mem'[store] = mem[store]
  BY <1>3, <1>4, <1>5, <1>8 DEF Pools
<1>10. Pools(mem)' /\ Pools(apart)'
  <2>1. Pools(apart)'
    BY <1>3, <1>5 DEF Pools
  <2>2. mem' = [store \in layer.stores |-> mem'[store]]
    BY <1>3, <1>4, <1>5 DEF Pools
  <2>3. \A store \in layer.stores : mem'[store] = [slot \in Slots |-> mem'[store][slot]]
    BY <1>3, <1>4, <1>9 DEF Pools
  <2> QED
    BY <1>5, <2>1, <2>2, <2>3 DEF Pools
<1>11. ProgressRight'
  <2>1. call' = [phase |-> call'.phase, batch |-> call'.batch, views |-> call'.views,
                 writes |-> call'.writes, patched |-> call'.patched, updated |-> call'.updated,
                 assigns |-> call'.assigns, outs |-> call'.outs, back |-> call'.back, pool |-> call'.pool]
    BY <1>3, <1>5, <1>6 DEF ProgressRight
  <2>2. Written(call.writes)' = Written(call.writes)
    BY <1>6 DEF Written
  <2>3. ASSUME NEW store \in layer.stores
        PROVE  /\ store \notin call'.assigns \cup call'.back => mem'[store] = call'.updated[store]
               /\ \A slot \in Slots :
                    slot \notin Written(call.writes) => mem'[store][slot] = call'.updated[store][slot]
               /\ layer.bound = "apart" /\ store \notin call'.outs => apart'[store] = call'.updated[store]
    <3>1. CASE store = st
      BY <1>3, <1>5, <1>6, <1>9, <3>1 DEF ProgressRight
    <3>2. CASE store # st
      BY <1>3, <1>5, <1>6, <1>9, <3>2 DEF ProgressRight
    <3> QED
      BY <3>1, <3>2
  <2> QED
    BY <1>3, <1>5, <1>6, <2>1, <2>2, <2>3 DEF ProgressRight
<1> QED
  BY <1>1, <1>5, <1>6, <1>10, <1>11, Continues
-----------------------------------------------------------------------------
(* The ends of a call.                                                     *)

\* An empty pool.
LEMMA InitRight == Init => PagedInv
<1> SUFFICES ASSUME Init PROVE PagedInv
  OBVIOUS
<1>1. /\ layer \in Layers /\ held = [s \in Users |-> <<>>] /\ table = held /\ rare = 0
      /\ mem = [store \in layer.stores |-> [slot \in Slots |-> Zero]] /\ apart = mem /\ call = Idle
  BY DEF Init
<1>2. \A s \in Users : held[s] = <<>> /\ table[s] = <<>> /\ Len(held[s]) = 0 /\ Len(table[s]) = 0
  BY <1>1
<1>3. Pools(mem) /\ Pools(apart)
  BY <1>1 DEF Pools
<1>4. PTypes
  <2>1. held \in [Users -> Seq(Row)]
    <3>1. <<>> \in Seq(Row)
      OBVIOUS
    <3> QED
      BY <1>1, <3>1
  <2> DEFINE B == (IF layer.mapped THEN 1 ELSE 0) .. Blocks - 1
  <2>2. table \in [Users -> Seq(B)]
    <3> HIDE DEF B
    <3>1. <<>> \in Seq(B)
      OBVIOUS
    <3> QED
      BY <1>1, <3>1
  <2> QED
    BY <1>1, <1>3, <2>1, <2>2 DEF PTypes
<1>5. Tables
  BY <1>2, SizeAssumption DEF Tables, Roomy, SharedFront
<1>6. Holds
  <2>1. \A s \in Users : Needed(s) = {}
    BY <1>2 DEF Needed
  <2> QED
    BY <2>1 DEF Holds
<1> QED
  BY <1>1, <1>4, <1>5, <1>6 DEF PagedInv, CallRight

\* A position that is needed is one the sequence has the blocks for.
LEMMA NeededIn ==
  ASSUME PTypes, Tables, NEW s \in Users, NEW p \in 1 .. Len(held[s])
  PROVE  p \in 1 .. Len(table[s]) * BlockSize /\ PlaceOf(s, p) \in Slots
<1> DEFINE n == Len(table[s]) * BlockSize
<1>1. Len(held[s]) \in Nat /\ n \in Nat /\ Len(held[s]) <= n
  BY SizeAssumption DEF PTypes, Tables, Roomy
<1> HIDE DEF n
<1>2. p \in 1 .. n
  BY <1>1
<1> QED
  BY <1>2, PlaceIn DEF n

\* A call that is over: the memory as it was before where nothing was sent.
LEMMA Over ==
  ASSUME InCall, NEW store \in layer.stores, NEW slot \in Slots, slot \notin Written(call.writes)
  PROVE  mem[store][slot] = call.pool[store][slot]
BY NotSentTo DEF InCall, ProgressRight

\* A call that returns: what it had of each sequence is what the sequence now is.
LEMMA ReturnStep == PagedInv /\ Return => PagedInv'
<1> SUFFICES ASSUME PagedInv, Return PROVE PagedInv'
  OBVIOUS
<1>1. /\ call.phase = "evaluated" /\ call.outs = {} /\ call.back = {} /\ call # Idle
      /\ call' = Idle /\ UNCHANGED <<layer, table, rare, mem, apart>>
      /\ held' = [s \in Users |->
                    IF Member(s) = {} THEN held[s]
                    ELSE LET k == CHOOSE k \in Member(s) : TRUE
                         IN SubSeq(call.views[k], 1, call.batch[k].kept)]
  BY DEF Return, Delivered, Idle
<1>2. InCall
  BY <1>1 DEF PagedInv, CallRight, InCall
<1>3. \A store \in layer.stores : mem[store] = call.updated[store]
  BY <1>1, <1>2 DEF InCall, ProgressRight
<1>4. ASSUME NEW s \in Users, Member(s) = {}
      PROVE  held'[s] = held[s] /\ \A k \in DOMAIN call.batch : call.batch[k].seq # s
  BY <1>1, <1>4 DEF Member
<1>5. ASSUME NEW s \in Users, Member(s) # {}
      PROVE  \E k \in DOMAIN call.batch :
               /\ call.batch[k].seq = s /\ EntryRight(call.batch[k])
               /\ held'[s] \in Seq(Row) /\ Len(held'[s]) = call.batch[k].kept
               /\ \A p \in 1 .. call.batch[k].kept : held'[s][p] = call.views[k][p]
  <2> DEFINE k == CHOOSE k \in Member(s) : TRUE
  <2>1. k \in Member(s)
    BY <1>5
  <2>2. held'[s] = SubSeq(call.views[k], 1, call.batch[k].kept)
    BY <1>1, <1>5
  <2> HIDE DEF k
  <2>3. k \in DOMAIN call.batch /\ call.batch[k].seq = s
    BY <2>1 DEF Member
  <2>4. EntryRight(call.batch[k]) /\ ViewRight(call.batch[k], call.views[k]) /\ PTypes
    BY <1>2, <2>3 DEF InCall, BatchRight
  <2> DEFINE view == call.views[k]
             kept == call.batch[k].kept
  <2>5. view \in Seq(Row) /\ Len(view) = RowsAfter(call.batch[k])
    BY <2>4 DEF ViewRight
  <2>6. kept \in Nat /\ kept <= RowsAfter(call.batch[k])
    BY <2>4, EntryParts
  <2> HIDE DEF view, kept
  <2>7. \A p \in 1 .. kept : p \in 1 .. Len(view)
    BY <2>5, <2>6
  <2>8. /\ SubSeq(view, 1, kept) \in Seq(Row) /\ Len(SubSeq(view, 1, kept)) = kept
        /\ \A p \in 1 .. kept : SubSeq(view, 1, kept)[p] = view[p]
    BY <2>5, <2>6, <2>7
  <2> QED
    BY <2>2, <2>3, <2>4, <2>8 DEF view, kept
<1>6. ASSUME NEW s \in Users
      PROVE  /\ held'[s] \in Seq(Row) /\ Len(held[s]) \in Nat /\ Len(held'[s]) \in Nat
             /\ Len(held[s]) <= Len(held'[s]) /\ Len(held'[s]) <= Len(table[s]) * BlockSize
  <2>1. PTypes /\ Tables /\ held[s] \in Seq(Row)
    BY <1>2 DEF InCall, PTypes
  <2>2. CASE Member(s) = {}
    BY <1>4, <2>1, <2>2 DEF Tables, Roomy
  <2>3. CASE Member(s) # {}
    <3>1. PICK k \in DOMAIN call.batch :
            /\ call.batch[k].seq = s /\ EntryRight(call.batch[k])
            /\ held'[s] \in Seq(Row) /\ Len(held'[s]) = call.batch[k].kept
      BY <1>5, <2>3
    <3> DEFINE e == call.batch[k]
               n == Len(table[s]) * BlockSize
    <3>2. /\ e.past \in Nat /\ Len(e.new) \in Nat /\ e.kept \in e.past .. e.past + Len(e.new)
          /\ e.past = Len(held[s]) /\ e.past + Len(e.new) <= n /\ n \in Nat
      BY <2>1, <3>1, EntryParts
    <3> DEFINE kept == e.kept
               past == e.past
               m == Len(e.new)
    <3>3. past \in Nat /\ m \in Nat /\ kept \in past .. past + m /\ past + m <= n /\ n \in Nat
      BY <3>2
    <3> HIDE DEF n, m, kept, past
    <3>4. past <= kept /\ kept <= n /\ kept \in Nat
      BY <3>3
    <3> QED
      BY <3>1, <3>2, <3>4 DEF n, kept, past
  <2> QED
    BY <2>2, <2>3
<1>7. PTypes'
  <2>1. held' \in [Users -> Seq(Row)]
    <3>1. DOMAIN held' = Users /\ held' = [s \in Users |-> held'[s]]
      BY <1>1
    <3> QED
      BY <1>6, <3>1
  <2>2. PTypes
    BY <1>2 DEF InCall
  <2> QED
    BY <1>1, <2>1, <2>2 DEF PTypes, Pools
<1>8. Tables'
  <2>1. Roomy /\ SharedFront
    BY <1>2 DEF InCall, Tables
  <2>2. Roomy'
    BY <1>1, <1>6, <2>1 DEF Roomy, Round
  <2>3. SharedFront'
    <3> SUFFICES ASSUME NEW s \in Users, NEW o \in Users, s # o, NEW i \in 1 .. Len(table'[s]),
                        NEW j \in 1 .. Len(table'[o]), table'[s][i] = table'[o][j]
                 PROVE  /\ layer'.ring = 0 /\ i = j
                        /\ i * BlockSize <= Len(held'[s]) /\ i * BlockSize <= Len(held'[o])
                        /\ \A h \in 1 .. i : table'[s][h] = table'[o][h]
      BY DEF SharedFront
    <3>1. /\ layer.ring = 0 /\ i = j
          /\ i * BlockSize <= Len(held[s]) /\ i * BlockSize <= Len(held[o])
          /\ \A h \in 1 .. i : table[s][h] = table[o][h]
      BY <1>1, <2>1 DEF SharedFront
    <3>2. i * BlockSize \in Int
      BY SizeAssumption
    <3> DEFINE n == i * BlockSize
    <3> HIDE DEF n
    <3>3. n \in Int /\ n <= Len(held[s]) /\ n <= Len(held[o])
      BY <3>1, <3>2 DEF n
    <3>4. n <= Len(held'[s]) /\ n <= Len(held'[o])
      BY <1>6, <3>3
    <3> QED
      BY <1>1, <3>1, <3>4 DEF n
  <2> QED
    BY <2>2, <2>3 DEF Tables
<1>9. Holds'
  <2>1. Settled' = mem
    BY <1>1 DEF Settled
  <2>2. \A s, p : PlaceOf(s, p)' = PlaceOf(s, p)
    BY <1>1 DEF PlaceOf, SlotOf
  <2>3. ASSUME NEW s \in Users, NEW p \in 1 .. Len(held'[s]), NEW store \in layer.stores,
               layer.ring > 0 => p > Len(held'[s]) - (layer.window - 1)
        PROVE  mem[store][PlaceOf(s, p)] = held'[s][p]
    <3>1. CASE Member(s) = {}
      <4>1. held'[s] = held[s] /\ p \in 1 .. Len(held[s])
        BY <1>4, <2>3, <3>1
      <4>2. p \in Needed(s)
        BY <1>6, <2>3, <4>1 DEF Needed
      <4>3. call.pool[store][PlaceOf(s, p)] = held[s][p]
        BY <1>1, <1>2, <4>2 DEF InCall, Holds, Settled
      <4>4. call.updated[store][PlaceOf(s, p)] = call.pool[store][PlaceOf(s, p)]
        BY <1>2, <1>4, <3>1, <4>1, OthersKept
      <4> QED
        BY <1>3, <4>1, <4>3, <4>4
    <3>2. CASE Member(s) # {}
      <4>1. PICK k \in DOMAIN call.batch :
              /\ call.batch[k].seq = s /\ EntryRight(call.batch[k])
              /\ Len(held'[s]) = call.batch[k].kept
              /\ \A q \in 1 .. call.batch[k].kept : held'[s][q] = call.views[k][q]
        BY <1>5, <3>2
      <4> DEFINE e == call.batch[k]
      <4>2. e.past \in Nat /\ Len(e.new) \in Nat /\ e.kept \in e.past .. e.past + Len(e.new)
        BY <1>2, <4>1, EntryParts DEF InCall
      <4>3. layer.window \in Int
        BY <1>2, LayerIs DEF InCall
      <4> HIDE DEF e
      <4>4. p \in 1 .. e.kept /\ (layer.ring > 0 => p > e.past - (layer.window - 1))
        BY <2>3, <4>1, <4>2, <4>3 DEF e
      <4>5. call.updated[store][PlaceOf(s, p)] = call.views[k][p]
        BY <1>2, <4>1, <4>4, ReadRight DEF e
      <4> QED
        BY <1>3, <4>1, <4>4, <4>5 DEF e
    <3> QED
      BY <3>1, <3>2
  <2>4. \A s \in Users : DOMAIN held'[s] = 1 .. Len(held'[s])
    BY <1>6
  <2> SUFFICES ASSUME NEW s \in Users, NEW p \in Needed(s)', NEW store \in layer'.stores
               PROVE  Settled'[store][PlaceOf(s, p)'] = held'[s][p]
    BY DEF Holds
  <2>5. /\ p \in 1 .. Len(held'[s]) /\ store \in layer.stores
        /\ layer.ring > 0 => p > Len(held'[s]) - (layer.window - 1)
    BY <1>1, <2>4 DEF Needed
  <2> QED
    BY <2>1, <2>2, <2>3, <2>5
<1> QED
  BY <1>1, <1>7, <1>8, <1>9 DEF PagedInv, CallRight

\* A sequence that gives its blocks back.
LEMMA DropStep == ASSUME NEW d \in Users PROVE PagedInv /\ Drop(d) => PagedInv'
<1> SUFFICES ASSUME PagedInv, Drop(d) PROVE PagedInv'
  OBVIOUS
<1>1. /\ call = Idle /\ rare' = rare + 1 /\ UNCHANGED <<layer, mem, apart, call>>
      /\ held' = [held EXCEPT ![d] = <<>>] /\ table' = [table EXCEPT ![d] = <<>>]
  BY DEF Drop
<1>2. PTypes /\ Roomy /\ SharedFront /\ Holds
  BY DEF PagedInv, Tables
<1>3. ASSUME NEW s \in Users
      PROVE  IF s = d THEN held'[s] = <<>> /\ table'[s] = <<>> ELSE held'[s] = held[s] /\ table'[s] = table[s]
  BY <1>1, <1>2 DEF PTypes
<1>4. PTypes'
  <2> DEFINE B == (IF layer.mapped THEN 1 ELSE 0) .. Blocks - 1
  <2>1. held' \in [Users -> Seq(Row)]
    <3>1. <<>> \in Seq(Row)
      OBVIOUS
    <3> QED
      BY <1>1, <1>2, <3>1 DEF PTypes
  <2>2. table' \in [Users -> Seq(B)]
    <3>1. table \in [Users -> Seq(B)]
      BY <1>2 DEF PTypes
    <3> HIDE DEF B
    <3>2. <<>> \in Seq(B)
      OBVIOUS
    <3> QED
      BY <1>1, <3>1, <3>2
  <2>3. rare' \in Nat
    BY <1>1, <1>2 DEF PTypes
  <2> QED
    BY <1>1, <1>2, <2>1, <2>2, <2>3 DEF PTypes, Pools
<1>5. Roomy'
  <2> SUFFICES ASSUME NEW s \in Users
               PROVE  /\ Len(held'[s]) <= Len(table'[s]) * BlockSize
                      /\ \A i, j \in 1 .. Len(table'[s]) : table'[s][i] = table'[s][j] <=> Round(i)' = Round(j)'
    BY DEF Roomy
  <2>1. \A i : Round(i)' = Round(i)
    BY <1>1 DEF Round
  <2>2. CASE s = d
    <3>1. Len(held'[s]) = 0 /\ Len(table'[s]) = 0
      BY <1>3, <2>2
    <3> QED
      BY <3>1, SizeAssumption
  <2>3. CASE s # d
    BY <1>2, <1>3, <2>1, <2>3 DEF Roomy
  <2> QED
    BY <2>2, <2>3
<1>6. SharedFront'
  <2> SUFFICES ASSUME NEW s \in Users, NEW o \in Users, s # o, NEW i \in 1 .. Len(table'[s]),
                      NEW j \in 1 .. Len(table'[o]), table'[s][i] = table'[o][j]
               PROVE  /\ layer'.ring = 0 /\ i = j
                      /\ i * BlockSize <= Len(held'[s]) /\ i * BlockSize <= Len(held'[o])
                      /\ \A h \in 1 .. i : table'[s][h] = table'[o][h]
    BY DEF SharedFront
  <2>1. s # d /\ o # d
    BY <1>3
  <2> QED
    BY <1>1, <1>2, <1>3, <2>1 DEF SharedFront
<1>7. Holds'
  <2> SUFFICES ASSUME NEW s \in Users, NEW p \in Needed(s)', NEW store \in layer'.stores
               PROVE  Settled'[store][PlaceOf(s, p)'] = held'[s][p]
    BY DEF Holds
  <2>1. s # d
    <3> SUFFICES ASSUME s = d PROVE FALSE
      OBVIOUS
    <3>1. DOMAIN held'[s] = {}
      BY <1>3
    <3> QED
      BY <3>1 DEF Needed
  <2>2. p \in Needed(s) /\ PlaceOf(s, p)' = PlaceOf(s, p)
    BY <1>1, <1>3, <2>1 DEF Needed, PlaceOf, SlotOf
  <2>3. Settled' = Settled
    BY <1>1 DEF Settled
  <2> QED
    BY <1>1, <1>2, <1>3, <2>1, <2>2, <2>3 DEF Holds
<1> QED
  BY <1>1, <1>4, <1>5, <1>6, <1>7 DEF PagedInv, CallRight, Tables

\* What a call writes of a sequence's rows is in blocks no other sequence has.
LEMMA LostPrivate ==
  ASSUME InCall, NEW s \in Users, NEW p \in 1 .. Len(held[s]), PlaceOf(s, p) \in Written(call.writes)
  PROVE  /\ Private(s, Block(p)) \/ layer.ring > 0
         /\ \E k \in DOMAIN call.batch : call.batch[k].seq = s
         /\ layer.ring > 0 => p <= Len(held[s]) - (layer.window - 1)
<1>0. PTypes /\ Tables /\ Roomy
  BY DEF InCall, Tables
<1>1. PICK k \in DOMAIN call.batch : \E j \in 1 .. Len(call.batch[k].new) :
        WriteSlot(call.batch[k], j) = PlaceOf(s, p) /\ EntryRight(call.batch[k])
  BY SentTo
<1>2. PICK j \in 1 .. Len(call.batch[k].new) :
        WriteSlot(call.batch[k], j) = PlaceOf(s, p) /\ EntryRight(call.batch[k])
  BY <1>1
<1> DEFINE e == call.batch[k]
           n == Len(table[s]) * BlockSize
<1>3. p \in 1 .. n /\ PlaceOf(s, p) \in Slots
  BY <1>0, NeededIn
<1>4. e.seq = s
  <2> SUFFICES ASSUME e.seq # s PROVE FALSE
    OBVIOUS
  <2> QED
    BY <1>0, <1>2, <1>3, NotTheirs
<1>5. /\ e.past \in Nat /\ e.past = Len(held[s]) /\ Len(e.new) \in Nat
      /\ e.kept \in e.past .. e.past + Len(e.new) /\ n \in Nat /\ e.past + Len(e.new) <= n
  <2>1. EntryRight(e)
    BY <1>2
  <2> HIDE DEF e
  <2> QED
    BY <1>0, <1>4, <2>1, EntryParts
<1>6. layer.ring \in Nat /\ layer.window \in Int
  BY <1>0, LayerIs
<1>7. ASSUME NEW q \in 1 .. n, PlaceOf(s, p) = PlaceOf(s, q), layer.ring = 0 PROVE p = q
  <2>1. ~(p < q) /\ ~(q < p)
    <3>1. p < q => layer.ring > 0
      BY <1>0, <1>3, <1>7, OwnPlaces
    <3>2. q < p => layer.ring > 0
      BY <1>0, <1>3, <1>7, OwnPlaces
    <3> QED
      BY <1>7, <3>1, <3>2
  <2> HIDE DEF n
  <2> QED
    BY <1>3, <1>5, <2>1
<1>8. Private(s, Block(p)) \/ layer.ring > 0
  <2> SUFFICES ASSUME layer.ring = 0 PROVE Private(s, Block(p))
    BY <1>6
  <2>1. CASE j <= e.kept - e.past
    <3>1. /\ WriteSlot(e, j) = PlaceOf(s, e.past + j) /\ e.past + j \in 1 .. n
          /\ Private(s, Block(e.past + j))
      BY <1>0, <1>2, <1>4, <2>1, NewPrivate
    <3>2. p = e.past + j
      BY <1>2, <1>7, <3>1
    <3> QED
      BY <3>1, <3>2
  <2>2. CASE ~(j <= e.kept - e.past)
    <3>1. Aside(e, j)
      BY <1>2, <2>2 DEF EntryRight
    <3>2. layer.mapped /\ PlaceOf(s, p) > 0 /\ PlaceOf(s, p) \in Nat
      <4>1. layer.mapped
        BY <3>1 DEF Aside
      <4>2. PlaceOf(s, p) > 0
        BY <1>0, <1>3, <4>1, PlaceIn
      <4> QED
        BY <1>3, <4>1, <4>2 DEF Slots
    <3>3. PICK q \in 1 .. e.past : WriteSlot(e, j) = PlaceOf(s, q) /\ Private(s, Block(q))
      BY <1>2, <1>4, <3>1, <3>2 DEF Aside
    <3>4. q \in 1 .. n
      <4> DEFINE past == e.past
                 m == Len(e.new)
      <4>1. past \in Nat /\ m \in Nat /\ n \in Nat /\ past + m <= n /\ q \in 1 .. past
        BY <1>5
      <4> HIDE DEF n, m, past
      <4> QED
        BY <4>1
    <3>5. p = q
      BY <1>2, <1>7, <3>3, <3>4
    <3> QED
      BY <3>3, <3>5
  <2> QED
    BY <2>1, <2>2
<1>9. ASSUME layer.ring > 0 PROVE p <= Len(held[s]) - (layer.window - 1)
  <2> SUFFICES ASSUME p > e.past - (layer.window - 1) PROVE FALSE
    <3> HIDE DEF e
    <3> QED
      BY <1>5, <1>6
  <2>1. p \in 1 .. e.kept /\ p <= e.past
    <3> HIDE DEF e
    <3> QED
      BY <1>5
  <2>2. j > e.kept - e.past
    <3>1. \/ j <= e.kept - e.past /\ p = e.past + j
          \/ j > e.kept - e.past
      BY <1>0, <1>2, <1>4, <2>1, OwnWrites
    <3> HIDE DEF e
    <3> QED
      BY <1>5, <2>1, <3>1 DEF e
  <2>3. Aside(e, j)
    <3>1. ~(j <= e.kept - e.past)
      <4> HIDE DEF e
      <4> QED
        BY <1>5, <2>2 DEF e
    <3> QED
      BY <1>2, <3>1 DEF EntryRight
  <2>4. PlaceOf(s, p) \notin {-1, 0}
    <3>1. layer.mapped
      BY <2>3 DEF Aside
    <3>2. PlaceOf(s, p) > 0
      BY <1>0, <1>3, <3>1, PlaceIn
    <3> QED
      BY <1>3, <3>2 DEF Slots
  <2> QED
    BY <1>2, <1>9, <2>3, <2>4 DEF Aside
<1> QED
  BY <1>4, <1>8, <1>9

\* Of a set of positions, those before the first.
LEMMA Before ==
  ASSUME NEW n \in Nat, NEW lost \in SUBSET (1 .. n), lost # {}
  PROVE  Min(lost) \in lost /\ \A p \in lost : Min(lost) <= p
<1> DEFINE R == {ss \in Nat \X Nat : ss[1] < ss[2]}
<1>1. IsWellFoundedOn(R, Nat)
  BY NatLessThanWellFounded DEF OpToRel
<1>2. lost \in SUBSET Nat
  OBVIOUS
<1>3. PICK x \in lost : \A y \in lost : <<y, x>> \notin R
  <2> HIDE DEF R
  <2> QED
    BY <1>1, <1>2, WFMin
<1>4. ASSUME NEW y \in lost PROVE x <= y
  <2>1. x \in Nat /\ y \in Nat
    BY <1>2
  <2>2. y < x => <<y, x>> \in R
    BY <2>1
  <2> QED
    BY <1>3, <2>1, <2>2
<1> QED
  BY <1>4 DEF Min

\* A call that ends between any two of its copies: what the caller gives up are all the
\* rows it may have overwritten.
LEMMA FailStep == PagedInv /\ Fail => PagedInv'
<1> SUFFICES ASSUME PagedInv, Fail PROVE PagedInv'
  OBVIOUS
<1> DEFINE Lost(s) == {p \in DOMAIN held[s] : Member(s) # {} /\ PlaceOf(s, p) \in Written(call.writes)}
<1>1. /\ call # Idle /\ call' = Idle /\ UNCHANGED <<layer, table, mem, apart>>
      /\ held' = [s \in Users |->
                    IF Lost(s) = {} \/ layer.ring > 0 THEN held[s]
                    ELSE SubSeq(held[s], 1, Min(Lost(s)) - 1)]
      /\ rare' = rare \/ rare' = rare + 1
  BY DEF Fail, Idle
<1>2. InCall
  BY <1>1 DEF PagedInv, CallRight, InCall
<1>3. PTypes /\ Roomy /\ SharedFront /\ Tables /\ Holds
  BY <1>2 DEF InCall, Tables
<1>4. layer.ring \in Nat /\ layer.window \in Int
  BY <1>3, LayerIs
<1>5. ASSUME NEW s \in Users
      PROVE  /\ held[s] \in Seq(Row) /\ DOMAIN held[s] = 1 .. Len(held[s]) /\ Len(held[s]) \in Nat
             /\ Lost(s) \in SUBSET (1 .. Len(held[s]))
             /\ \A p \in 1 .. Len(held[s]) : PlaceOf(s, p) \in Written(call.writes) => p \in Lost(s)
  <2>1. held[s] \in Seq(Row) /\ DOMAIN held[s] = 1 .. Len(held[s]) /\ Len(held[s]) \in Nat
    BY <1>3 DEF PTypes
  <2>2. ASSUME NEW p \in 1 .. Len(held[s]), PlaceOf(s, p) \in Written(call.writes) PROVE Member(s) # {}
    BY <1>2, <2>2, LostPrivate DEF Member
  <2> QED
    BY <2>1, <2>2
<1>6. ASSUME NEW s \in Users
      PROVE  /\ held'[s] \in Seq(Row) /\ Len(held'[s]) \in Nat /\ Len(held'[s]) <= Len(held[s])
             /\ \A p \in 1 .. Len(held'[s]) : held'[s][p] = held[s][p]
             /\ layer.ring > 0 => held'[s] = held[s]
             /\ layer.ring = 0 => \A p \in Lost(s) : Len(held'[s]) < p
             /\ Len(held'[s]) # Len(held[s]) => Len(held'[s]) + 1 \in Lost(s)
  <2>1. CASE Lost(s) = {} \/ layer.ring > 0
    <3>1. held'[s] = held[s]
      BY <1>1, <2>1
    <3> HIDE DEF Lost
    <3> QED
      BY <1>4, <1>5, <2>1, <3>1
  <2>2. CASE Lost(s) # {} /\ layer.ring = 0
    <3> DEFINE m == Min(Lost(s))
    <3>1. m \in Lost(s) /\ \A p \in Lost(s) : m <= p
      <4> HIDE DEF Lost
      <4> QED
        BY <1>5, <2>2, Before
    <3>2. held'[s] = SubSeq(held[s], 1, m - 1)
      <4>1. held'[s] = IF Lost(s) = {} \/ layer.ring > 0 THEN held[s] ELSE SubSeq(held[s], 1, m - 1)
        BY <1>1
      <4>2. ~(Lost(s) = {} \/ layer.ring > 0)
        BY <2>2
      <4> HIDE DEF Lost, m
      <4> QED
        BY <4>1, <4>2
    <3> HIDE DEF m
    <3>3. m \in 1 .. Len(held[s])
      BY <1>5, <3>1
    <3>4. /\ held'[s] \in Seq(Row) /\ Len(held'[s]) = m - 1
          /\ \A p \in 1 .. m - 1 : held'[s][p] = held[s][p]
      <4>1. \A p \in 1 .. m - 1 : p \in 1 .. Len(held[s])
        BY <1>5, <3>3
      <4> HIDE DEF Lost
      <4> QED
        BY <1>5, <3>2, <3>3, <4>1
    <3> HIDE DEF Lost
    <3>5. \A p \in Lost(s) : p \in Nat
      BY <1>5
    <3> QED
      BY <1>5, <2>2, <3>1, <3>3, <3>4, <3>5
  <2> QED
    BY <1>4, <2>1, <2>2
<1> HIDE DEF Lost
<1>7. PTypes'
  <2>1. held' \in [Users -> Seq(Row)]
    <3>1. held' = [s \in Users |-> held'[s]]
      BY <1>1
    <3> QED
      BY <1>6, <3>1
  <2>2. rare' \in Nat
    BY <1>1, <1>3 DEF PTypes
  <2> QED
    BY <1>1, <1>3, <2>1, <2>2 DEF PTypes, Pools
<1>8. Roomy'
  <2> SUFFICES ASSUME NEW s \in Users
               PROVE  /\ Len(held'[s]) <= Len(table'[s]) * BlockSize
                      /\ \A i, j \in 1 .. Len(table'[s]) : table'[s][i] = table'[s][j] <=> Round(i)' = Round(j)'
    BY DEF Roomy
  <2>1. \A i : Round(i)' = Round(i)
    BY <1>1 DEF Round
  <2> DEFINE n == Len(table[s]) * BlockSize
  <2>2. Len(held[s]) <= n /\ n \in Nat
    BY <1>3, SizeAssumption DEF Roomy, PTypes
  <2> HIDE DEF n
  <2>3. Len(held'[s]) <= n
    BY <1>5, <1>6, <2>2
  <2> QED
    BY <1>1, <1>3, <2>1, <2>3 DEF Roomy, n
<1>9. SharedFront'
  <2> SUFFICES ASSUME NEW s \in Users, NEW o \in Users, s # o, NEW i \in 1 .. Len(table'[s]),
                      NEW j \in 1 .. Len(table'[o]), table'[s][i] = table'[o][j]
               PROVE  /\ layer'.ring = 0 /\ i = j
                      /\ i * BlockSize <= Len(held'[s]) /\ i * BlockSize <= Len(held'[o])
                      /\ \A h \in 1 .. i : table'[s][h] = table'[o][h]
    BY DEF SharedFront
  <2>1. /\ layer.ring = 0 /\ i = j
        /\ i * BlockSize <= Len(held[s]) /\ i * BlockSize <= Len(held[o])
        /\ \A h \in 1 .. i : table[s][h] = table[o][h]
    BY <1>1, <1>3 DEF SharedFront
  <2>2. i \in Nat /\ i <= Len(table[s]) /\ i <= Len(table[o]) /\ Len(table[s]) \in Nat /\ Len(table[o]) \in Nat
        /\ BlockSize \in Nat \ {0}
    BY <1>1, <1>3, <2>1, SizeAssumption DEF PTypes
  <2>3. i * BlockSize \in Nat
    BY <2>2
  <2>4. ASSUME NEW u \in {s, o}, i * BlockSize > Len(held'[u]) PROVE FALSE
    <3> DEFINE p == Len(held'[u]) + 1
    <3>1. u \in Users /\ i * BlockSize <= Len(held[u])
      BY <2>1
    <3>2. p \in Lost(u)
      <4> DEFINE n == i * BlockSize
      <4>1. n > Len(held'[u]) /\ n <= Len(held[u]) /\ n \in Nat
        BY <2>3, <2>4, <3>1
      <4> HIDE DEF n
      <4>2. Len(held'[u]) # Len(held[u])
        BY <1>6, <3>1, <4>1
      <4> QED
        BY <1>6, <3>1, <4>2
    <3>3. p \in 1 .. Len(held[u]) /\ PlaceOf(u, p) \in Written(call.writes)
      BY <1>5, <3>1, <3>2 DEF Lost
    <3>4. Private(u, Block(p))
      BY <1>2, <2>1, <3>1, <3>3, LostPrivate
    <3>5. p \in 1 .. i * BlockSize
      <4> DEFINE n == i * BlockSize
      <4>1. n > Len(held'[u]) /\ n \in Nat /\ Len(held'[u]) \in Nat
        BY <1>6, <2>3, <2>4, <3>1
      <4> HIDE DEF n
      <4>2. p \in 1 .. n
        BY <4>1
      <4> QED
        BY <4>2 DEF n
    <3> HIDE DEF p
    <3>6. Block(p) \in 1 .. i
      BY <2>2, <3>5, BlockIn
    <3>7. Block(p) \in 1 .. Len(table[s]) /\ Block(p) \in 1 .. Len(table[o])
          /\ table[s][Block(p)] = table[o][Block(p)]
      BY <2>1, <2>2, <3>6
    <3> QED
      BY <3>4, <3>7 DEF Private
  <2>5. i * BlockSize <= Len(held'[s]) /\ i * BlockSize <= Len(held'[o])
    <3> DEFINE n == i * BlockSize
    <3>1. n \in Nat /\ ~(n > Len(held'[s])) /\ ~(n > Len(held'[o]))
      BY <2>3, <2>4
    <3> HIDE DEF n
    <3>2. n <= Len(held'[s]) /\ n <= Len(held'[o])
      BY <1>6, <3>1
    <3> QED
      BY <3>2 DEF n
  <2> QED
    BY <1>1, <2>1, <2>5
<1>10. Holds'
  <2> SUFFICES ASSUME NEW s \in Users, NEW p \in Needed(s)', NEW store \in layer'.stores
               PROVE  Settled'[store][PlaceOf(s, p)'] = held'[s][p]
    BY DEF Holds
  <2>1. Settled' = mem /\ store \in layer.stores
    BY <1>1 DEF Settled
  <2>2. PlaceOf(s, p)' = PlaceOf(s, p)
    BY <1>1 DEF PlaceOf, SlotOf
  <2>3. p \in 1 .. Len(held'[s]) /\ (layer.ring > 0 => p > Len(held[s]) - (layer.window - 1))
    BY <1>1, <1>6 DEF Needed
  <2>4. p \in 1 .. Len(held[s]) /\ held'[s][p] = held[s][p]
    BY <1>5, <1>6, <2>3
  <2>5. p \in Needed(s)
    BY <1>5, <2>3, <2>4 DEF Needed
  <2>6. PlaceOf(s, p) \notin Written(call.writes)
    <3> SUFFICES ASSUME PlaceOf(s, p) \in Written(call.writes) PROVE FALSE
      OBVIOUS
    <3>1. CASE layer.ring > 0
      <4>1. p <= Len(held[s]) - (layer.window - 1)
        BY <1>2, <2>4, <3>1, LostPrivate
      <4> QED
        BY <1>4, <1>5, <2>3, <2>4, <3>1, <4>1
    <3>2. CASE layer.ring = 0
      <4>1. p \in Lost(s)
        BY <1>5, <2>4
      <4> QED
        BY <1>6, <2>3, <3>2, <4>1
    <3> QED
      BY <1>4, <3>1, <3>2
  <2>7. PlaceOf(s, p) \in Slots
    BY <1>3, <2>4, NeededIn
  <2>8. mem[store][PlaceOf(s, p)] = call.pool[store][PlaceOf(s, p)]
    BY <1>2, <2>1, <2>6, <2>7, Over
  <2>9. call.pool[store][PlaceOf(s, p)] = held[s][p]
    BY <1>1, <1>3, <2>1, <2>5 DEF Holds, Settled
  <2> QED
    BY <2>1, <2>2, <2>4, <2>8, <2>9
<1> QED
  BY <1>1, <1>7, <1>8, <1>9, <1>10 DEF PagedInv, CallRight, Tables

\* A sequence that starts with the full blocks of another.
LEMMA ForkStep == ASSUME NEW a \in Users, NEW c \in Users PROVE PagedInv /\ Fork(a, c) => PagedInv'
<1> SUFFICES ASSUME PagedInv, Fork(a, c) PROVE PagedInv'
  OBVIOUS
<1> DEFINE full == Len(held[a]) \div BlockSize
<1>1. /\ call = Idle /\ layer.ring = 0 /\ full > 0 /\ table[c] = <<>>
      /\ held' = [held EXCEPT ![c] = SubSeq(held[a], 1, full * BlockSize)]
      /\ table' = [table EXCEPT ![c] = SubSeq(table[a], 1, full)]
      /\ UNCHANGED <<layer, rare, mem, apart, call>>
  BY DEF Fork
<1>2. PTypes /\ Roomy /\ SharedFront /\ Holds
  BY DEF PagedInv, Tables
<1> DEFINE B == (IF layer.mapped THEN 1 ELSE 0) .. Blocks - 1
           rows == full * BlockSize
<1>3. \A s \in Users : /\ held[s] \in Seq(Row) /\ DOMAIN held[s] = 1 .. Len(held[s]) /\ Len(held[s]) \in Nat
                       /\ table[s] \in Seq(B) /\ Len(table[s]) \in Nat
  <2>1. held \in [Users -> Seq(Row)] /\ table \in [Users -> Seq(B)]
    BY <1>2 DEF PTypes
  <2> HIDE DEF B
  <2> QED
    BY <2>1
<1>4. BlockSize \in Nat \ {0}
  BY SizeAssumption
<1>5. full \in Nat \ {0} /\ rows \in Nat /\ rows <= Len(held[a])
  <2> DEFINE l == Len(held[a])
  <2>1. l \in Nat
    BY <1>3
  <2>2. l \div BlockSize \in Nat /\ l % BlockSize \in 0 .. BlockSize - 1
        /\ l = (l \div BlockSize) * BlockSize + (l % BlockSize)
    <3> HIDE DEF l
    <3> QED
      BY <1>4, <2>1, Divided
  <2>3. full = l \div BlockSize
    OBVIOUS
  <2> HIDE DEF full, l
  <2>4. full \in Nat /\ full * BlockSize \in Nat
    BY <1>4, <2>2, <2>3
  <2> QED
    BY <1>1, <2>1, <2>2, <2>3, <2>4 DEF l
<1> HIDE DEF full
<1>6. full <= Len(table[a])
  <2> DEFINE n == Len(table[a])
  <2>1. n \in Nat /\ rows <= n * BlockSize /\ n * BlockSize \in Nat
    <3>1. n \in Nat
      BY <1>3
    <3>2. n * BlockSize \in Nat
      BY <1>4, <3>1
    <3>3. Len(held[a]) <= n * BlockSize
      BY <1>2 DEF Roomy
    <3> DEFINE m == n * BlockSize
    <3> HIDE DEF m, n, rows
    <3> QED
      BY <1>3, <1>5, <3>1, <3>2, <3>3
  <2> HIDE DEF n
  <2>2. SUFFICES ASSUME full > n PROVE FALSE
    BY <1>5, <2>1 DEF n
  <2>3. PICK d \in Nat : full = n + 1 + d
    <3>1. full - n - 1 \in Nat /\ full = n + 1 + (full - n - 1)
      BY <1>5, <2>1, <2>2
    <3> QED
      BY <3>1
  <2>4. full * BlockSize = n * BlockSize + BlockSize + d * BlockSize /\ d * BlockSize \in Nat
    BY <1>4, <2>1, <2>3
  <2> QED
    BY <1>4, <2>1, <2>4
<1>7. a # c /\ Len(table[c]) = 0
  <2>1. Len(table[c]) = 0
    BY <1>1
  <2> QED
    BY <1>5, <1>6, <2>1
<1>8. /\ held'[c] \in Seq(Row) /\ Len(held'[c]) = rows /\ \A p \in 1 .. rows : held'[c][p] = held[a][p]
      /\ \A s \in Users : s # c => held'[s] = held[s]
  <2>1. held'[c] = SubSeq(held[a], 1, rows) /\ \A s \in Users : s # c => held'[s] = held[s]
    BY <1>1, <1>2 DEF PTypes
  <2> HIDE DEF rows
  <2>2. \A p \in 1 .. rows : p \in 1 .. Len(held[a])
    BY <1>3, <1>5
  <2> QED
    BY <1>3, <1>5, <2>1, <2>2
<1>9. /\ table'[c] \in Seq(B) /\ Len(table'[c]) = full /\ \A i \in 1 .. full : table'[c][i] = table[a][i]
      /\ \A s \in Users : s # c => table'[s] = table[s]
  <2>1. table'[c] = SubSeq(table[a], 1, full) /\ \A s \in Users : s # c => table'[s] = table[s]
    BY <1>1, <1>2 DEF PTypes
  <2> HIDE DEF B
  <2>2. \A i \in 1 .. full : i \in 1 .. Len(table[a])
    BY <1>3, <1>5, <1>6
  <2> QED
    BY <1>3, <1>5, <2>1, <2>2
<1> HIDE DEF rows
<1>10. \A i \in 1 .. full : i \in 1 .. Len(table[a])
  BY <1>3, <1>5, <1>6
<1>11. \A i : Round(i) = i /\ Round(i)' = i
  BY <1>1 DEF Round
<1>12. PTypes'
  <2>1. held' \in [Users -> Seq(Row)] /\ table' \in [Users -> Seq(B)]
    <3>1. DOMAIN held' = Users /\ held' = [s \in Users |-> held'[s]]
      BY <1>1, <1>2 DEF PTypes
    <3>2. DOMAIN table' = Users /\ table' = [s \in Users |-> table'[s]]
      BY <1>1, <1>2 DEF PTypes
    <3> HIDE DEF B
    <3>3. \A s \in Users : held'[s] \in Seq(Row) /\ table'[s] \in Seq(B)
      BY <1>3, <1>8, <1>9
    <3> QED
      BY <3>1, <3>2, <3>3
  <2> QED
    BY <1>1, <1>2, <2>1 DEF PTypes, Pools
<1> HIDE DEF B
<1>13. Roomy'
  <2> SUFFICES ASSUME NEW s \in Users
               PROVE  /\ Len(held'[s]) <= Len(table'[s]) * BlockSize
                      /\ \A i, j \in 1 .. Len(table'[s]) : table'[s][i] = table'[s][j] <=> Round(i)' = Round(j)'
    BY DEF Roomy
  <2>1. CASE s = c
    <3>1. Len(held'[s]) <= Len(table'[s]) * BlockSize
      BY <1>5, <1>8, <1>9, <2>1 DEF rows
    <3>2. ASSUME NEW i \in 1 .. full, NEW j \in 1 .. full
          PROVE  table'[s][i] = table'[s][j] <=> i = j
      <4>1. table'[s][i] = table[a][i] /\ table'[s][j] = table[a][j]
        BY <1>9, <2>1
      <4> QED
        BY <1>2, <1>10, <1>11, <4>1 DEF Roomy
    <3> QED
      BY <1>9, <1>11, <2>1, <3>1, <3>2
  <2>2. CASE s # c
    BY <1>2, <1>8, <1>9, <1>11, <2>2 DEF Roomy
  <2> QED
    BY <2>1, <2>2
<1>14. SharedFront'
  <2>1. ASSUME NEW s \in Users, s # c, NEW i \in 1 .. Len(table[s]), NEW j \in 1 .. full,
               table[s][i] = table[a][j]
        PROVE  /\ i = j /\ i * BlockSize <= Len(held[s]) /\ i * BlockSize <= rows
               /\ \A h \in 1 .. i : table[s][h] = table[a][h]
    <3>1. i = j /\ i * BlockSize <= Len(held[s]) /\ \A h \in 1 .. i : table[s][h] = table[a][h]
      <4>1. CASE s = a
        <5>1. i = j
          BY <1>2, <1>10, <1>11, <2>1, <4>1 DEF Roomy
        <5>2. i * BlockSize <= rows /\ i * BlockSize \in Nat
          <6>1. i \in Nat /\ i <= full
            BY <1>5, <5>1
          <6>2. PICK d \in Nat : full = i + d
            <7>1. full - i \in Nat /\ full = i + (full - i)
              BY <1>5, <6>1
            <7> QED
              BY <7>1
          <6>3. full * BlockSize = i * BlockSize + d * BlockSize /\ d * BlockSize \in Nat /\ i * BlockSize \in Nat
            BY <1>4, <6>1, <6>2
          <6> QED
            BY <6>3 DEF rows
        <5> DEFINE n == i * BlockSize
        <5> HIDE DEF n
        <5>3. n <= rows /\ n \in Nat
          BY <5>2 DEF n
        <5>4. n <= Len(held[s])
          BY <1>3, <1>5, <4>1, <5>3
        <5> QED
          BY <4>1, <5>1, <5>4 DEF n
      <4>2. CASE s # a
        BY <1>2, <1>10, <2>1, <4>2 DEF SharedFront
      <4> QED
        BY <4>1, <4>2
    <3>2. i * BlockSize <= rows
      <4>1. i \in Nat /\ i <= full
        BY <1>5, <3>1
      <4>2. PICK d \in Nat : full = i + d
        <5>1. full - i \in Nat /\ full = i + (full - i)
          BY <1>5, <4>1
        <5> QED
          BY <5>1
      <4>3. full * BlockSize = i * BlockSize + d * BlockSize /\ d * BlockSize \in Nat /\ i * BlockSize \in Nat
        BY <1>4, <4>1, <4>2
      <4> QED
        BY <4>3 DEF rows
    <3> QED
      BY <3>1, <3>2
  <2> SUFFICES ASSUME NEW s \in Users, NEW o \in Users, s # o, NEW i \in 1 .. Len(table'[s]),
                      NEW j \in 1 .. Len(table'[o]), table'[s][i] = table'[o][j]
               PROVE  /\ layer'.ring = 0 /\ i = j
                      /\ i * BlockSize <= Len(held'[s]) /\ i * BlockSize <= Len(held'[o])
                      /\ \A h \in 1 .. i : table'[s][h] = table'[o][h]
    BY DEF SharedFront
  <2>2. CASE s # c /\ o # c
    BY <1>1, <1>2, <1>8, <1>9, <2>2 DEF SharedFront
  <2>3. CASE o = c
    <3>1. s # c /\ i \in 1 .. Len(table[s]) /\ j \in 1 .. full /\ table[s][i] = table[a][j]
      BY <1>9, <2>3
    <3>2. /\ i = j /\ i * BlockSize <= Len(held[s]) /\ i * BlockSize <= rows
          /\ \A h \in 1 .. i : table[s][h] = table[a][h]
      BY <2>1, <3>1
    <3>3. \A h \in 1 .. i : h \in 1 .. full
      BY <1>5, <3>1, <3>2
    <3> QED
      BY <1>1, <1>8, <1>9, <2>3, <3>1, <3>2, <3>3
  <2>4. CASE s = c
    <3>1. o # c /\ j \in 1 .. Len(table[o]) /\ i \in 1 .. full /\ table[o][j] = table[a][i]
      BY <1>9, <2>4
    <3>2. /\ j = i /\ j * BlockSize <= Len(held[o]) /\ j * BlockSize <= rows
          /\ \A h \in 1 .. j : table[o][h] = table[a][h]
      BY <2>1, <3>1
    <3>3. \A h \in 1 .. i : h \in 1 .. full
      BY <1>5, <3>1
    <3> QED
      BY <1>1, <1>8, <1>9, <2>4, <3>1, <3>2, <3>3
  <2> QED
    BY <2>2, <2>3, <2>4
<1>15. Holds'
  <2> SUFFICES ASSUME NEW s \in Users, NEW p \in Needed(s)', NEW store \in layer'.stores
               PROVE  Settled'[store][PlaceOf(s, p)'] = held'[s][p]
    BY DEF Holds
  <2>1. Settled' = Settled /\ store \in layer.stores
    BY <1>1 DEF Settled
  <2>2. CASE s # c
    <3>1. p \in Needed(s) /\ PlaceOf(s, p)' = PlaceOf(s, p)
      BY <1>1, <1>8, <1>9, <2>2 DEF Needed, PlaceOf, SlotOf
    <3> QED
      BY <1>2, <1>8, <2>1, <2>2, <3>1 DEF Holds
  <2>3. CASE s = c
    <3>1. p \in 1 .. rows
      BY <1>8, <2>3 DEF Needed
    <3>2. p \in Needed(a)
      BY <1>1, <1>3, <1>5, <3>1 DEF Needed
    <3>3. Block(p) \in 1 .. full
      BY <1>5, <3>1, BlockIn DEF rows
    <3>4. PlaceOf(s, p)' = PlaceOf(a, p)
      BY <1>9, <2>3, <3>3 DEF PlaceOf, SlotOf, Block
    <3> QED
      BY <1>2, <1>8, <2>1, <2>3, <3>1, <3>2, <3>4 DEF Holds
  <2> QED
    BY <2>2, <2>3
<1> QED
  BY <1>1, <1>12, <1>13, <1>14, <1>15 DEF PagedInv, CallRight, Tables
-----------------------------------------------------------------------------
(* The blocks a call is given.                                             *)

\* Enough blocks for some rows.
LEMMA CeilIs ==
  ASSUME NEW a \in Nat
  PROVE  CeilDiv(a, BlockSize) \in 0 .. a + BlockSize /\ a <= CeilDiv(a, BlockSize) * BlockSize
<1> DEFINE x == a + BlockSize - 1
           q == x \div BlockSize
           r == x % BlockSize
<1>1. BlockSize \in Nat \ {0}
  BY SizeAssumption
<1>2. x \in Nat
  BY <1>1
<1>3. q \in Nat /\ r \in 0 .. BlockSize - 1 /\ x = q * BlockSize + r
  <2> HIDE DEF x
  <2> QED
    BY <1>1, <1>2, Divided
<1>4. CeilDiv(a, BlockSize) = q
  BY DEF CeilDiv
<1>5. x = a + BlockSize - 1
  OBVIOUS
<1> HIDE DEF x, q, r
<1>6. PICK b \in Nat : BlockSize = b + 1
  <2>1. BlockSize - 1 \in Nat /\ BlockSize = (BlockSize - 1) + 1
    BY <1>1
  <2> QED
    BY <2>1
<1>7. q * BlockSize = q * b + q /\ q * b \in Nat
  BY <1>3, <1>6
<1>8. q * BlockSize >= a /\ q <= a + BlockSize
  BY <1>1, <1>3, <1>5, <1>6, <1>7
<1> QED
  BY <1>1, <1>3, <1>4, <1>8

\* More blocks have no fewer rows.
LEMMA MoreBlocks ==
  ASSUME NEW i \in Nat, NEW j \in Nat, i <= j
  PROVE  i * BlockSize <= j * BlockSize /\ i * BlockSize \in Nat /\ j * BlockSize \in Nat
<1>1. BlockSize \in Nat
  BY SizeAssumption
<1>2. PICK d \in Nat : j = i + d
  <2>1. j - i \in Nat /\ j = i + (j - i)
    OBVIOUS
  <2> QED
    BY <2>1
<1>3. j * BlockSize = i * BlockSize + d * BlockSize /\ d * BlockSize \in Nat /\ i * BlockSize \in Nat
  BY <1>1, <1>2
<1> QED
  BY <1>3

\* The place of a ring's table that a place of it repeats.
LEMMA RoundIs ==
  ASSUME PTypes, NEW i \in Nat \ {0}
  PROVE  /\ Round(i) \in 1 .. i /\ Round(Round(i)) = Round(i)
         /\ layer.ring > 0 => Round(i) <= layer.ring
         /\ layer.ring = 0 => Round(i) = i
<1>1. layer.ring \in Nat
  BY LayerIs
<1>2. CASE layer.ring = 0
  BY <1>2 DEF Round
<1>3. CASE layer.ring > 0
  <2> DEFINE ring == layer.ring
             x == i - 1
             r == x % ring
             q == x \div ring
  <2>1. ring \in Nat \ {0} /\ x \in Nat /\ i = x + 1
    BY <1>1, <1>3
  <2>2. q \in Nat /\ r \in 0 .. ring - 1 /\ x = q * ring + r
    <3> HIDE DEF ring, x
    <3> QED
      BY <2>1, Divided
  <2>3. Round(i) = r + 1
    BY <1>3 DEF Round
  <2> HIDE DEF r, q, x
  <2>4. q * ring \in Nat /\ r <= x
    <3> HIDE DEF ring
    <3>1. q * ring \in Nat
      BY <2>1, <2>2
    <3> QED
      BY <2>2, <3>1
  <2>5. r % ring = r
    <3> HIDE DEF ring
    <3>1. r \in Nat /\ 0 * ring + r = r
      BY <2>1, <2>2
    <3>2. r \div ring \in Nat /\ r % ring \in 0 .. ring - 1 /\ r = (r \div ring) * ring + (r % ring)
      BY <2>1, <3>1, Divided
    <3> DEFINE u == r \div ring
               v == r % ring
    <3>3. u \in Nat /\ v \in 0 .. ring - 1 /\ 0 * ring + r = u * ring + v
      BY <3>1, <3>2
    <3> HIDE DEF u, v
    <3>4. r = v
      BY <2>1, <2>2, <3>3, SameRow
    <3> QED
      BY <3>4 DEF v
  <2>6. Round(r + 1) = (r % ring) + 1
    <3>1. (r + 1) - 1 = r
      BY <2>2
    <3> QED
      BY <1>3, <3>1 DEF Round
  <2> QED
    BY <1>3, <2>1, <2>2, <2>3, <2>4, <2>5, <2>6
<1> QED
  BY <1>1, <1>2, <1>3

\* Of two finite sets the smaller goes into the other.
LEMMA Injected ==
  ASSUME NEW S, NEW T, IsFiniteSet(S), IsFiniteSet(T), Cardinality(S) <= Cardinality(T)
  PROVE  \E f \in [S -> T] : \A a, b \in S : f[a] = f[b] => a = b
<1> DEFINE n == Cardinality(S)
           m == Cardinality(T)
<1>1. n \in Nat /\ m \in Nat /\ ExistsBijection(1 .. n, S) /\ ExistsBijection(1 .. m, T) /\ n <= m
  BY FS_CardinalityType
<1> HIDE DEF n, m
<1>2. PICK g \in [1 .. n -> S] : \A x \in S : \E i \in 1 .. n : g[i] = x
  BY <1>1 DEF ExistsBijection, Bijection, Surjection
<1>3. PICK h \in [1 .. m -> T] : \A i, j \in 1 .. m : h[i] = h[j] => i = j
  BY <1>1 DEF ExistsBijection, Bijection, Injection, IsInjective
<1> DEFINE Pre(x) == CHOOSE i \in 1 .. n : g[i] = x
           f == [x \in S |-> h[Pre(x)]]
<1>4. ASSUME NEW x \in S PROVE Pre(x) \in 1 .. n /\ g[Pre(x)] = x /\ Pre(x) \in 1 .. m
  <2>1. Pre(x) \in 1 .. n /\ g[Pre(x)] = x
    BY <1>2
  <2> HIDE DEF Pre
  <2> QED
    BY <1>1, <2>1
<1> HIDE DEF Pre
<1>5. f \in [S -> T]
  BY <1>3, <1>4
<1>6. ASSUME NEW a \in S, NEW b \in S, f[a] = f[b] PROVE a = b
  <2>1. Pre(a) = Pre(b)
    BY <1>3, <1>4, <1>6
  <2> QED
    BY <1>4, <2>1
<1> QED
  BY <1>5, <1>6

\* A function of 1 .. n tabulated is itself.
LEMMA TabulatedIs ==
  ASSUME NEW n \in Nat, NEW f, Listed(f, n)
  PROVE  Tabulated(f) = f /\ Len(f) = n /\ \A S : (\A i \in 1 .. n : f[i] \in S) => f \in Seq(S)
<1> DEFINE S == {f[i] : i \in 1 .. n}
<1>1. f \in [1 .. n -> S]
  BY DEF Listed
<1> HIDE DEF S
<1>2. f \in Seq(S) /\ Len(f) = n
  BY <1>1
<1>3. Tabulated(f) = f
  BY <1>2 DEF Tabulated
<1>4. ASSUME NEW R, \A i \in 1 .. n : f[i] \in R PROVE f \in Seq(R)
  <2>1. f \in [1 .. n -> R]
    BY <1>4 DEF Listed
  <2> QED
    BY <2>1
<1> QED
  BY <1>2, <1>3, <1>4

\* The moves of a call.
MovesRight(moves, n) ==
    /\ n \in Nat /\ DOMAIN moves = 1 .. n
    /\ \A k \in 1 .. n : moves[k].seq \in Users /\ moves[k] \in Moves(moves[k].seq)
    /\ \A k, l \in 1 .. n : moves[k].seq = moves[l].seq => k = l

\* The parts of a move.
LEMMA MoveIs ==
  ASSUME PTypes, NEW s \in Users, NEW m \in Moves(s)
  PROVE  /\ m.seq = s /\ m.n \in 0 .. WidestStep /\ m.keep \in 0 .. m.n /\ m.n \in Nat /\ m.keep \in Nat
         /\ Len(held[s]) \in Nat /\ RowsWith(m) = Len(held[s]) + m.n /\ RowsWith(m) \in 0 .. layer.most
         /\ m.aside \in Asides(s, m.n, m.keep)
<1>1. m.seq = s /\ m.n \in 0 .. WidestStep /\ m.keep \in 0 .. WidestStep /\ m.keep <= m.n
      /\ RowsWith(m) <= layer.most /\ m.aside \in Asides(s, m.n, m.keep)
  <2>1. PICK w \in (0 .. WidestStep) \X (0 .. WidestStep) :
          /\ w[2] <= w[1] /\ Len(held[s]) + w[1] <= layer.most
          /\ m \in [seq : {s}, n : {w[1]}, keep : {w[2]}, aside : Asides(s, w[1], w[2])]
    BY DEF Moves
  <2>2. m.seq = s /\ m.n = w[1] /\ m.keep = w[2] /\ m.aside \in Asides(s, w[1], w[2])
    BY <2>1
  <2> QED
    BY <2>1, <2>2 DEF RowsWith
<1>2. WidestStep \in Nat /\ layer.most \in Nat /\ Len(held[s]) \in Nat
  BY SizeAssumption, LayerIs DEF PTypes
<1>3. RowsWith(m) = Len(held[s]) + m.n
  BY <1>1 DEF RowsWith
<1> QED
  BY <1>1, <1>2, <1>3

\* A free block is a block of the pool that no sequence has.
LEMMA FreeIs ==
  ASSUME PTypes
  PROVE  /\ IsFiniteSet(Free) /\ Free \subseteq (IF layer.mapped THEN 1 ELSE 0) .. Blocks - 1
         /\ \A s \in Users : \A i \in 1 .. Len(table[s]) : table[s][i] \notin Free
<1> DEFINE B == (IF layer.mapped THEN 1 ELSE 0) .. Blocks - 1
<1>1. IsFiniteSet(B)
  <2>1. (IF layer.mapped THEN 1 ELSE 0) \in Int /\ Blocks - 1 \in Int
    BY SizeAssumption
  <2> QED
    BY <2>1, FS_Interval
<1>2. Free \subseteq B
  BY DEF Free
<1> HIDE DEF B
<1>3. IsFiniteSet(Free)
  BY <1>1, <1>2, FS_Subset
<1>4. ASSUME NEW s \in Users, NEW i \in 1 .. Len(table[s]) PROVE table[s][i] \notin Free
  <2>1. table[s] \in Seq(B)
    BY DEF PTypes, B
  <2>2. table[s][i] \in ToSet(table[s])
    BY <2>1 DEF ToSet
  <2> QED
    BY <2>2 DEF Free
<1> QED
  BY <1>2, <1>3, <1>4 DEF B

\* The blocks a call lacks are finitely many.
LEMMA LackingFinite ==
  ASSUME PTypes, NEW moves, NEW n, MovesRight(moves, n)
  PROVE  IsFiniteSet(Lacking(moves))
<1> DEFINE M == layer.most + BlockSize
           K == 1 .. n
           P == 1 .. M
<1>1. M \in Nat /\ n \in Nat /\ BlockSize \in Nat
  BY LayerIs, SizeAssumption DEF MovesRight
<1>2. IsFiniteSet(K) /\ IsFiniteSet(P)
  BY <1>1, FS_Interval
<1>3. IsFiniteSet(K \X P)
  <2> HIDE DEF K, P
  <2> QED
    BY <1>2, FS_Product
<1>4. ASSUME NEW k \in K, NEW i \in Len(table[moves[k].seq]) + 1 .. CeilDiv(RowsWith(moves[k]), BlockSize)
      PROVE  i \in P
  <2>1. RowsWith(moves[k]) \in 0 .. layer.most
    BY MoveIs DEF MovesRight
  <2> DEFINE a == RowsWith(moves[k])
             c == CeilDiv(a, BlockSize)
             l == Len(table[moves[k].seq])
  <2>2. c \in 0 .. a + BlockSize
    BY <2>1, CeilIs
  <2>3. l \in Nat
    <3>1. moves[k].seq \in Users
      BY DEF MovesRight
    <3> QED
      BY <3>1 DEF PTypes
  <2>4. i \in l + 1 .. c
    OBVIOUS
  <2>5. layer.most \in Nat
    BY LayerIs
  <2> HIDE DEF a, c, l
  <2> QED
    BY <1>1, <2>1, <2>2, <2>3, <2>4, <2>5 DEF a
<1>5. Lacking(moves) \subseteq K \X P
  <2>1. DOMAIN moves = K
    BY DEF MovesRight
  <2> HIDE DEF K, P
  <2> QED
    BY <1>4, <2>1 DEF Lacking
<1> QED
  BY <1>3, <1>5, FS_Subset

\* Each lacking block is given one of its own.
LEMMA GrantedIs ==
  ASSUME PTypes, NEW moves, NEW n, MovesRight(moves, n),
         Cardinality(Lacking(moves)) <= Cardinality(Free),
         NEW granted, granted = Granted(Lacking(moves))
  PROVE  \A x \in Lacking(moves) :
           granted[x] \in Free /\ \A y \in Lacking(moves) : granted[x] = granted[y] => x = y
<1> DEFINE L == Lacking(moves)
<1>1. IsFiniteSet(L) /\ IsFiniteSet(Free) /\ Cardinality(L) <= Cardinality(Free)
  BY LackingFinite, FreeIs
<1>2. granted = CHOOSE f \in [L -> Free] : \A a, b \in L : f[a] = f[b] => a = b
  BY DEF Granted
<1> HIDE DEF L
<1>3. \E f \in [L -> Free] : \A a, b \in L : f[a] = f[b] => a = b
  BY <1>1, Injected
<1>4. granted \in [L -> Free] /\ \A a, b \in L : granted[a] = granted[b] => a = b
  BY <1>2, <1>3
<1> QED
  BY <1>4 DEF L

\* What a table grows to.
LEMMA TableIs ==
  ASSUME PTypes, Roomy, NEW moves, NEW n, MovesRight(moves, n),
         Cardinality(Lacking(moves)) <= Cardinality(Free),
         NEW granted, granted = Granted(Lacking(moves)), NEW k \in 1 .. n,
         NEW s, s = moves[k].seq, NEW grown, grown = TableOf(moves[k], k, granted)
  PROVE  /\ grown \in Seq((IF layer.mapped THEN 1 ELSE 0) .. Blocks - 1)
         /\ Len(grown) \in Nat /\ Len(table[s]) <= Len(grown)
         /\ RowsWith(moves[k]) <= Len(grown) * BlockSize
         /\ \A i \in 1 .. Len(table[s]) : grown[i] = table[s][i]
         /\ \A i \in 1 .. Len(grown) :
              \/ Round(i) \in 1 .. Len(table[s]) /\ grown[i] = table[s][Round(i)]
              \/ <<k, Round(i)>> \in Lacking(moves) /\ grown[i] = granted[<<k, Round(i)>>]
<1> DEFINE B == (IF layer.mapped THEN 1 ELSE 0) .. Blocks - 1
           old == table[s]
           c == CeilDiv(RowsWith(moves[k]), BlockSize)
           l == Larger(Len(old), c)
           f == [i \in 1 .. l |-> IF i <= Len(old) THEN old[i]
                                  ELSE IF Round(i) <= Len(old) THEN old[Round(i)]
                                  ELSE granted[<<k, Round(i)>>]]
<1>1. s \in Users /\ moves[k] \in Moves(s) /\ k \in DOMAIN moves
  BY DEF MovesRight
<1>2. old \in Seq(B) /\ Len(old) \in Nat
  <2>1. table \in [Users -> Seq(B)]
    BY DEF PTypes
  <2> HIDE DEF B
  <2> QED
    BY <1>1, <2>1
<1>3. c \in Nat /\ RowsWith(moves[k]) \in Nat /\ RowsWith(moves[k]) <= c * BlockSize
  <2>1. RowsWith(moves[k]) \in Nat
    BY <1>1, MoveIs, LayerIs
  <2> DEFINE a == RowsWith(moves[k])
  <2>2. CeilDiv(a, BlockSize) \in 0 .. a + BlockSize /\ a <= CeilDiv(a, BlockSize) * BlockSize
    BY <2>1, CeilIs
  <2> HIDE DEF a
  <2>3. CeilDiv(a, BlockSize) \in Nat
    BY <2>1, <2>2, SizeAssumption DEF a
  <2> QED
    BY <2>1, <2>2, <2>3 DEF a
<1>4. l \in Nat /\ Len(old) <= l /\ c <= l /\ (l = Len(old) \/ l = c)
  <2> HIDE DEF c, old
  <2> QED
    BY <1>2, <1>3 DEF Larger
<1>5. ASSUME NEW i \in 1 .. l
      PROVE  /\ i \in Nat \ {0} /\ Round(i) \in 1 .. i /\ f[i] \in B
             /\ \/ Round(i) \in 1 .. Len(old) /\ f[i] = old[Round(i)]
                \/ <<k, Round(i)>> \in Lacking(moves) /\ f[i] = granted[<<k, Round(i)>>]
  <2> HIDE DEF l, old, c
  <2>1. i \in Nat \ {0} /\ i <= l
    BY <1>4
  <2>2. Round(i) \in 1 .. i /\ Round(Round(i)) = Round(i) /\ (layer.ring > 0 => Round(i) <= layer.ring)
        /\ (layer.ring = 0 => Round(i) = i)
    BY <2>1, RoundIs
  <2>3. Round(i) \in Nat \ {0} /\ Round(i) <= i
    BY <2>1, <2>2
  <2>4. CASE Round(i) <= Len(old)
    <3>1. Round(i) \in 1 .. Len(old)
      BY <1>2, <2>3, <2>4
    <3>2. f[i] = old[Round(i)]
      <4>1. CASE i <= Len(old)
        <5>1. i \in 1 .. Len(old)
          BY <1>2, <2>1, <4>1
        <5>2. old[i] = old[Round(i)]
          BY <1>1, <2>2, <3>1, <5>1 DEF Roomy, old
        <5> QED
          BY <4>1, <5>2
      <4>2. CASE ~(i <= Len(old))
        BY <2>4, <4>2
      <4> QED
        BY <4>1, <4>2
    <3>3. old[Round(i)] \in B
      <4> HIDE DEF B
      <4> QED
        BY <1>2, <3>1
    <3> QED
      BY <2>1, <2>2, <3>1, <3>2, <3>3
  <2>5. CASE ~(Round(i) <= Len(old))
    <3>1. ~(i <= Len(old)) /\ Round(i) \in Len(old) + 1 .. c
      BY <1>2, <1>3, <1>4, <2>1, <2>3, <2>5
    <3>2. layer.ring = 0 \/ Round(i) <= layer.ring
      BY <2>2, LayerIs
    <3>3. <<k, Round(i)>> \in Lacking(moves)
      <4> DEFINE Of(x) == {j \in Len(table[moves[x].seq]) + 1 .. CeilDiv(RowsWith(moves[x]), BlockSize) :
                             layer.ring = 0 \/ j <= layer.ring}
      <4>1. Round(i) \in Of(k)
        BY <3>1, <3>2 DEF old, c
      <4>2. Lacking(moves) = UNION {{x} \X Of(x) : x \in DOMAIN moves}
        BY DEF Lacking
      <4> HIDE DEF Of
      <4>3. <<k, Round(i)>> \in {k} \X Of(k)
        BY <4>1
      <4> QED
        BY <1>1, <4>2, <4>3
    <3>4. f[i] = granted[<<k, Round(i)>>]
      BY <2>5, <3>1
    <3>5. f[i] \in B
      BY <3>3, <3>4, GrantedIs, FreeIs
    <3> QED
      BY <2>1, <2>2, <3>3, <3>4, <3>5
  <2> QED
    BY <2>4, <2>5
<1>6. ASSUME NEW i \in 1 .. Len(old) PROVE i \in 1 .. l /\ f[i] = old[i]
  <2> HIDE DEF l, old
  <2>1. i \in 1 .. l /\ i <= Len(old)
    BY <1>2, <1>4
  <2> QED
    BY <2>1
<1>7. grown = Tabulated(f)
  BY DEF TableOf
<1>8. Listed(f, l)
  BY DEF Listed
<1> HIDE DEF f, l, B
<1>9. grown = f /\ Len(grown) = l /\ grown \in Seq(B)
  BY <1>4, <1>5, <1>7, <1>8, TabulatedIs
<1> HIDE DEF c
<1>10. RowsWith(moves[k]) <= l * BlockSize
  <2>1. c * BlockSize <= l * BlockSize /\ c * BlockSize \in Nat /\ l * BlockSize \in Nat
    BY <1>3, <1>4, MoreBlocks
  <2> DEFINE u == c * BlockSize
             v == l * BlockSize
  <2>2. RowsWith(moves[k]) \in Nat /\ RowsWith(moves[k]) <= u /\ u <= v /\ u \in Nat /\ v \in Nat
    BY <1>3, <2>1
  <2> HIDE DEF u, v
  <2>3. RowsWith(moves[k]) <= v
    BY <2>2
  <2> QED
    BY <2>3 DEF v
<1> QED
  BY <1>4, <1>5, <1>6, <1>9, <1>10 DEF B

\* The tables after it.
Origin(moves, granted, grown, s, i) ==
    \/ Round(i) \in 1 .. Len(table[s]) /\ grown[i] = table[s][Round(i)]
    \/ \E k \in DOMAIN moves : /\ moves[k].seq = s /\ <<k, Round(i)>> \in Lacking(moves)
                               /\ grown[i] = granted[<<k, Round(i)>>]

\* The tables a call leaves: those of its sequences grown, the others as they were.
LEMMA GrownIs ==
  ASSUME PTypes, Roomy, NEW moves, NEW n, MovesRight(moves, n),
         Cardinality(Lacking(moves)) <= Cardinality(Free),
         NEW granted, granted = Granted(Lacking(moves)),
         NEW tables, tables = Grown(moves, granted)
  PROVE  /\ tables \in [Users -> Seq((IF layer.mapped THEN 1 ELSE 0) .. Blocks - 1)]
         /\ \A s \in Users :
              /\ Len(tables[s]) \in Nat /\ Len(table[s]) \in Nat /\ Len(table[s]) <= Len(tables[s])
              /\ \A i \in 1 .. Len(table[s]) : tables[s][i] = table[s][i]
              /\ \A i \in 1 .. Len(tables[s]) : Origin(moves, granted, tables[s], s, i)
         /\ \A k \in 1 .. n : RowsWith(moves[k]) <= Len(tables[moves[k].seq]) * BlockSize
<1> DEFINE B == (IF layer.mapped THEN 1 ELSE 0) .. Blocks - 1
<1>0. n \in Nat /\ DOMAIN moves = 1 .. n
  BY DEF MovesRight
<1>1. ASSUME NEW k \in 1 .. n, NEW s, s = moves[k].seq
      PROVE  s \in Users /\ tables[s] = TableOf(moves[k], k, granted)
  <2>1. s \in Users /\ \A l \in DOMAIN moves : moves[l].seq = s => l = k
    BY <1>0, <1>1 DEF MovesRight
  <2>2. (CHOOSE l \in DOMAIN moves : moves[l].seq = s) = k
    BY <1>0, <1>1, <2>1
  <2> QED
    BY <1>0, <1>1, <2>1, <2>2 DEF Grown
<1>2. ASSUME NEW s \in Users, \A k \in 1 .. n : moves[k].seq # s
      PROVE  tables[s] = table[s]
  BY <1>0, <1>2 DEF Grown
<1>3. ASSUME NEW s \in Users
      PROVE  /\ tables[s] \in Seq(B)
             /\ Len(tables[s]) \in Nat /\ Len(table[s]) \in Nat /\ Len(table[s]) <= Len(tables[s])
             /\ \A i \in 1 .. Len(table[s]) : tables[s][i] = table[s][i]
             /\ \A i \in 1 .. Len(tables[s]) : Origin(moves, granted, tables[s], s, i)
  <2>0. table[s] \in Seq(B) /\ Len(table[s]) \in Nat
    <3>1. table \in [Users -> Seq(B)]
      BY DEF PTypes
    <3> HIDE DEF B
    <3> QED
      BY <3>1
  <2>1. CASE \E k \in 1 .. n : moves[k].seq = s
    <3>1. PICK k \in 1 .. n : s = moves[k].seq
      BY <2>1
    <3> DEFINE grown == TableOf(moves[k], k, granted)
    <3>2. tables[s] = grown
      BY <1>1, <3>1
    <3>3. /\ grown \in Seq(B) /\ Len(grown) \in Nat /\ Len(table[s]) <= Len(grown)
          /\ \A i \in 1 .. Len(table[s]) : grown[i] = table[s][i]
          /\ \A i \in 1 .. Len(grown) :
               \/ Round(i) \in 1 .. Len(table[s]) /\ grown[i] = table[s][Round(i)]
               \/ <<k, Round(i)>> \in Lacking(moves) /\ grown[i] = granted[<<k, Round(i)>>]
      <4> HIDE DEF grown
      <4> QED
        BY <3>1, TableIs DEF grown
    <3> HIDE DEF grown, B
    <3> QED
      BY <1>0, <2>0, <3>1, <3>2, <3>3 DEF Origin
  <2>2. CASE \A k \in 1 .. n : moves[k].seq # s
    <3>1. tables[s] = table[s]
      BY <1>2, <2>2
    <3>2. ASSUME NEW i \in 1 .. Len(table[s])
          PROVE  Round(i) \in 1 .. Len(table[s]) /\ table[s][i] = table[s][Round(i)]
      <4>1. i \in Nat \ {0} /\ i <= Len(table[s])
        BY <2>0
      <4>2. Round(i) \in 1 .. i /\ Round(Round(i)) = Round(i)
        BY <4>1, RoundIs
      <4>3. Round(i) \in 1 .. Len(table[s])
        BY <2>0, <4>1, <4>2
      <4> QED
        BY <4>2, <4>3 DEF Roomy
    <3> HIDE DEF B
    <3> QED
      BY <2>0, <3>1, <3>2 DEF Origin
  <2> QED
    BY <2>1, <2>2
<1>4. tables = [s \in Users |-> tables[s]]
  BY DEF Grown
<1>5. ASSUME NEW k \in 1 .. n PROVE RowsWith(moves[k]) <= Len(tables[moves[k].seq]) * BlockSize
  <2> DEFINE grown == TableOf(moves[k], k, granted)
             s == moves[k].seq
  <2>1. tables[s] = grown
    BY <1>1
  <2> HIDE DEF grown
  <2>2. RowsWith(moves[k]) <= Len(grown) * BlockSize
    BY TableIs DEF grown
  <2> QED
    BY <2>1, <2>2
<1>6. tables \in [Users -> Seq(B)]
  <2> HIDE DEF B
  <2> QED
    BY <1>3, <1>4
<1> QED
  BY <1>3, <1>5, <1>6

\* Blocks given out keep the tables right and every row in its place.
LEMMA GrowingTables ==
  ASSUME PTypes, Tables, NEW moves, NEW n, MovesRight(moves, n),
         Cardinality(Lacking(moves)) <= Cardinality(Free),
         table' = Grown(moves, Granted(Lacking(moves))), UNCHANGED <<layer, held>>
  PROVE  /\ Tables'
         /\ \A s \in Users : \A p \in 1 .. Len(held[s]) :
              /\ PlaceOf(s, p)' = PlaceOf(s, p)
              /\ Private(s, Block(p)) => Private(s, Block(p))'
<1> DEFINE granted == Granted(Lacking(moves))
           B == (IF layer.mapped THEN 1 ELSE 0) .. Blocks - 1
<1>1. Roomy /\ SharedFront
  BY DEF Tables
<1>2. ASSUME NEW s \in Users
      PROVE  /\ Len(table'[s]) \in Nat /\ Len(table[s]) \in Nat /\ Len(table[s]) <= Len(table'[s])
             /\ \A i \in 1 .. Len(table[s]) : table'[s][i] = table[s][i]
             /\ \A i \in 1 .. Len(table'[s]) : Origin(moves, granted, table'[s], s, i)
  <2> DEFINE tables == Grown(moves, granted)
  <2> HIDE DEF granted, tables
  <2>1. /\ Len(tables[s]) \in Nat /\ Len(table[s]) \in Nat /\ Len(table[s]) <= Len(tables[s])
        /\ \A i \in 1 .. Len(table[s]) : tables[s][i] = table[s][i]
        /\ \A i \in 1 .. Len(tables[s]) : Origin(moves, granted, tables[s], s, i)
    BY <1>1, GrownIs DEF granted, tables
  <2>2. table' = tables
    BY DEF granted, tables
  <2> QED
    BY <2>1, <2>2
<1>3. \A x \in Lacking(moves) :
        granted[x] \in Free /\ \A y \in Lacking(moves) : granted[x] = granted[y] => x = y
  <2> HIDE DEF granted
  <2> QED
    BY GrantedIs DEF granted
<1> HIDE DEF granted
<1>4. \A i : Round(i)' = Round(i)
  BY DEF Round
<1>5. \A s \in Users : \A i \in 1 .. Len(table[s]) : table[s][i] \notin Free
  BY FreeIs
<1>6. ASSUME NEW s \in Users, NEW o \in Users, NEW i \in 1 .. Len(table'[s]), NEW j \in 1 .. Len(table'[o]),
             table'[s][i] = table'[o][j]
      PROVE  \/ /\ Round(i) \in 1 .. Len(table[s]) /\ Round(j) \in 1 .. Len(table[o])
                /\ table[s][Round(i)] = table[o][Round(j)]
             \/ s = o /\ Round(i) = Round(j)
  <2>1. Origin(moves, granted, table'[s], s, i) /\ Origin(moves, granted, table'[o], o, j)
    BY <1>2
  <2>2. CASE Round(i) \in 1 .. Len(table[s]) /\ table'[s][i] = table[s][Round(i)]
    <3>1. CASE Round(j) \in 1 .. Len(table[o]) /\ table'[o][j] = table[o][Round(j)]
      BY <1>6, <2>2, <3>1
    <3>2. CASE \E k \in DOMAIN moves : /\ moves[k].seq = o /\ <<k, Round(j)>> \in Lacking(moves)
                                       /\ table'[o][j] = granted[<<k, Round(j)>>]
      BY <1>3, <1>5, <1>6, <2>2, <3>2
    <3> QED
      BY <2>1, <3>1, <3>2 DEF Origin
  <2>3. CASE \E k \in DOMAIN moves : /\ moves[k].seq = s /\ <<k, Round(i)>> \in Lacking(moves)
                                     /\ table'[s][i] = granted[<<k, Round(i)>>]
    <3>1. CASE Round(j) \in 1 .. Len(table[o]) /\ table'[o][j] = table[o][Round(j)]
      BY <1>3, <1>5, <1>6, <2>3, <3>1
    <3>2. CASE \E k \in DOMAIN moves : /\ moves[k].seq = o /\ <<k, Round(j)>> \in Lacking(moves)
                                       /\ table'[o][j] = granted[<<k, Round(j)>>]
      <4>1. PICK k \in DOMAIN moves : /\ moves[k].seq = s /\ <<k, Round(i)>> \in Lacking(moves)
                                      /\ table'[s][i] = granted[<<k, Round(i)>>]
        BY <2>3
      <4>2. PICK l \in DOMAIN moves : /\ moves[l].seq = o /\ <<l, Round(j)>> \in Lacking(moves)
                                      /\ table'[o][j] = granted[<<l, Round(j)>>]
        BY <3>2
      <4>3. <<k, Round(i)>> = <<l, Round(j)>>
        BY <1>3, <1>6, <4>1, <4>2
      <4>4. k = l /\ Round(i) = Round(j)
        BY <4>3
      <4> QED
        BY <4>1, <4>2, <4>4
    <3> QED
      BY <2>1, <3>1, <3>2 DEF Origin
  <2> QED
    BY <2>1, <2>2, <2>3 DEF Origin
<1>7. ASSUME NEW s \in Users, NEW i \in 1 .. Len(table'[s])
      PROVE  Round(i) \in 1 .. i /\ Round(Round(i)) = Round(i) /\ i \in Nat \ {0}
  <2>1. i \in Nat \ {0}
    BY <1>2
  <2> QED
    BY <2>1, RoundIs
<1>8. Roomy'
  <2> SUFFICES ASSUME NEW s \in Users
               PROVE  /\ Len(held'[s]) <= Len(table'[s]) * BlockSize
                      /\ \A i, j \in 1 .. Len(table'[s]) : table'[s][i] = table'[s][j] <=> Round(i)' = Round(j)'
    BY DEF Roomy
  <2>1. Len(held'[s]) <= Len(table'[s]) * BlockSize
    <3> DEFINE u == Len(table[s]) * BlockSize
               v == Len(table'[s]) * BlockSize
    <3>1. u <= v /\ u \in Nat /\ v \in Nat
      BY <1>2, MoreBlocks
    <3>2. Len(held[s]) \in Nat /\ Len(held[s]) <= u
      BY <1>1 DEF Roomy, PTypes
    <3> HIDE DEF u, v
    <3>3. Len(held[s]) <= v
      BY <3>1, <3>2
    <3> QED
      BY <3>3 DEF v
  <2>2. ASSUME NEW i \in 1 .. Len(table'[s]), NEW j \in 1 .. Len(table'[s]), table'[s][i] = table'[s][j]
        PROVE  Round(i) = Round(j)
    <3>1. CASE s = s /\ Round(i) = Round(j)
      BY <3>1
    <3>2. CASE /\ Round(i) \in 1 .. Len(table[s]) /\ Round(j) \in 1 .. Len(table[s])
               /\ table[s][Round(i)] = table[s][Round(j)]
      <4>1. Round(Round(i)) = Round(Round(j))
        BY <1>1, <3>2 DEF Roomy
      <4> QED
        BY <1>7, <4>1
    <3> QED
      BY <1>6, <2>2, <3>1, <3>2
  <2>3. ASSUME NEW i \in 1 .. Len(table'[s]), NEW j \in 1 .. Len(table'[s]), Round(i) = Round(j)
        PROVE  table'[s][i] = table'[s][j]
    <3>1. Origin(moves, granted, table'[s], s, i) /\ Origin(moves, granted, table'[s], s, j)
      BY <1>2
    <3>2. \A k, l \in DOMAIN moves : moves[k].seq = s /\ moves[l].seq = s => k = l
      BY DEF MovesRight
    <3>3. Round(i) \in 1 .. Len(table[s]) => \A k \in DOMAIN moves :
            moves[k].seq = s => <<k, Round(i)>> \notin Lacking(moves)
      <4> SUFFICES ASSUME Round(i) \in 1 .. Len(table[s]), NEW k \in DOMAIN moves, moves[k].seq = s,
                          <<k, Round(i)>> \in Lacking(moves)
                   PROVE  FALSE
        OBVIOUS
      <4>1. PICK x \in DOMAIN moves :
              <<k, Round(i)>> \in {x} \X {h \in Len(table[moves[x].seq]) + 1 .. CeilDiv(RowsWith(moves[x]), BlockSize) :
                                            layer.ring = 0 \/ h <= layer.ring}
        BY DEF Lacking
      <4>2. x = k /\ Round(i) \in Len(table[s]) + 1 .. CeilDiv(RowsWith(moves[k]), BlockSize)
        BY <4>1
      <4> DEFINE c == CeilDiv(RowsWith(moves[k]), BlockSize)
                 r == Round(i)
      <4>3. r \in 1 .. Len(table[s]) /\ r \in Len(table[s]) + 1 .. c /\ Len(table[s]) \in Nat
        BY <1>2, <4>2
      <4> HIDE DEF c, r
      <4> QED
        BY <4>3
    <3> QED
      BY <2>3, <3>1, <3>2, <3>3 DEF Origin
  <2> QED
    BY <1>4, <2>1, <2>2, <2>3
<1>9. SharedFront'
  <2> SUFFICES ASSUME NEW s \in Users, NEW o \in Users, s # o, NEW i \in 1 .. Len(table'[s]),
                      NEW j \in 1 .. Len(table'[o]), table'[s][i] = table'[o][j]
               PROVE  /\ layer'.ring = 0 /\ i = j
                      /\ i * BlockSize <= Len(held'[s]) /\ i * BlockSize <= Len(held'[o])
                      /\ \A h \in 1 .. i : table'[s][h] = table'[o][h]
    BY DEF SharedFront
  <2>1. /\ Round(i) \in 1 .. Len(table[s]) /\ Round(j) \in 1 .. Len(table[o])
        /\ table[s][Round(i)] = table[o][Round(j)]
    BY <1>6
  <2>2. layer.ring = 0
    BY <1>1, <2>1 DEF SharedFront
  <2>3. Round(i) = i /\ Round(j) = j
    BY <2>2 DEF Round
  <2>4. /\ i = j /\ i * BlockSize <= Len(held[s]) /\ i * BlockSize <= Len(held[o])
        /\ \A h \in 1 .. i : table[s][h] = table[o][h]
    BY <1>1, <2>1, <2>3 DEF SharedFront
  <2>5. ASSUME NEW h \in 1 .. i PROVE h \in 1 .. Len(table[s]) /\ h \in 1 .. Len(table[o])
    BY <1>2, <2>1, <2>3, <2>4
  <2> QED
    BY <1>2, <2>2, <2>4, <2>5
<1>10. ASSUME NEW s \in Users, NEW p \in 1 .. Len(held[s])
       PROVE  PlaceOf(s, p)' = PlaceOf(s, p) /\ (Private(s, Block(p)) => Private(s, Block(p))')
  <2>1. p \in 1 .. Len(table[s]) * BlockSize
    BY NeededIn
  <2>2. Block(p) \in 1 .. Len(table[s])
    BY <2>1, PlaceIn
  <2>3. table'[s][Block(p)] = table[s][Block(p)] /\ Block(p) \in 1 .. Len(table'[s])
    BY <1>2, <2>2
  <2>4. PlaceOf(s, p)' = PlaceOf(s, p)
    BY <2>3 DEF PlaceOf, SlotOf, Block
  <2>5. ASSUME Private(s, Block(p)), NEW o \in Users \ {s}, NEW j \in 1 .. Len(table'[o]),
               table'[o][j] = table'[s][Block(p)]
        PROVE  FALSE
    <3>1. Origin(moves, granted, table'[o], o, j)
      BY <1>2
    <3>2. CASE Round(j) \in 1 .. Len(table[o]) /\ table'[o][j] = table[o][Round(j)]
      BY <2>3, <2>5, <3>2 DEF Private
    <3>3. CASE \E k \in DOMAIN moves : /\ moves[k].seq = o /\ <<k, Round(j)>> \in Lacking(moves)
                                       /\ table'[o][j] = granted[<<k, Round(j)>>]
      BY <1>3, <1>5, <2>2, <2>3, <2>5, <3>3
    <3> QED
      BY <3>1, <3>2, <3>3 DEF Origin
  <2> QED
    BY <2>4, <2>5 DEF Private
<1> QED
  BY <1>8, <1>9, <1>10 DEF Tables
-----------------------------------------------------------------------------
(* The entries of a call.                                                  *)

\* Where the rows go that do not stay.
LEMMA AsideIs ==
  ASSUME PTypes, Tables, NEW s \in Users, NEW m \in Moves(s)
  PROVE  /\ m.aside > 0 => m.keep < m.n
         /\ m.keep < m.n =>
              /\ layer.mapped /\ ~layer.quant
              /\ \/ m.aside \in {-1, 0}
                 \/ /\ layer.ring = 0 /\ m.n = m.keep + 1
                    /\ \E p \in 1 .. Len(held[s]) : m.aside = PlaceOf(s, p) /\ Private(s, Block(p))
<1>1. m.n \in Nat /\ m.keep \in 0 .. m.n /\ m.aside \in Asides(s, m.n, m.keep)
  BY MoveIs
<1>2. layer.mapped \in BOOLEAN /\ layer.quant \in BOOLEAN /\ layer.ring \in Nat
  BY LayerIs
<1>3. ASSUME NEW p \in Revisable(s)
      PROVE  layer.ring = 0 /\ p \in 1 .. Len(held[s]) /\ Private(s, Block(p))
  <2>1. layer.ring = 0
    BY <1>2, <1>3 DEF Revisable
  <2>2. p \in DOMAIN held[s] /\ \A o \in Users \ {s} : table[s][Block(p)] \notin ToSet(table[o])
    BY <1>3, <2>1 DEF Revisable, Block
  <2>3. p \in 1 .. Len(held[s])
    BY <2>2 DEF PTypes
  <2>4. \A o \in Users : \A j \in 1 .. Len(table[o]) : table[o][j] \in ToSet(table[o])
    BY DEF PTypes, ToSet
  <2>5. Private(s, Block(p))
    BY <2>2, <2>4 DEF Private
  <2> QED
    BY <2>1, <2>3, <2>5
<1>4. CASE m.n = m.keep
  <2>1. m.aside = -1
    BY <1>1, <1>4 DEF Asides
  <2> QED
    BY <1>1, <1>4, <2>1
<1>5. CASE m.n # m.keep
  <2>1. m.keep < m.n
    BY <1>1, <1>5
  <2>2. layer.mapped /\ ~layer.quant
    BY <1>1, <1>5 DEF Asides
  <2>3. m.aside \in {-1, 0} \/ (m.n = m.keep + 1 /\ m.aside \in {PlaceOf(s, p) : p \in Revisable(s)})
    BY <1>1, <1>5, <2>2 DEF Asides
  <2> QED
    BY <1>3, <2>1, <2>2, <2>3
<1> QED
  BY <1>4, <1>5

\* What rotation makes of the rows of an entry.
LEMMA RowsMade ==
  ASSUME PTypes, NEW e, e.new \in Seq(Row), e.past \in Nat
  PROVE  Rows(e) \in Seq(Row) /\ Len(Rows(e)) = Len(e.new) /\ Listed(Rows(e), Len(e.new))
<1> DEFINE n == Len(e.new)
           at == [j \in DOMAIN e.new |-> IF layer.rotary THEN e.past + j - 1 ELSE -1]
           f == [i \in DOMAIN e.new |-> [e.new[i] EXCEPT !.at = at[i]]]
<1>1. DOMAIN e.new = 1 .. n /\ n \in Nat
  OBVIOUS
<1>2. ASSUME NEW i \in 1 .. n PROVE f[i] \in Row
  <2>1. at[i] \in Int /\ e.new[i] \in Row
    BY <1>1
  <2> HIDE DEF at
  <2> QED
    BY <1>1, <2>1 DEF Row
<1>3. Listed(f, n)
  BY <1>1 DEF Listed
<1>4. Rows(e) = Tabulated(f)
  BY DEF Rows, Rotated
<1> HIDE DEF f, n
<1> QED
  BY <1>1, <1>2, <1>3, <1>4, TabulatedIs DEF n

\* What the server sends of a sequence is an entry the invariant asks for.
LEMMA EntryMade ==
  ASSUME PTypes, Tables, NEW moves, NEW n, MovesRight(moves, n),
         Cardinality(Lacking(moves)) <= Cardinality(Free),
         NEW tables, tables = Grown(moves, Granted(Lacking(moves))), table' = tables,
         UNCHANGED <<layer, held>>, NEW k \in 1 .. n, NEW e, e = Entry(moves[k], tables),
         NEW view, view = View(moves[k], e)
  PROVE  EntryRight(e)' /\ ViewRight(e, view)' /\ e.seq = moves[k].seq
<1> DEFINE m == moves[k]
           s == moves[k].seq
           past == Len(held[s])
           blocks == [table |-> tables[s]]
           tokens == [j \in 1 .. m.n |-> Token(s, past + j, j <= m.keep)]
           slots == [j \in 1 .. m.n |-> IF j <= m.keep THEN SlotOf(blocks, past + j - 1) ELSE m.aside]
<1>1. s \in Users /\ m \in Moves(s) /\ Roomy
  BY DEF MovesRight, Tables
<1>2. /\ m.n \in 0 .. WidestStep /\ m.keep \in 0 .. m.n /\ m.n \in Nat /\ m.keep \in Nat /\ past \in Nat
      /\ RowsWith(m) = past + m.n
  BY <1>1, MoveIs
<1>3. /\ e.seq = s /\ e.past = past /\ e.kept = past + m.keep /\ e.table = tables[s]
      /\ e.new = Tabulated(tokens) /\ e.slots = Tabulated(slots)
  BY DEF Entry
<1>4. e.new \in Seq(Row) /\ Len(e.new) = m.n
  <2>1. Listed(tokens, m.n)
    BY DEF Listed
  <2>2. ASSUME NEW j \in 1 .. m.n PROVE tokens[j] \in Row
    <3>1. rare \in Nat /\ j \in Int
      BY <1>2 DEF PTypes
    <3>2. (100 * rare) + (past + j) + (IF j <= m.keep THEN 0 ELSE 50) \in Int
      BY <1>2, <3>1
    <3>3. tokens[j] = [gen |-> s, tok |-> (100 * rare) + (past + j) + (IF j <= m.keep THEN 0 ELSE 50), at |-> -1]
      BY DEF Token
    <3> HIDE DEF tokens, past, s, m
    <3> QED
      BY <1>1, <3>2, <3>3 DEF Row
  <2> HIDE DEF tokens, m
  <2> QED
    BY <1>2, <1>3, <2>1, <2>2, TabulatedIs
<1>5. e.slots = slots
  <2>1. Listed(slots, m.n)
    BY DEF Listed
  <2> HIDE DEF slots, m
  <2> QED
    BY <1>2, <1>3, <2>1, TabulatedIs
<1>6. \A j : WriteSlot(e, j)' = WriteSlot(e, j)
  BY DEF WriteSlot, SlotOf
<1>7. ASSUME NEW j \in 1 .. m.n, j <= m.keep
      PROVE  WriteSlot(e, j) = SlotOf(e, e.past + j - 1)
  <2>1. slots[j] = SlotOf(blocks, past + j - 1)
    BY <1>7
  <2>2. SlotOf(blocks, past + j - 1) = SlotOf(e, e.past + j - 1)
    BY <1>3 DEF SlotOf
  <2> QED
    BY <1>5, <2>1, <2>2 DEF WriteSlot
<1>8. ASSUME NEW j \in 1 .. m.n, ~(j <= m.keep)
      PROVE  /\ WriteSlot(e, j) = m.aside /\ m.keep < m.n /\ layer.mapped /\ ~layer.quant
             /\ \/ m.aside \in {-1, 0}
                \/ /\ layer.ring = 0 /\ m.n = m.keep + 1
                   /\ \E p \in 1 .. past : m.aside = PlaceOf(s, p) /\ Private(s, Block(p))
  <2>1. m.keep < m.n
    <3> HIDE DEF m
    <3> QED
      BY <1>2, <1>8
  <2>2. /\ layer.mapped /\ ~layer.quant
        /\ \/ m.aside \in {-1, 0}
           \/ /\ layer.ring = 0 /\ m.n = m.keep + 1
              /\ \E p \in 1 .. past : m.aside = PlaceOf(s, p) /\ Private(s, Block(p))
    BY <1>1, <2>1, AsideIs
  <2>3. slots[j] = m.aside
    BY <1>8
  <2>4. WriteSlot(e, j) = m.aside
    BY <1>5, <2>2, <2>3 DEF WriteSlot
  <2> QED
    BY <2>1, <2>2, <2>4
<1>9. \A p \in 1 .. past : PlaceOf(s, p)' = PlaceOf(s, p) /\ (Private(s, Block(p)) => Private(s, Block(p))')
  BY <1>1, GrowingTables
<1>10. RowsAfter(e) = past + m.n /\ past + m.n <= Len(tables[s]) * BlockSize
  <2>1. RowsWith(m) <= Len(tables[s]) * BlockSize
    BY <1>1, GrownIs
  <2> QED
    BY <1>2, <1>3, <1>4, <2>1 DEF RowsAfter
<1> HIDE DEF tokens, slots, m
<1>11. e.kept - e.past = m.keep
  BY <1>2, <1>3
<1>12. EntryRight(e)'
  <2>1. e.seq \in Users /\ e.past = Len(held'[e.seq]) /\ e.table = table'[e.seq]
    BY <1>1, <1>3
  <2>2. Len(e.new) <= WidestStep
    BY <1>2, <1>4, SizeAssumption
  <2>3. e.kept \in e.past .. RowsAfter(e)
    BY <1>2, <1>3, <1>10
  <2>4. RowsAfter(e) <= Len(e.table) * BlockSize
    BY <1>3, <1>10
  <2>5. ASSUME NEW j \in 1 .. Len(e.new)
        PROVE  IF j <= e.kept - e.past THEN WriteSlot(e, j)' = SlotOf(e, e.past + j - 1) ELSE Aside(e, j)'
    <3>1. CASE j <= m.keep
      BY <1>4, <1>6, <1>7, <1>11, <3>1
    <3>2. CASE ~(j <= m.keep)
      <4>1. /\ WriteSlot(e, j)' = m.aside /\ m.keep < m.n /\ layer.mapped /\ ~layer.quant
            /\ \/ m.aside \in {-1, 0}
               \/ /\ layer.ring = 0 /\ m.n = m.keep + 1
                  /\ \E p \in 1 .. past : m.aside = PlaceOf(s, p) /\ Private(s, Block(p))
        BY <1>4, <1>6, <1>8, <3>2
      <4>2. CASE m.aside \in {-1, 0}
        BY <4>1, <4>2, <1>11, <3>2 DEF Aside
      <4>3. CASE /\ layer.ring = 0 /\ m.n = m.keep + 1
                 /\ \E p \in 1 .. past : m.aside = PlaceOf(s, p) /\ Private(s, Block(p))
        <5>1. PICK p \in 1 .. past : m.aside = PlaceOf(s, p) /\ Private(s, Block(p))
          BY <4>3
        <5>2. m.aside = PlaceOf(s, p)' /\ Private(s, Block(p))'
          BY <1>9, <5>1
        <5>3. j = Len(e.new) /\ j = e.kept - e.past + 1
          BY <1>2, <1>4, <1>11, <3>2, <4>3
        <5> HIDE DEF s, past
        <5> QED
          BY <1>3, <4>1, <4>3, <5>2, <5>3, <3>2, <1>11 DEF Aside
      <4> QED
        BY <4>1, <4>2, <4>3
    <3> QED
      BY <3>1, <3>2
  <2>6. /\ RowsAfter(e)' = RowsAfter(e) /\ \A i : SlotOf(e, i)' = SlotOf(e, i)
    BY DEF RowsAfter, SlotOf
  <2> QED
    BY <1>4, <2>1, <2>2, <2>3, <2>4, <2>5, <2>6 DEF EntryRight
<1> DEFINE over == [p \in DOMAIN held[s] |->
                      IF m.aside > 0 /\ PlaceOf(s, p) = m.aside THEN Last(Rows(e)) ELSE held[s][p]]
<1>13. /\ Rows(e) \in Seq(Row) /\ Len(Rows(e)) = m.n /\ Listed(Rows(e), m.n)
       /\ Rows(e)' = Rows(e)
  <2>1. Rows(e)' = Rows(e)
    BY DEF Rows
  <2> QED
    BY <1>2, <1>3, <1>4, <2>1, RowsMade
<1>14. DOMAIN held[s] = 1 .. past /\ \A p \in 1 .. past : held[s][p] \in Row
  BY <1>1, <1>2 DEF PTypes
<1>15. Listed(over, past)
  BY <1>14 DEF Listed
<1>16. view = Tabulated(over) \o Rows(e)
  BY DEF View, m
<1>17. m.aside > 0 => m.keep < m.n
  BY <1>1, AsideIs DEF m
<1>18. ASSUME NEW p \in 1 .. past PROVE over[p] \in Row
  <2>1. CASE m.aside > 0 /\ PlaceOf(s, p) = m.aside
    <3>1. m.n \in 1 .. m.n
      BY <1>2, <1>17, <2>1
    <3>2. over[p] = Rows(e)[m.n]
      BY <1>13, <1>14, <2>1 DEF Last
    <3> QED
      BY <1>13, <3>1, <3>2
  <2>2. CASE ~(m.aside > 0 /\ PlaceOf(s, p) = m.aside)
    BY <1>14, <2>2
  <2> QED
    BY <2>1, <2>2
<1>19. /\ view \in Seq(Row) /\ Len(view) = past + m.n
       /\ \A p \in 1 .. past : view[p] = over[p]
       /\ \A j \in 1 .. m.n : view[past + j] = Rows(e)[j]
  <2> HIDE DEF over, s, past
  <2>1. Tabulated(over) = over /\ Len(over) = past /\ over \in Seq(Row)
    BY <1>2, <1>15, <1>18, TabulatedIs
  <2> DEFINE back == Rows(e)
  <2>2. view = over \o back
    BY <1>16, <2>1
  <2>3. back \in Seq(Row) /\ Len(back) = m.n
    BY <1>13
  <2> HIDE DEF back
  <2>4. over \in Seq(Row) /\ back \in Seq(Row)
    BY <2>1, <2>3
  <2>5. over \o back \in Seq(Row) /\ Len(over \o back) = Len(over) + Len(back)
    BY <2>4
  <2>6. \A p \in 1 .. Len(over) : (over \o back)[p] = over[p]
    BY <2>4
  <2>7. \A j \in 1 .. Len(back) : (over \o back)[Len(over) + j] = back[j]
    BY <2>4
  <2> QED
    BY <2>1, <2>2, <2>3, <2>5, <2>6, <2>7 DEF back
<1>20. ASSUME NEW p \in 1 .. past
       PROVE  \/ \E j \in 1 .. Len(e.new) :
                   j > e.kept - e.past /\ WriteSlot(e, j) = PlaceOf(s, p) /\ view[p] = Rows(e)[j]
              \/ /\ \A j \in 1 .. Len(e.new) : j > e.kept - e.past => WriteSlot(e, j) # PlaceOf(s, p)
                 /\ view[p] = held[s][p]
  <2>1. CASE m.aside > 0 /\ PlaceOf(s, p) = m.aside
    <3>1. m.n \in 1 .. m.n /\ ~(m.n <= m.keep) /\ m.n > m.keep
      BY <1>2, <1>17, <2>1
    <3>2. view[p] = Rows(e)[m.n]
      BY <1>13, <1>14, <1>19, <2>1 DEF Last
    <3>3. WriteSlot(e, m.n) = m.aside
      BY <1>8, <3>1
    <3> QED
      BY <1>4, <1>11, <2>1, <3>1, <3>2, <3>3
  <2>2. CASE ~(m.aside > 0 /\ PlaceOf(s, p) = m.aside)
    <3>1. view[p] = held[s][p]
      BY <1>14, <1>19, <2>2
    <3>2. ASSUME NEW j \in 1 .. Len(e.new), j > e.kept - e.past, WriteSlot(e, j) = PlaceOf(s, p) PROVE FALSE
      <4>1. j \in 1 .. m.n /\ ~(j <= m.keep)
        BY <1>2, <1>4, <1>11, <3>2
      <4>2. m.aside = PlaceOf(s, p) /\ layer.mapped
        BY <1>8, <3>2, <4>1
      <4>3. PlaceOf(s, p) > 0
        <5>1. p \in 1 .. Len(table[s]) * BlockSize
          BY <1>1, NeededIn
        <5> QED
          BY <1>1, <4>2, <5>1, PlaceIn
      <4> QED
        BY <2>2, <4>2, <4>3
    <3> QED
      BY <3>1, <3>2
  <2> QED
    BY <2>1, <2>2
<1>21. ViewRight(e, view)'
  <2>1. RowsAfter(e)' = past + m.n
    BY <1>10 DEF RowsAfter
  <2> HIDE DEF past, s, over
  <2>2. \A p \in 1 .. past : PlaceOf(s, p)' = PlaceOf(s, p)
    BY <1>9 DEF past, s
  <2>3. \A j \in 1 .. Len(e.new) : view[e.past + j] = Rows(e)'[j]
    BY <1>3, <1>4, <1>13, <1>19
  <2>4. ASSUME NEW p \in 1 .. e.past
        PROVE  \/ \E j \in 1 .. Len(e.new) :
                    j > e.kept - e.past /\ WriteSlot(e, j)' = PlaceOf(e.seq, p)' /\ view[p] = Rows(e)'[j]
               \/ /\ \A j \in 1 .. Len(e.new) : j > e.kept - e.past => WriteSlot(e, j)' # PlaceOf(e.seq, p)'
                  /\ view[p] = held'[e.seq][p]
    <3>1. p \in 1 .. past /\ PlaceOf(e.seq, p)' = PlaceOf(s, p) /\ held'[e.seq] = held[s]
      BY <1>3, <2>2
    <3> QED
      BY <1>6, <1>13, <1>20, <3>1
  <2>5. view \in Seq(Row) /\ Len(view) = RowsAfter(e)'
    BY <1>19, <2>1
  <2> QED
    BY <2>3, <2>4, <2>5 DEF ViewRight
<1> QED
  BY <1>3, <1>12, <1>21
-----------------------------------------------------------------------------
(* The beginning of a call, and every behaviour.                           *)

\* A call, accepted or refused, of any number of sequences.
LEMMA StepMoves ==
  ASSUME PagedInv, NEW moves, NEW n, MovesRight(moves, n), Step(moves)
  PROVE  PagedInv'
<1>a. PICK tables : tables = Grown(moves, Granted(Lacking(moves)))
  OBVIOUS
<1> DEFINE entries == [k \in DOMAIN moves |-> Entry(moves[k], tables)]
<1>b. PICK batch : batch = Tabulated(entries)
  OBVIOUS
<1> DEFINE looks == [k \in DOMAIN moves |-> View(moves[k], batch[k])]
<1>c. PICK views : views = Tabulated(looks)
  OBVIOUS
<1>1. /\ call = Idle /\ Cardinality(Lacking(moves)) <= Cardinality(Free) /\ table' = tables
      /\ rare' = rare \/ rare' = rare + 1
      /\ (Accepted(batch) /\ Begin(batch, views)) \/ UNCHANGED call
      /\ UNCHANGED <<layer, held, mem, apart>>
  BY <1>a, <1>b, <1>c DEF Step
<1>2. PTypes /\ Tables /\ Roomy /\ Holds /\ n \in Nat /\ DOMAIN moves = 1 .. n
  BY DEF PagedInv, Tables, MovesRight
<1>3. batch = entries /\ Len(batch) = n /\ DOMAIN batch = 1 .. n
  <2>1. Listed(entries, n)
    BY <1>2 DEF Listed
  <2>2. DOMAIN entries = 1 .. n
    BY <1>2
  <2> HIDE DEF entries
  <2> QED
    BY <1>2, <1>b, <2>1, <2>2, TabulatedIs
<1>4. ASSUME NEW k \in 1 .. n PROVE batch[k] = Entry(moves[k], tables)
  BY <1>2, <1>3
<1> HIDE DEF entries
<1>5. views = looks
  <2>1. Listed(looks, n)
    BY <1>2 DEF Listed
  <2> HIDE DEF looks
  <2> QED
    BY <1>2, <1>c, <2>1, TabulatedIs
<1>6. ASSUME NEW k \in 1 .. n PROVE views[k] = View(moves[k], batch[k])
  BY <1>2, <1>5
<1> HIDE DEF looks
<1>7. Tables' /\ \A s \in Users : \A p \in 1 .. Len(held[s]) : PlaceOf(s, p)' = PlaceOf(s, p)
  BY <1>1, <1>2, <1>a, GrowingTables
<1>8. PTypes'
  <2>1. tables \in [Users -> Seq((IF layer.mapped THEN 1 ELSE 0) .. Blocks - 1)]
    BY <1>1, <1>2, <1>a, GrownIs
  <2>2. rare' \in Nat
    BY <1>1, <1>2 DEF PTypes
  <2>3. /\ layer' \in Layers /\ held' \in [Users -> Seq(Row)] /\ Pools(mem)' /\ Pools(apart)'
    BY <1>1, <1>2 DEF PTypes, Pools
  <2>4. table' \in [Users -> Seq((IF layer'.mapped THEN 1 ELSE 0) .. Blocks - 1)]
    BY <1>1, <2>1
  <2> QED
    BY <2>2, <2>3, <2>4 DEF PTypes
<1>9. ASSUME Settled' = mem PROVE Holds'
  <2> SUFFICES ASSUME NEW s \in Users, NEW p \in Needed(s)', NEW store \in layer'.stores
               PROVE  Settled'[store][PlaceOf(s, p)'] = held'[s][p]
    BY DEF Holds
  <2>1. p \in Needed(s) /\ store \in layer.stores
    BY <1>1 DEF Needed
  <2>2. p \in 1 .. Len(held[s])
    BY <1>2, <2>1 DEF Needed, PTypes
  <2>3. mem[store][PlaceOf(s, p)] = held[s][p]
    BY <1>1, <1>2, <2>1 DEF Holds, Settled
  <2> QED
    BY <1>1, <1>7, <1>9, <2>2, <2>3
<1>10. CASE UNCHANGED call
  <2>1. Settled' = mem
    BY <1>1, <1>10 DEF Settled
  <2> QED
    BY <1>1, <1>7, <1>8, <1>9, <1>10, <2>1 DEF PagedInv, CallRight
<1>11. CASE Begin(batch, views)
  <2>a. PICK writes : writes = Writes(batch)
    OBVIOUS
  <2>b. PICK patched : patched = CachePatches(batch, writes)
    OBVIOUS
  <2>1. PICK firstStays \in [layer.stores -> BOOLEAN] :
          /\ Unique(writes) => ~\E store \in layer.stores : firstStays[store]
          /\ call' = [phase |-> "translated", batch |-> batch, views |-> views,
                      writes |-> writes, patched |-> patched,
                      updated |-> [store \in layer.stores |-> Updated(mem[store], writes, firstStays[store])],
                      assigns |-> IF layer.device /\ writes # {} THEN layer.stores ELSE {},
                      outs |-> CopiedOut(patched),
                      back |-> IF layer.device \/ writes = {} THEN {} ELSE layer.stores,
                      pool |-> mem]
    BY <1>11, <2>a, <2>b DEF Begin
  <2> DEFINE updated == [store \in layer.stores |-> Updated(mem[store], writes, firstStays[store])]
  <2>2. /\ call'.phase = "translated" /\ call'.batch = batch /\ call'.views = views
        /\ call'.writes = writes /\ call'.patched = patched /\ call'.updated = updated
        /\ call'.assigns = (IF layer.device /\ writes # {} THEN layer.stores ELSE {})
        /\ call'.outs = CopiedOut(patched)
        /\ call'.back = (IF layer.device \/ writes = {} THEN {} ELSE layer.stores)
        /\ call'.pool = mem
        /\ call' = [phase |-> call'.phase, batch |-> call'.batch, views |-> call'.views,
                    writes |-> call'.writes, patched |-> call'.patched, updated |-> call'.updated,
                    assigns |-> call'.assigns, outs |-> call'.outs, back |-> call'.back, pool |-> call'.pool]
    BY <2>1
  <2>3. call' # Idle
    BY <2>2 DEF Idle
  <2>4. Settled' = mem
    BY <2>2, <2>3 DEF Settled
  <2>5. BatchRight'
    <3>1. ASSUME NEW k \in 1 .. n, NEW e, e = batch[k], NEW view, view = views[k]
          PROVE  EntryRight(e)' /\ ViewRight(e, view)' /\ e.seq = moves[k].seq
      <4>1. e = Entry(moves[k], tables) /\ view = View(moves[k], e)
        BY <1>4, <1>6, <3>1
      <4> QED
        BY <1>1, <1>2, <1>a, <4>1, EntryMade
    <3>2. \A k, l \in 1 .. n : batch[k].seq = batch[l].seq => k = l
      BY <3>1 DEF MovesRight
    <3> QED
      BY <1>2, <1>3, <2>2, <3>1, <3>2 DEF BatchRight
  <2>6. \A store \in layer.stores :
          /\ updated[store] = Updated(mem[store], writes, firstStays[store])
          /\ updated[store] = [slot \in Slots |-> updated[store][slot]]
    BY DEF Updated
  <2>7. UpdatesRight'
    <3>1. Writes(call.batch)' = writes
      <4>1. ASSUME NEW b PROVE Writes(b)' = Writes(b)
        BY <1>1 DEF Writes, WriteSlot, SlotOf, Rows
      <4> QED
        BY <2>2, <2>a, <4>1
    <3>2. CachePatches(call.batch, call.writes)' = patched
      BY <1>1, <2>2, <2>b DEF CachePatches
    <3>3. Pools(call.pool)'
      BY <1>1, <1>2, <2>2 DEF PTypes, Pools
    <3>4. Pools(call.updated)'
      <4>1. updated = [store \in layer.stores |-> updated[store]]
        OBVIOUS
      <4> HIDE DEF updated
      <4> QED
        BY <1>1, <2>2, <2>6, <4>1 DEF Pools, Slots
    <3>5. ASSUME NEW store \in layer.stores
          PROVE  \E first \in BOOLEAN :
                   /\ call'.updated[store] = Updated(call'.pool[store], call'.writes, first)
                   /\ Unique(call'.writes) => ~first
      <4>1. firstStays[store] \in BOOLEAN /\ (Unique(writes) => ~firstStays[store])
        BY <2>1
      <4>2. updated[store] = Updated(mem[store], writes, firstStays[store])
        BY <2>6
      <4> HIDE DEF updated
      <4> QED
        BY <2>2, <4>1, <4>2
    <3> QED
      BY <1>1, <2>2, <3>1, <3>2, <3>3, <3>4, <3>5 DEF UpdatesRight
  <2>8. ASSUME NEW store \in layer.stores, NEW slot \in Slots, slot \notin Written(writes)
        PROVE  mem[store][slot] = updated[store][slot]
    BY <2>6, <2>8 DEF Updated
  <2>9. ASSUME writes = {}, NEW store \in layer.stores PROVE mem[store] = updated[store]
    <3>1. mem[store] = [slot \in Slots |-> mem[store][slot]]
      BY <1>2 DEF PTypes, Pools
    <3>2. Written(writes) = {}
      BY <2>9 DEF Written
    <3>3. \A slot \in Slots : mem[store][slot] = updated[store][slot]
      BY <2>8, <3>2
    <3> HIDE DEF updated
    <3> QED
      BY <2>6, <3>1, <3>3
  <2> HIDE DEF updated
  <2>10. CopiedOut(patched) \subseteq layer.stores /\ (layer.bound = "apart" => CopiedOut(patched) = layer.stores)
    BY DEF CopiedOut
  <2>11. ProgressRight'
    <3>1. Written(call.writes)' = Written(writes)
      BY <2>2 DEF Written
    <3>2. ASSUME NEW store \in layer.stores, store \notin call'.assigns \cup call'.back
          PROVE  mem'[store] = call'.updated[store]
      <4>1. writes = {}
        BY <2>2, <3>2
      <4> QED
        BY <1>1, <2>2, <2>9, <4>1
    <3>3. ASSUME NEW store \in layer.stores, NEW slot \in Slots, slot \notin Written(writes)
          PROVE  mem'[store][slot] = call'.updated[store][slot]
      BY <1>1, <2>2, <2>8, <3>3
    <3>4. /\ call'.assigns \subseteq layer.stores /\ call'.outs \subseteq layer.stores
          /\ call'.back \subseteq layer.stores
          /\ IF layer.device THEN call'.back = {} ELSE call'.assigns = {}
      BY <2>2, <2>10
    <3>5. layer.bound = "apart" => call'.outs = layer.stores
      BY <2>2, <2>10
    <3> QED
      BY <1>1, <2>2, <3>1, <3>2, <3>3, <3>4, <3>5 DEF ProgressRight
  <2> QED
    BY <1>7, <1>8, <1>9, <2>4, <2>5, <2>7, <2>11 DEF PagedInv, CallRight
<1> QED
  BY <1>1, <1>10, <1>11

\* A call of one sequence or of two.
LEMMA StepsRight == PagedInv /\ (StepOne \/ StepBoth) => PagedInv'
<1> SUFFICES ASSUME PagedInv, StepOne \/ StepBoth PROVE PagedInv'
  OBVIOUS
<1>1. PTypes
  BY DEF PagedInv
<1>2. CASE StepOne
  <2>1. PICK s \in Users : \E m \in Moves(s) : Step(<<m>>)
    BY <1>2 DEF StepOne
  <2>2. PICK m \in Moves(s) : Step(<<m>>)
    BY <2>1
  <2>3. m.seq = s
    BY <1>1, MoveIs
  <2>4. MovesRight(<<m>>, 1)
    <3> DEFINE f == <<m>>
    <3>1. DOMAIN f = 1 .. 1 /\ f[1] = m
      OBVIOUS
    <3>2. \A k \in 1 .. 1 : k = 1
      OBVIOUS
    <3> HIDE DEF f
    <3>3. MovesRight(f, 1)
      BY <2>3, <3>1, <3>2 DEF MovesRight
    <3> QED
      BY <3>3 DEF f
  <2> QED
    BY <2>2, <2>4, StepMoves
<1>3. CASE StepBoth
  <2>1. PICK s \in Users, o \in Users :
          s # o /\ \E m \in Moves(s), w \in Moves(o) : Step(<<m, w>>)
    BY <1>3 DEF StepBoth
  <2>2. PICK m \in Moves(s), w \in Moves(o) : Step(<<m, w>>)
    BY <2>1
  <2>3. m.seq = s /\ w.seq = o
    BY <1>1, MoveIs
  <2>4. MovesRight(<<m, w>>, 2)
    <3> DEFINE f == <<m, w>>
    <3>1. DOMAIN f = 1 .. 2 /\ f[1] = m /\ f[2] = w
      OBVIOUS
    <3>2. \A k \in 1 .. 2 : k = 1 \/ k = 2
      OBVIOUS
    <3> HIDE DEF f
    <3>3. MovesRight(f, 2)
      BY <2>1, <2>3, <3>1, <3>2 DEF MovesRight
    <3> QED
      BY <3>3 DEF f
  <2> QED
    BY <2>2, <2>4, StepMoves
<1> QED
  BY <1>2, <1>3

\* Every step keeps the invariant.
LEMMA PagedStep == PagedInv /\ [Next]_vars => PagedInv'
<1> SUFFICES ASSUME PagedInv, [Next]_vars PROVE PagedInv'
  OBVIOUS
<1>1. CASE StepOne \/ StepBoth
  BY <1>1, StepsRight
<1>2. CASE Assign
  BY <1>2, AssignStep
<1>3. CASE Evaluate
  BY <1>3, EvaluateStep
<1>4. CASE CopyOut
  BY <1>4, CopyOutStep
<1>5. CASE WriteBack
  BY <1>5, WriteBackStep
<1>6. CASE Return
  BY <1>6, ReturnStep
<1>7. CASE Fail
  BY <1>7, FailStep
<1>8. CASE \E s, o \in Users : Fork(s, o)
  BY <1>8, ForkStep
<1>9. CASE \E s \in Users : Drop(s)
  BY <1>9, DropStep
<1>10. CASE UNCHANGED vars
  <2>1. layer' = layer /\ held' = held /\ table' = table /\ rare' = rare
        /\ mem' = mem /\ apart' = apart /\ call' = call
    BY <1>10 DEF vars
  <2>2. CASE call = Idle
    <3>1. PTypes' /\ Tables'
      BY <2>1, SameTables DEF PagedInv, PTypes, Pools
    <3>2. Holds'
      BY <2>1 DEF PagedInv, Holds, Settled, Needed, PlaceOf, SlotOf
    <3> QED
      BY <2>1, <2>2, <3>1, <3>2 DEF PagedInv, CallRight
  <2>3. CASE call # Idle
    <3>1. Pools(mem)' /\ Pools(apart)'
      BY <2>1 DEF PagedInv, PTypes, Pools
    <3>2. ProgressRight'
      BY <2>1, <2>3 DEF PagedInv, CallRight, ProgressRight, Written
    <3> QED
      BY <2>1, <2>3, <3>1, <3>2, Continues
  <2> QED
    BY <2>2, <2>3
<1> QED
  BY <1>1, <1>2, <1>3, <1>4, <1>5, <1>6, <1>7, <1>8, <1>9, <1>10 DEF Next

\* In every reachable state the server's block tables, the rows in both caches and the
\* call in progress are as PagedInv says.
THEOREM PagedCorrect == Spec => []PagedInv
BY InitRight, PagedStep, PTL DEF Spec

\* Whenever a call stops, in the middle of the writes of finish_boundary or between the
\* assignments of write_back_input_rows too, both caches hold every row a sequence was
\* promised, but for the slots that this call writes itself.
THEOREM PromisedRowsHeld == Spec => []CachesHold
BY PagedCorrect, MemoryHolds, PTL

\* When a call returns, the memory of the cache inputs, and of outputs bound elsewhere, is
\* what attention was computed over, however the rows were copied back: as patches, as
\* ranges of rows, as the rows between the first and the last that changed, or whole.
THEOREM OutputsCoherent == Spec => []Coherent
BY PagedCorrect, MemoryHolds, PTL

\* By each route of paged_attention_op a query sees exactly the rows of its own sequence
\* that its window and causality allow, for any pool, block size, tables and batch.
THEOREM QueriesSeeTheirOwn == Spec => []AttendsOwn
BY PagedCorrect, ReadsRight, PTL
=============================================================================
