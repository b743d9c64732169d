----------------------------- MODULE KvRowsProofs -----------------------------
(***************************************************************************)
(* What the routes of GroupQueryAttention promise, for caches, windows,    *)
(* batches and steps of any size: every route gives every member of a call *)
(* exactly the tokens of its own sequence, and leaves them in its cache.   *)
(*                                                                         *)
(* A member comes with a cache that holds its old tokens (Holding) and     *)
(* asks about the last of a sequence that continues them (Asks).  A route  *)
(* serves it when what it sees and what it keeps are those of the whole    *)
(* sequence (Serves).  The last lemmas put the members together.           *)
(***************************************************************************)
EXTENDS KvGeneration, TLAPS, WellFoundedInduction, NaturalsInduction

\* The elements of a tabulated function are the function's.
LEMMA TabulatedElements ==
  ASSUME NEW R, NEW n \in Nat, NEW f \in [1 .. n -> R]
  PROVE  Tabulated(f) = f
<1>1. f \in Seq(R) /\ Len(f) = n
  OBVIOUS
<1> QED
  BY <1>1 DEF Tabulated

\* Division rounded up.
LEMMA Ceiling ==
  ASSUME NEW n \in Nat, NEW d \in Nat \ {0}
  PROVE  /\ CeilDiv(n, d) \in Nat
         /\ n <= CeilDiv(n, d) * d /\ CeilDiv(n, d) * d < n + d
BY DEF CeilDiv

\* A step that leaves the rest of the buffer alone needs only its own rows back.
THEOREM DeltaIsWhole ==
  ASSUME NEW R, NEW old \in Seq(R), NEW new \in Seq(R), NEW past \in Nat,
         past + Len(new) <= Len(old), Len(new) > 0
  PROVE  LET present == Overwritten(old, new, past)
         IN  CopiedOut(old, present, [offset |-> past, count |-> Len(new)], TRUE) = present
<1> DEFINE present == Overwritten(old, new, past)
           delta == [offset |-> past, count |-> Len(new)]
<1>1. DOMAIN old = 1 .. Len(old) /\ DOMAIN new = 1 .. Len(new)
  OBVIOUS
<1>2. Smaller(past + Len(new), Len(old)) = past + Len(new)
  BY DEF Smaller
<1>3. DOMAIN present = DOMAIN old
  BY DEF Overwritten
<1>4. ASSUME NEW i \in DOMAIN old, i - 1 \notin past .. past + Len(new) - 1
      PROVE  present[i] = old[i]
  BY <1>1, <1>4 DEF Overwritten
<1>5. present = [i \in DOMAIN old |-> present[i]]
  BY DEF Overwritten
<1>6. CopiedOut(old, present, delta, TRUE) = present
  <2> HIDE DEF present
  <2>1. CopiedOut(old, present, delta, TRUE) =
          [i \in DOMAIN old |->
              IF i - 1 \in past .. past + Len(new) - 1 THEN present[i] ELSE old[i]]
    BY <1>2 DEF CopiedOut
  <2>2. \A i \in DOMAIN old :
          (IF i - 1 \in past .. past + Len(new) - 1 THEN present[i] ELSE old[i]) = present[i]
    BY <1>4
  <2>3. CopiedOut(old, present, delta, TRUE) = [i \in DOMAIN old |-> present[i]]
    BY <2>1, <2>2
  <2> QED
    BY <2>3, <1>5
<1> QED
  BY <1>6
-----------------------------------------------------------------------------
(* The sliding cache.                                                      *)

Gap(cap, window) == cap - window + 1

\* The number of blocks that have been dropped when so many rows have come.
Dropped(length, cap, window, blocks) ==
    LET gap == Gap(cap, window) IN
    /\ CacheEnd(length, cap, window) = length - gap * blocks
    /\ gap * blocks \in Nat
    /\ length <= cap => blocks = 0
    /\ length > cap => length - cap <= gap * blocks /\ gap * blocks < length - cap + gap

\* Some number of whole blocks has been dropped, the least that makes room.
LEMMA BlocksDropped ==
  ASSUME NEW cap \in Nat, NEW window \in 1 .. cap, NEW length \in Nat
  PROVE  \E blocks \in Nat : Dropped(length, cap, window, blocks)
<1> DEFINE gap == cap - window + 1
<1>1. gap \in Nat \ {0}
  OBVIOUS
<1>2. CASE length <= cap
  <2>1. CacheEnd(length, cap, window) = length /\ gap * 0 = 0
    BY <1>1, <1>2 DEF CacheEnd
  <2>2. Dropped(length, cap, window, 0)
    BY <1>2, <2>1 DEF Dropped, Gap
  <2> QED
    BY <2>2
<1>3. CASE length > cap
  <2> DEFINE blocks == CeilDiv(length - cap, gap)
  <2>1. length - cap \in Nat
    BY <1>3
  <2>2. blocks \in Nat /\ length - cap <= blocks * gap /\ blocks * gap < length - cap + gap
    BY <1>1, <2>1, Ceiling
  <2>3. gap * blocks = blocks * gap /\ gap * blocks \in Nat
    BY <1>1, <2>2
  <2>4. CacheEnd(length, cap, window) = length - gap * blocks
    BY <1>3 DEF CacheEnd
  <2>5. Dropped(length, cap, window, blocks)
    <3> HIDE DEF blocks
    <3> QED
      BY <1>3, <2>1, <2>2, <2>3, <2>4 DEF Dropped, Gap
  <2> QED
    BY <2>2, <2>5
<1> QED
  BY <1>2, <1>3

\* However long the sequence, the rows of a sliding cache fit in it and include the
\* whole window (group_query_attention_op, cache_end).
THEOREM WindowFits ==
  ASSUME NEW cap \in Nat, NEW window \in 1 .. cap, NEW length \in Nat
  PROVE  /\ CacheEnd(length, cap, window) \in 0 .. cap
         /\ CacheEnd(length, cap, window) <= length
         /\ CacheEnd(length, cap, window) >= Smaller(length, window)
<1> DEFINE gap == Gap(cap, window)
<1>1. PICK blocks \in Nat : Dropped(length, cap, window, blocks)
  BY BlocksDropped
<1>2. CASE length <= cap
  <2>1. blocks = 0 /\ gap \in Nat
    BY <1>1, <1>2 DEF Dropped, Gap
  <2>2. gap * blocks = 0
    BY <2>1
  <2> QED
    BY <1>1, <1>2, <2>2 DEF Smaller, Dropped
<1>3. CASE length > cap
  <2> DEFINE dropped == gap * blocks
  <2>1. dropped \in Nat /\ length - cap <= dropped /\ dropped < length - cap + gap
    BY <1>1, <1>3 DEF Dropped
  <2>2. CacheEnd(length, cap, window) = length - dropped
    BY <1>1 DEF Dropped
  <2> HIDE DEF dropped
  <2> QED
    BY <1>3, <2>1, <2>2 DEF Smaller, Gap
<1> QED
  BY <1>2, <1>3

\* New rows never lower what has been dropped.
LEMMA DroppingGrows ==
  ASSUME NEW cap \in Nat, NEW window \in 1 .. cap, NEW p \in Nat, NEW s \in Nat
  PROVE  CacheEnd(p + s, cap, window) - s <= CacheEnd(p, cap, window)
<1> DEFINE gap == Gap(cap, window)
<1>1. gap \in Nat \ {0}
  BY DEF Gap
<1>2. PICK before \in Nat : Dropped(p, cap, window, before)
  BY BlocksDropped
<1>3. PICK after \in Nat : Dropped(p + s, cap, window, after)
  <2>1. p + s \in Nat
    OBVIOUS
  <2> QED
    BY <2>1, BlocksDropped
<1>4. gap * before <= gap * after
  <2>1. CASE p <= cap
    BY <1>1, <1>2, <1>3, <2>1 DEF Dropped
  <2>2. CASE p > cap
    <3>1. gap * before < gap * after + gap
      BY <1>1, <1>2, <1>3, <2>2 DEF Dropped
    <3>2. gap * (after + 1) = gap * after + gap
      BY <1>1
    <3>3. before < after + 1
      <4>1. before >= after + 1 => gap * before >= gap * (after + 1)
        BY <1>1
      <4> QED
        BY <3>1, <3>2, <4>1, <1>1
    <3>4. before <= after
      BY <3>3
    <3> QED
      BY <1>1, <3>4
  <2> QED
    BY <2>1, <2>2
<1> QED
  BY <1>2, <1>3, <1>4 DEF Dropped

\* A member's place in its sequence, its cache and the node's window.
Slides(node, c, b) ==
    /\ Len(c.past[b]) \in Nat /\ node.window \in 1 .. Len(c.past[b])
    /\ c.s \in Nat \ {0} /\ c.lengths[b] \in Nat /\ c.lengths[b] + 1 >= c.s

\* The seeds of a sliding step are rows of the cache that hold something, and a step
\* that does not stage keeps every row its first query's window needs.
THEOREM SeedsInside ==
  ASSUME NEW node, NEW c, NEW b, Slides(node, c, b)
  PROVE  LET geo == Geometry(node, c, b) IN
         /\ geo.before \in 0 .. Len(c.past[b])
         /\ geo.after \in 0 .. Len(c.past[b])
         /\ geo.before >= Smaller(geo.p, node.window - 1)
         /\ geo.offset \in Nat /\ geo.offset <= geo.before + c.s
         /\ ~StagingNeeded(node, geo) => /\ geo.offset <= geo.before
                                         /\ geo.before - geo.offset >= Smaller(geo.p, node.window - 1)
<1> DEFINE geo == Geometry(node, c, b)
           cap == Len(c.past[b])
           p == c.lengths[b] + 1 - c.s
           before == CacheEnd(p, cap, node.window)
           after == CacheEnd(p + c.s, cap, node.window)
<1>1. /\ cap \in Nat /\ node.window \in 1 .. cap /\ c.s \in Nat /\ c.s > 0
      /\ p \in Nat /\ p + c.s \in Nat /\ node.window \in Nat
  BY DEF Slides
<1>2. Larger(p, 0) = p
  BY <1>1 DEF Larger
<1>3. /\ geo.p = p /\ geo.before = before /\ geo.after = after
      /\ geo.kept = after - c.s /\ geo.offset = before - (after - c.s)
  BY <1>2 DEF Geometry
<1>4. before \in 0 .. cap /\ before <= p /\ before >= Smaller(p, node.window)
  BY <1>1, WindowFits
<1>5. after \in 0 .. cap
  BY <1>1, WindowFits
<1>6. after - c.s <= before
  BY <1>1, DroppingGrows
<1>7. /\ Smaller(p, node.window) >= Smaller(p, node.window - 1)
      /\ Smaller(p, node.window - 1) \in Nat /\ Smaller(p, node.window) \in Nat
  BY <1>1 DEF Smaller
<1>8. StagingNeeded(node, geo) <=> after - c.s < Smaller(p, node.window - 1)
  BY <1>3 DEF StagingNeeded
<1> HIDE DEF before, after, p, cap, geo
<1>9. /\ geo.before \in 0 .. cap /\ geo.after \in 0 .. cap
      /\ geo.before >= Smaller(geo.p, node.window - 1)
  BY <1>3, <1>4, <1>5, <1>7
<1>10. geo.offset \in Nat /\ geo.offset <= geo.before + c.s
  BY <1>1, <1>3, <1>4, <1>5, <1>6
<1>11. ~StagingNeeded(node, geo) =>
          /\ geo.offset <= geo.before
          /\ geo.before - geo.offset >= Smaller(geo.p, node.window - 1)
  BY <1>1, <1>3, <1>4, <1>5, <1>7, <1>8
<1> QED
  BY <1>9, <1>10, <1>11 DEF geo, cap

\* Decoding one row at a time never pushes out a row its window needs.
THEOREM OneRowNeverStages ==
  ASSUME NEW node, NEW c, NEW b, Slides(node, c, b), c.s = 1
  PROVE  ~StagingNeeded(node, Geometry(node, c, b))
<1> DEFINE cap == Len(c.past[b])
           p == c.lengths[b] + 1 - c.s
           after == CacheEnd(p + c.s, cap, node.window)
<1>1. cap \in Nat /\ node.window \in 1 .. cap /\ p \in Nat /\ p + c.s \in Nat
  BY DEF Slides
<1>2. Larger(p, 0) = p
  BY <1>1 DEF Larger
<1>3. after \in 0 .. cap /\ after >= Smaller(p + c.s, node.window)
  BY <1>1, WindowFits
<1>4. Geometry(node, c, b).p = p /\ Geometry(node, c, b).kept = after - c.s
  BY <1>2 DEF Geometry
<1> HIDE DEF after, p
<1>5. Smaller(p + 1, node.window) - 1 = Smaller(p, node.window - 1)
  BY <1>1 DEF Smaller
<1> QED
  BY <1>1, <1>3, <1>4, <1>5 DEF StagingNeeded, Smaller
-----------------------------------------------------------------------------
(* The shared buffer.                                                      *)

\* The captured decode, which runs over the whole buffer under a mask, answers what the
\* eager handler answers over the rows that are valid.
THEOREM RoutesAgree ==
  ASSUME NEW node, NEW c, NEW past \in Nat, NEW at, NEW R,
         ~node.bias, c.past[1] \in Seq(R), c.s \in Nat, past + c.s <= Len(c.past[1])
  PROVE  GqaSharedCompiled(node, c, past, at) = GqaSingle(node, c, past, at, TRUE)
<1> DEFINE cap == Len(c.past[1])
           present == Overwritten(c.past[1], Rotated(c.new[1], at), past)
           prefix == RowsOf(present, 0, past + c.s)
           whole == [i \in 1 .. c.s |->
                       [at |-> at[i],
                        keys |-> {[row |-> present[j + 1], bias |-> -1] :
                                    j \in {k \in 0 .. Len(present) - 1 : k <= past + (i - 1)}}]]
           valid == [i \in 1 .. c.s |->
                       [at |-> at[i],
                        keys |-> {[row |-> prefix[j + 1], bias |-> -1] :
                                    j \in {k \in 0 .. Len(prefix) - 1 :
                                             k <= (i - 1) + (Len(prefix) - c.s)}}]]
<1>1. DOMAIN present = 1 .. cap /\ Len(present) = cap
  BY DEF Overwritten
<1>2. Len(prefix) = past + c.s /\ \A j \in 0 .. past + c.s - 1 : prefix[j + 1] = present[j + 1]
  <2> HIDE DEF present
  <2>1. Larger(0, past + c.s - 0) = past + c.s
    BY DEF Larger
  <2> DEFINE f == [i \in 1 .. past + c.s |-> present[i]]
  <2>2. \A i \in 1 .. past + c.s : i \in DOMAIN present
    BY <1>1
  <2>3. prefix = Tabulated(f)
    BY <2>1, <2>2 DEF RowsOf
  <2>4. f \in [1 .. past + c.s -> {present[i] : i \in 1 .. past + c.s}]
    OBVIOUS
  <2>5. Tabulated(f) = f
    <3> HIDE DEF f
    <3>1. past + c.s \in Nat
      OBVIOUS
    <3> QED
      BY <2>4, <3>1, TabulatedElements
  <2>6. f \in Seq({present[i] : i \in 1 .. past + c.s}) /\ Len(f) = past + c.s
    BY <2>4
  <2> QED
    <3>1. prefix = f
      BY <2>3, <2>5
    <3>2. \A j \in 0 .. past + c.s - 1 : j + 1 \in 1 .. past + c.s
      OBVIOUS
    <3>3. Len(prefix) = past + c.s
      BY <3>1, <2>6
    <3>4. \A j \in 0 .. past + c.s - 1 : f[j + 1] = present[j + 1]
      BY <3>2
    <3> HIDE DEF f, prefix
    <3> QED
      BY <3>1, <3>3, <3>4
<1>3. whole = valid
  <2> HIDE DEF present, prefix
  <2>1. ASSUME NEW i \in 1 .. c.s
        PROVE  {[row |-> present[j + 1], bias |-> -1] :
                   j \in {k \in 0 .. Len(present) - 1 : k <= past + (i - 1)}}
               = {[row |-> prefix[j + 1], bias |-> -1] :
                   j \in {k \in 0 .. Len(prefix) - 1 : k <= (i - 1) + (Len(prefix) - c.s)}}
    <3>1. {k \in 0 .. Len(present) - 1 : k <= past + (i - 1)} = 0 .. past + (i - 1)
      BY <1>1
    <3>2. {k \in 0 .. Len(prefix) - 1 : k <= (i - 1) + (Len(prefix) - c.s)} = 0 .. past + (i - 1)
      BY <1>2
    <3>3. 0 .. past + (i - 1) \subseteq 0 .. past + c.s - 1
      OBVIOUS
    <3>4. \A j \in 0 .. past + (i - 1) : prefix[j + 1] = present[j + 1]
      BY <1>2, <3>3
    <3> QED
      BY <3>1, <3>2, <3>4
  <2> QED
    BY <2>1
<1>4. GqaSharedCompiled(node, c, past, at) =
        Answer(<<whole>>, <<present>>, [offset |-> past, count |-> c.s])
  BY DEF GqaSharedCompiled, Attend
<1>5. GqaSingle(node, c, past, at, TRUE) =
        Answer(<<valid>>, <<present>>, [offset |-> past, count |-> c.s])
  BY DEF GqaSingle, Attend, CausalBottomRight
<1> QED
  BY <1>3, <1>4, <1>5
-----------------------------------------------------------------------------
(* Rows.                                                                   *)

\* The rows there are, padding and garbage among them.
Row == [gen : Int, tok : Int, at : Int]

\* A slice has the rows it is asked for where they are there.
LEMMA RowsOfElements ==
  ASSUME NEW rows \in Seq(Row), NEW start \in Nat, NEW stop \in Nat
  PROVE  /\ RowsOf(rows, start, stop) \in Seq(Row)
         /\ Len(RowsOf(rows, start, stop)) = IF start <= stop THEN stop - start ELSE 0
         /\ \A i \in 1 .. stop - start :
              start + i <= Len(rows) => RowsOf(rows, start, stop)[i] = rows[start + i]
<1> DEFINE n == Larger(0, stop - start)
           f == [i \in 1 .. n |-> IF start + i \in DOMAIN rows THEN rows[start + i]
                                  ELSE [gen |-> Garbage, tok |-> i, at |-> -1]]
<1>1. n \in Nat /\ n = IF start <= stop THEN stop - start ELSE 0
  BY DEF Larger
<1> HIDE DEF n
<1>2. f \in [1 .. n -> Row]
  <2> SUFFICES ASSUME NEW i \in 1 .. n PROVE f[i] \in Row
    OBVIOUS
  <2>1. CASE start + i \in DOMAIN rows
    BY <2>1
  <2>2. CASE start + i \notin DOMAIN rows
    BY <1>1, <2>2 DEF Row, Garbage
  <2> QED
    BY <2>1, <2>2
<1>3. RowsOf(rows, start, stop) = Tabulated(f)
  BY DEF RowsOf, n
<1>4. Tabulated(f) = f
  <2> HIDE DEF f
  <2> QED
    BY <1>1, <1>2, TabulatedElements
<1>5. f \in Seq(Row) /\ Len(f) = n
  <2> HIDE DEF f
  <2> QED
    BY <1>1, <1>2
<1>6. \A i \in 1 .. stop - start : start + i <= Len(rows) => f[i] = rows[start + i]
  <2> TAKE i \in 1 .. stop - start
  <2>1. i \in 1 .. n
    BY <1>1
  <2>2. start + i <= Len(rows) => start + i \in DOMAIN rows
    BY <1>1
  <2> QED
    BY <2>1, <2>2
<1> HIDE DEF f
<1> QED
  BY <1>1, <1>3, <1>4, <1>5, <1>6

\* Rows of zeros are rows.
LEMMA ZerosType ==
  ASSUME NEW n \in Int
  PROVE  Zeros(n) \in Seq(Row) /\ (n \in Nat => Len(Zeros(n)) = n)
<1>1. Zeros(n) \in [1 .. n -> Row]
  BY DEF Zeros, Zero, Row
<1>2. CASE n \in Nat
  BY <1>1, <1>2
<1>3. CASE n \notin Nat
  <2>1. 1 .. n = 1 .. 0
    BY <1>3
  <2> QED
    BY <1>1, <1>3, <2>1
<1> QED
  BY <1>2, <1>3

\* Rotating rows by what they are rotated by already changes nothing.
LEMMA RotatedAlready ==
  ASSUME NEW new \in Seq(Row), NEW at, \A i \in DOMAIN new : at[i] = new[i].at
  PROVE  Rotated(new, at) = new
<1> DEFINE f == [i \in DOMAIN new |-> [new[i] EXCEPT !.at = at[i]]]
<1>1. \A i \in DOMAIN new : [new[i] EXCEPT !.at = at[i]] = new[i]
  <2> TAKE i \in DOMAIN new
  <2>1. new[i] \in Row
    OBVIOUS
  <2>2. [new[i] EXCEPT !.at = new[i].at] = new[i]
    BY <2>1 DEF Row
  <2> QED
    BY <2>2
<1>2. f = new
  BY <1>1
<1>3. Tabulated(new) = new
  BY DEF Tabulated
<1> QED
  BY <1>2, <1>3 DEF Rotated

\* Overwriting a stretch.
Written(w, rows, new, past) ==
    /\ w \in Seq(Row) /\ Len(w) = Len(rows)
    /\ \A i \in 1 .. past : w[i] = rows[i]
    /\ \A i \in 1 .. Len(new) : w[past + i] = new[i]
\* Rows written inside a buffer are there, and those before them stay.
LEMMA OverwrittenElements ==
  ASSUME NEW rows \in Seq(Row), NEW new \in Seq(Row), NEW past \in Nat,
         past + Len(new) <= Len(rows)
  PROVE  Written(Overwritten(rows, new, past), rows, new, past)
<1>1. DOMAIN rows = 1 .. Len(rows) /\ DOMAIN new = 1 .. Len(new) /\ Len(rows) \in Nat /\ Len(new) \in Nat
  OBVIOUS
<1> DEFINE w == Overwritten(rows, new, past)
<1>2. w = [i \in 1 .. Len(rows) |-> IF i - past \in 1 .. Len(new) THEN new[i - past] ELSE rows[i]]
  BY <1>1 DEF Overwritten
<1>3. w \in [1 .. Len(rows) -> Row]
  <2> SUFFICES ASSUME NEW i \in 1 .. Len(rows)
               PROVE  (IF i - past \in 1 .. Len(new) THEN new[i - past] ELSE rows[i]) \in Row
    BY <1>2
  <2> QED
    BY <1>1
<1>4. \A i \in 1 .. past : w[i] = rows[i]
  <2> TAKE i \in 1 .. past
  <2>1. i \in 1 .. Len(rows) /\ i - past \notin 1 .. Len(new)
    BY <1>1
  <2> QED
    BY <1>2, <2>1
<1>5. \A i \in 1 .. Len(new) : w[past + i] = new[i]
  <2> TAKE i \in 1 .. Len(new)
  <2>1. past + i \in 1 .. Len(rows) /\ (past + i) - past = i
    BY <1>1
  <2> QED
    BY <1>2, <2>1
<1> HIDE DEF w
<1>6. w \in Seq(Row) /\ Len(w) = Len(rows)
  BY <1>1, <1>3
<1> QED
  BY <1>4, <1>5, <1>6 DEF w, Written

\* Two sequences in a row.
LEMMA Joining ==
  ASSUME NEW a \in Seq(Row), NEW b \in Seq(Row)
  PROVE  /\ a \o b \in Seq(Row) /\ Len(a \o b) = Len(a) + Len(b)
         /\ \A i \in 1 .. Len(a) : (a \o b)[i] = a[i]
         /\ \A i \in 1 .. Len(b) : (a \o b)[Len(a) + i] = b[i]
OBVIOUS

\* Sequences of one length that agree everywhere are one.
LEMMA SameRows ==
  ASSUME NEW a \in Seq(Row), NEW b \in Seq(Row), Len(a) = Len(b),
         \A i \in 1 .. Len(a) : a[i] = b[i]
  PROVE  a = b
<1>1. a \in [1 .. Len(a) -> Row] /\ b \in [1 .. Len(a) -> Row]
  OBVIOUS
<1> QED
  BY <1>1
-----------------------------------------------------------------------------
(* Longest members and flattened ids.                                      *)

\* What holds of zero and of each successor holds of every natural number.
LEMMA Counting ==
  ASSUME NEW S \in SUBSET Nat, 0 \in S, \A n \in S : n + 1 \in S
  PROVE  S = Nat
<1> DEFINE R == {ss \in Nat \X Nat : ss[1] < ss[2]}
<1>1. IsWellFoundedOn(R, Nat)
  BY NatLessThanWellFounded DEF OpToRel
<1>2. SUFFICES ASSUME Nat \ S # {} PROVE FALSE
  OBVIOUS
<1>3. PICK x \in Nat \ S : \A y \in Nat \ S : <<y, x>> \notin R
  <2>1. Nat \ S \in SUBSET Nat
    OBVIOUS
  <2> QED
    BY <1>1, <1>2, <2>1, WFMin
<1>4. x # 0 /\ x - 1 \in Nat
  BY <1>3
<1>5. <<x - 1, x>> \in R
  BY <1>3, <1>4
<1>6. x - 1 \in S
  BY <1>3, <1>4, <1>5
<1> QED
  BY <1>3, <1>4, <1>6

\* The longest member is one of them.
LEMMA WidestIs ==
  ASSUME NEW k \in Nat \ {0}, NEW f \in [1 .. k -> Nat]
  PROVE  /\ Widest(f) \in Nat
         /\ \A b \in 1 .. k : f[b] <= Widest(f)
         /\ \E b \in 1 .. k : f[b] = Widest(f)
<1> DEFINE Most(n) == \A h \in [1 .. n + 1 -> Nat] :
                        \E b \in 1 .. n + 1 : \A d \in 1 .. n + 1 : h[d] <= h[b]
           S == {n \in Nat : Most(n)}
<1>1. 0 \in S
  <2> SUFFICES ASSUME NEW h \in [1 .. 0 + 1 -> Nat]
               PROVE  \E b \in 1 .. 0 + 1 : \A d \in 1 .. 0 + 1 : h[d] <= h[b]
    OBVIOUS
  <2>1. 1 \in 1 .. 0 + 1 /\ \A d \in 1 .. 0 + 1 : d = 1 /\ h[d] <= h[1]
    OBVIOUS
  <2> QED
    BY <2>1
<1>2. ASSUME NEW n \in S PROVE n + 1 \in S
  <2>1. n \in Nat /\ Most(n)
    OBVIOUS
  <2>0. n + 1 \in Nat
    BY <2>1
  <2> SUFFICES Most(n + 1)
    <3> HIDE DEF Most
    <3> QED
      BY <2>0
  <2> SUFFICES ASSUME NEW h \in [1 .. (n + 1) + 1 -> Nat]
               PROVE  \E b \in 1 .. (n + 1) + 1 : \A d \in 1 .. (n + 1) + 1 : h[d] <= h[b]
    OBVIOUS
  <2> DEFINE h2 == [i \in 1 .. n + 1 |-> h[i]]
  <2>2. h2 \in [1 .. n + 1 -> Nat]
    BY <2>1
  <2>3. PICK b \in 1 .. n + 1 : \A d \in 1 .. n + 1 : h2[d] <= h2[b]
    BY <2>1, <2>2
  <2>4. \A d \in 1 .. n + 1 : h[d] <= h[b]
    BY <2>3
  <2>5. \A d \in 1 .. (n + 1) + 1 : d \in 1 .. n + 1 \/ d = (n + 1) + 1
    BY <2>1
  <2>6. /\ b \in 1 .. (n + 1) + 1 /\ (n + 1) + 1 \in 1 .. (n + 1) + 1
        /\ \A d \in 1 .. (n + 1) + 1 : h[d] \in Nat
    BY <2>1
  <2>7. CASE h[(n + 1) + 1] <= h[b]
    BY <2>4, <2>5, <2>6, <2>7
  <2>8. CASE ~(h[(n + 1) + 1] <= h[b])
    <3>1. \A d \in 1 .. n + 1 : d \in 1 .. (n + 1) + 1
      BY <2>1
    <3>2. \A d \in 1 .. (n + 1) + 1 : h[d] <= h[(n + 1) + 1]
      BY <2>4, <2>5, <2>6, <2>8, <3>1
    <3> QED
      BY <2>6, <3>2
  <2> QED
    BY <2>7, <2>8
<1>3. S = Nat
  <2> HIDE DEF S
  <2>1. S \in SUBSET Nat
    BY DEF S
  <2> QED
    BY <1>1, <1>2, <2>1, Counting
<1>4. k - 1 \in Nat /\ (k - 1) + 1 = k
  OBVIOUS
<1>5. Most(k - 1)
  BY <1>3, <1>4
<1>6. PICK b \in 1 .. k : \A d \in 1 .. k : f[d] <= f[b]
  BY <1>4, <1>5
<1>7. ToSet(f) = {f[i] : i \in 1 .. k}
  BY DEF ToSet
<1>8. \E v \in ToSet(f) : \A w \in ToSet(f) : w <= v
  BY <1>6, <1>7
<1>9. Widest(f) \in ToSet(f) /\ \A w \in ToSet(f) : w <= Widest(f)
  BY <1>8 DEF Widest
<1> QED
  BY <1>7, <1>9

\* The function by which the community module flattens.
Flats(seqs, n, f) ==
    f = [i \in 1 .. n |-> IF i = 1 THEN seqs[i] ELSE f[i - 1] \o seqs[i]]

\* There is such a function for any number of sequences.
LEMMA FlatExists ==
  ASSUME NEW seqs, NEW n \in Nat
  PROVE  \E f : Flats(seqs, n, f)
<1> DEFINE S == {m \in Nat : \E f : Flats(seqs, m, f)}
<1>1. 0 \in S
  <2> DEFINE f == [i \in 1 .. 0 |-> seqs[i]]
  <2>1. Flats(seqs, 0, f)
    BY DEF Flats
  <2> QED
    BY <2>1
<1>2. ASSUME NEW m \in S PROVE m + 1 \in S
  <2>1. m \in Nat
    OBVIOUS
  <2>2. PICK f : Flats(seqs, m, f)
    OBVIOUS
  <2> DEFINE h == [i \in 1 .. m + 1 |->
                     IF i = m + 1 THEN (IF i = 1 THEN seqs[i] ELSE f[i - 1] \o seqs[i])
                     ELSE f[i]]
  <2>3. ASSUME NEW i \in 1 .. m + 1
        PROVE  h[i] = IF i = 1 THEN seqs[i] ELSE h[i - 1] \o seqs[i]
    <3>1. i # 1 => i - 1 \in 1 .. m /\ h[i - 1] = f[i - 1]
      BY <2>1
    <3>2. CASE i = m + 1
      BY <3>1, <3>2
    <3>3. CASE i # m + 1
      <4>1. i \in 1 .. m /\ h[i] = f[i]
        BY <2>1, <3>3
      <4>2. f[i] = IF i = 1 THEN seqs[i] ELSE f[i - 1] \o seqs[i]
        BY <2>2, <4>1 DEF Flats
      <4> QED
        BY <3>1, <4>1, <4>2
    <3> QED
      BY <3>2, <3>3
  <2>4. h = [i \in 1 .. m + 1 |-> h[i]]
    OBVIOUS
  <2> HIDE DEF h
  <2>5. h = [i \in 1 .. m + 1 |-> IF i = 1 THEN seqs[i] ELSE h[i - 1] \o seqs[i]]
    <3>1. [i \in 1 .. m + 1 |-> h[i]]
            = [i \in 1 .. m + 1 |-> IF i = 1 THEN seqs[i] ELSE h[i - 1] \o seqs[i]]
      BY <2>3
    <3> QED
      BY <2>4, <3>1
  <2>6. Flats(seqs, m + 1, h)
    BY ONLY <2>5 DEF Flats
  <2>7. m + 1 \in Nat
    BY <2>1
  <2> QED
    BY <2>6, <2>7
<1>3. S = Nat
  <2> HIDE DEF S
  <2>1. S \in SUBSET Nat
    BY DEF S
  <2> QED
    BY <1>1, <1>2, <2>1, Counting
<1> QED
  BY <1>3

\* Rows of s, one after the other: where they lie, and one more of them.
Spot(q, s, i) == (q - 1) * s + i
Stack(a, m, s) == a \in Seq(Int) /\ Len(a) = m * s
IdRow(d, s) == d \in Seq(Int) /\ Len(d) = s
IdRows(seqs, k, s) == Len(seqs) = k /\ \A m \in 1 .. k : IdRow(seqs[m], s)
Appends(w, a, d, m, s) ==
    /\ Stack(w, m + 1, s)
    /\ \A q \in 1 .. m, i \in 1 .. s : w[Spot(q, s, i)] = a[Spot(q, s, i)]
    /\ \A i \in 1 .. s : w[Spot(m + 1, s, i)] = d[i]

\* A spot of one of the rows is a spot of the stack.
LEMMA InStack ==
  ASSUME NEW m \in Nat, NEW s \in Nat \ {0}, NEW q \in 1 .. m, NEW i \in 1 .. s
  PROVE  Spot(q, s, i) \in 1 .. m * s
<1>1. q - 1 \in Nat /\ m - q \in Nat
  OBVIOUS
<1>2. (q - 1) * s \in Nat /\ (m - q) * s \in Nat
  BY <1>1
<1>3. m * s = (q - 1) * s + s + (m - q) * s
  OBVIOUS
<1> QED
  BY <1>2, <1>3 DEF Spot
\* A row joined to a stack is its last row and moves no other.
LEMMA RowAppended ==
  ASSUME NEW m \in Nat, NEW s \in Nat \ {0}, NEW a, NEW d, Stack(a, m, s), IdRow(d, s)
  PROVE  Appends(a \o d, a, d, m, s)
<1>0. a \in Seq(Int) /\ d \in Seq(Int) /\ Len(a) = m * s /\ Len(d) = s
  BY DEF Stack, IdRow
<1>1. (m + 1) * s = m * s + s /\ m * s \in Nat
  OBVIOUS
<1>2. /\ a \o d \in Seq(Int) /\ Len(a \o d) = Len(a) + Len(d)
      /\ \A i \in 1 .. Len(a) : (a \o d)[i] = a[i]
      /\ \A i \in 1 .. Len(d) : (a \o d)[Len(a) + i] = d[i]
  <2>1. a \in Seq(Int) /\ d \in Seq(Int)
    BY <1>0
  <2> QED
    BY ONLY <2>1
<1>3. \A q \in 1 .. m, i \in 1 .. s : Spot(q, s, i) \in 1 .. Len(a)
  BY <1>0, InStack
<1>4. \A i \in 1 .. s : Spot(m + 1, s, i) = Len(a) + i
  BY <1>0 DEF Spot
<1>5. Stack(a \o d, m + 1, s)
  BY <1>0, <1>1, <1>2 DEF Stack
<1>6. /\ \A q \in 1 .. m, i \in 1 .. s : (a \o d)[Spot(q, s, i)] = a[Spot(q, s, i)]
      /\ \A i \in 1 .. s : (a \o d)[Spot(m + 1, s, i)] = d[i]
  BY <1>0, <1>2, <1>3, <1>4
<1> QED
  BY <1>5, <1>6 DEF Appends

\* Flattening position ids keeps every row of them.
LEMMA FlattenedElements ==
  ASSUME NEW seqs, NEW k \in Nat \ {0}, NEW s \in Nat \ {0},
         IdRows(seqs, k, s)
  PROVE  \A m \in 1 .. k, i \in 1 .. s : FlattenSeq(seqs)[Spot(m, s, i)] = seqs[m][i]
<1> DEFINE f == CHOOSE f : Flats(seqs, k, f)
<1>1. Flats(seqs, k, f)
  BY FlatExists
<1>2. FlattenSeq(seqs) = f[k]
  BY DEF FlattenSeq, Flats, IdRows
<1> HIDE DEF f
<1>0. Len(seqs) = k /\ \A m \in 1 .. k : IdRow(seqs[m], s)
  BY DEF IdRows
<1>3. \A m \in 1 .. k : f[m] = IF m = 1 THEN seqs[m] ELSE f[m - 1] \o seqs[m]
  BY <1>1 DEF Flats
<1> DEFINE Full(m) == /\ Stack(f[m], m, s)
                      /\ \A q \in 1 .. m, i \in 1 .. s : f[m][Spot(q, s, i)] = seqs[q][i]
           S == {n \in Nat : n + 1 \in 1 .. k => Full(n + 1)}
<1>5. 0 \in S
  <2>1. f[1] = seqs[1] /\ 1 * s = s
    BY <1>3
  <2>2. \A q \in 1 .. 1, i \in 1 .. s : q = 1 /\ Spot(q, s, i) = i
    BY DEF Spot
  <2>3. Full(1)
    BY <1>0, <2>1, <2>2 DEF Stack, IdRow
  <2> HIDE DEF Full
  <2> QED
    BY <2>3
<1>6. ASSUME NEW n \in S PROVE n + 1 \in S
  <2>0. n \in Nat
    OBVIOUS
  <2>1. PICK m \in Nat : m = n + 1
    BY <2>0
  <2> SUFFICES ASSUME m + 1 \in 1 .. k PROVE Full(m + 1)
    <3> HIDE DEF Full
    <3> QED
      BY <2>1
  <2>2. m \in 1 .. k /\ m + 1 # 1 /\ (m + 1) - 1 = m
    BY <2>0, <2>1
  <2>3. Full(m)
    <3> HIDE DEF Full
    <3> QED
      BY <2>0, <2>1, <2>2
  <2> DEFINE d == seqs[m + 1]
             a == f[m]
             w == a \o d
  <2>4. f[m + 1] = w
    BY <1>3, <2>2
  <2>5. IdRow(d, s)
    BY <1>0
  <2>6. Stack(a, m, s)
    BY <2>3
  <2>7. \A q \in 1 .. m, i \in 1 .. s : a[Spot(q, s, i)] = seqs[q][i]
    BY <2>3
  <2> HIDE DEF a, d
  <2>8. Appends(w, a, d, m, s)
    BY <2>5, <2>6, RowAppended
  <2> HIDE DEF w
  <2>9. ASSUME NEW q \in 1 .. m + 1, NEW i \in 1 .. s
        PROVE  w[Spot(q, s, i)] = seqs[q][i]
    <3>1. CASE q = m + 1
      BY <2>8, <3>1 DEF d, Appends
    <3>2. CASE q # m + 1
      <4>1. q \in 1 .. m
        BY <3>2
      <4> QED
        BY <2>7, <2>8, <4>1 DEF Appends
    <3> QED
      BY <3>1, <3>2
  <2> QED
    BY <2>4, <2>8, <2>9 DEF Appends
<1>7. S = Nat
  <2> HIDE DEF S
  <2>1. S \in SUBSET Nat
    BY DEF S
  <2> QED
    BY <1>5, <1>6, <2>1, Counting
<1>8. Full(k)
  <2>1. k - 1 \in Nat /\ (k - 1) + 1 = k /\ k \in 1 .. k
    OBVIOUS
  <2> HIDE DEF Full
  <2> QED
    BY <1>7, <2>1
<1> QED
  BY <1>2, <1>8
-----------------------------------------------------------------------------
(* What a call asks of one member of its batch.                            *)

\* The rows a cache of so many tokens keeps, and a cache that keeps the last of them.
EndOf(length) == IF g.sliding THEN CacheEnd(length, session.cap, g.window) ELSE length
Holding(rows, tokens) ==
    /\ EndOf(Len(tokens)) \in 0 .. Len(rows) /\ EndOf(Len(tokens)) <= Len(tokens)
    /\ \A k \in 1 .. EndOf(Len(tokens)) :
         rows[k] = tokens[k + (Len(tokens) - EndOf(Len(tokens)))]

\* What query q of a sequence should see.
Seen(tokens, q) ==
    (IF g.window > 0 THEN Larger(0, q - g.window + 1) ELSE 0)
      .. (IF g.causal \/ g.window > 0 THEN q ELSE Len(tokens) - 1)
Sight(tokens, q) ==
    [at |-> IdOf(q),
     keys |-> {[row |-> tokens[k + 1], bias |-> IF g.bias THEN k ELSE -1] :
                 k \in Seen(tokens, q)}]

\* The first query's position in a sequence that has the call's tokens.
First(c, tokens) == Larger(Len(tokens) - c.s, 0)

\* Member b comes with a cache of `old` and asks about the last rows of `tokens`, which
\* are new or, without new rows, held already.
Brings(c, b, old, tokens) ==
    /\ c.new[b] \in Seq(Row) /\ Len(c.new[b]) = c.s /\ Len(old) = First(c, tokens)
    /\ \A i \in 1 .. c.s : c.new[b][i].at = IdOf(First(c, tokens) + i - 1)
    /\ \A i \in 1 .. Len(tokens) - Len(old) : c.new[b][i] = tokens[Len(old) + i]
Asks(c, b, old, tokens) ==
    /\ c.s \in Nat \ {0} /\ c.total \in Nat
    /\ old \in Seq(Row) /\ tokens \in Seq(Row) /\ c.past[b] \in Seq(Row)
    /\ Len(tokens) \in 1 .. c.total /\ c.lengths[b] = Len(tokens) - 1
    /\ Holding(c.past[b], old)
    /\ Len(old) <= Len(tokens) /\ \A k \in 1 .. Len(old) : tokens[k] = old[k]
    /\ IF c.new[b] = <<>> THEN tokens = old /\ c.s <= Len(tokens) /\ ~g.sliding
       ELSE Brings(c, b, old, tokens)
    /\ g.sliding => c.s <= Len(tokens) /\ Len(c.past[b]) = session.cap

\* Rotary rows that are those of the member's positions.
Turns(at, c, tokens) == \A i \in 1 .. c.s : at[i] = IdOf(First(c, tokens) + i - 1)
Turned(c, b, tokens) ==
    GqaRotaryRows(g, c, b, First(c, tokens)) # <<>>
      => Turns(GqaRotaryRows(g, c, b, First(c, tokens)), c, tokens)

\* An answer that is right for the member.
Serves(present, sees, c, tokens) ==
    /\ present \in Seq(Row) /\ Holding(present, tokens)
    /\ \A i \in 1 .. c.s : First(c, tokens) + i - 1 < Len(tokens)
                             => sees[i] = Sight(tokens, First(c, tokens) + i - 1)

\* The position ids of a batch of k.
Numbers(c, k, b, first) ==
    /\ c.s \in Nat \ {0} /\ k \in Nat \ {0} /\ b \in 1 .. k /\ first \in Nat
    /\ IdRows(c.ids, k, c.s)
    /\ \A i \in 1 .. c.s : c.ids[b][i] = first + i
    /\ c.total = c.s => first = 0 /\ c.ids[1][1] = 1

\* Flattened position ids, from the first or from the member's own, are the positions,
\* and the rows of the rotary caches follow them.
Picked(first, s) == [i \in 1 .. s |-> IF g.ids THEN first + i ELSE first + i - 1]

\* They are refused only where the rotary caches end.
LEMMA RotaryPicks ==
  ASSUME NEW c, NEW k, NEW b, NEW first, Numbers(c, k, b, first)
  PROVE  /\ c.s \in Nat \ {0} /\ first \in Nat /\ Picked(first, c.s) \in [1 .. c.s -> Int]
         /\ GqaRotaryRows(g, c, b, first)
              = IF ~g.rotary THEN [i \in 1 .. c.s |-> -1]
                ELSE IF \A i \in 1 .. c.s : Picked(first, c.s)[i] \in 0 .. g.ropeRows - 1
                     THEN Picked(first, c.s) ELSE <<>>
<1> DEFINE flat == FlattenSeq(c.ids)
           s == c.s
           picked == [i \in 1 .. s |->
                        CASE ~g.ids -> first + i - 1
                          [] g.ids /\ c.total = s -> flat[1] + i - 1
                          [] OTHER -> flat[(b - 1) * s + i]]
<1>0. s \in Nat \ {0} /\ k \in Nat \ {0} /\ b \in 1 .. k /\ first \in Nat
  BY DEF Numbers
<1>1. \A m \in 1 .. k, i \in 1 .. s : flat[Spot(m, s, i)] = c.ids[m][i]
  BY <1>0, FlattenedElements DEF Numbers
<1>2. flat[1] = c.ids[1][1]
  <2>1. 1 \in 1 .. k /\ 1 \in 1 .. s /\ Spot(1, s, 1) = 1
    BY <1>0 DEF Spot
  <2> QED
    BY <1>1, <2>1
<1>3. \A i \in 1 .. s : flat[(b - 1) * s + i] = first + i
  <2> TAKE i \in 1 .. s
  <2>1. flat[Spot(b, s, i)] = c.ids[b][i]
    BY <1>0, <1>1
  <2> QED
    BY <2>1 DEF Numbers, Spot
<1>4. c.total = s => first = 0 /\ flat[1] = 1
  BY <1>2 DEF Numbers
<1> HIDE DEF flat
<1>5. GqaRotaryRows(g, c, b, first)
        = IF ~g.rotary THEN [i \in 1 .. s |-> -1]
          ELSE IF \A i \in 1 .. s : picked[i] \in 0 .. g.ropeRows - 1
               THEN Tabulated(picked) ELSE <<>>
  BY DEF GqaRotaryRows, flat
<1>6. \A i \in 1 .. s : picked[i] = IF g.ids THEN first + i ELSE first + i - 1
  <2> TAKE i \in 1 .. s
  <2>1. picked[i] = CASE ~g.ids -> first + i - 1
                      [] g.ids /\ c.total = s -> flat[1] + i - 1
                      [] OTHER -> flat[(b - 1) * s + i]
    OBVIOUS
  <2>2. CASE ~g.ids
    BY <2>1, <2>2
  <2>3. CASE g.ids /\ c.total = s
    <3>1. picked[i] = flat[1] + i - 1
      BY <2>1, <2>3
    <3> QED
      BY <1>0, <1>4, <2>3, <3>1
  <2>4. CASE g.ids /\ c.total # s
    <3>1. picked[i] = flat[(b - 1) * s + i]
      BY <2>1, <2>4
    <3> QED
      BY <1>3, <2>4, <3>1
  <2> QED
    BY <2>2, <2>3, <2>4
<1>7. picked = Picked(first, s)
  <2>1. picked = [i \in 1 .. s |-> picked[i]]
    OBVIOUS
  <2> HIDE DEF picked
  <2> QED
    BY <1>6, <2>1 DEF Picked
<1>8. Picked(first, s) \in [1 .. s -> Int]
  BY <1>0 DEF Picked
<1>9. Tabulated(Picked(first, s)) = Picked(first, s)
  BY <1>0, <1>8, TabulatedElements
<1> HIDE DEF picked
<1> QED
  BY <1>0, <1>5, <1>7, <1>8, <1>9

\* A member's rotary rows are those of its positions.
LEMMA RotaryRight ==
  ASSUME NEW c, NEW k, NEW b, NEW first, Numbers(c, k, b, first),
         GqaRotaryRows(g, c, b, first) # <<>>
  PROVE  \A i \in 1 .. c.s : GqaRotaryRows(g, c, b, first)[i] = IdOf(first + i - 1)
<1>1. /\ c.s \in Nat \ {0} /\ first \in Nat
      /\ GqaRotaryRows(g, c, b, first)
           = IF ~g.rotary THEN [i \in 1 .. c.s |-> -1] ELSE Picked(first, c.s)
  BY RotaryPicks
<1>2. CASE ~g.rotary
  BY <1>1, <1>2 DEF IdOf
<1>3. CASE g.rotary
  BY <1>1, <1>3 DEF IdOf, Picked
<1> QED
  BY <1>2, <1>3

-----------------------------------------------------------------------------
(* The routes.                                                             *)

\* The tokens beyond the held ones are among the new rows.
NewAre(c, b, old, tokens) ==
    \A i \in 1 .. Len(tokens) - Len(old) :
      i <= Len(c.new[b]) /\ c.new[b][i] = tokens[Len(old) + i]

\* What Asks says, without its alternatives.
LEMMA AsksParts ==
  ASSUME NEW c, NEW b, NEW old, NEW tokens, Asks(c, b, old, tokens)
  PROVE  /\ c.s \in Nat \ {0} /\ c.total \in Nat
         /\ old \in Seq(Row) /\ tokens \in Seq(Row) /\ c.past[b] \in Seq(Row)
         /\ c.new[b] \in Seq(Row)
         /\ Len(tokens) \in 1 .. c.total /\ c.lengths[b] = Len(tokens) - 1
         /\ Len(old) <= Len(tokens) /\ \A k \in 1 .. Len(old) : tokens[k] = old[k]
         /\ First(c, tokens) \in Nat /\ First(c, tokens) < Len(tokens)
         /\ NewAre(c, b, old, tokens)
         /\ c.new[b] # <<>> => Brings(c, b, old, tokens)
         /\ c.new[b] = <<>> => tokens = old /\ c.s <= Len(tokens) /\ ~g.sliding
<1>1. /\ c.s \in Nat \ {0} /\ c.total \in Nat
      /\ old \in Seq(Row) /\ tokens \in Seq(Row) /\ c.past[b] \in Seq(Row)
      /\ Len(tokens) \in 1 .. c.total /\ c.lengths[b] = Len(tokens) - 1
      /\ Len(old) <= Len(tokens) /\ \A k \in 1 .. Len(old) : tokens[k] = old[k]
      /\ c.new[b] = <<>> => tokens = old /\ c.s <= Len(tokens) /\ ~g.sliding
      /\ c.new[b] # <<>> => Brings(c, b, old, tokens)
  BY DEF Asks
<1>2. First(c, tokens) \in Nat /\ First(c, tokens) < Len(tokens)
  BY <1>1 DEF First, Larger
<1>3. CASE c.new[b] = <<>>
  <2>1. c.new[b] \in Seq(Row) /\ Len(tokens) - Len(old) = 0
    BY <1>1, <1>3
  <2>2. NewAre(c, b, old, tokens)
    BY <2>1 DEF NewAre
  <2> QED
    BY <1>1, <1>2, <1>3, <2>1, <2>2
<1>4. CASE c.new[b] # <<>>
  <2>1. /\ c.new[b] \in Seq(Row) /\ Len(c.new[b]) = c.s /\ Len(old) = First(c, tokens)
        /\ \A i \in 1 .. Len(tokens) - Len(old) : c.new[b][i] = tokens[Len(old) + i]
    BY <1>1, <1>4 DEF Brings
  <2>2. Len(tokens) - Len(old) <= c.s
    BY <1>1, <2>1 DEF First, Larger
  <2>3. NewAre(c, b, old, tokens)
    BY <2>1, <2>2, <1>1 DEF NewAre
  <2> QED
    BY <1>1, <1>2, <1>4, <2>1, <2>3
<1> QED
  BY <1>3, <1>4

\* Rows rotated by their own positions are the rows.
LEMMA NewRows ==
  ASSUME NEW c, NEW b, NEW old, NEW tokens, Asks(c, b, old, tokens),
         NEW at, Turns(at, c, tokens)
  PROVE  Rotated(c.new[b], at) = c.new[b]
<1>1. c.new[b] \in Seq(Row)
  BY AsksParts
<1>2. \A i \in DOMAIN c.new[b] : at[i] = c.new[b][i].at
  <2>1. CASE c.new[b] = <<>>
    BY <2>1
  <2>2. CASE c.new[b] # <<>>
    <3>1. Brings(c, b, old, tokens)
      BY <2>2, AsksParts
    <3>2. DOMAIN c.new[b] = 1 .. c.s
      BY <1>1, <3>1 DEF Brings
    <3> QED
      BY <3>1, <3>2 DEF Brings, Turns
  <2> QED
    BY <2>1, <2>2
<1> QED
  BY <1>1, <1>2, RotatedAlready

\* The rows that were held, and the new ones that count.
OldRows(a, old) == a \in Seq(Row) /\ Len(a) = Len(old) /\ \A k \in 1 .. Len(old) : a[k] = old[k]
Added(d, c, b, old, tokens) ==
    /\ d \in Seq(Row) /\ Len(d) = Len(tokens) - Len(old)
    /\ \A i \in 1 .. Len(tokens) - Len(old) : d[i] = c.new[b][i]

\* Old rows and new ones are the sequence, however they are put together.
LEMMA OldThenNew ==
  ASSUME NEW c, NEW b, NEW old, NEW tokens, Asks(c, b, old, tokens),
         NEW a, NEW d, OldRows(a, old), Added(d, c, b, old, tokens)
  PROVE  a \o d = tokens
<1>6. /\ a \in Seq(Row) /\ d \in Seq(Row)
      /\ Len(a) = Len(old) /\ \A k \in 1 .. Len(old) : a[k] = old[k]
      /\ Len(d) = Len(tokens) - Len(old) /\ \A i \in 1 .. Len(d) : d[i] = c.new[b][i]
  BY DEF OldRows, Added
<1>0. /\ old \in Seq(Row) /\ tokens \in Seq(Row) /\ NewAre(c, b, old, tokens)
      /\ \A k \in 1 .. Len(old) : tokens[k] = old[k]
  BY AsksParts
<1>1. /\ old \in Seq(Row) /\ tokens \in Seq(Row)
      /\ \A k \in 1 .. Len(old) : tokens[k] = old[k]
      /\ \A i \in 1 .. Len(tokens) - Len(old) : c.new[b][i] = tokens[Len(old) + i]
  BY <1>0 DEF NewAre
<1> DEFINE w == a \o d
<1>2. /\ w \in Seq(Row) /\ Len(w) = Len(a) + Len(d)
      /\ \A i \in 1 .. Len(a) : w[i] = a[i]
      /\ \A i \in 1 .. Len(d) : w[Len(a) + i] = d[i]
  BY <1>6, Joining
<1> HIDE DEF w
<1>3. /\ w \in Seq(Row) /\ Len(w) = Len(tokens)
      /\ \A i \in 1 .. Len(old) : w[i] = tokens[i]
      /\ \A i \in 1 .. Len(tokens) - Len(old) : w[Len(old) + i] = tokens[Len(old) + i]
  <2>1. Len(old) \in Nat /\ Len(tokens) \in Nat
    BY <1>1
  <2>2. Len(w) = Len(tokens)
    BY <1>2, <1>6, <2>1
  <2>3. \A i \in 1 .. Len(old) : w[i] = tokens[i]
    BY <1>1, <1>2, <1>6
  <2>4. \A i \in 1 .. Len(tokens) - Len(old) : w[Len(old) + i] = tokens[Len(old) + i]
    BY <1>1, <1>2, <1>6
  <2> QED
    BY <1>2, <2>2, <2>3, <2>4
<1>4. \A i \in 1 .. Len(w) : w[i] = tokens[i]
  <2> TAKE i \in 1 .. Len(w)
  <2>0. Len(old) \in Nat /\ Len(tokens) \in Nat
    BY <1>1
  <2>1. CASE i <= Len(old)
    BY <1>3, <2>0, <2>1
  <2>2. CASE i > Len(old)
    <3>1. i - Len(old) \in 1 .. Len(tokens) - Len(old) /\ Len(old) + (i - Len(old)) = i
      BY <1>3, <2>0, <2>2
    <3> QED
      BY <1>3, <3>1
  <2> QED
    BY <2>0, <2>1, <2>2
<1>5. w = tokens
  BY <1>1, <1>3, <1>4, SameRows
<1> QED
  BY <1>5 DEF w

\* Outside a sliding cache, what is held is held from the start.
LEMMA HoldingAll ==
  ASSUME NEW rows \in Seq(Row), NEW tokens \in Seq(Row), ~g.sliding
  PROVE  Holding(rows, tokens) <=>
           /\ Len(tokens) <= Len(rows)
           /\ \A k \in 1 .. Len(tokens) : rows[k] = tokens[k]
<1>1. EndOf(Len(tokens)) = Len(tokens) /\ Len(tokens) \in Nat /\ Len(rows) \in Nat
  BY DEF EndOf
<1>2. Len(tokens) - Len(tokens) = 0 /\ \A k \in 1 .. Len(tokens) : k + 0 = k
  BY <1>1
<1> QED
  BY <1>1, <1>2 DEF Holding

\* The keys that a mask over the whole sequence lets a query see.
LEMMA SeenWhole ==
  ASSUME NEW tokens \in Seq(Row), NEW first \in Nat, NEW q \in Nat, first <= q, q < Len(tokens),
         g.window \in Int
  PROVE  /\ {k \in 0 .. Len(tokens) - 1 :
                IF g.window > 0
                THEN CausalWindow(q - first, k, first, Len(tokens), g.window)
                ELSE g.causal => CausalTopLeft(q - first, k, first)} = Seen(tokens, q)
         /\ Seen(tokens, q) \in SUBSET Nat
<1> DEFINE n == Len(tokens)
           w == g.window
           J == {k \in 0 .. n - 1 : IF w > 0 THEN CausalWindow(q - first, k, first, n, w)
                                   ELSE g.causal => CausalTopLeft(q - first, k, first)}
<1>0. n \in Nat /\ w \in Int /\ first + (q - first) = q
  OBVIOUS
<1>1. CASE w > 0
  <2>1. Seen(tokens, q) = Larger(0, q - w + 1) .. q
    BY <1>1 DEF Seen
  <2>2. J = {k \in 0 .. n - 1 : CausalWindow(q - first, k, first, n, w)}
    BY <1>1
  <2> HIDE DEF J, n, w
  <2>3. Smaller(first - w + 1 + (q - first), n - w) = q - w + 1
    BY <1>0, <1>1 DEF Smaller, n
  <2>4. \A k \in 0 .. n - 1 :
          CausalWindow(q - first, k, first, n, w) <=> k <= q /\ q - w + 1 <= k
    BY <1>0, <2>3 DEF CausalWindow
  <2>5. J = {k \in 0 .. n - 1 : k <= q /\ q - w + 1 <= k}
    BY <2>2, <2>4
  <2>6. {k \in 0 .. n - 1 : k <= q /\ q - w + 1 <= k} = Larger(0, q - w + 1) .. q
    <3>1. q < n
      BY DEF n
    <3>2. CASE 0 > q - w + 1
      BY <1>0, <3>1, <3>2 DEF Larger
    <3>3. CASE ~(0 > q - w + 1)
      BY <1>0, <3>1, <3>3 DEF Larger
    <3> QED
      BY <3>2, <3>3
  <2>7. Larger(0, q - w + 1) .. q \in SUBSET Nat
    BY <1>0 DEF Larger
  <2> QED
    BY <2>1, <2>5, <2>6, <2>7 DEF J, n, w
<1>2. CASE ~(w > 0)
  <2>1. Seen(tokens, q) = 0 .. (IF g.causal THEN q ELSE n - 1)
    BY <1>2 DEF Seen
  <2>2. J = {k \in 0 .. n - 1 : g.causal => CausalTopLeft(q - first, k, first)}
    BY <1>2
  <2> HIDE DEF J, n, w
  <2>3. \A k \in 0 .. n - 1 : CausalTopLeft(q - first, k, first) <=> k <= q
    BY <1>0 DEF CausalTopLeft
  <2>4. J = {k \in 0 .. n - 1 : g.causal => k <= q}
    BY <2>2, <2>3
  <2>5. CASE g.causal
    <3>1. {k \in 0 .. n - 1 : k <= q} = 0 .. q
      BY <1>0 DEF n
    <3>2. J = 0 .. q
      BY <2>4, <2>5, <3>1
    <3>3. Seen(tokens, q) = 0 .. q
      BY <2>1, <2>5
    <3>4. 0 .. q \in SUBSET Nat
      OBVIOUS
    <3> QED
      BY <3>2, <3>3, <3>4 DEF J, n, w
  <2>6. CASE ~g.causal
    <3>1. J = 0 .. n - 1
      BY <2>4, <2>6
    <3>2. Seen(tokens, q) = 0 .. n - 1
      BY <2>1, <2>6
    <3>3. 0 .. n - 1 \in SUBSET Nat
      BY <1>0
    <3> QED
      BY <3>1, <3>2, <3>3 DEF J, n, w
  <2> QED
    BY <2>5, <2>6
<1> QED
  BY <1>1, <1>2

\* Rows read where they lie, with the bias of their own column.
LEMMA SightIs ==
  ASSUME NEW tokens, NEW q, NEW at, at = IdOf(q), NEW J \in SUBSET Nat, J = Seen(tokens, q)
  PROVE  [at |-> at, keys |-> {[row |-> tokens[j + 1], bias |-> IF g.bias THEN 0 + j ELSE -1] : j \in J}]
           = Sight(tokens, q)
<1>1. \A j \in J : 0 + j = j
  OBVIOUS
<1>2. {[row |-> tokens[j + 1], bias |-> IF g.bias THEN 0 + j ELSE -1] : j \in J}
        = {[row |-> tokens[j + 1], bias |-> IF g.bias THEN j ELSE -1] : j \in J}
  BY <1>1
<1> QED
  BY <1>2 DEF Sight

\* The first rows of a sequence.
LEMMA FrontRows ==
  ASSUME NEW rows \in Seq(Row), NEW n \in Nat, n <= Len(rows)
  PROVE  /\ RowsOf(rows, 0, n) \in Seq(Row) /\ Len(RowsOf(rows, 0, n)) = n
         /\ \A i \in 1 .. n : RowsOf(rows, 0, n)[i] = rows[i]
<1>1. PICK z \in Nat : z = 0
  OBVIOUS
<1> DEFINE w == RowsOf(rows, z, n)
<1>2. /\ w \in Seq(Row) /\ Len(w) = IF z <= n THEN n - z ELSE 0
      /\ \A i \in 1 .. n - z : z + i <= Len(rows) => w[i] = rows[z + i]
  BY RowsOfElements
<1> HIDE DEF w
<1>3. w \in Seq(Row) /\ Len(w) = n /\ \A i \in 1 .. n : w[i] = rows[i]
  BY <1>1, <1>2
<1> QED
  BY <1>1, <1>3 DEF w

\* A batched member attends to its own sequence and keeps it at the front of its rows.
LEMMA MemberRight ==
  ASSUME NEW c, NEW b, NEW old, NEW tokens, Asks(c, b, old, tokens), ~g.sliding,
         Turned(c, b, tokens), GqaMember(g, c, b).ok, g.window \in Int
  PROVE  Serves(GqaMember(g, c, b).present, GqaMember(g, c, b).sees, c, tokens)
<1> DEFINE cap == Len(c.past[b])
           capacity == Larger(cap, c.total)
           length == c.lengths[b] + 1
           queryPast == Larger(length - c.s, 0)
           empty == c.new[b] = <<>>
           past == IF empty THEN length ELSE queryPast
           newRows == IF empty THEN 0 ELSE length - past
           at == GqaRotaryRows(g, c, b, queryPast)
           stored == RowsOf(c.past[b], 0, past) \o RowsOf(Rotated(c.new[b], at), 0, newRows)
           tail == IF length < cap THEN RowsOf(c.past[b], length, cap) ELSE Zeros(capacity - length)
           kept == IF empty THEN c.past[b] ELSE stored \o tail
           present == kept \o Zeros(capacity - Len(kept))
           Reached(i) == {k \in 0 .. Len(stored) - 1 :
                            IF g.window > 0
                            THEN CausalWindow(i - 1, k, queryPast, length, g.window)
                            ELSE g.causal => CausalTopLeft(i - 1, k, queryPast)}
           sees == [i \in 1 .. c.s |->
                      [at |-> at[i],
                       keys |-> {[row |-> stored[j + 1], bias |-> IF g.bias THEN 0 + j ELSE -1] :
                                   j \in Reached(i)}]]
<1>1. at # <<>> /\ GqaMember(g, c, b) = Answer(sees, present, WholeCopy)
  <2>1. ~Refuses.ok
    BY DEF Refuses
  <2>2. GqaMember(g, c, b) =
          IF past > cap \/ (~g.past /\ past # 0) \/ at = <<>> THEN Refuses
          ELSE Answer(sees, present, WholeCopy)
    BY DEF GqaMember, Attend
  <2> HIDE DEF past, cap, at, sees, present
  <2> QED
    BY <2>1, <2>2
<1>2. /\ c.s \in Nat \ {0} /\ c.total \in Nat
      /\ old \in Seq(Row) /\ tokens \in Seq(Row) /\ c.past[b] \in Seq(Row) /\ c.new[b] \in Seq(Row)
      /\ Len(tokens) \in 1 .. c.total /\ c.lengths[b] = Len(tokens) - 1
      /\ Len(old) <= Len(tokens)
      /\ First(c, tokens) \in Nat /\ First(c, tokens) < Len(tokens)
      /\ NewAre(c, b, old, tokens)
  BY AsksParts
<1>3. length = Len(tokens) /\ queryPast = First(c, tokens)
  BY <1>2 DEF First
<1>4. empty => tokens = old
  BY AsksParts
<1>5. ~empty => Len(old) = First(c, tokens)
  BY AsksParts DEF Brings
<1>6. past = Len(old) /\ newRows = Len(tokens) - Len(old)
  <2> HIDE DEF length, queryPast, empty
  <2>1. past = Len(old)
    BY <1>3, <1>4, <1>5
  <2>2. Len(tokens) - Len(tokens) = 0
    BY <1>2
  <2> QED
    BY <1>3, <1>4, <2>1, <2>2
<1> HIDE DEF length, queryPast, past, newRows
<1>7. Len(old) <= cap /\ \A k \in 1 .. Len(old) : c.past[b][k] = old[k]
  BY <1>2, HoldingAll DEF Asks
<1>8. Turns(at, c, tokens)
  BY <1>1, <1>3 DEF Turned
<1> HIDE DEF at
<1>9. Rotated(c.new[b], at) = c.new[b]
  BY <1>8, NewRows
<1>10. stored = tokens
  <2> DEFINE a == RowsOf(c.past[b], 0, Len(old))
             d == RowsOf(c.new[b], 0, Len(tokens) - Len(old))
  <2>1. a \in Seq(Row) /\ Len(a) = Len(old) /\ \A k \in 1 .. Len(old) : a[k] = c.past[b][k]
    <3>1. Len(old) \in Nat
      BY <1>2
    <3> QED
      BY <1>2, <1>7, <3>1, FrontRows
  <2>2. /\ d \in Seq(Row) /\ Len(d) = Len(tokens) - Len(old)
        /\ \A i \in 1 .. Len(tokens) - Len(old) : d[i] = c.new[b][i]
    <3>1. Len(tokens) - Len(old) \in Nat
      BY <1>2
    <3>2. Len(tokens) - Len(old) <= Len(c.new[b])
      <4>1. CASE Len(tokens) - Len(old) = 0
        BY <1>2, <4>1
      <4>2. CASE Len(tokens) - Len(old) # 0
        <5>1. Len(tokens) - Len(old) \in 1 .. Len(tokens) - Len(old)
          BY <3>1, <4>2
        <5> QED
          BY <1>2, <5>1 DEF NewAre
      <4> QED
        BY <4>1, <4>2
    <3> QED
      BY <1>2, <3>1, <3>2, FrontRows
  <2>3. stored = a \o d
    BY <1>6, <1>9
  <2> HIDE DEF a, d, stored
  <2>4. OldRows(a, old) /\ Added(d, c, b, old, tokens)
    BY <1>7, <2>1, <2>2 DEF OldRows, Added
  <2>5. a \o d = tokens
    BY <2>4, OldThenNew
  <2> QED
    BY <2>3, <2>5
<1> HIDE DEF stored
<1>11. present \in Seq(Row) /\ Holding(present, tokens)
  <2>1. tail \in Seq(Row)
    <3>1. CASE length < cap
      <4>1. length \in Nat /\ cap \in Nat
        BY <1>2, <1>3
      <4> QED
        BY <1>2, <3>1, <4>1, RowsOfElements
    <3>2. CASE ~(length < cap)
      <4>1. capacity - length \in Int
        BY <1>2, <1>3 DEF Larger
      <4> QED
        BY <3>2, <4>1, ZerosType
    <3> QED
      BY <3>1, <3>2
  <2> HIDE DEF tail
  <2>2. /\ kept \in Seq(Row) /\ Len(tokens) <= Len(kept)
        /\ \A k \in 1 .. Len(tokens) : kept[k] = tokens[k]
    <3>1. CASE empty
      BY <1>2, <1>4, <1>7, <3>1
    <3>2. CASE ~empty
      <4>1. kept = tokens \o tail
        BY <1>10, <3>2
      <4> HIDE DEF kept
      <4>2. /\ tokens \o tail \in Seq(Row) /\ Len(tokens \o tail) = Len(tokens) + Len(tail)
            /\ \A i \in 1 .. Len(tokens) : (tokens \o tail)[i] = tokens[i]
        BY <1>2, <2>1, Joining
      <4>3. Len(tail) \in Nat /\ Len(tokens) \in Nat
        BY <1>2, <2>1
      <4> QED
        BY <4>1, <4>2, <4>3
    <3> QED
      BY <3>1, <3>2
  <2> HIDE DEF kept
  <2> DEFINE z == Zeros(capacity - Len(kept))
  <2>3. z \in Seq(Row)
    <3>1. capacity - Len(kept) \in Int
      BY <1>2, <2>2 DEF Larger
    <3> QED
      BY <3>1, ZerosType
  <2>4. present = kept \o z
    OBVIOUS
  <2> HIDE DEF z, present
  <2>5. /\ kept \o z \in Seq(Row) /\ Len(kept \o z) = Len(kept) + Len(z)
        /\ \A k \in 1 .. Len(kept) : (kept \o z)[k] = kept[k]
    BY <2>2, <2>3, Joining
  <2>6. Len(tokens) \in Nat /\ Len(kept) \in Nat /\ Len(z) \in Nat
    BY <1>2, <2>2, <2>3
  <2>7. present \in Seq(Row) /\ Len(tokens) <= Len(present) /\ \A k \in 1 .. Len(tokens) : present[k] = tokens[k]
    BY <2>2, <2>4, <2>5, <2>6
  <2> QED
    BY <1>2, <2>7, HoldingAll
<1>12. ASSUME NEW i \in 1 .. c.s, First(c, tokens) + i - 1 < Len(tokens)
       PROVE  sees[i] = Sight(tokens, First(c, tokens) + i - 1)
  <2> DEFINE first == First(c, tokens)
             q == first + i - 1
             J == Reached(i)
  <2>1. sees[i] = [at |-> at[i],
                   keys |-> {[row |-> stored[j + 1], bias |-> IF g.bias THEN 0 + j ELSE -1] : j \in J}]
    OBVIOUS
  <2>2. first \in Nat /\ q \in Nat /\ first <= q /\ q < Len(tokens) /\ q - first = i - 1
    BY <1>2, <1>12
  <2>3. J = {k \in 0 .. Len(tokens) - 1 :
                IF g.window > 0
                THEN CausalWindow(q - first, k, first, Len(tokens), g.window)
                ELSE g.causal => CausalTopLeft(q - first, k, first)}
    BY <1>3, <1>10, <2>2
  <2>4. at[i] = IdOf(q)
    BY <1>8 DEF Turns
  <2> HIDE DEF J, sees, q, first
  <2>5. J = Seen(tokens, q) /\ J \in SUBSET Nat
    BY <1>2, <2>2, <2>3, SeenWhole
  <2>6. sees[i] = Sight(tokens, q)
    BY <1>10, <2>1, <2>4, <2>5, SightIs
  <2> QED
    BY <2>6 DEF q, first
<1> HIDE DEF sees, present
<1>13. GqaMember(g, c, b).present = present /\ GqaMember(g, c, b).sees = sees
  BY <1>1 DEF Answer
<1> QED
  BY <1>11, <1>12, <1>13 DEF Serves

\* What a sliding step starts from: the last rows of the sequence, up to the window.
Seeded(c, b, tokens, seed, before, after, p) ==
    /\ p = First(c, tokens) /\ p \in Nat /\ Len(tokens) = p + c.s
    /\ before \in Nat /\ after \in Nat /\ before <= Len(c.past[b]) /\ before <= p
    /\ after <= Len(tokens) /\ seed \in 0 .. before
    /\ before - (after - c.s) \in Nat /\ before - (after - c.s) <= before + c.s
    /\ before - seed >= Smaller(p, g.window - 1)
    /\ \A k \in 1 .. before : c.past[b][k] = tokens[k + (p - before)]
    /\ EndOf(Len(tokens)) = after

\* The geometry of a sliding member, in terms of what it holds and asks about.
LEMMA SeedsOfMember ==
  ASSUME NEW c, NEW b, NEW old, NEW tokens, Asks(c, b, old, tokens), g.sliding,
         g.window \in 1 .. Len(c.past[b]), NEW staging \in BOOLEAN,
         ~staging => ~StagingNeeded(g, Geometry(g, c, b))
  PROVE  LET geo == Geometry(g, c, b) IN
         /\ Seeded(c, b, tokens, IF staging THEN 0 ELSE geo.offset, geo.before, geo.after, geo.p)
         /\ geo.offset = geo.before - (geo.after - c.s)
<1> DEFINE geo == Geometry(g, c, b)
           p == First(c, tokens)
           cap == Len(c.past[b])
           before == CacheEnd(p, cap, g.window)
           after == CacheEnd(p + c.s, cap, g.window)
           seed == IF staging THEN 0 ELSE geo.offset
<1>1. /\ c.s \in Nat \ {0} /\ old \in Seq(Row) /\ tokens \in Seq(Row) /\ c.past[b] \in Seq(Row)
      /\ Len(tokens) \in Nat /\ Len(tokens) >= 1 /\ c.lengths[b] = Len(tokens) - 1
      /\ Len(old) <= Len(tokens) /\ \A k \in 1 .. Len(old) : tokens[k] = old[k]
  BY AsksParts
<1>2. c.s <= Len(tokens) /\ Len(c.past[b]) = session.cap /\ Holding(c.past[b], old)
  BY DEF Asks
<1>3. Len(old) = p
  <2>1. c.new[b] # <<>>
    BY AsksParts
  <2> QED
    BY <2>1, AsksParts DEF Brings
<1>4. p \in Nat /\ Len(tokens) = p + c.s /\ p = c.lengths[b] + 1 - c.s
  BY <1>1, <1>2 DEF First, Larger
<1>5. Slides(g, c, b)
  BY <1>1, <1>2 DEF Slides
<1>6. /\ geo.before \in 0 .. Len(c.past[b])
      /\ geo.after \in 0 .. Len(c.past[b])
      /\ geo.before >= Smaller(geo.p, g.window - 1)
      /\ geo.offset \in Nat /\ geo.offset <= geo.before + c.s
      /\ ~StagingNeeded(g, geo) => /\ geo.offset <= geo.before
                                   /\ geo.before - geo.offset >= Smaller(geo.p, g.window - 1)
  BY <1>5, SeedsInside
<1>7. /\ geo.p = p /\ geo.before = before /\ geo.after = after
      /\ geo.offset = before - (after - c.s)
  <2>1. Larger(c.lengths[b] + 1 - c.s, 0) = p
    BY <1>4 DEF Larger
  <2> QED
    BY <2>1 DEF Geometry
<1>8. before <= p /\ after <= p + c.s
  <2>1. cap \in Nat /\ p + c.s \in Nat
    BY <1>1, <1>4
  <2> QED
    BY <1>4, <2>1, WindowFits
<1>9. EndOf(Len(old)) = before /\ EndOf(Len(tokens)) = after
  BY <1>2, <1>3, <1>4 DEF EndOf
<1>10. \A k \in 1 .. before : c.past[b][k] = old[k + (p - before)]
  BY <1>2, <1>3, <1>9 DEF Holding
<1> HIDE DEF geo, before, after, p, cap
<1>11. \A k \in 1 .. before : c.past[b][k] = tokens[k + (p - before)]
  <2> TAKE k \in 1 .. before
  <2>1. k + (p - before) \in 1 .. Len(old)
    BY <1>3, <1>4, <1>6, <1>7, <1>8
  <2> QED
    BY <1>1, <1>10, <2>1
<1>12. seed \in 0 .. before /\ before - seed >= Smaller(p, g.window - 1)
  BY <1>6, <1>7 DEF geo
<1>13. /\ before \in Nat /\ after \in Nat /\ before <= Len(c.past[b])
       /\ before - (after - c.s) \in Nat /\ before - (after - c.s) <= before + c.s
  BY <1>1, <1>6, <1>7
<1>14. p = First(c, tokens)
  BY DEF p
<1> HIDE DEF seed
<1>15. Seeded(c, b, tokens, seed, before, after, p)
  BY <1>4, <1>8, <1>9, <1>11, <1>12, <1>13, <1>14 DEF Seeded
<1> QED
  BY <1>7, <1>15 DEF geo, seed

\* Rows that are the tokens from some origin on.
TailOf(w, tokens, origin, keys) ==
    w \in Seq(Row) /\ Len(w) = keys /\ \A j \in 1 .. keys : w[j] = tokens[origin + j]
Sits(rows, tokens, before, p) == \A k \in 1 .. before : rows[k] = tokens[k + (p - before)]

\* The seeds and the new rows are the end of the sequence.
LEMMA SlideStored ==
  ASSUME NEW rows \in Seq(Row), NEW new, NEW tokens, NEW p \in Nat, NEW before \in Nat,
         NEW seed \in Nat, NEW s \in Nat, seed <= before, before <= p, before <= Len(rows),
         Sits(rows, tokens, before, p), TailOf(new, tokens, p, s)
  PROVE  TailOf(RowsOf(rows, seed, before) \o new, tokens, p - before + seed, before - seed + s)
<1> DEFINE a == RowsOf(rows, seed, before)
           w == a \o new
           n == before - seed
<1>1. /\ a \in Seq(Row) /\ Len(a) = n
      /\ \A i \in 1 .. n : a[i] = rows[seed + i]
  <2>1. /\ a \in Seq(Row) /\ Len(a) = n
        /\ \A i \in 1 .. n : seed + i <= Len(rows) => a[i] = rows[seed + i]
    BY RowsOfElements
  <2>2. \A i \in 1 .. n : seed + i <= Len(rows)
    OBVIOUS
  <2> HIDE DEF a
  <2> QED
    BY <2>1, <2>2
<1>2. new \in Seq(Row) /\ Len(new) = s /\ \A j \in 1 .. s : new[j] = tokens[p + j]
  BY DEF TailOf
<1> HIDE DEF a
<1>3. /\ w \in Seq(Row) /\ Len(w) = Len(a) + Len(new)
      /\ \A i \in 1 .. Len(a) : w[i] = a[i]
      /\ \A i \in 1 .. Len(new) : w[Len(a) + i] = new[i]
  BY <1>1, <1>2, Joining
<1> HIDE DEF w
<1>4. PICK held0 \in Nat : held0 = before - seed
  OBVIOUS
<1>5. PICK origin \in Nat : origin = p - before + seed
  OBVIOUS
<1>6. /\ Len(w) = held0 + s
      /\ \A i \in 1 .. held0 : w[i] = rows[seed + i]
      /\ \A i \in 1 .. s : w[held0 + i] = tokens[p + i]
  BY <1>1, <1>2, <1>3, <1>4
<1>7. \A j \in 1 .. held0 + s : w[j] = tokens[origin + j]
  <2> TAKE j \in 1 .. held0 + s
  <2>1. CASE j <= held0
    <3>1. PICK k \in 1 .. before : k = seed + j
      BY <1>4, <2>1
    <3>2. rows[k] = tokens[k + (p - before)]
      BY DEF Sits
    <3>3. k + (p - before) = origin + j
      BY <1>5, <3>1
    <3>4. w[j] = rows[k]
      BY <1>6, <2>1, <3>1
    <3> QED
      BY <3>2, <3>3, <3>4
  <2>2. CASE j > held0
    <3>1. j - held0 \in 1 .. s /\ held0 + (j - held0) = j /\ p + (j - held0) = origin + j
      BY <1>4, <1>5, <2>2
    <3> QED
      BY <1>6, <3>1
  <2> QED
    BY <2>1, <2>2
<1>8. TailOf(w, tokens, origin, held0 + s)
  BY <1>3, <1>6, <1>7 DEF TailOf
<1> QED
  BY <1>4, <1>5, <1>8 DEF w, a

\* Cut from the front, they still are.
LEMMA SlideKept ==
  ASSUME NEW w, NEW tokens, NEW origin \in Nat, NEW keys \in Nat, NEW from \in Nat, from <= keys,
         NEW after \in Nat, after = keys - from, NEW z \in Seq(Row), Len(tokens) = origin + keys,
         TailOf(w, tokens, origin, keys), EndOf(Len(tokens)) = after
  PROVE  RowsOf(w, from, keys) \o z \in Seq(Row) /\ Holding(RowsOf(w, from, keys) \o z, tokens)
<1> DEFINE a == RowsOf(w, from, keys)
           v == a \o z
<1>1. w \in Seq(Row) /\ Len(w) = keys /\ \A j \in 1 .. keys : w[j] = tokens[origin + j]
  BY DEF TailOf
<1>2. /\ a \in Seq(Row) /\ Len(a) = after
      /\ \A i \in 1 .. after : a[i] = w[from + i]
  <2>1. /\ a \in Seq(Row) /\ Len(a) = keys - from
        /\ \A i \in 1 .. keys - from : from + i <= Len(w) => a[i] = w[from + i]
    BY <1>1, RowsOfElements
  <2>2. \A i \in 1 .. after : from + i <= Len(w)
    BY <1>1
  <2> HIDE DEF a
  <2> QED
    BY <2>1, <2>2
<1> HIDE DEF a
<1>3. /\ v \in Seq(Row) /\ Len(v) = Len(a) + Len(z)
      /\ \A i \in 1 .. Len(a) : v[i] = a[i]
  BY <1>2, Joining
<1> HIDE DEF v
<1>4. after \in 0 .. Len(v)
  <2>1. Len(z) \in Nat
    OBVIOUS
  <2> QED
    BY <1>2, <1>3, <2>1
<1>5. \A k \in 1 .. after : v[k] = tokens[k + (Len(tokens) - after)]
  <2> TAKE k \in 1 .. after
  <2>1. from + k \in 1 .. keys /\ origin + (from + k) = k + (Len(tokens) - after)
    OBVIOUS
  <2> QED
    BY <1>1, <1>2, <1>3, <2>1
<1>6. after <= Len(tokens)
  OBVIOUS
<1> QED
  BY <1>3, <1>4, <1>5, <1>6 DEF Holding, v, a

\* The window of a query, read from them.
Windowed(w, origin, held0, s, i) ==
    {[row |-> w[j + 1], bias |-> IF g.bias THEN origin + j ELSE -1] :
       j \in {k \in 0 .. Len(w) - 1 : CausalWindow(i - 1, k, held0, held0 + s, g.window)}}
Slid(w, tokens, origin, held0, s, p, keys, i, q) ==
    /\ {origin, held0, s, p, keys, q} \subseteq Nat /\ keys = held0 + s
    /\ TailOf(w, tokens, origin, keys) /\ origin + held0 = p
    /\ i \in 1 .. s /\ q = p + i - 1
    /\ g.window \in Nat /\ g.window >= 1 /\ held0 >= Smaller(p, g.window - 1)
\* The windowed mask over the seeds lets a query see its window of the sequence.
LEMMA SlideSeen ==
  ASSUME NEW w, NEW tokens, NEW origin \in Nat, NEW held0 \in Nat, NEW s \in Nat, NEW p \in Nat,
         NEW keys \in Nat, NEW i \in Int, NEW q \in Nat,
         Slid(w, tokens, origin, held0, s, p, keys, i, q)
  PROVE  [at |-> IdOf(q), keys |-> Windowed(w, origin, held0, s, i)] = Sight(tokens, q)
<1>1. /\ keys = held0 + s /\ TailOf(w, tokens, origin, keys) /\ origin + held0 = p
       /\ i \in 1 .. s /\ q = p + i - 1
       /\ g.window \in Nat /\ g.window >= 1 /\ held0 >= Smaller(p, g.window - 1)
  BY DEF Slid
<1>0. PICK n \in Nat : n = g.window
  BY <1>1
<1>2. PICK low \in Nat : low = Larger(0, q - n + 1)
  <2>1. Larger(0, q - n + 1) \in Nat
    BY DEF Larger
  <2> QED
    BY <2>1
<1>3. Seen(tokens, q) = low .. q
  BY <1>0, <1>2, <1>1 DEF Seen
<1>4. origin <= low
  BY <1>0, <1>1, <1>2 DEF Smaller, Larger
<1>5. Len(w) = held0 + s /\ \A j \in 1 .. held0 + s : w[j] = tokens[origin + j]
  BY <1>1 DEF TailOf
<1> DEFINE J == {k \in 0 .. Len(w) - 1 : CausalWindow(i - 1, k, held0, held0 + s, g.window)}
<1>6. Smaller(held0 - n + 1 + (i - 1), held0 + s - n) = held0 - n + 1 + (i - 1)
  BY <1>1 DEF Smaller
<1>7. J = {k \in 0 .. held0 + s - 1 : k <= held0 + (i - 1) /\ held0 - n + 1 + (i - 1) <= k}
  <2>1. J = {k \in 0 .. held0 + s - 1 : CausalWindow(i - 1, k, held0, held0 + s, n)}
    BY <1>0, <1>5, <1>1
  <2> HIDE DEF J
  <2>2. \A k \in 0 .. held0 + s - 1 :
          CausalWindow(i - 1, k, held0, held0 + s, n)
            <=> k <= held0 + (i - 1) /\ held0 - n + 1 + (i - 1) <= k
    BY <1>6, <1>1 DEF CausalWindow
  <2> QED
    BY <2>1, <2>2
<1> HIDE DEF J
<1>8. \A j \in J : j \in Nat /\ origin + j \in low .. q /\ w[j + 1] = tokens[(origin + j) + 1]
  <2> TAKE j \in J
  <2>1. j \in 0 .. held0 + s - 1 /\ j <= held0 + (i - 1) /\ held0 - n + 1 + (i - 1) <= j
    BY <1>7
  <2>2. origin + j \in low .. q
    BY <1>1, <1>2, <2>1 DEF Larger
  <2>3. j + 1 \in 1 .. held0 + s /\ origin + (j + 1) = (origin + j) + 1
    BY <1>1, <2>1
  <2>4. w[j + 1] = tokens[origin + (j + 1)]
    BY <1>5, <2>3
  <2>5. w[j + 1] = tokens[(origin + j) + 1]
    BY <2>3, <2>4
  <2> QED
    BY <2>1, <2>2, <2>5
<1>9. \A k \in low .. q : k - origin \in J /\ origin + (k - origin) = k
  <2> TAKE k \in low .. q
  <2>1. k - origin \in 0 .. held0 + s - 1 /\ k - origin <= held0 + (i - 1)
    BY <1>1, <1>4
  <2>2. held0 - n + 1 + (i - 1) <= k - origin
    BY <1>1, <1>2 DEF Larger
  <2> QED
    BY <1>7, <2>1, <2>2
<1> DEFINE Of(k) == [row |-> tokens[k + 1], bias |-> IF g.bias THEN k ELSE -1]
<1>10. \A j \in J : [row |-> w[j + 1], bias |-> IF g.bias THEN origin + j ELSE -1] = Of(origin + j)
  BY <1>8
<1>11. Sight(tokens, q) = [at |-> IdOf(q), keys |-> {Of(k) : k \in low .. q}]
  BY <1>3 DEF Sight
<1> HIDE DEF Of
<1>12. {[row |-> w[j + 1], bias |-> IF g.bias THEN origin + j ELSE -1] : j \in J} = {Of(k) : k \in low .. q}
  <2> DEFINE X == {[row |-> w[j + 1], bias |-> IF g.bias THEN origin + j ELSE -1] : j \in J}
  <2>1. X = {Of(origin + j) : j \in J}
    BY <1>10
  <2> HIDE DEF X
  <2>2. \A j \in J : Of(origin + j) \in {Of(k) : k \in low .. q}
    BY <1>8
  <2>3. \A k \in low .. q : Of(k) \in {Of(origin + j) : j \in J}
    BY <1>9
  <2> QED
    BY <2>1, <2>2, <2>3 DEF X
<1> QED
  BY <1>1, <1>11, <1>12 DEF J, Windowed

\* A member of a sliding batch attends to its window, and what is written back is what
\* the layout keeps of its sequence.
LEMMA SlidingRight ==
  ASSUME NEW c, NEW b, NEW old, NEW tokens, Asks(c, b, old, tokens), g.sliding,
         g.window \in 1 .. Len(c.past[b]), NEW staging \in BOOLEAN,
         ~staging => ~StagingNeeded(g, Geometry(g, c, b)),
         Turned(c, b, tokens), GqaSlidingMember(g, c, b, staging).ok
  PROVE  Serves(GqaSlidingMember(g, c, b, staging).present,
                GqaSlidingMember(g, c, b, staging).sees, c, tokens)
<1> DEFINE geo == Geometry(g, c, b)
           cap == Len(c.past[b])
           seed == IF staging THEN 0 ELSE geo.offset
           at == GqaRotaryRows(g, c, b, geo.p)
           stored == RowsOf(c.past[b], seed, geo.before) \o Rotated(c.new[b], at)
           held0 == geo.before - seed
           keys == held0 + c.s
           from == IF staging THEN geo.offset ELSE 0
           z == Zeros(cap - geo.after)
           present == RowsOf(stored, from, keys) \o z
           origin == geo.p - geo.before + seed
           Reached(i) == {k \in 0 .. Len(stored) - 1 :
                            CausalWindow(i - 1, k, held0, keys, g.window)}
           sees == [i \in 1 .. c.s |->
                      [at |-> at[i],
                       keys |-> {[row |-> stored[j + 1], bias |-> IF g.bias THEN origin + j ELSE -1] :
                                   j \in Reached(i)}]]
<1>1. at # <<>> /\ GqaSlidingMember(g, c, b, staging) = Answer(sees, present, WholeCopy)
  <2>1. ~Refuses.ok
    BY DEF Refuses
  <2>2. GqaSlidingMember(g, c, b, staging) =
          IF at = <<>> THEN Refuses ELSE Answer(sees, present, WholeCopy)
    BY DEF GqaSlidingMember, Attend
  <2> HIDE DEF at, sees, present
  <2> QED
    BY <2>1, <2>2
<1>2. /\ c.s \in Nat \ {0} /\ tokens \in Seq(Row) /\ c.past[b] \in Seq(Row)
      /\ NewAre(c, b, old, tokens) /\ Brings(c, b, old, tokens)
  BY AsksParts
<1>3. /\ Seeded(c, b, tokens, seed, geo.before, geo.after, geo.p)
      /\ geo.offset = geo.before - (geo.after - c.s)
  BY SeedsOfMember
<1> HIDE DEF geo
<1>4. PICK p \in Nat, before \in Nat, after \in Nat, sd \in Nat, s \in Nat :
        /\ p = geo.p /\ before = geo.before /\ after = geo.after /\ sd = seed /\ s = c.s
  <2> HIDE DEF seed
  <2>1. geo.p \in Nat /\ geo.before \in Nat /\ geo.after \in Nat /\ seed \in Nat
    BY <1>3 DEF Seeded
  <2> QED
    BY <1>2, <2>1
<1>5. Seeded(c, b, tokens, sd, before, after, p) /\ geo.offset = before - (after - s)
  BY <1>3, <1>4
<1> HIDE DEF seed
<1>6. /\ p = First(c, tokens) /\ Len(tokens) = p + s /\ before <= cap /\ before <= p
      /\ after <= p + s /\ sd <= before
      /\ before - (after - s) >= 0 /\ before - (after - s) <= before + s
      /\ before - sd >= Smaller(p, g.window - 1)
      /\ EndOf(Len(tokens)) = after
  BY <1>4, <1>5 DEF Seeded
<1>7. Sits(c.past[b], tokens, before, p)
  BY <1>4, <1>5 DEF Seeded, Sits
<1>8. Turns(at, c, tokens)
  BY <1>1, <1>4, <1>6 DEF Turned
<1>9. Rotated(c.new[b], at) = c.new[b]
  BY <1>8, NewRows
<1>10. TailOf(c.new[b], tokens, p, s)
  <2>1. c.new[b] \in Seq(Row) /\ Len(c.new[b]) = c.s /\ Len(old) = First(c, tokens)
    BY <1>2 DEF Brings
  <2>2. Len(old) = p /\ Len(tokens) - Len(old) = s
    BY <1>4, <1>6, <2>1
  <2> QED
    BY <1>2, <1>4, <2>1, <2>2 DEF NewAre, TailOf
<1> DEFINE st == RowsOf(c.past[b], sd, before) \o c.new[b]
<1>11. TailOf(st, tokens, p - before + sd, before - sd + s)
  BY <1>2, <1>6, <1>7, <1>10, SlideStored
<1>12. stored = st
  BY <1>4, <1>9
<1> HIDE DEF at, stored, st
<1>13. PICK og \in Nat, hd \in Nat, ks \in Nat, fr \in Nat :
         /\ og = p - before + sd /\ hd = before - sd /\ ks = hd + s
         /\ fr = IF staging THEN before - (after - s) ELSE 0
  <2>1. p - before + sd \in Nat /\ before - sd \in Nat /\ before - (after - s) \in Nat
    BY <1>6
  <2>2. before - sd + s \in Nat
    BY <2>1
  <2> QED
    BY <2>1, <2>2
<1>14. origin = og /\ held0 = hd /\ keys = ks /\ from = fr
  <2>1. origin = p - before + sd /\ held0 = before - sd
    BY <1>4
  <2>2. keys = before - sd + s
    BY <1>4
  <2>3. from = IF staging THEN before - (after - s) ELSE 0
    BY <1>5
  <2> QED
    BY <1>13, <2>1, <2>2, <2>3
<1>15. fr <= ks /\ after = ks - fr /\ Len(tokens) = og + ks /\ og + hd = p
  <2>1. CASE staging
    <3>1. sd = 0
      BY <1>4, <2>1 DEF seed
    <3> QED
      BY <1>6, <1>13, <2>1, <3>1
  <2>2. CASE ~staging
    <3>1. sd = before - (after - s)
      BY <1>4, <1>5, <2>2 DEF seed
    <3> QED
      BY <1>6, <1>13, <2>2, <3>1
  <2> QED
    BY <2>1, <2>2
<1>16. TailOf(stored, tokens, og, ks)
  BY <1>11, <1>12, <1>13
<1>17. z \in Seq(Row)
  <2>1. cap \in Nat /\ cap - after \in Int
    BY <1>2
  <2> QED
    BY <1>4, <2>1, ZerosType
<1>18. present \in Seq(Row) /\ Holding(present, tokens)
  <2> HIDE DEF z, from, keys
  <2>1. present = RowsOf(stored, fr, ks) \o z
    BY <1>14
  <2> HIDE DEF present
  <2> QED
    BY <1>6, <1>15, <1>16, <1>17, <2>1, SlideKept
<1>19. ASSUME NEW i \in 1 .. c.s PROVE sees[i] = Sight(tokens, p + i - 1)
  <2>1. at[i] = IdOf(p + i - 1)
    BY <1>6, <1>8 DEF Turns
  <2>2. sees[i] = [at |-> at[i],
                   keys |-> {[row |-> stored[j + 1], bias |-> IF g.bias THEN origin + j ELSE -1] :
                               j \in {k \in 0 .. Len(stored) - 1 :
                                        CausalWindow(i - 1, k, held0, keys, g.window)}}]
    OBVIOUS
  <2> HIDE DEF sees, origin, held0, keys
  <2>3. sees[i] = [at |-> at[i], keys |-> Windowed(stored, og, hd, s, i)]
    BY <1>13, <1>14, <2>2 DEF Windowed
  <2>4. i \in 1 .. s /\ g.window \in Nat /\ g.window >= 1 /\ hd >= Smaller(p, g.window - 1)
    <3>1. cap \in Nat
      BY <1>2
    <3>2. g.window \in Nat /\ g.window >= 1
      BY <3>1
    <3>3. hd >= Smaller(p, g.window - 1)
      BY <1>6, <1>13
    <3> QED
      BY <1>4, <3>2, <3>3
  <2>6. PICK q \in Nat : q = p + i - 1
    <3>1. p + i - 1 \in Nat
      BY <2>4
    <3> QED
      BY <3>1
  <2>7. [at |-> IdOf(q), keys |-> Windowed(stored, og, hd, s, i)] = Sight(tokens, q)
    <3>1. Slid(stored, tokens, og, hd, s, p, ks, i, q)
      BY <1>13, <1>15, <1>16, <2>4, <2>6 DEF Slid
    <3>2. i \in Int
      BY <2>4
    <3> QED
      BY <3>1, <3>2, SlideSeen
  <2> QED
    BY <2>1, <2>3, <2>6, <2>7
<1> HIDE DEF sees, present
<1>20. /\ GqaSlidingMember(g, c, b, staging).present = present
       /\ GqaSlidingMember(g, c, b, staging).sees = sees
  BY <1>1 DEF Answer
<1> QED
  BY <1>6, <1>18, <1>19, <1>20 DEF Serves
-----------------------------------------------------------------------------
\* A result whose changed rows alone bring a shared buffer up to date.
Whole(c, result) ==
    \/ result.delta = WholeCopy
    \/ \E rows \in Seq(Row), past \in Nat :
         /\ Len(c.past) = 1 /\ Len(rows) > 0 /\ past + Len(rows) <= Len(c.past[1])
         /\ result.present[1] = Overwritten(c.past[1], rows, past)
         /\ result.delta = [offset |-> past, count |-> Len(rows)]

\* A result with nothing but what an answer has.
Plainly(result) == result = Answer(result.sees, result.present, result.delta)

\* One member, in place or appended, attends to its own sequence and keeps it.
LEMMA SingleRight ==
  ASSUME NEW c, NEW old, NEW tokens, Asks(c, 1, old, tokens), ~g.sliding,
         c.new[1] # <<>>, Len(tokens) = Len(old) + c.s, Len(c.past) = 1,
         g.causal, g.window \in Int, g.window < 0,
         NEW at, Turns(at, c, tokens), NEW shared \in BOOLEAN,
         shared \/ Len(c.past[1]) = Len(old),
         GqaSingle(g, c, Len(old), at, shared).ok
  PROVE  LET result == GqaSingle(g, c, Len(old), at, shared) IN
         /\ Serves(result.present[1], result.sees[1], c, tokens)
         /\ Whole(c, result)
         /\ Plainly(result)
         /\ result.delta = IF shared THEN [offset |-> Len(old), count |-> c.s] ELSE WholeCopy
<1> DEFINE past == Len(old)
           cap == Len(c.past[1])
           rows == Rotated(c.new[1], at)
           present == IF shared THEN Overwritten(c.past[1], rows, past) ELSE c.past[1] \o rows
           prefix == IF shared THEN RowsOf(present, 0, past + c.s) ELSE present
           delta == IF shared THEN [offset |-> past, count |-> c.s] ELSE WholeCopy
           Reached(i) == {k \in 0 .. Len(prefix) - 1 :
                            IF g.bias THEN CausalTopLeft(i - 1, k, past)
                            ELSE CausalBottomRight(i - 1, k, c.s, Len(prefix))}
           sees == [i \in 1 .. c.s |->
                      [at |-> at[i],
                       keys |-> {[row |-> prefix[j + 1], bias |-> IF g.bias THEN 0 + j ELSE -1] :
                                   j \in Reached(i)}]]
           result == GqaSingle(g, c, past, at, shared)
<1>1. /\ c.s \in Nat \ {0} /\ old \in Seq(Row) /\ tokens \in Seq(Row) /\ c.past[1] \in Seq(Row)
      /\ c.new[1] \in Seq(Row) /\ Brings(c, 1, old, tokens)
      /\ past \in Nat /\ Len(tokens) = past + c.s /\ First(c, tokens) = past
      /\ \A k \in 1 .. past : tokens[k] = old[k]
  <2>1. /\ c.s \in Nat \ {0} /\ old \in Seq(Row) /\ tokens \in Seq(Row) /\ c.past[1] \in Seq(Row)
        /\ c.new[1] \in Seq(Row) /\ Brings(c, 1, old, tokens)
        /\ \A k \in 1 .. past : tokens[k] = old[k]
    BY AsksParts
  <2> QED
    BY <2>1 DEF Brings
<1>2. rows = c.new[1] /\ Len(c.new[1]) = c.s
  BY <1>1, NewRows DEF Brings
<1>3. past <= cap /\ \A k \in 1 .. past : c.past[1][k] = old[k]
  BY <1>1, HoldingAll DEF Asks
<1>4. (shared => past + c.s <= cap) /\ result = Answer(<<sees>>, <<present>>, delta)
  <2>1. ~Refuses.ok
    BY DEF Refuses
  <2>2. result = IF shared /\ past + c.s > cap THEN Refuses
                 ELSE Answer(<<sees>>, <<present>>, delta)
    BY DEF GqaSingle, Attend
  <2>3. ~(shared /\ past + c.s > cap)
    <3> HIDE DEF sees, present, delta, cap, past
    <3> QED
      BY <2>1, <2>2 DEF past
  <2>4. past + c.s > cap \/ past + c.s <= cap
    BY <1>1
  <2> HIDE DEF sees, present, delta, result
  <2> QED
    BY <2>2, <2>3, <2>4
<1> HIDE DEF rows
<1>5. prefix = tokens /\ present \in Seq(Row) /\ Holding(present, tokens)
  <2> DEFINE d == [i \in 1 .. c.s |-> c.new[1][i]]
  <2>0. /\ \A i \in 1 .. c.s : c.new[1][i] = tokens[past + i]
        /\ Len(tokens) - past = c.s
    BY <1>1 DEF Brings
  <2>1. CASE shared
    <3>1. /\ present \in Seq(Row) /\ Len(present) = cap
          /\ \A i \in 1 .. past : present[i] = c.past[1][i]
          /\ \A i \in 1 .. c.s : present[past + i] = c.new[1][i]
      <4>1. present = Overwritten(c.past[1], c.new[1], past)
        BY <1>2, <2>1
      <4>2. past + Len(c.new[1]) <= Len(c.past[1])
        BY <1>2, <1>4, <2>1
      <4> DEFINE w == Overwritten(c.past[1], c.new[1], past)
      <4>3. Written(w, c.past[1], c.new[1], past)
        BY <1>1, <4>2, OverwrittenElements
      <4> HIDE DEF present, w
      <4> QED
        BY <1>2, <4>1, <4>3 DEF w, Written
    <3>2. prefix = RowsOf(present, 0, past + c.s) /\ past + c.s <= cap
      BY <1>4, <2>1
    <3> HIDE DEF present, prefix
    <3>3. \A i \in 1 .. past + c.s : present[i] = tokens[i]
      <4> TAKE i \in 1 .. past + c.s
      <4>1. CASE i <= past
        BY <1>1, <1>3, <3>1, <4>1
      <4>2. CASE i > past
        <5>1. PICK j \in 1 .. c.s : i = past + j
          <6>1. i - past \in 1 .. c.s /\ i = past + (i - past)
            BY <1>1, <4>2
          <6> QED
            BY <6>1
        <5> QED
          BY <2>0, <3>1, <5>1
      <4> QED
        BY <1>1, <4>1, <4>2
    <3>4. /\ prefix \in Seq(Row) /\ Len(prefix) = past + c.s
          /\ \A i \in 1 .. past + c.s : prefix[i] = present[i]
      <4>1. PICK n \in Nat : n = past + c.s
        BY <1>1
      <4>2. n <= Len(present)
        BY <3>1, <3>2, <4>1
      <4>3. /\ RowsOf(present, 0, n) \in Seq(Row) /\ Len(RowsOf(present, 0, n)) = n
            /\ \A i \in 1 .. n : RowsOf(present, 0, n)[i] = present[i]
        BY <3>1, <4>2, FrontRows
      <4> QED
        BY <3>2, <4>1, <4>3
    <3>5. prefix = tokens
      BY <1>1, <3>3, <3>4, SameRows
    <3>6. Holding(present, tokens)
      BY <1>1, <3>1, <3>2, <3>3, HoldingAll
    <3> QED
      BY <3>1, <3>5, <3>6
  <2>2. CASE ~shared
    <3>1. present = c.past[1] \o c.new[1] /\ prefix = present /\ Len(c.past[1]) = past
      BY <1>2, <2>2
    <3> HIDE DEF present, prefix
    <3>2. c.past[1] \o c.new[1] = tokens
      <4>1. OldRows(c.past[1], old)
        BY <1>1, <1>3, <3>1 DEF OldRows
      <4>2. Added(c.new[1], c, 1, old, tokens)
        BY <1>1, <1>2, <2>0 DEF Added
      <4> DEFINE before == c.past[1]
                 more == c.new[1]
      <4>3. PICK b : OldRows(before, old) /\ Added(more, c, b, old, tokens) /\ Asks(c, b, old, tokens)
        BY <4>1, <4>2
      <4> HIDE DEF before, more
      <4>4. before \o more = tokens
        BY <4>3, OldThenNew
      <4> QED
        BY <4>4 DEF before, more
    <3>3. Holding(tokens, tokens)
      BY <1>1, HoldingAll
    <3> QED
      BY <1>1, <3>1, <3>2, <3>3
  <2> QED
    BY <2>1, <2>2
<1>6. ASSUME NEW i \in 1 .. c.s PROVE sees[i] = Sight(tokens, past + i - 1)
  <2> DEFINE q == past + i - 1
             J == Reached(i)
  <2>1. q \in Nat /\ q < Len(tokens) /\ past + (i - 1) = q /\ (i - 1) + (Len(tokens) - c.s) = q
    BY <1>1
  <2>2. at[i] = IdOf(q)
    BY <1>1 DEF Turns
  <2>3. Seen(tokens, q) = 0 .. q
    BY DEF Seen
  <2>4. sees[i] = [at |-> at[i],
                   keys |-> {[row |-> prefix[j + 1], bias |-> IF g.bias THEN 0 + j ELSE -1] : j \in J}]
    OBVIOUS
  <2> HIDE DEF prefix, sees
  <2>5. J = {k \in 0 .. Len(tokens) - 1 : k <= q}
    BY <1>5, <2>1 DEF CausalTopLeft, CausalBottomRight
  <2> HIDE DEF J, q
  <2>6. J = 0 .. q
    BY <1>1, <2>1, <2>5
  <2>7. \A j \in J : 0 + j = j
    BY <2>1, <2>6
  <2>8. sees[i] = Sight(tokens, q)
    BY <1>5, <2>2, <2>3, <2>4, <2>6, <2>7 DEF Sight
  <2> QED
    BY <2>8 DEF q
<1>7. Whole(c, result)
  <2>1. CASE shared
    <3>1. present = Overwritten(c.past[1], c.new[1], past) /\ delta = [offset |-> past, count |-> c.s]
      BY <1>2, <2>1
    <3>2. result.present = <<present>> /\ result.delta = delta
      <4> HIDE DEF result, present, delta, sees
      <4> QED
        BY <1>4 DEF Answer
    <3> HIDE DEF result, present, delta
    <3>3. Len(c.new[1]) > 0 /\ past + Len(c.new[1]) <= Len(c.past[1])
      BY <1>1, <1>2, <1>4, <2>1
    <3>4. /\ result.present[1] = Overwritten(c.past[1], c.new[1], past)
          /\ result.delta = [offset |-> past, count |-> Len(c.new[1])]
      BY <1>2, <3>1, <3>2
    <3> HIDE DEF past
    <3>5. past \in Nat /\ c.new[1] \in Seq(Row)
      BY <1>1
    <3> QED
      BY <3>3, <3>4, <3>5 DEF Whole
  <2>2. CASE ~shared
    <3>1. delta = WholeCopy
      BY <2>2
    <3> HIDE DEF result, present, delta, sees
    <3> QED
      BY <1>4, <3>1 DEF Answer, Whole
  <2> QED
    BY <2>1, <2>2
<1>8. Serves(present, sees, c, tokens)
  <2> HIDE DEF present, sees
  <2> QED
    BY <1>1, <1>5, <1>6 DEF Serves
<1> HIDE DEF present, sees, delta, result
<1>9. /\ result.present = <<present>> /\ result.sees = <<sees>> /\ result.delta = delta
  BY <1>4 DEF Answer
<1>10. Serves(result.present[1], result.sees[1], c, tokens)
  BY <1>8, <1>9
<1>11. Plainly(result)
  BY <1>4, <1>9 DEF Plainly
<1>12. result.delta = IF shared THEN [offset |-> Len(old), count |-> c.s] ELSE WholeCopy
  BY <1>9 DEF delta
<1> QED
  BY <1>7, <1>10, <1>11, <1>12 DEF result
-----------------------------------------------------------------------------
(* Whole calls.                                                            *)

\* Every member asks about its own sequence.
AskAll(c, k, olds, lists) ==
    /\ k \in Nat \ {0} /\ Len(c.past) = k
    /\ DOMAIN c.past = 1 .. k /\ DOMAIN c.lengths = 1 .. k /\ DOMAIN c.new = 1 .. k
    /\ \A b \in 1 .. k : Asks(c, b, olds[b], lists[b]) /\ Turned(c, b, lists[b])
    /\ k = 1 /\ c.new[1] # <<>> => /\ c.total = Len(lists[1])
                                   /\ Len(lists[1]) = Len(olds[1]) + c.s
Right(c, k, lists, result) ==
    /\ \A b \in 1 .. k : Serves(result.present[b], result.sees[b], c, lists[b])
    /\ Whole(c, result)

Typed == SessionAssumption /\ session \in Sessions

\* The batched handler serves every member.
LEMMA BatchedRight ==
  ASSUME NEW c, NEW k, NEW olds, NEW lists, AskAll(c, k, olds, lists), ~g.sliding, Typed,
         GqaBatched(g, c).ok
  PROVE  Right(c, k, lists, GqaBatched(g, c))
<1> DEFINE members == [b \in DOMAIN c.past |-> GqaMember(g, c, b)]
           sees == [b \in DOMAIN members |-> members[b].sees]
           present == [b \in DOMAIN members |-> members[b].present]
           result == GqaBatched(g, c)
<1>1. DOMAIN c.past = 1 .. k /\ DOMAIN c.lengths = 1 .. k
  BY DEF AskAll
<1>2. (\A b \in DOMAIN members : members[b].ok) /\ result = Answer(sees, present, WholeCopy)
  <2>1. ~Refuses.ok
    BY DEF Refuses
  <2>2. result = IF \/ ~LengthsAgree(c)
                    \/ \E b \in DOMAIN c.lengths : c.total # c.s /\ c.lengths[b] + 1 < c.s
                    \/ \E b \in DOMAIN members : ~members[b].ok
                 THEN Refuses ELSE Answer(sees, present, WholeCopy)
    BY DEF GqaBatched
  <2> HIDE DEF members, sees, present
  <2> QED
    BY <2>1, <2>2
<1>3. \A b \in 1 .. k : /\ members[b] = GqaMember(g, c, b) /\ b \in DOMAIN members
                        /\ sees[b] = members[b].sees /\ present[b] = members[b].present
  BY <1>1
<1> HIDE DEF members, sees, present, result
<1>4. result.present = present /\ result.sees = sees /\ result.delta = WholeCopy
  BY <1>2 DEF Answer
<1>5. ASSUME NEW b \in 1 .. k
      PROVE  Serves(result.present[b], result.sees[b], c, lists[b])
  <2>1. GqaMember(g, c, b).ok
    BY <1>2, <1>3
  <2>2. Asks(c, b, olds[b], lists[b]) /\ Turned(c, b, lists[b])
    BY DEF AskAll
  <2>3. Serves(GqaMember(g, c, b).present, GqaMember(g, c, b).sees, c, lists[b])
    <3>1. g.window \in Int
      BY DEF Typed, SessionAssumption, g
    <3> QED
      BY <2>1, <2>2, <3>1, MemberRight
  <2> QED
    BY <1>3, <1>4, <2>3
<1>6. Whole(c, result)
  BY <1>4 DEF Whole
<1> QED
  BY <1>5, <1>6 DEF Right, result

\* So does the sliding one, whichever way it makes room.
LEMMA SlidingAllRight ==
  ASSUME NEW c, NEW k, NEW olds, NEW lists, AskAll(c, k, olds, lists), g.sliding, Typed,
         GqaSliding(g, c).ok
  PROVE  Right(c, k, lists, GqaSliding(g, c)) /\ g.window \in 1 .. session.cap
<1> DEFINE staging == \E b \in DOMAIN c.past : StagingNeeded(g, Geometry(g, c, b))
           members == [b \in DOMAIN c.past |-> GqaSlidingMember(g, c, b, staging)]
           sees == [b \in DOMAIN members |-> members[b].sees]
           present == [b \in DOMAIN members |-> members[b].present]
           result == GqaSliding(g, c)
<1>1. DOMAIN c.past = 1 .. k /\ DOMAIN c.lengths = 1 .. k /\ 1 \in 1 .. k
  BY DEF AskAll
<1>2. /\ \A b \in DOMAIN members : members[b].ok
      /\ g.window \in 1 .. Len(c.past[1])
      /\ result = Answer(sees, present, WholeCopy)
  <2>1. ~Refuses.ok
    BY DEF Refuses
  <2>2. result = IF \/ ~LengthsAgree(c)
                    \/ \E b \in DOMAIN c.lengths : c.lengths[b] + 1 < c.s
                    \/ g.window \notin 1 .. Len(c.past[1])
                    \/ \E b \in DOMAIN members : ~members[b].ok
                 THEN Refuses ELSE Answer(sees, present, WholeCopy)
    BY DEF GqaSliding
  <2> HIDE DEF members, sees, present
  <2> QED
    BY <2>1, <2>2
<1>3. \A b \in 1 .. k : /\ members[b] = GqaSlidingMember(g, c, b, staging) /\ b \in DOMAIN members
                        /\ sees[b] = members[b].sees /\ present[b] = members[b].present
  BY <1>1
<1>4. \A b \in 1 .. k : ~staging => ~StagingNeeded(g, Geometry(g, c, b))
  BY <1>1
<1>5. staging \in BOOLEAN
  OBVIOUS
<1> HIDE DEF members, sees, present, result, staging
<1>6. result.present = present /\ result.sees = sees /\ result.delta = WholeCopy
  BY <1>2 DEF Answer
<1>7. \A b \in 1 .. k : Len(c.past[b]) = session.cap
  BY DEF AskAll, Asks
<1>8. ASSUME NEW b \in 1 .. k
      PROVE  Serves(result.present[b], result.sees[b], c, lists[b])
  <2>1. GqaSlidingMember(g, c, b, staging).ok
    BY <1>2, <1>3
  <2>2. Asks(c, b, olds[b], lists[b]) /\ Turned(c, b, lists[b])
    BY DEF AskAll
  <2>3. g.window \in 1 .. Len(c.past[b])
    BY <1>1, <1>2, <1>7
  <2>4. Serves(GqaSlidingMember(g, c, b, staging).present,
               GqaSlidingMember(g, c, b, staging).sees, c, lists[b])
    BY <1>4, <1>5, <2>1, <2>2, <2>3, SlidingRight
  <2> QED
    BY <1>3, <1>6, <2>4
<1>9. Whole(c, result)
  BY <1>6 DEF Whole
<1>10. g.window \in 1 .. session.cap
  BY <1>1, <1>2, <1>7
<1> QED
  BY <1>8, <1>9, <1>10 DEF Right, result

\* One member's right answer is the call's.
LEMMA OneIsAll ==
  ASSUME NEW c, NEW lists, NEW result,
         Serves(result.present[1], result.sees[1], c, lists[1]), Whole(c, result)
  PROVE  Right(c, 1, lists, result)
<1>1. \A b \in 1 .. 1 : b = 1
  OBVIOUS
<1> QED
  BY <1>1 DEF Right

\* The eager handler, whichever way it goes.
LEMMA EagerRight ==
  ASSUME NEW c, NEW k, NEW olds, NEW lists, AskAll(c, k, olds, lists), Typed,
         GroupQueryAttention(g, c).ok
  PROVE  Right(c, k, lists, GroupQueryAttention(g, c))
         /\ (g.sliding => g.window \in 1 .. session.cap)
<1> DEFINE past == c.total - Len(c.new[1])
           cap == Len(c.past[1])
           at == GqaRotaryRows(g, c, 1, past)
           mismatched == \E b \in DOMAIN c.new :
              Len(c.new[b]) # c.s /\ (c.new[b] # <<>> \/ ~g.past \/ g.sliding)
           unequal == /\ Len(c.past) = 1 /\ g.past
                      /\ (c.lengths # <<c.total - 1>> \/ past \notin 0 .. cap)
           unturned == ~Special(g, c) /\ at = <<>>
           result == GroupQueryAttention(g, c)
<1>1. result = IF mismatched \/ (~g.sliding /\ (unequal \/ unturned)) THEN Refuses
               ELSE IF g.sliding THEN GqaSliding(g, c)
               ELSE IF Special(g, c) THEN GqaBatched(g, c)
               ELSE GqaSingle(g, c, past, at, cap > past)
  BY DEF GroupQueryAttention
<1>2. ~Refuses.ok /\ result.ok
  BY DEF Refuses
<1>3. 1 \in 1 .. k /\ k \in Nat
  BY DEF AskAll
<1>7. at = <<>> /\ ~Special(g, c) => unturned
  OBVIOUS
<1> HIDE DEF mismatched, unequal, unturned, result, past, cap, at
<1>4. CASE g.sliding
  <2>1. result = GqaSliding(g, c)
    BY <1>1, <1>2, <1>4
  <2> QED
    BY <1>2, <1>4, <2>1, SlidingAllRight DEF result
<1>5. CASE ~g.sliding /\ Special(g, c)
  <2>1. result = GqaBatched(g, c)
    BY <1>1, <1>2, <1>5
  <2> QED
    BY <1>2, <1>5, <2>1, BatchedRight DEF result
<1>6. CASE ~g.sliding /\ ~Special(g, c)
  <2> DEFINE shared == cap > past
  <2>1. result = GqaSingle(g, c, past, at, shared) /\ at # <<>> /\ ~unequal
    BY <1>1, <1>2, <1>6, <1>7
  <2>2. /\ Len(c.past) = 1 /\ g.past /\ g.causal /\ ~(g.window >= 0) /\ c.new[1] # <<>>
    BY <1>6 DEF Special
  <2>3. k = 1 /\ c.total = Len(lists[1]) /\ Len(lists[1]) = Len(olds[1]) + c.s
    BY <2>2 DEF AskAll
  <2>4. Asks(c, 1, olds[1], lists[1]) /\ Turned(c, 1, lists[1])
    BY <1>3 DEF AskAll
  <2>5. /\ Brings(c, 1, olds[1], lists[1]) /\ olds[1] \in Seq(Row) /\ c.s \in Nat
        /\ c.past[1] \in Seq(Row)
    BY <2>2, <2>4, AsksParts
  <2>6. past = Len(olds[1]) /\ First(c, lists[1]) = Len(olds[1])
    BY <2>3, <2>5 DEF Brings, past
  <2>7. Turns(at, c, lists[1])
    BY <2>1, <2>4, <2>6 DEF Turned, at
  <2>8. past \in 0 .. cap
    BY <2>1, <2>2 DEF unequal, past, cap
  <2>9. g.window \in Int /\ g.window < 0
    <3>1. g.window \in Int
      BY DEF Typed, SessionAssumption, g
    <3> QED
      BY <2>2, <3>1
  <2>10. shared \in BOOLEAN /\ (shared \/ cap = Len(olds[1]))
    BY <2>5, <2>6, <2>8 DEF cap
  <2> HIDE DEF shared
  <2>11. GqaSingle(g, c, Len(olds[1]), at, shared).ok
    BY <1>2, <2>1, <2>6
  <2>12. /\ Serves(result.present[1], result.sees[1], c, lists[1])
         /\ Whole(c, result)
    BY <1>6, <2>1, <2>2, <2>3, <2>4, <2>6, <2>7, <2>9, <2>10, <2>11, SingleRight DEF cap
  <2>13. Right(c, 1, lists, result)
    BY <2>12, OneIsAll
  <2> QED
    BY <1>6, <2>3, <2>13 DEF result
<1> QED
  BY <1>4, <1>5, <1>6
-----------------------------------------------------------------------------
(* Which calls are refused.                                                *)

\* A call of member b that the node can take: its positions have rows in the rotary
\* caches, its queries are rows of the call, and a node without a cache gets new rows
\* of a sequence that begins with them.
Able(c, k, b, tokens) ==
    /\ Numbers(c, k, b, First(c, tokens)) /\ First(c, tokens) + c.s < g.ropeRows
    /\ c.s <= Len(tokens) \/ c.total = c.s
    /\ g.past \/ (c.new[b] # <<>> /\ First(c, tokens) = 0)
AbleAll(c, k, lists) ==
    /\ c.lengths \in [1 .. k -> Nat]
    /\ \E b \in 1 .. k : c.total = Len(lists[b])
    /\ \A b \in 1 .. k : Able(c, k, b, lists[b])

\* Positions inside the rotary caches are never refused.
LEMMA RotaryInside ==
  ASSUME Typed, NEW c, NEW k, NEW b, NEW first, Numbers(c, k, b, first),
         first + c.s < g.ropeRows
  PROVE  GqaRotaryRows(g, c, b, first) # <<>>
<1>0. g.ropeRows \in Nat
  BY DEF Typed, SessionAssumption, g
<1>1. /\ c.s \in Nat \ {0} /\ first \in Nat /\ Picked(first, c.s) \in [1 .. c.s -> Int]
      /\ GqaRotaryRows(g, c, b, first)
           = IF ~g.rotary THEN [i \in 1 .. c.s |-> -1]
             ELSE IF \A i \in 1 .. c.s : Picked(first, c.s)[i] \in 0 .. g.ropeRows - 1
                  THEN Picked(first, c.s) ELSE <<>>
  BY RotaryPicks
<1>2. \A i \in 1 .. c.s : Picked(first, c.s)[i] \in 0 .. g.ropeRows - 1
  BY <1>0, <1>1 DEF Picked
<1>3. 1 \in DOMAIN GqaRotaryRows(g, c, b, first)
  <2>1. CASE ~g.rotary
    BY <1>1, <2>1
  <2>2. CASE g.rotary
    BY <1>1, <1>2, <2>2
  <2> QED
    BY <2>1, <2>2
<1> QED
  BY <1>3

\* The row the result of a member has room for.
Room(c, b) == Larger(Len(c.past[b]), c.total)

\* A member of a batch is answered, with a cache as long as the longest needs.
LEMMA MemberAnswers ==
  ASSUME Typed, NEW c, NEW k, NEW b, NEW old, NEW tokens, Asks(c, b, old, tokens), ~g.sliding,
         Turned(c, b, tokens), Able(c, k, b, tokens)
  PROVE  GqaMember(g, c, b).ok /\ Len(GqaMember(g, c, b).present) = Room(c, b)
<1> DEFINE cap == Len(c.past[b])
           capacity == Larger(cap, c.total)
           length == c.lengths[b] + 1
           queryPast == Larger(length - c.s, 0)
           empty == c.new[b] = <<>>
           past == IF empty THEN length ELSE queryPast
           newRows == IF empty THEN 0 ELSE length - past
           at == GqaRotaryRows(g, c, b, queryPast)
           stored == RowsOf(c.past[b], 0, past) \o RowsOf(Rotated(c.new[b], at), 0, newRows)
           Allow(i, j) == IF g.window > 0 THEN CausalWindow(i, j, queryPast, length, g.window)
                          ELSE g.causal => CausalTopLeft(i, j, queryPast)
           tail == IF length < cap THEN RowsOf(c.past[b], length, cap) ELSE Zeros(capacity - length)
           kept == IF empty THEN c.past[b] ELSE stored \o tail
           present == kept \o Zeros(capacity - Len(kept))
           sees == Attend(g, stored, at, c.s, 0, Allow)
<1>1. GqaMember(g, c, b) =
        IF past > cap \/ (~g.past /\ past # 0) \/ at = <<>> THEN Refuses
        ELSE Answer(sees, present, WholeCopy)
  BY DEF GqaMember
<1> HIDE DEF sees, Allow
<1>2. /\ c.s \in Nat \ {0} /\ c.total \in Nat
      /\ old \in Seq(Row) /\ tokens \in Seq(Row) /\ c.past[b] \in Seq(Row) /\ c.new[b] \in Seq(Row)
      /\ Len(tokens) \in 1 .. c.total /\ c.lengths[b] = Len(tokens) - 1
      /\ Len(old) <= Len(tokens) /\ First(c, tokens) \in Nat
  BY AsksParts
<1>3. length = Len(tokens) /\ queryPast = First(c, tokens)
  BY <1>2 DEF First
<1>4. empty => tokens = old
  BY AsksParts
<1>5. ~empty => Len(old) = First(c, tokens) /\ Len(c.new[b]) = c.s
  BY AsksParts DEF Brings
<1>6. past = Len(old) /\ newRows = Len(tokens) - Len(old)
  <2> HIDE DEF length, queryPast, empty
  <2>1. past = Len(old)
    BY <1>3, <1>4, <1>5
  <2>2. Len(tokens) - Len(tokens) = 0
    BY <1>2
  <2> QED
    BY <1>3, <1>4, <2>1, <2>2
<1> HIDE DEF length, queryPast, past, newRows
<1>7. Len(old) <= cap
  BY <1>2, HoldingAll DEF Asks
<1>8. at # <<>>
  BY <1>3, RotaryInside DEF Able
<1>9. ~g.past => past = 0
  BY <1>5, <1>6 DEF Able
<1>10. Rotated(c.new[b], at) = c.new[b]
  <2>1. Turns(at, c, tokens)
    BY <1>3, <1>8 DEF Turned
  <2> HIDE DEF at
  <2> QED
    BY <2>1, NewRows
<1> HIDE DEF at
<1>11. cap \in Nat /\ capacity \in Nat /\ cap <= capacity /\ Len(tokens) <= capacity
  BY <1>2 DEF Larger
<1>12. GqaMember(g, c, b) = Answer(sees, present, WholeCopy)
  <2>1. ~(past > cap)
    BY <1>2, <1>6, <1>7, <1>11
  <2> HIDE DEF cap, present
  <2> QED
    BY <1>1, <1>8, <1>9, <2>1
<1>13. kept \in Seq(Row) /\ Len(kept) \in {cap, capacity}
  <2>1. CASE empty
    BY <1>2, <2>1
  <2>2. CASE ~empty
    <3> DEFINE a == RowsOf(c.past[b], 0, Len(old))
               d == RowsOf(c.new[b], 0, Len(tokens) - Len(old))
    <3>1. a \in Seq(Row) /\ Len(a) = Len(old)
      <4>1. PICK n \in Nat : n = Len(old)
        BY <1>2
      <4>2. RowsOf(c.past[b], 0, n) \in Seq(Row) /\ Len(RowsOf(c.past[b], 0, n)) = n
        BY <1>2, <1>7, <4>1, FrontRows
      <4> QED
        BY <4>1, <4>2
    <3>2. d \in Seq(Row) /\ Len(d) = Len(tokens) - Len(old)
      <4>0. Len(tokens) - Len(old) \in Nat
        BY <1>2
      <4>1. PICK n \in Nat : n = Len(tokens) - Len(old)
        BY <4>0
      <4>2. n <= Len(c.new[b])
        BY <1>2, <1>5, <2>2, <4>1 DEF First, Larger
      <4>3. RowsOf(c.new[b], 0, n) \in Seq(Row) /\ Len(RowsOf(c.new[b], 0, n)) = n
        BY <1>2, <4>1, <4>2, FrontRows
      <4> QED
        BY <4>1, <4>3
    <3>3. stored = a \o d
      BY <1>6, <1>10
    <3> HIDE DEF a, d
    <3>4. stored \in Seq(Row) /\ Len(stored) = Len(tokens)
      <4>1. a \o d \in Seq(Row) /\ Len(a \o d) = Len(a) + Len(d)
        BY <3>1, <3>2, Joining
      <4> HIDE DEF stored
      <4> QED
        BY <1>2, <3>1, <3>2, <3>3, <4>1
    <3>5. /\ tail \in Seq(Row)
          /\ Len(tail) = IF length < cap THEN cap - length ELSE capacity - length
      <4>1. PICK n \in Nat : n = length
        BY <1>2, <1>3
      <4>2. CASE n < cap
        <5>1. PICK m \in Nat : m = cap
          BY <1>11
        <5>2. /\ RowsOf(c.past[b], n, m) \in Seq(Row)
              /\ Len(RowsOf(c.past[b], n, m)) = IF n <= m THEN m - n ELSE 0
          BY <1>2, RowsOfElements
        <5>3. tail = RowsOf(c.past[b], n, m)
          BY <4>1, <4>2, <5>1
        <5> HIDE DEF tail, cap
        <5> QED
          BY <4>1, <4>2, <5>1, <5>2, <5>3
      <4>3. CASE ~(n < cap)
        <5>1. PICK m \in Nat : m = capacity - n
          BY <1>3, <1>11, <4>1
        <5>2. Zeros(m) \in Seq(Row) /\ Len(Zeros(m)) = m
          BY ZerosType
        <5>3. tail = Zeros(m)
          BY <4>1, <4>3, <5>1
        <5> HIDE DEF tail, cap, capacity
        <5> QED
          BY <4>1, <4>3, <5>1, <5>2, <5>3
      <4> QED
        BY <4>2, <4>3
    <3>6. stored \o tail \in Seq(Row) /\ Len(stored \o tail) = Len(stored) + Len(tail)
      <4> HIDE DEF stored, tail
      <4> QED
        BY <3>4, <3>5, Joining
    <3>7. kept = stored \o tail
      BY <2>2
    <3> HIDE DEF stored, tail, kept, cap, capacity
    <3> QED
      BY <1>2, <1>3, <1>11, <3>4, <3>5, <3>6, <3>7
  <2> QED
    BY <2>1, <2>2
<1>14. Len(present) = capacity
  <2> HIDE DEF kept, cap, capacity
  <2>1. PICK m \in Nat : m = capacity - Len(kept)
    BY <1>11, <1>13
  <2>2. Zeros(m) \in Seq(Row) /\ Len(Zeros(m)) = m
    BY ZerosType
  <2>3. Len(kept \o Zeros(m)) = Len(kept) + Len(Zeros(m))
    BY <1>13, <2>2, Joining
  <2> QED
    BY <1>11, <1>13, <2>1, <2>2, <2>3
<1> HIDE DEF present, capacity
<1> QED
  BY <1>12, <1>14 DEF Answer, Room, capacity

\* A member of a sliding batch is answered, with a cache of the size it came with.
LEMMA SlidingMemberAnswers ==
  ASSUME Typed, NEW c, NEW k, NEW b, NEW old, NEW tokens, Asks(c, b, old, tokens), g.sliding,
         g.window \in 1 .. Len(c.past[b]), NEW staging \in BOOLEAN,
         ~staging => ~StagingNeeded(g, Geometry(g, c, b)),
         Turned(c, b, tokens), Able(c, k, b, tokens)
  PROVE  /\ GqaSlidingMember(g, c, b, staging).ok
         /\ Len(GqaSlidingMember(g, c, b, staging).present) = Len(c.past[b])
<1> DEFINE geo == Geometry(g, c, b)
           cap == Len(c.past[b])
           seed == IF staging THEN 0 ELSE geo.offset
           at == GqaRotaryRows(g, c, b, geo.p)
           a == RowsOf(c.past[b], seed, geo.before)
           stored == a \o Rotated(c.new[b], at)
           held0 == geo.before - seed
           keys == held0 + c.s
           from == IF staging THEN geo.offset ELSE 0
           present == RowsOf(stored, from, keys) \o Zeros(cap - geo.after)
           Allow(i, j) == CausalWindow(i, j, held0, keys, g.window)
           sees == Attend(g, stored, at, c.s, geo.p - geo.before + seed, Allow)
<1>1. GqaSlidingMember(g, c, b, staging) =
        IF at = <<>> THEN Refuses ELSE Answer(sees, present, WholeCopy)
  BY DEF GqaSlidingMember
<1> HIDE DEF sees, Allow
<1>2. /\ c.s \in Nat \ {0} /\ tokens \in Seq(Row) /\ c.past[b] \in Seq(Row)
      /\ c.new[b] \in Seq(Row) /\ Brings(c, b, old, tokens) /\ c.lengths[b] = Len(tokens) - 1
  BY AsksParts
<1>3. c.s <= Len(tokens)
  BY DEF Asks
<1>4. /\ Seeded(c, b, tokens, seed, geo.before, geo.after, geo.p)
      /\ geo.offset = geo.before - (geo.after - c.s)
  BY SeedsOfMember
<1>5. geo.after \in 0 .. Len(c.past[b])
  <2>1. Slides(g, c, b)
    BY <1>2, <1>3 DEF Slides
  <2> QED
    BY <2>1, SeedsInside
<1> HIDE DEF geo
<1>6. PICK before \in Nat, after \in Nat, sd \in Nat, s \in Nat, cp \in Nat :
        /\ before = geo.before /\ after = geo.after /\ sd = seed /\ s = c.s /\ cp = cap
  <2> HIDE DEF seed
  <2>1. geo.before \in Nat /\ geo.after \in Nat /\ seed \in Nat
    BY <1>4 DEF Seeded
  <2>2. cap \in Nat
    BY <1>2
  <2> QED
    BY <1>2, <2>1, <2>2
<1>7. /\ Seeded(c, b, tokens, sd, before, after, geo.p) /\ geo.offset = before - (after - s)
  BY <1>4, <1>6
<1>8. /\ geo.p = First(c, tokens) /\ before <= cp /\ sd <= before /\ after <= cp
      /\ before - (after - s) >= 0 /\ before - (after - s) <= before + s
      /\ sd = IF staging THEN 0 ELSE before - (after - s)
      /\ from = IF staging THEN before - (after - s) ELSE 0
  <2>1. sd = IF staging THEN 0 ELSE before - (after - s)
    BY <1>6, <1>7
  <2>2. from = IF staging THEN before - (after - s) ELSE 0
    BY <1>7
  <2>3. after <= cp
    BY <1>5, <1>6
  <2> QED
    BY <1>6, <1>7, <2>1, <2>2, <2>3 DEF Seeded
<1> HIDE DEF seed
<1>9. at # <<>>
  BY <1>8, RotaryInside DEF Able
<1>10. Rotated(c.new[b], at) = c.new[b]
  <2>1. Turns(at, c, tokens)
    BY <1>8, <1>9 DEF Turned
  <2> HIDE DEF at
  <2> QED
    BY <2>1, NewRows
<1> HIDE DEF at
<1>11. stored \in Seq(Row) /\ Len(stored) = before - sd + s
  <2>1. /\ RowsOf(c.past[b], sd, before) \in Seq(Row)
        /\ Len(RowsOf(c.past[b], sd, before)) = IF sd <= before THEN before - sd ELSE 0
    BY <1>2, RowsOfElements
  <2>2. a \in Seq(Row) /\ Len(a) = before - sd
    BY <1>6, <1>8, <2>1
  <2>3. c.new[b] \in Seq(Row) /\ Len(c.new[b]) = s
    BY <1>2, <1>6 DEF Brings
  <2> HIDE DEF a
  <2>4. a \o c.new[b] \in Seq(Row) /\ Len(a \o c.new[b]) = Len(a) + Len(c.new[b])
    BY <2>2, <2>3, Joining
  <2> QED
    BY <1>10, <2>2, <2>3, <2>4
<1> HIDE DEF stored
<1>12. PICK ks \in Nat, fr \in Nat :
         ks = before - sd + s /\ fr = (IF staging THEN before - (after - s) ELSE 0)
  <2>1. before - sd + s \in Nat
    BY <1>8
  <2>2. before - (after - s) \in Nat
    BY <1>8
  <2> QED
    BY <2>1, <2>2
<1>13. keys = ks /\ from = fr /\ fr <= ks /\ ks - fr = after
  <2>1. keys = ks
    BY <1>6, <1>12
  <2>2. from = fr
    BY <1>8, <1>12
  <2>3. fr <= ks /\ ks - fr = after
    BY <1>8, <1>12
  <2> QED
    BY <2>1, <2>2, <2>3
<1> HIDE DEF keys, from
<1>14. /\ RowsOf(stored, fr, ks) \in Seq(Row)
       /\ Len(RowsOf(stored, fr, ks)) = IF fr <= ks THEN ks - fr ELSE 0
  BY <1>11, RowsOfElements
<1>15. PICK m \in Nat : m = cp - after
  <2>1. cp - after \in Nat
    BY <1>8
  <2> QED
    BY <2>1
<1>16. Zeros(m) \in Seq(Row) /\ Len(Zeros(m)) = m
  BY ZerosType
<1> DEFINE u == RowsOf(stored, fr, ks)
           v == Zeros(m)
<1>17. present = u \o v
  BY <1>6, <1>13, <1>15
<1>18. u \in Seq(Row) /\ v \in Seq(Row) /\ Len(u) = after /\ Len(v) = cp - after
  BY <1>13, <1>14, <1>15, <1>16
<1> HIDE DEF u, v, present, cap
<1>19. Len(present) = cp
  <2>1. Len(u \o v) = Len(u) + Len(v)
    BY <1>18, Joining
  <2> QED
    BY <1>17, <1>18, <2>1
<1> QED
  BY <1>1, <1>6, <1>9, <1>19 DEF Answer, cap

\* The lengths of a call are those of its members.
LEMMA LengthsTold ==
  ASSUME NEW c, NEW k, NEW olds, NEW lists, AskAll(c, k, olds, lists), AbleAll(c, k, lists)
  PROVE  LengthsAgree(c) /\ c.total \in Nat \ {0}
<1>1. k \in Nat \ {0} /\ Len(c.past) = k /\ c.lengths \in [1 .. k -> Nat]
  BY DEF AskAll, AbleAll
<1>2. \A b \in 1 .. k : /\ Len(lists[b]) \in 1 .. c.total /\ c.total \in Nat
                        /\ c.lengths[b] = Len(lists[b]) - 1
  <2> TAKE b \in 1 .. k
  <2>1. Asks(c, b, olds[b], lists[b])
    BY DEF AskAll
  <2> QED
    BY <2>1, AsksParts
<1>3. PICK d \in 1 .. k : c.total = Len(lists[d])
  BY DEF AbleAll
<1>4. c.total \in Nat \ {0}
  BY <1>2, <1>3
<1>5. \A b \in 1 .. k : c.lengths[b] \in 0 .. c.total - 1
  BY <1>2, <1>4
<1>6. c.lengths[d] = c.total - 1
  BY <1>2, <1>3
<1> DEFINE f == c.lengths
<1>7. Widest(f) = c.total - 1
  <2>0. f \in [1 .. k -> Nat] /\ f[d] = c.total - 1 /\ \A b \in 1 .. k : f[b] \in 0 .. c.total - 1
    BY <1>1, <1>5, <1>6
  <2> HIDE DEF f
  <2>1. /\ Widest(f) \in Nat /\ \A b \in 1 .. k : f[b] <= Widest(f)
        /\ \E b \in 1 .. k : f[b] = Widest(f)
    BY <1>1, <2>0, WidestIs
  <2>2. f[d] <= Widest(f)
    BY <2>1
  <2> QED
    BY <1>4, <2>0, <2>1, <2>2
<1>8. Len(c.lengths) = k /\ DOMAIN c.lengths = 1 .. k
  BY <1>1
<1> QED
  BY <1>1, <1>4, <1>5, <1>7, <1>8 DEF LengthsAgree

\* A result has caches of the right size, unless the one member of a call crosses the
\* end of a cache that has unused rows.
Sized(c, k, result) ==
    \A b \in 1 .. k : Len(result.present[b]) = IF g.sliding THEN Len(c.past[b]) ELSE Room(c, b)
Overflows(c, k) ==
    k = 1 /\ ~g.sliding /\ Len(c.past[1]) > 0 /\ c.total > Len(c.past[1])
Answered(c, k, result) == IF result.ok THEN Sized(c, k, result) ELSE Overflows(c, k)

\* The batched handler refuses no call that its members can make.
LEMMA BatchedAnswers ==
  ASSUME NEW c, NEW k, NEW olds, NEW lists, AskAll(c, k, olds, lists), AbleAll(c, k, lists),
         ~g.sliding, Typed
  PROVE  Answered(c, k, GqaBatched(g, c))
<1> DEFINE members == [b \in DOMAIN c.past |-> GqaMember(g, c, b)]
           sees == [b \in DOMAIN members |-> members[b].sees]
           present == [b \in DOMAIN members |-> members[b].present]
           result == GqaBatched(g, c)
<1>1. DOMAIN c.past = 1 .. k /\ DOMAIN c.lengths = 1 .. k
  BY DEF AskAll
<1>2. result = IF \/ ~LengthsAgree(c)
                  \/ \E b \in DOMAIN c.lengths : c.total # c.s /\ c.lengths[b] + 1 < c.s
                  \/ \E b \in DOMAIN members : ~members[b].ok
               THEN Refuses ELSE Answer(sees, present, WholeCopy)
  BY DEF GqaBatched
<1>3. \A b \in 1 .. k : /\ members[b] = GqaMember(g, c, b) /\ b \in DOMAIN members
                        /\ present[b] = members[b].present
  BY <1>1
<1>4. DOMAIN members = 1 .. k
  BY <1>1
<1> HIDE DEF members, sees, present, result
<1>5. ASSUME NEW b \in 1 .. k
      PROVE  /\ members[b].ok /\ Len(present[b]) = Room(c, b)
             /\ c.total # c.s => ~(c.lengths[b] + 1 < c.s)
  <2>1. Asks(c, b, olds[b], lists[b]) /\ Turned(c, b, lists[b]) /\ Able(c, k, b, lists[b])
    BY DEF AskAll, AbleAll
  <2>2. GqaMember(g, c, b).ok /\ Len(GqaMember(g, c, b).present) = Room(c, b)
    BY <2>1, MemberAnswers
  <2>3. c.lengths[b] = Len(lists[b]) - 1 /\ lists[b] \in Seq(Row) /\ c.s \in Nat
    BY <2>1, AsksParts
  <2>4. c.total # c.s => c.s <= Len(lists[b])
    BY <2>1 DEF Able
  <2> QED
    BY <1>3, <2>2, <2>3, <2>4
<1>6. LengthsAgree(c)
  BY LengthsTold
<1>7. result = Answer(sees, present, WholeCopy)
  BY <1>1, <1>2, <1>4, <1>5, <1>6
<1>8. result.ok /\ result.present = present
  BY <1>7 DEF Answer
<1> QED
  BY <1>5, <1>8 DEF Answered, Sized, result

\* Neither does the sliding one, whose window fits the cache.
LEMMA SlidingAnswers ==
  ASSUME NEW c, NEW k, NEW olds, NEW lists, AskAll(c, k, olds, lists), AbleAll(c, k, lists),
         g.sliding, g.window \in 1 .. session.cap, Typed
  PROVE  Answered(c, k, GqaSliding(g, c))
<1> DEFINE staging == \E b \in DOMAIN c.past : StagingNeeded(g, Geometry(g, c, b))
           members == [b \in DOMAIN c.past |-> GqaSlidingMember(g, c, b, staging)]
           sees == [b \in DOMAIN members |-> members[b].sees]
           present == [b \in DOMAIN members |-> members[b].present]
           result == GqaSliding(g, c)
<1>1. DOMAIN c.past = 1 .. k /\ DOMAIN c.lengths = 1 .. k /\ 1 \in 1 .. k
  BY DEF AskAll
<1>2. result = IF \/ ~LengthsAgree(c)
                  \/ \E b \in DOMAIN c.lengths : c.lengths[b] + 1 < c.s
                  \/ g.window \notin 1 .. Len(c.past[1])
                  \/ \E b \in DOMAIN members : ~members[b].ok
               THEN Refuses ELSE Answer(sees, present, WholeCopy)
  BY DEF GqaSliding
<1>3. \A b \in 1 .. k : /\ members[b] = GqaSlidingMember(g, c, b, staging)
                        /\ present[b] = members[b].present
  BY <1>1
<1>4. \A b \in 1 .. k : ~staging => ~StagingNeeded(g, Geometry(g, c, b))
  BY <1>1
<1>5. staging \in BOOLEAN /\ DOMAIN members = 1 .. k
  BY <1>1
<1> HIDE DEF members, sees, present, result, staging
<1>6. \A b \in 1 .. k : Len(c.past[b]) = session.cap
  BY DEF AskAll, Asks
<1>7. ASSUME NEW b \in 1 .. k
      PROVE  /\ members[b].ok /\ Len(present[b]) = Len(c.past[b])
             /\ ~(c.lengths[b] + 1 < c.s)
  <2>1. Asks(c, b, olds[b], lists[b]) /\ Turned(c, b, lists[b]) /\ Able(c, k, b, lists[b])
    BY DEF AskAll, AbleAll
  <2>2. g.window \in 1 .. Len(c.past[b])
    BY <1>6
  <2>3. /\ GqaSlidingMember(g, c, b, staging).ok
        /\ Len(GqaSlidingMember(g, c, b, staging).present) = Len(c.past[b])
    BY <1>4, <1>5, <2>1, <2>2, SlidingMemberAnswers
  <2>4. c.lengths[b] = Len(lists[b]) - 1 /\ lists[b] \in Seq(Row) /\ c.s \in Nat
    BY <2>1, AsksParts
  <2>5. c.s <= Len(lists[b])
    BY <2>1 DEF Asks
  <2> QED
    BY <1>3, <2>3, <2>4, <2>5
<1>8. LengthsAgree(c) /\ g.window \in 1 .. Len(c.past[1])
  BY <1>1, <1>6, LengthsTold
<1>9. result = Answer(sees, present, WholeCopy)
  BY <1>1, <1>2, <1>5, <1>7, <1>8
<1>10. result.ok /\ result.present = present
  BY <1>9 DEF Answer
<1> QED
  BY <1>7, <1>10 DEF Answered, Sized, result

\* One member is refused only where its buffer ends.
LEMMA SingleAnswers ==
  ASSUME NEW c, NEW old, NEW tokens, Asks(c, 1, old, tokens), ~g.sliding,
         c.new[1] # <<>>, c.total = Len(tokens), Len(tokens) = Len(old) + c.s,
         NEW at, Turns(at, c, tokens), NEW shared \in BOOLEAN,
         shared => Len(c.past[1]) > Len(old), ~shared => Len(c.past[1]) = Len(old)
  PROVE  Answered(c, 1, GqaSingle(g, c, Len(old), at, shared))
<1> DEFINE past == Len(old)
           cap == Len(c.past[1])
           rows == Rotated(c.new[1], at)
           present == IF shared THEN Overwritten(c.past[1], rows, past) ELSE c.past[1] \o rows
           prefix == IF shared THEN RowsOf(present, 0, past + c.s) ELSE present
           Allow(i, j) == IF g.bias THEN CausalTopLeft(i, j, past)
                          ELSE CausalBottomRight(i, j, c.s, Len(prefix))
           sees == <<Attend(g, prefix, at, c.s, 0, Allow)>>
           delta == IF shared THEN [offset |-> past, count |-> c.s] ELSE WholeCopy
           result == GqaSingle(g, c, past, at, shared)
<1>1. result = IF shared /\ past + c.s > cap THEN Refuses ELSE Answer(sees, <<present>>, delta)
  BY DEF GqaSingle
<1> HIDE DEF sees, Allow, prefix, result, delta
<1>2. /\ c.s \in Nat \ {0} /\ c.total \in Nat /\ past \in Nat /\ cap \in Nat
      /\ c.past[1] \in Seq(Row) /\ c.new[1] \in Seq(Row) /\ Brings(c, 1, old, tokens)
  BY AsksParts
<1>3. rows = c.new[1] /\ Len(c.new[1]) = c.s
  BY <1>2, NewRows DEF Brings
<1>4. c.total = past + c.s
  OBVIOUS
<1> HIDE DEF rows
<1>5. CASE shared /\ past + c.s > cap
  <2>1. ~result.ok
    BY <1>1, <1>5 DEF Refuses
  <2>2. cap > 0 /\ c.total > cap
    BY <1>2, <1>4, <1>5
  <2> QED
    BY <2>1, <2>2 DEF Answered, Overflows, result
<1>6. CASE ~(shared /\ past + c.s > cap)
  <2>1. result.ok /\ result.present[1] = present
    BY <1>1, <1>6 DEF Answer
  <2>2. Len(present) = Larger(cap, c.total)
    <3>1. CASE shared
      <4>1. present = Overwritten(c.past[1], c.new[1], past)
        BY <1>3, <3>1
      <4>2. Written(Overwritten(c.past[1], c.new[1], past), c.past[1], c.new[1], past)
        <5>1. past + Len(c.new[1]) <= Len(c.past[1])
          BY <1>2, <1>3, <1>6, <3>1
        <5> HIDE DEF past
        <5> QED
          BY <1>2, <5>1, OverwrittenElements
      <4>3. Len(present) = cap
        BY <4>1, <4>2 DEF Written
      <4> HIDE DEF present, cap, past
      <4> QED
        BY <1>2, <1>4, <1>6, <3>1, <4>3 DEF Larger
    <3>2. CASE ~shared
      <4>1. present = c.past[1] \o c.new[1]
        BY <1>3, <3>2
      <4>2. Len(c.past[1] \o c.new[1]) = Len(c.past[1]) + Len(c.new[1])
        BY <1>2, Joining
      <4>3. Len(present) = cap + c.s /\ cap = past
        BY <1>3, <3>2, <4>1, <4>2
      <4> HIDE DEF present, cap, past
      <4> QED
        BY <1>2, <1>4, <4>3 DEF Larger
    <3> QED
      BY <3>1, <3>2
  <2> HIDE DEF present
  <2>3. \A b \in 1 .. 1 : b = 1
    OBVIOUS
  <2> QED
    BY <2>1, <2>2, <2>3 DEF Answered, Sized, Room, result
<1> QED
  BY <1>5, <1>6

\* The eager handler refuses nothing else.
LEMMA EagerAnswers ==
  ASSUME NEW c, NEW k, NEW olds, NEW lists, AskAll(c, k, olds, lists), AbleAll(c, k, lists),
         g.sliding => g.window \in 1 .. session.cap, Typed
  PROVE  Answered(c, k, GroupQueryAttention(g, c))
<1> DEFINE past == c.total - Len(c.new[1])
           cap == Len(c.past[1])
           at == GqaRotaryRows(g, c, 1, past)
           mismatched == \E b \in DOMAIN c.new :
              Len(c.new[b]) # c.s /\ (c.new[b] # <<>> \/ ~g.past \/ g.sliding)
           unequal == /\ Len(c.past) = 1 /\ g.past
                      /\ (c.lengths # <<c.total - 1>> \/ past \notin 0 .. cap)
           unturned == ~Special(g, c) /\ at = <<>>
           result == GroupQueryAttention(g, c)
<1>1. result = IF mismatched \/ (~g.sliding /\ (unequal \/ unturned)) THEN Refuses
               ELSE IF g.sliding THEN GqaSliding(g, c)
               ELSE IF Special(g, c) THEN GqaBatched(g, c)
               ELSE GqaSingle(g, c, past, at, cap > past)
  BY DEF GroupQueryAttention
<1>2. 1 \in 1 .. k /\ k \in Nat \ {0} /\ DOMAIN c.new = 1 .. k /\ Len(c.past) = k
  BY DEF AskAll
<1>3. ~mismatched
  <2> SUFFICES ASSUME NEW b \in 1 .. k, Len(c.new[b]) # c.s
               PROVE  c.new[b] = <<>> /\ g.past /\ ~g.sliding
    BY <1>2
  <2>1. Asks(c, b, olds[b], lists[b]) /\ Able(c, k, b, lists[b])
    BY DEF AskAll, AbleAll
  <2>2. c.new[b] = <<>>
    BY <2>1, AsksParts DEF Brings
  <2> QED
    BY <2>1, <2>2 DEF Able, Asks
<1>4. Asks(c, 1, olds[1], lists[1]) /\ Turned(c, 1, lists[1]) /\ Able(c, k, 1, lists[1])
  BY <1>2 DEF AskAll, AbleAll
<1>5. /\ olds[1] \in Seq(Row) /\ lists[1] \in Seq(Row) /\ c.past[1] \in Seq(Row) /\ c.s \in Nat
      /\ c.new[1] # <<>> => Brings(c, 1, olds[1], lists[1])
      /\ c.new[1] = <<>> => lists[1] = olds[1]
      /\ c.lengths[1] = Len(lists[1]) - 1
  BY <1>4, AsksParts
<1>6. k = 1 => c.total = Len(lists[1])
  BY <1>2 DEF AbleAll
<1>7. k = 1 => past = Len(olds[1])
  <2>1. CASE k = 1 /\ c.new[1] = <<>>
    <3>1. c.total = Len(olds[1]) /\ Len(c.new[1]) = 0
      BY <1>5, <1>6, <2>1
    <3> QED
      BY <1>5, <3>1
  <2>2. CASE k = 1 /\ c.new[1] # <<>>
    <3>1. c.total = Len(olds[1]) + c.s
      BY <2>2 DEF AskAll
    <3>2. Len(c.new[1]) = c.s
      BY <1>5, <2>2 DEF Brings
    <3> QED
      BY <1>5, <3>1, <3>2
  <2> QED
    BY <2>1, <2>2
<1>8. ~g.sliding => Len(olds[1]) <= cap
  BY <1>4, <1>5, HoldingAll DEF Asks
<1>9. ~g.sliding => ~unequal
  <2> SUFFICES ASSUME ~g.sliding, k = 1
               PROVE  c.lengths = <<c.total - 1>> /\ past \in 0 .. cap
    BY <1>2
  <2>1. c.lengths \in [1 .. 1 -> Nat] /\ c.lengths[1] = c.total - 1
    BY <1>5, <1>6 DEF AbleAll
  <2>2. c.lengths = <<c.total - 1>>
    BY <2>1
  <2>3. past \in 0 .. cap
    <3> HIDE DEF past
    <3> QED
      BY <1>5, <1>7, <1>8
  <2> QED
    BY <2>2, <2>3
<1>10. ~Special(g, c) => k = 1 /\ c.new[1] # <<>>
  BY <1>2 DEF Special
<1>11. ~Special(g, c) =>
         First(c, lists[1]) = past /\ past = Len(olds[1]) /\ at # <<>> /\ Turns(at, c, lists[1])
  <2> SUFFICES ASSUME ~Special(g, c)
               PROVE  First(c, lists[1]) = past /\ past = Len(olds[1]) /\ at # <<>>
                      /\ Turns(at, c, lists[1])
    OBVIOUS
  <2>1. First(c, lists[1]) = past /\ past = Len(olds[1])
    BY <1>5, <1>7, <1>10 DEF Brings
  <2> HIDE DEF past
  <2>2. at # <<>>
    BY <1>4, <2>1, RotaryInside DEF Able
  <2>3. Turns(at, c, lists[1])
    BY <1>4, <2>1, <2>2 DEF Turned
  <2> QED
    BY <2>1, <2>2, <2>3
<1>12. ~unturned
  BY <1>11
<1> HIDE DEF mismatched, unequal, unturned, result, past, cap, at
<1>13. CASE g.sliding
  <2>1. result = GqaSliding(g, c)
    BY <1>1, <1>3, <1>13
  <2> QED
    BY <1>13, <2>1, SlidingAnswers DEF result
<1>14. CASE ~g.sliding /\ Special(g, c)
  <2>1. result = GqaBatched(g, c)
    BY <1>1, <1>3, <1>9, <1>12, <1>14
  <2> QED
    BY <1>14, <2>1, BatchedAnswers DEF result
<1>15. CASE ~g.sliding /\ ~Special(g, c)
  <2> DEFINE shared == cap > past
  <2>1. result = GqaSingle(g, c, past, at, shared)
    BY <1>1, <1>3, <1>9, <1>12, <1>15
  <2>2. k = 1 /\ c.total = Len(lists[1]) /\ Len(lists[1]) = Len(olds[1]) + c.s
    BY <1>10, <1>15 DEF AskAll
  <2>3. /\ past = Len(olds[1]) /\ past <= cap /\ past \in Nat /\ cap \in Nat
        /\ Turns(at, c, lists[1])
    BY <1>5, <1>8, <1>11, <1>15 DEF cap
  <2>4. shared \in BOOLEAN /\ (shared => cap > past) /\ (~shared => cap = past)
    BY <2>3
  <2> HIDE DEF shared
  <2>5. Answered(c, 1, GqaSingle(g, c, Len(olds[1]), at, shared))
    BY <1>4, <1>10, <1>15, <2>2, <2>3, <2>4, SingleAnswers DEF cap
  <2> QED
    BY <2>1, <2>2, <2>3, <2>5 DEF result
<1> QED
  BY <1>13, <1>14, <1>15
=============================================================================
