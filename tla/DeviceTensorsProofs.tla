------------------------- MODULE DeviceTensorsProofs -------------------------
(***************************************************************************)
(* For every heap, every number of threads and every pattern of calls: the *)
(* table of rust/src/device.rs is well formed, allocations and entries     *)
(* never share memory they should not, and the entries are exactly the     *)
(* payloads that are still whole in memory.                                *)
(*                                                                         *)
(* The induction takes the three invariants together: which entries a      *)
(* store must drop is decided within one allocation, so IndexAgrees needs  *)
(* EntriesInside and AllocationsApart to know that no entry of another     *)
(* allocation is touched.                                                  *)
(***************************************************************************)
EXTENDS DeviceTensors, TLAPS

\* Ranges one of which ends before the other begins share nothing.
LEMMA Apart ==
    ASSUME NEW a \in Nat, NEW m \in Nat, NEW b \in Nat, NEW n \in Nat,
           a + m <= b \/ b + n <= a
    PROVE  (b .. b + n - 1) \cap (a .. a + m - 1) = {}
OBVIOUS

USE HeapAssumption, ArrayAssumption, KeyAssumption, HostAssumption, BatchAssumption

IInv == TypeOK /\ RegionsDisjoint /\ IndexAgrees

-----------------------------------------------------------------------------
(* What a step does to one thread's task.                                  *)

LEMMA TaskAtType ==
    ASSUME NEW kind \in Kinds, NEW start \in Nat, NEW bytes \in Nat
    PROVE  TaskAt(kind, start, bytes) \in Task
BY DEF TaskAt, Task, AnyKey

LEMMA TaskWithType ==
    ASSUME NEW kind \in Kinds, NEW a \in Arrays
    PROVE  TaskWith(kind, a) \in Task
BY DEF TaskWith, Task, AnyKey

\* No new reservation: the threads that hold fresh memory held it before.
NoNewReservation ==
    \A u \in Threads : task'[u].kind = "alloc" => task'[u] = task[u]

LEMMA NewTask ==
    ASSUME TypeOK, NEW t \in Threads, NEW w \in Task, w.kind # "alloc",
           w.kind \in {"loaded", "made", "probe", "eval", "pointing"} => w.array \in Arrays,
           task' = [task EXCEPT ![t] = w]
    PROVE  /\ task' \in [Threads -> Task]
           /\ NoNewReservation
           /\ ArraysHeld'
BY DEF TypeOK, NoNewReservation, ArraysHeld

LEMMA BecomeType ==
    ASSUME TypeOK, NEW t \in Threads, NEW kind \in Kinds, Become(t, kind),
           kind \notin {"alloc", "loaded", "made", "probe", "eval", "pointing"}
    PROVE  task' \in [Threads -> Task] /\ NoNewReservation /\ ArraysHeld'
<1>1. TaskAt(kind, 0, 0) \in Task
  BY TaskAtType
<1>2. TaskAt(kind, 0, 0).kind = kind
  BY DEF TaskAt
<1> QED
  BY <1>1, <1>2, NewTask DEF Become

LEMMA HoldType ==
    ASSUME TypeOK, NEW t \in Threads, NEW kind \in Kinds, kind # "alloc",
           NEW a \in Arrays, Hold(t, kind, a)
    PROVE  task' \in [Threads -> Task] /\ NoNewReservation /\ ArraysHeld'
<1>1. TaskWith(kind, a) \in Task
  BY TaskWithType
<1>2. TaskWith(kind, a).kind = kind /\ TaskWith(kind, a).array = a
  BY DEF TaskWith
<1> QED
  BY <1>1, <1>2, NewTask DEF Hold

LEMMA QuietReservations ==
    ASSUME ReservationsApart, NoNewReservation, UNCHANGED index
    PROVE  ReservationsApart'
BY DEF ReservationsApart, NoNewReservation, Overlap

-----------------------------------------------------------------------------
(* What a store into an allocation that holds the range does to the table. *)

\* The precondition every store establishes under the lock.
Holding(r, start, bytes) ==
    /\ r \in index
    /\ start \in Nat
    /\ bytes \in Nat \ {0}
    /\ r.base <= start
    /\ Fits(r, start, bytes)

LEMMA HoldingSpan ==
    ASSUME TypeOK, NEW r, NEW start, NEW bytes, Holding(r, start, bytes)
    PROVE  /\ start \in Addr
           /\ bytes \in 1 .. HeapSize
           /\ Span(start, bytes) \subseteq Span(r.base, r.size)
           /\ Span(r.base, r.size) \subseteq Addr
           /\ r \in Region
<1>1. r \in Region
  BY DEF TypeOK, Holding
<1>2. r.base + r.size <= HeapSize
  BY <1>1 DEF Region, Addr
<1> QED
  BY <1>1, <1>2 DEF Holding, Fits, Region, Addr, Span

\* What is left of the table when the range is cleared never touches it.
LEMMA SurvivorsApart ==
    ASSUME TypeOK, AllocationsApart, EntriesInside,
           NEW r, NEW start, NEW bytes, Holding(r, start, bytes),
           NEW e \in Surviving(r, start, bytes)
    PROVE  /\ e \in stored
           /\ Span(e.start, e.bytes) \cap Span(start, bytes) = {}
<1>1. e \in stored /\ e \in Entry
  BY DEF Surviving, TypeOK
<1>2. CASE e.base = r.base
  <2>1. ~Overlap(start, bytes, e.start, e.bytes)
    BY <1>2 DEF Surviving
  <2> QED
    BY <1>1, <2>1, HoldingSpan DEF Overlap, Span, Entry, Addr
<1>3. CASE e.base # r.base
  <2>1. PICK s \in index : s.base = e.base /\ Span(e.start, e.bytes) \subseteq Span(s.base, s.size)
    BY <1>1 DEF EntriesInside
  <2>2. ~Overlap(s.base, s.size, r.base, r.size)
    BY <1>3, <2>1 DEF AllocationsApart, Holding
  <2>3. Span(s.base, s.size) \cap Span(r.base, r.size) = {}
    <3>1. s \in Region /\ r \in Region
      BY HoldingSpan DEF TypeOK
    <3>2. s.base \in Nat /\ s.size \in Nat /\ r.base \in Nat /\ r.size \in Nat
      BY <3>1 DEF Region, Addr
    <3> QED
      BY <2>2, <3>2 DEF Overlap, Span
  <2> QED
    BY <1>1, <2>1, <2>3, HoldingSpan
<1> QED
  BY <1>2, <1>3

\* An entry whose range the store does not reach survives it.
LEMMA UntouchedSurvives ==
    ASSUME TypeOK, NEW r, NEW start, NEW bytes, Holding(r, start, bytes),
           NEW e \in stored, Span(e.start, e.bytes) \cap Span(start, bytes) = {}
    PROVE  e \in Surviving(r, start, bytes)
<1>1. SUFFICES ASSUME Overlap(start, bytes, e.start, e.bytes) PROVE FALSE
  BY DEF Surviving
<1>2. e \in Entry
  BY DEF TypeOK
<1> DEFINE x == IF start <= e.start THEN e.start ELSE start
<1>3. x \in Span(e.start, e.bytes) /\ x \in Span(start, bytes)
  BY <1>1, <1>2, HoldingSpan DEF Overlap, Span, Entry, Addr
<1> QED
  BY <1>3

LEMMA StoreIntoAgrees ==
    ASSUME TypeOK, AllocationsApart, EntriesInside, IndexAgrees,
           NEW t \in Threads, NEW a \in Arrays,
           NEW r, NEW start, NEW bytes, Holding(r, start, bytes),
           StoreInto(t, r, start, bytes, a), UNCHANGED index
    PROVE  /\ stored' \subseteq Entry
           /\ written' \in [Addr -> Write \cup {Wiped}]
           /\ EntriesInside'
           /\ IndexAgrees'
<1> DEFINE new == [base |-> r.base, start |-> start, bytes |-> bytes, array |-> a,
                   thread |-> t, views |-> [k \in Keys |-> NoArray]]
           put == [start |-> start, bytes |-> bytes, array |-> a, thread |-> t]
<1>1. new \in Entry /\ put \in Write
  BY HoldingSpan DEF Entry, Write, Region
<1>2. /\ stored' = Surviving(r, start, bytes) \cup {new}
      /\ written' = [x \in Addr |-> IF x \in Span(start, bytes) THEN put ELSE written[x]]
  BY DEF StoreInto
<1> HIDE DEF put
<1>3. stored' \subseteq Entry
  BY <1>1, <1>2, SurvivorsApart DEF TypeOK
<1>4. written' \in [Addr -> Write \cup {Wiped}]
  BY <1>1, <1>2 DEF TypeOK
<1>5. EntriesInside'
  BY <1>2, SurvivorsApart, HoldingSpan DEF EntriesInside, Span, Holding
<1>6. EntriesCurrent'
  <2>1. SUFFICES ASSUME NEW e \in stored', NEW x \in Span(e.start, e.bytes)
                 PROVE  written'[x] = [start |-> e.start, bytes |-> e.bytes,
                                       array |-> e.array, thread |-> e.thread]
    BY DEF EntriesCurrent, Span
  <2>2. CASE e = new
    BY <1>2, <2>2, HoldingSpan DEF put, Span
  <2>3. CASE e \in Surviving(r, start, bytes)
    <3>1. e \in stored /\ x \notin Span(start, bytes)
      BY <2>3, SurvivorsApart
    <3>2. x \in Addr
      <4>1. PICK s \in index : Span(e.start, e.bytes) \subseteq Span(s.base, s.size)
        BY <3>1 DEF EntriesInside
      <4>2. Span(s.base, s.size) \subseteq Addr
        BY DEF TypeOK, Region, Span, Addr
      <4> QED
        BY <4>1, <4>2
    <3> QED
      BY <1>2, <3>1, <3>2 DEF IndexAgrees, EntriesCurrent
  <2> QED
    BY <1>2, <2>2, <2>3
<1>7. PayloadsKept'
  <2>1. SUFFICES ASSUME NEW w \in Write,
                        \A x \in Span(w.start, w.bytes) : x \in Addr /\ written'[x] = w
                 PROVE  \E e \in stored' : e.start = w.start /\ e.bytes = w.bytes
    BY DEF PayloadsKept, Span, Write, Addr
  <2>2. CASE w = put
    <3>1. w.start = start /\ w.bytes = bytes
      BY <2>2 DEF put
    <3>2. new \in stored' /\ new.start = start /\ new.bytes = bytes
      BY <1>2
    <3> QED
      BY <3>1, <3>2
  <2>3. CASE w # put
    <3>1. Span(w.start, w.bytes) \cap Span(start, bytes) = {}
      BY <1>2, <2>1, <2>3
    <3>2. \A x \in Span(w.start, w.bytes) : x \in Addr /\ written[x] = w
      BY <1>2, <2>1, <3>1
    <3>3. PICK e \in stored : e.start = w.start /\ e.bytes = w.bytes
      BY <3>2 DEF IndexAgrees, PayloadsKept
    <3> QED
      BY <1>2, <3>1, <3>3, UntouchedSurvives
  <2> QED
    BY <2>2, <2>3
<1> QED
  BY <1>3, <1>4, <1>5, <1>6, <1>7 DEF IndexAgrees

LEMMA StoreLostAgrees ==
    ASSUME TypeOK, AllocationsApart, EntriesInside, IndexAgrees,
           NEW r, NEW start, NEW bytes, Holding(r, start, bytes),
           StoreLost(r, start, bytes), UNCHANGED index
    PROVE  /\ stored' \subseteq Entry
           /\ written' \in [Addr -> Write \cup {Wiped}]
           /\ EntriesInside'
           /\ IndexAgrees'
<1>1. /\ stored' = Surviving(r, start, bytes)
      /\ written' = [x \in Addr |-> IF x \in Span(start, bytes) THEN Wiped ELSE written[x]]
  BY DEF StoreLost
<1>2. stored' \subseteq stored
  BY <1>1 DEF Surviving
<1>3. stored' \subseteq Entry /\ EntriesInside'
  BY <1>2 DEF TypeOK, EntriesInside, Span
<1>4. written' \in [Addr -> Write \cup {Wiped}]
  BY <1>1 DEF TypeOK
<1>5. EntriesCurrent'
  <2>1. SUFFICES ASSUME NEW e \in stored', NEW x \in Span(e.start, e.bytes)
                 PROVE  written'[x] = [start |-> e.start, bytes |-> e.bytes,
                                       array |-> e.array, thread |-> e.thread]
    BY DEF EntriesCurrent, Span
  <2>2. e \in stored /\ x \notin Span(start, bytes)
    BY <1>1, SurvivorsApart
  <2>3. PICK s \in index : Span(e.start, e.bytes) \subseteq Span(s.base, s.size)
    BY <2>2 DEF EntriesInside
  <2>4. Span(s.base, s.size) \subseteq Addr
    BY DEF TypeOK, Region, Span, Addr
  <2> QED
    BY <1>1, <2>2, <2>3, <2>4 DEF IndexAgrees, EntriesCurrent
<1>6. PayloadsKept'
  <2>1. SUFFICES ASSUME NEW w \in Write,
                        \A x \in Span(w.start, w.bytes) : x \in Addr /\ written'[x] = w
                 PROVE  \E e \in stored' : e.start = w.start /\ e.bytes = w.bytes
    BY DEF PayloadsKept, Span, Write, Addr
  <2>2. w # Wiped
    BY DEF Write, Wiped
  <2>3. Span(w.start, w.bytes) \cap Span(start, bytes) = {}
    BY <1>1, <2>1, <2>2
  <2>4. \A x \in Span(w.start, w.bytes) : x \in Addr /\ written[x] = w
    BY <1>1, <2>1, <2>3
  <2>5. PICK e \in stored : e.start = w.start /\ e.bytes = w.bytes
    BY <2>4 DEF IndexAgrees, PayloadsKept
  <2> QED
    BY <1>1, <2>3, <2>5, UntouchedSurvives
<1> QED
  BY <1>3, <1>4, <1>5, <1>6 DEF IndexAgrees

\* Whatever store does, the table it leaves agrees with memory.
LEMMA StoreAgrees ==
    ASSUME TypeOK, AllocationsApart, EntriesInside, IndexAgrees,
           NEW t \in Threads, NEW a \in Arrays, NEW start \in Nat, NEW bytes \in Nat,
           Stored(t, start, bytes, a) \/ NotStored(start, bytes), UNCHANGED index
    PROVE  /\ stored' \subseteq Entry
           /\ written' \in [Addr -> Write \cup {Wiped}]
           /\ EntriesInside'
           /\ IndexAgrees'
<1>1. CASE UNCHANGED <<stored, written>>
  BY <1>1 DEF TypeOK, EntriesInside, IndexAgrees, EntriesCurrent, PayloadsKept, Span
<1>2. CASE \E r \in index : Nearest(r, start) /\ Fits(r, start, bytes) /\ bytes > 0
                          /\ StoreInto(t, r, start, bytes, a)
  <2>1. PICK r \in index : /\ Holding(r, start, bytes)
                           /\ StoreInto(t, r, start, bytes, a)
    BY <1>2 DEF Nearest, Holding
  <2> QED
    BY <2>1, StoreIntoAgrees
<1>3. CASE \E r \in index : Nearest(r, start) /\ Fits(r, start, bytes) /\ bytes > 0
                          /\ StoreLost(r, start, bytes)
  <2>1. PICK r \in index : /\ Holding(r, start, bytes)
                           /\ StoreLost(r, start, bytes)
    BY <1>3 DEF Nearest, Holding
  <2> QED
    BY <2>1, StoreLostAgrees
<1> QED
  BY <1>1, <1>2, <1>3 DEF Stored, NotStored

-----------------------------------------------------------------------------
(* Freeing an allocation takes exactly its entries.                        *)

LEMMA FreeAgrees ==
    ASSUME TypeOK, RegionsDisjoint, IndexAgrees, NEW t \in Threads, Free(t)
    PROVE  TypeOK' /\ RegionsDisjoint' /\ IndexAgrees'
<1>1. PICK r \in index :
         /\ index' = index \ {r}
         /\ stored' = {e \in stored : e.base # r.base}
         /\ written' = [x \in Addr |->
                          IF x \in Span(r.base, r.size) THEN Wiped ELSE written[x]]
  BY DEF Free
<1>2. UNCHANGED <<task, todo>>
  BY DEF Free
<1>3. TypeOK'
  BY <1>1, <1>2 DEF TypeOK, ArraysHeld
<1>4. AllocationsApart' /\ ReservationsApart'
  BY <1>1, <1>2 DEF RegionsDisjoint, AllocationsApart, ReservationsApart, Overlap
<1>5. \A e \in stored' : \E s \in index' :
         s.base = e.base /\ Span(e.start, e.bytes) \subseteq Span(s.base, s.size)
  BY <1>1 DEF RegionsDisjoint, EntriesInside
<1>6. \A e \in stored' : Span(e.start, e.bytes) \cap Span(r.base, r.size) = {}
  <2>1. SUFFICES ASSUME NEW e \in stored'
                 PROVE  Span(e.start, e.bytes) \cap Span(r.base, r.size) = {}
    OBVIOUS
  <2>2. PICK s \in index : s # r /\ Span(e.start, e.bytes) \subseteq Span(s.base, s.size)
    BY <1>1, <1>5
  <2>3. ~Overlap(s.base, s.size, r.base, r.size)
    BY <2>2 DEF RegionsDisjoint, AllocationsApart
  <2>4. s.base \in Nat /\ s.size \in Nat /\ r.base \in Nat /\ r.size \in Nat
    BY DEF TypeOK, Region, Addr
  <2>5. Span(s.base, s.size) \cap Span(r.base, r.size) = {}
    BY <2>3, <2>4 DEF Overlap, Span
  <2> QED
    BY <2>2, <2>5
<1>7. EntriesInside'
  BY <1>5 DEF EntriesInside, Span
<1>8. EntriesCurrent'
  <2>1. SUFFICES ASSUME NEW e \in stored', NEW x \in Span(e.start, e.bytes)
                 PROVE  written'[x] = [start |-> e.start, bytes |-> e.bytes,
                                       array |-> e.array, thread |-> e.thread]
    BY DEF EntriesCurrent, Span
  <2>2. e \in stored /\ x \notin Span(r.base, r.size)
    BY <1>1, <1>6
  <2>3. PICK s \in index : Span(e.start, e.bytes) \subseteq Span(s.base, s.size)
    BY <2>2 DEF RegionsDisjoint, EntriesInside
  <2>4. Span(s.base, s.size) \subseteq Addr
    BY DEF TypeOK, Region, Span, Addr
  <2> QED
    BY <1>1, <2>2, <2>3, <2>4 DEF IndexAgrees, EntriesCurrent
<1>9. PayloadsKept'
  <2>1. SUFFICES ASSUME NEW w \in Write,
                        \A x \in Span(w.start, w.bytes) : x \in Addr /\ written'[x] = w
                 PROVE  \E e \in stored' : e.start = w.start /\ e.bytes = w.bytes
    BY DEF PayloadsKept, Span, Write, Addr
  <2>2. w # Wiped
    BY DEF Write, Wiped
  <2>3. Span(w.start, w.bytes) \cap Span(r.base, r.size) = {}
    BY <1>1, <2>1, <2>2
  <2>4. \A x \in Span(w.start, w.bytes) : x \in Addr /\ written[x] = w
    BY <1>1, <2>1, <2>3
  <2>5. PICK e \in stored : e.start = w.start /\ e.bytes = w.bytes
    BY <2>4 DEF IndexAgrees, PayloadsKept
  <2>6. w.start \in Span(e.start, e.bytes)
    BY <2>5 DEF Write, Span, Addr
  <2>7. w.start \in Span(w.start, w.bytes)
    BY DEF Write, Span, Addr
  <2>8. e.base # r.base
    <3>1. PICK s \in index : s.base = e.base /\ Span(e.start, e.bytes) \subseteq Span(s.base, s.size)
      BY DEF RegionsDisjoint, EntriesInside
    <3>2. s # r
      BY <2>3, <2>6, <2>7, <3>1
    <3>3. ~Overlap(s.base, s.size, r.base, r.size)
      BY <3>2 DEF RegionsDisjoint, AllocationsApart
    <3>4. s \in Region /\ r \in Region
      BY DEF TypeOK
    <3> QED
      BY <3>1, <3>3, <3>4 DEF Overlap, Region, Addr
  <2> QED
    BY <1>1, <2>5, <2>8
<1> QED
  BY <1>3, <1>4, <1>7, <1>8, <1>9 DEF RegionsDisjoint, IndexAgrees

-----------------------------------------------------------------------------
(* Steps of the callers.                                                   *)

\* A step in which a thread moves on, no memory is reserved and the table
\* follows memory.
CallerStep ==
    /\ task' \in [Threads -> Task]
    /\ NoNewReservation
    /\ ArraysHeld'
    /\ todo' \in [Threads -> Seq(Pair)]
    /\ UNCHANGED index

LEMMA CallerStepKeeps ==
    ASSUME TypeOK, RegionsDisjoint, CallerStep, stored' \subseteq Entry,
           written' \in [Addr -> Write \cup {Wiped}], EntriesInside', IndexAgrees'
    PROVE  TypeOK' /\ RegionsDisjoint' /\ IndexAgrees'
<1>1. TypeOK'
  BY DEF TypeOK, CallerStep, NoNewReservation
<1>2. AllocationsApart' /\ ReservationsApart'
  BY QuietReservations DEF RegionsDisjoint, AllocationsApart, CallerStep, Overlap
<1> QED
  BY <1>1, <1>2 DEF RegionsDisjoint

LEMMA QuietStepKeeps ==
    ASSUME IInv, CallerStep, UNCHANGED <<stored, written>>
    PROVE  IInv'
<1>1. /\ stored' \subseteq Entry
      /\ written' \in [Addr -> Write \cup {Wiped}]
      /\ EntriesInside'
  BY DEF IInv, TypeOK, RegionsDisjoint, EntriesInside, CallerStep, Span
<1>2. IndexAgrees'
  BY DEF IInv, IndexAgrees, EntriesCurrent, PayloadsKept, Span
<1> QED
  BY <1>1, <1>2, CallerStepKeeps DEF IInv

LEMMA FailType ==
    ASSUME TypeOK, NEW t \in Threads, Fail(t), UNCHANGED index
    PROVE  CallerStep
<1>1. todo' \in [Threads -> Seq(Pair)]
  BY DEF Fail, TypeOK
<1>2. Become(t, "failed") /\ "failed" \in Kinds
  BY DEF Fail, Kinds
<1> QED
  BY <1>1, <1>2, BecomeType DEF CallerStep

\* A load gives the thread an array, or an error.
LEMMA LoadType ==
    ASSUME TypeOK, NEW t \in Threads, NEW start, NEW bytes,
           \/ Load(t, start, bytes)
           \/ LoadMisses(t, start, bytes)
           \/ LoadFails(t, start, bytes)
    PROVE  task' \in [Threads -> Task] /\ NoNewReservation /\ ArraysHeld'
<1> USE DEF Kinds
<1>1. CASE Load(t, start, bytes)
  <2>1. PICK a \in Arrays : Hold(t, "made", a) \/ Hold(t, "loaded", a)
    BY <1>1 DEF Load, Found, TypeOK, Entry
  <2> QED
    BY <2>1, HoldType
<1>2. CASE LoadMisses(t, start, bytes)
  BY <1>2, BecomeType DEF LoadMisses
<1>3. CASE LoadFails(t, start, bytes)
  BY <1>3, BecomeType DEF LoadFails
<1> QED
  BY <1>1, <1>2, <1>3

LEMMA TodoTail ==
    ASSUME TypeOK, NEW t \in Threads, todo[t] # <<>>, NextTensor(t), UNCHANGED index
    PROVE  CallerStep
<1>1. todo' \in [Threads -> Seq(Pair)]
  BY DEF NextTensor, TypeOK
<1>2. PICK kind \in {"idle", "copy"} : Become(t, kind)
  BY DEF NextTensor
<1> QED
  BY <1>1, <1>2, BecomeType DEF CallerStep, Kinds

LEMMA FinishType ==
    ASSUME TypeOK, NEW t \in Threads, Finish(t), UNCHANGED index
    PROVE  CallerStep
BY BecomeType DEF Finish, CallerStep, Kinds, TypeOK

-----------------------------------------------------------------------------
(* One step per action.                                                    *)

LEMMA InitIInv == Init => IInv
<1>1. SUFFICES ASSUME Init PROVE IInv
  OBVIOUS
<1>2. /\ task \in [Threads -> Task]
      /\ \A t \in Threads : task[t].kind = "idle"
  BY <1>1, TaskAtType DEF Init, Kinds, TaskAt
<1>3. TypeOK
  BY <1>1, <1>2 DEF Init, TypeOK, ArraysHeld
<1>4. RegionsDisjoint
  BY <1>1, <1>2 DEF Init, RegionsDisjoint, AllocationsApart, ReservationsApart, EntriesInside
<1>5. EntriesCurrent
  BY <1>1 DEF Init, EntriesCurrent
<1>6. PayloadsKept
  <2>1. SUFFICES ASSUME NEW w \in Write,
                        \A x \in Span(w.start, w.bytes) : x \in Addr /\ written[x] = w
                 PROVE  FALSE
    BY DEF PayloadsKept
  <2>2. w.start \in Span(w.start, w.bytes)
    BY DEF Write, Span, Addr
  <2>3. w # Wiped
    BY DEF Write, Wiped
  <2> QED
    BY <1>1, <2>1, <2>2, <2>3 DEF Init
<1> QED
  BY <1>3, <1>4, <1>5, <1>6 DEF IInv, IndexAgrees

LEMMA AllocateIInv ==
    ASSUME IInv, NEW t \in Threads, Allocate(t)
    PROVE  IInv'
<1>1. PICK base \in Addr, size \in 1 .. HeapSize :
         /\ base + size <= HeapSize
         /\ \A r \in Reserved : ~Overlap(base, size, r.base, r.size)
         /\ task' = [task EXCEPT ![t] = TaskAt("alloc", base, size)]
  BY DEF Allocate
<1>2. UNCHANGED <<index, stored, todo, written>>
  BY DEF Allocate
<1>3. TaskAt("alloc", base, size) \in Task
  BY TaskAtType DEF Kinds, Addr
<1>4. TypeOK'
  BY <1>1, <1>2, <1>3 DEF IInv, TypeOK, TaskAt, Region, ArraysHeld
<1>5. \A r \in index : ~Overlap(base, size, r.base, r.size)
  BY <1>1 DEF Reserved
<1>6. \A u \in Threads : task[u].kind = "alloc" =>
         ~Overlap(base, size, task[u].start, task[u].bytes)
  <2>1. SUFFICES ASSUME NEW u \in Threads, task[u].kind = "alloc"
                 PROVE  ~Overlap(base, size, task[u].start, task[u].bytes)
    OBVIOUS
  <2>2. [base |-> task[u].start, size |-> task[u].bytes] \in Reserved
    BY <2>1 DEF Reserved
  <2> QED
    BY <1>1, <2>2
<1>7. ReservationsApart'
  BY <1>1, <1>2, <1>5, <1>6, task \in [Threads -> Task]
  DEF IInv, RegionsDisjoint, ReservationsApart, Overlap, TaskAt, TypeOK
<1>8. AllocationsApart' /\ EntriesInside' /\ IndexAgrees'
  BY <1>2 DEF IInv, RegionsDisjoint, AllocationsApart, EntriesInside, IndexAgrees,
     EntriesCurrent, PayloadsKept, Overlap, Span
<1> QED
  BY <1>4, <1>7, <1>8 DEF IInv, RegionsDisjoint

LEMMA PublishIInv ==
    ASSUME IInv, NEW t \in Threads, Publish(t)
    PROVE  IInv'
<1> DEFINE new == [base |-> task[t].start, size |-> task[t].bytes]
<1>1. /\ task[t].kind = "alloc"
      /\ index' = index \cup {new}
      /\ UNCHANGED <<stored, todo, written>>
  BY DEF Publish
<1>2. Become(t, "idle") /\ "idle" \in Kinds /\ "idle" # "alloc"
  BY DEF Publish, Kinds
<1>3. /\ task' \in [Threads -> Task]
      /\ \A u \in Threads : task'[u].kind = "alloc" => task'[u] = task[u]
      /\ ArraysHeld'
  BY <1>2, BecomeType DEF IInv, NoNewReservation
<1>4. task'[t].kind # "alloc"
  BY <1>2 DEF Become, TaskAt, IInv, TypeOK
<1>5. new \in Region
  BY <1>1 DEF IInv, TypeOK
<1>6. TypeOK'
  BY <1>1, <1>3, <1>5 DEF IInv, TypeOK
<1>7. \A r \in index : /\ ~Overlap(r.base, r.size, new.base, new.size)
                       /\ ~Overlap(new.base, new.size, r.base, r.size)
  BY <1>1 DEF IInv, RegionsDisjoint, ReservationsApart, Overlap
<1>8. AllocationsApart'
  BY <1>1, <1>7 DEF IInv, RegionsDisjoint, AllocationsApart, Overlap
<1>9. \A u \in Threads \ {t} : task[u].kind = "alloc" =>
         ~Overlap(new.base, new.size, task[u].start, task[u].bytes)
  BY <1>1 DEF IInv, RegionsDisjoint, ReservationsApart
<1>10. ReservationsApart'
  BY <1>1, <1>3, <1>4, <1>9 DEF IInv, RegionsDisjoint, ReservationsApart, Overlap
<1>11. EntriesInside' /\ IndexAgrees'
  BY <1>1 DEF IInv, RegionsDisjoint, EntriesInside, IndexAgrees, EntriesCurrent,
     PayloadsKept, Span
<1> QED
  BY <1>6, <1>8, <1>10, <1>11 DEF IInv, RegionsDisjoint

LEMMA AssignIInv ==
    ASSUME IInv, NEW t \in Threads, Assign(t)
    PROVE  IInv'
<1>1. PICK start \in Addr, bytes \in 0 .. HeapSize :
         \/ Stored(t, start, bytes, task[t].array) /\ Finish(t)
         \/ NotStored(start, bytes) /\ Fail(t)
  BY DEF Assign
<1>2. start \in Nat /\ bytes \in Nat
  BY DEF Addr
<1>3. UNCHANGED index
  BY DEF Assign
<1>4. task[t].array \in Arrays
  BY DEF IInv, TypeOK, ArraysHeld, Assign
<1>5. CallerStep
  BY <1>1, <1>3, FinishType, FailType DEF IInv
<1>6. /\ stored' \subseteq Entry
      /\ written' \in [Addr -> Write \cup {Wiped}]
      /\ EntriesInside'
      /\ IndexAgrees'
  BY <1>1, <1>2, <1>3, <1>4, StoreAgrees DEF IInv, RegionsDisjoint
<1> QED
  BY <1>5, <1>6, CallerStepKeeps DEF IInv

LEMMA CopyDestinationIInv ==
    ASSUME IInv, NEW t \in Threads, CopyDestination(t)
    PROVE  IInv'
<1> DEFINE pair == Head(todo[t])
<1>1. /\ task[t].kind \in {"loaded", "made"}
      /\ todo[t] # <<>>
      /\ UNCHANGED index
  BY DEF CopyDestination
<1>2. pair \in Pair
  BY <1>1 DEF IInv, TypeOK
<1>3. CASE /\ NextTensor(t) \/ Fail(t)
           /\ UNCHANGED <<stored, written>>
  BY <1>1, <1>3, TodoTail, FailType, QuietStepKeeps DEF IInv
<1>4. CASE /\ pair.dst # Host
           /\ \/ Stored(t, pair.dst, pair.bytes, task[t].array) /\ NextTensor(t)
              \/ NotStored(pair.dst, pair.bytes) /\ Fail(t)
  <2>1. CallerStep
    BY <1>1, <1>4, TodoTail, FailType DEF IInv
  <2>2. pair.dst \in Nat /\ pair.bytes \in Nat
    BY <1>2, <1>4 DEF Pair, Addr
  <2>3. task[t].array \in Arrays
    BY <1>1 DEF IInv, TypeOK, ArraysHeld
  <2>4. /\ stored' \subseteq Entry
        /\ written' \in [Addr -> Write \cup {Wiped}]
        /\ EntriesInside'
        /\ IndexAgrees'
    BY <1>1, <1>4, <2>2, <2>3, StoreAgrees DEF IInv, RegionsDisjoint
  <2> QED
    BY <2>1, <2>4, CallerStepKeeps DEF IInv
<1> QED
  BY <1>3, <1>4 DEF CopyDestination

\* Caching a view changes no range, payload or owner of an entry.
LEMMA HostInsertIInv ==
    ASSUME IInv, NEW t \in Threads, HostInsert(t)
    PROVE  IInv'
<1>1. PICK e \in stored :
         stored' = (stored \ {e}) \cup {[e EXCEPT !.views[task[t].key] = task[t].array]}
  BY DEF HostInsert
<1> DEFINE viewed == [e EXCEPT !.views[task[t].key] = task[t].array]
<1>2. /\ task[t].kind = "eval"
      /\ task' = [task EXCEPT ![t].kind = "pointing"]
      /\ UNCHANGED <<index, todo, written>>
  BY DEF HostInsert
<1>3. e \in Entry /\ task[t].array \in Arrays /\ task[t] \in Task
  BY <1>2 DEF IInv, TypeOK, ArraysHeld
<1>4. viewed \in Entry
  BY <1>3 DEF Entry, Task
<1>5. /\ viewed.base = e.base /\ viewed.start = e.start /\ viewed.bytes = e.bytes
      /\ viewed.array = e.array /\ viewed.thread = e.thread
  BY <1>3 DEF Entry
<1> HIDE DEF viewed
<1>6. stored' = (stored \ {e}) \cup {viewed}
  BY <1>1 DEF viewed
<1>7. stored' \subseteq Entry
  BY <1>4, <1>6 DEF IInv, TypeOK
<1>8. EntriesInside'
  BY <1>2, <1>5, <1>6 DEF IInv, RegionsDisjoint, EntriesInside, Span
<1>9. EntriesCurrent'
  <2>1. SUFFICES ASSUME NEW f \in stored', NEW x \in Span(f.start, f.bytes)
                 PROVE  written'[x] = [start |-> f.start, bytes |-> f.bytes,
                                       array |-> f.array, thread |-> f.thread]
    BY DEF EntriesCurrent, Span
  <2>2. PICK g \in stored : /\ g.start = f.start /\ g.bytes = f.bytes
                            /\ g.array = f.array /\ g.thread = f.thread
    BY <1>5, <1>6
  <2> QED
    BY <1>2, <2>1, <2>2 DEF IInv, IndexAgrees, EntriesCurrent
<1>10. PayloadsKept'
  <2>1. \A f \in stored : \E g \in stored' : g.start = f.start /\ g.bytes = f.bytes
    BY <1>5, <1>6
  <2> QED
    BY <1>2, <2>1 DEF IInv, IndexAgrees, PayloadsKept, Span
<1>11. CallerStep
  <2> DEFINE w == [task[t] EXCEPT !.kind = "pointing"]
  <2>1. w \in Task /\ w.kind = "pointing" /\ w.array = task[t].array
    BY <1>3 DEF Task, Kinds
  <2>2. task' = [task EXCEPT ![t] = w]
    BY <1>2 DEF IInv, TypeOK
  <2> HIDE DEF w
  <2> QED
    BY <1>2, <1>3, <2>1, <2>2, NewTask DEF IInv, TypeOK, CallerStep
<1> QED
  BY <1>2, <1>7, <1>8, <1>9, <1>10, <1>11, CallerStepKeeps DEF IInv, IndexAgrees, TypeOK

LEMMA HostViewStep ==
    ASSUME IInv, NEW t \in Threads, HostData(t) \/ HostView(t)
    PROVE  CallerStep
<1>1. CASE HostData(t)
  <2>1. CASE \E start \in Addr, bytes \in 1 .. HeapSize :
               LoadMisses(t, start, bytes) \/ LoadFails(t, start, bytes)
    BY <1>1, <2>1, LoadType DEF HostData, CallerStep, IInv, TypeOK
  <2>2. CASE \E start \in Addr, bytes \in 1 .. HeapSize, k \in Keys :
               \E a \in Found(t, start, bytes) :
                 task' = [task EXCEPT ![t] = [kind |-> "probe", start |-> start,
                                              bytes |-> bytes, key |-> k, array |-> a]]
    <3>1. PICK start \in Addr, bytes \in 1 .. HeapSize, k \in Keys :
            \E a \in Found(t, start, bytes) :
              task' = [task EXCEPT ![t] = [kind |-> "probe", start |-> start,
                                           bytes |-> bytes, key |-> k, array |-> a]]
      BY <2>2
    <3>2. PICK a \in Found(t, start, bytes) :
            task' = [task EXCEPT ![t] = [kind |-> "probe", start |-> start,
                                         bytes |-> bytes, key |-> k, array |-> a]]
      BY <3>1
    <3>3. a \in Arrays
      BY DEF Found, IInv, TypeOK, Entry
    <3> DEFINE w == [kind |-> "probe", start |-> start, bytes |-> bytes,
                     key |-> k, array |-> a]
    <3>4. w \in Task /\ w.kind = "probe" /\ w.array = a
      BY <3>3 DEF Task, Kinds, Addr
    <3>5. task' = [task EXCEPT ![t] = w]
      BY <3>2
    <3> HIDE DEF w
    <3> QED
      BY <1>1, <3>3, <3>4, <3>5, NewTask DEF HostData, CallerStep, IInv, TypeOK
  <2> QED
    BY <1>1, <2>1, <2>2 DEF HostData
<1>2. CASE HostView(t)
  <2>1. task[t].kind = "probe" /\ task[t].array \in Arrays /\ task[t] \in Task
    BY <1>2 DEF HostView, IInv, TypeOK, ArraysHeld
  <2>2. CASE \E e \in stored :
               /\ e.views[task[t].key] # NoArray
               /\ task' = [task EXCEPT ![t].kind = "pointing",
                                       ![t].array = e.views[task[t].key]]
    <3>1. PICK e \in stored :
            /\ e.views[task[t].key] # NoArray
            /\ task' = [task EXCEPT ![t].kind = "pointing",
                                    ![t].array = e.views[task[t].key]]
      BY <2>2
    <3> DEFINE view == e.views[task[t].key]
    <3>2. view \in Arrays
      BY <2>1, <3>1 DEF IInv, TypeOK, Entry, Task
    <3> HIDE DEF view
    <3> DEFINE w == [task[t] EXCEPT !.kind = "pointing", !.array = view]
    <3>3. w \in Task /\ w.kind = "pointing" /\ w.array = view
      BY <2>1, <3>2 DEF Task, Kinds
    <3>4. task' = [task EXCEPT ![t] = w]
      BY <3>1 DEF view, IInv, TypeOK
    <3> HIDE DEF w
    <3> QED
      BY <1>2, <3>2, <3>3, <3>4, NewTask DEF HostView, CallerStep, IInv, TypeOK
  <2>3. CASE task' = [task EXCEPT ![t].kind = "eval"]
    <3> DEFINE w == [task[t] EXCEPT !.kind = "eval"]
    <3>1. w \in Task /\ w.kind = "eval" /\ w.array = task[t].array
      BY <2>1 DEF Task, Kinds
    <3>2. task' = [task EXCEPT ![t] = w]
      BY <2>3 DEF IInv, TypeOK
    <3> HIDE DEF w
    <3> QED
      BY <1>2, <2>1, <3>1, <3>2, NewTask DEF HostView, CallerStep, IInv, TypeOK
  <2> QED
    BY <1>2, <2>2, <2>3 DEF HostView
<1> QED
  BY <1>1, <1>2

LEMMA CopyStep ==
    ASSUME IInv, NEW t \in Threads, CopyTensors(t) \/ CopySource(t)
    PROVE  CallerStep
<1>1. CASE CopyTensors(t)
  <2>1. todo' \in [Threads -> Seq(Pair)]
    BY <1>1 DEF CopyTensors, IInv, TypeOK
  <2> QED
    BY <1>1, <2>1, BecomeType DEF CopyTensors, CallerStep, IInv, Kinds
<1>2. CASE CopySource(t)
  <2> DEFINE pair == Head(todo[t])
  <2>1. CASE Fail(t)
    BY <1>2, <2>1, FailType DEF CopySource, IInv
  <2>2. CASE (\E a \in Arrays : Hold(t, "made", a)) /\ UNCHANGED todo
    BY <1>2, <2>2, HoldType DEF CopySource, CallerStep, IInv, TypeOK, Kinds
  <2>3. CASE Load(t, pair.src, pair.bytes) /\ UNCHANGED todo
    BY <1>2, <2>3, LoadType DEF CopySource, CallerStep, IInv, TypeOK
  <2>4. CASE /\ LoadMisses(t, pair.src, pair.bytes) \/ LoadFails(t, pair.src, pair.bytes)
             /\ todo' = [todo EXCEPT ![t] = <<>>]
    <3>1. todo' \in [Threads -> Seq(Pair)]
      BY <2>4 DEF IInv, TypeOK
    <3> QED
      BY <1>2, <2>4, <3>1, LoadType DEF CopySource, CallerStep, IInv
  <2> QED
    BY <1>2, <2>1, <2>2, <2>3, <2>4 DEF CopySource
<1> QED
  BY <1>1, <1>2

LEMMA NextIInv == IInv /\ [Next]_vars => IInv'
<1>1. SUFFICES ASSUME IInv, [Next]_vars PROVE IInv'
  OBVIOUS
<1>2. CASE UNCHANGED vars
  <2>1. CallerStep
    BY <1>1, <1>2 DEF vars, CallerStep, IInv, TypeOK, NoNewReservation, ArraysHeld
  <2> QED
    BY <1>1, <1>2, <2>1, QuietStepKeeps DEF vars
<1>3. CASE Next
  <2>1. PICK t \in Threads :
          \/ Allocate(t) \/ Publish(t) \/ Free(t)
          \/ Produce(t) \/ Assign(t) \/ Array(t)
          \/ HostData(t) \/ HostView(t) \/ HostInsert(t) \/ HostFail(t)
          \/ CopyTensors(t) \/ CopySource(t) \/ CopyDestination(t)
          \/ Done(t)
    BY <1>3 DEF Next
  <2>2. CASE Free(t)
    BY <1>1, <2>2, FreeAgrees DEF IInv
  <2>3. CASE Produce(t)
    <3>1. CallerStep
      BY <1>1, <2>3, HoldType DEF Produce, CallerStep, IInv, TypeOK, Kinds
    <3> QED
      BY <1>1, <2>3, <3>1, QuietStepKeeps DEF Produce
  <2>4. CASE Array(t)
    <3>1. CallerStep
      BY <1>1, <2>4, LoadType DEF Array, CallerStep, IInv, TypeOK
    <3> QED
      BY <1>1, <2>4, <3>1, QuietStepKeeps DEF Array
  <2>5. CASE HostData(t) \/ HostView(t)
    BY <1>1, <2>5, HostViewStep, QuietStepKeeps DEF HostData, HostView
  <2>6. CASE HostFail(t)
    BY <1>1, <2>6, FailType, QuietStepKeeps DEF HostFail, IInv
  <2>7. CASE CopyTensors(t) \/ CopySource(t)
    BY <1>1, <2>7, CopyStep, QuietStepKeeps DEF CopyTensors, CopySource
  <2>8. CASE Done(t)
    BY <1>1, <2>8, FinishType, QuietStepKeeps DEF Done, IInv
  <2> QED
    BY <1>1, <2>1, <2>2, <2>3, <2>4, <2>5, <2>6, <2>7, <2>8, AllocateIInv, PublishIInv,
       AssignIInv, HostInsertIInv, CopyDestinationIInv
<1> QED
  BY <1>1, <1>2, <1>3

LEMMA Inductive == Spec => []IInv
BY InitIInv, NextIInv, PTL DEF Spec

-----------------------------------------------------------------------------
\* Every reachable table, task and transfer list is well typed.
THEOREM TypeCorrect == Spec => []TypeOK
BY Inductive, PTL DEF IInv

\* No two allocations share memory, and no entry reaches outside its own.
THEOREM RegionsStayDisjoint == Spec => []RegionsDisjoint
BY Inductive, PTL DEF IInv

\* The table holds a payload exactly where one store's whole range is still
\* intact, whatever the interleaving of stores, failures, frees and reuse.
THEOREM IndexMatchesMemory == Spec => []IndexAgrees
BY Inductive, PTL DEF IInv
-----------------------------------------------------------------------------
(***************************************************************************)
(* What the index of rust/src/device.rs promises as long as callers leave  *)
(* an input alone while it is read (InputsStable), for any number of       *)
(* threads, any heap and any interleaving.  (The run device_stale_view     *)
(* shows that the assumption is needed.)                                   *)
(*                                                                         *)
(* Host reads.  host_data takes the index's lock three times and evaluates *)
(* in between.  A cached view shows its entry's payload and the pointer a  *)
(* Run holds points into a view the table owns.  Between two of its locked *)
(* sections a host read relies on the entry it loaded from: ReadsHeld says *)
(* that this entry stays, and OneEntryEach that looking it up again by its *)
(* address finds that one and no other.                                    *)
(*                                                                         *)
(* The refinement.  With its table of entries, its three-part host reads   *)
(* and its two-part transfers, the index implements DeviceMemory: it       *)
(* answers every caller as a plain memory would, which holds of an address *)
(* only the last write that covered it.  A step maps to the step of the    *)
(* memory that gives the same answer.  That a load finds what the memory   *)
(* has is EntriesCurrent, that it misses only what the memory has not is   *)
(* PayloadsKept, and that a host read answers, steps after its load, with  *)
(* what the memory still has is ReadsHeld.                                 *)
(***************************************************************************)

Reading(u) == task[u].kind \in {"probe", "eval", "pointing"}

\* The entry that a host read in progress has its array from.
ReadFrom(u, e) ==
    /\ e \in stored
    /\ e.thread = u
    /\ e.start = task[u].start
    /\ e.bytes = task[u].bytes
    /\ e.array = task[u].array
    /\ task[u].kind = "pointing" => e.views[task[u].key] = task[u].array

OneEntryEach == \A e, f \in stored : e.start = f.start => e = f
ReadsHeld == \A u \in Threads : Reading(u) => \E e \in stored : ReadFrom(u, e)

HInv == IInv /\ OneEntryEach /\ ViewsFresh /\ ReadsHeld

-----------------------------------------------------------------------------
\* What another thread of the table leaves a read with.
LEMMA ReadsStay ==
    ASSUME ReadsHeld, NEW t \in Threads,
           ~(task'[t].kind \in {"probe", "eval", "pointing"}),
           \A u \in Threads \ {t} : task'[u] = task[u],
           \A u \in Threads \ {t}, e \in stored :
             Reading(u) /\ ReadFrom(u, e) => e \in stored'
    PROVE  ReadsHeld'
<1>1. SUFFICES ASSUME NEW u \in Threads, task'[u].kind \in {"probe", "eval", "pointing"}
               PROVE  \E e \in stored' :
                        /\ e.thread = u
                        /\ e.start = task'[u].start
                        /\ e.bytes = task'[u].bytes
                        /\ e.array = task'[u].array
                        /\ task'[u].kind = "pointing" => e.views[task'[u].key] = task'[u].array
  BY DEF ReadsHeld, Reading, ReadFrom
<1>2. u # t /\ task'[u] = task[u] /\ Reading(u)
  BY <1>1 DEF Reading
<1>3. PICK e \in stored : ReadFrom(u, e)
  BY <1>2 DEF ReadsHeld
<1>4. e \in stored'
  BY <1>2, <1>3
<1> QED
  BY <1>2, <1>3, <1>4 DEF ReadFrom

\* A task that is not a host read, put in place of another.
LEMMA OthersStay ==
    ASSUME IInv, NEW t \in Threads,
           \/ \E kind : kind \notin {"probe", "eval", "pointing"} /\ Become(t, kind)
           \/ \E a : \E kind \in {"loaded", "made"} : Hold(t, kind, a)
           \/ \E base, size : task' = [task EXCEPT ![t] = TaskAt("alloc", base, size)]
    PROVE  /\ ~(task'[t].kind \in {"probe", "eval", "pointing"})
           /\ \A u \in Threads \ {t} : task'[u] = task[u]
<1>0. task \in [Threads -> Task]
  BY DEF IInv, TypeOK
<1>1. CASE \E kind : kind \notin {"probe", "eval", "pointing"} /\ Become(t, kind)
  BY <1>0, <1>1 DEF Become, TaskAt
<1>2. CASE \E a : \E kind \in {"loaded", "made"} : Hold(t, kind, a)
  BY <1>0, <1>2 DEF Hold, TaskWith
<1>3. CASE \E base, size : task' = [task EXCEPT ![t] = TaskAt("alloc", base, size)]
  BY <1>0, <1>3 DEF TaskAt
<1> QED
  BY <1>1, <1>2, <1>3

\* A step of such a thread that leaves the table alone.
LEMMA QuietReads ==
    ASSUME HInv, NEW t \in Threads, UNCHANGED stored,
           ~(task'[t].kind \in {"probe", "eval", "pointing"}),
           \A u \in Threads \ {t} : task'[u] = task[u]
    PROVE  OneEntryEach' /\ ViewsFresh' /\ ReadsHeld'
<1>1. ReadsHeld'
  BY ReadsStay DEF HInv
<1> QED
  BY <1>1 DEF HInv, OneEntryEach, ViewsFresh

-----------------------------------------------------------------------------
(* Stores and frees.                                                       *)

\* A store that no read overlaps drops no entry a read is from.
LEMMA ReadSurvives ==
    ASSUME InputsStable, HInv, NEW t \in Threads, NEW start, NEW bytes, NEW r,
           Undisturbed(t, start, bytes),
           NEW u \in Threads \ {t}, Reading(u), NEW e \in stored, ReadFrom(u, e)
    PROVE  e \in Surviving(r, start, bytes)
<1>1. ~Overlap(start, bytes, e.start, e.bytes)
  BY DEF Undisturbed, InHostRead, Reading, ReadFrom
<1> QED
  BY <1>1 DEF Surviving

LEMMA StoreViews ==
    ASSUME InputsStable, HInv, NEW t \in Threads, NEW a \in Arrays,
           NEW start \in Nat, NEW bytes \in Nat,
           Stored(t, start, bytes, a) \/ NotStored(start, bytes), UNCHANGED index,
           Undisturbed(t, start, bytes)
    PROVE  /\ OneEntryEach' /\ ViewsFresh'
           /\ \A u \in Threads \ {t}, e \in stored :
                Reading(u) /\ ReadFrom(u, e) => e \in stored'
<1>1. CASE UNCHANGED <<stored, written>>
  BY <1>1 DEF HInv, OneEntryEach, ViewsFresh
<1>2. CASE \E r \in index : Nearest(r, start) /\ Fits(r, start, bytes) /\ bytes > 0
                          /\ StoreInto(t, r, start, bytes, a)
  <2>1. PICK r \in index : Holding(r, start, bytes) /\ StoreInto(t, r, start, bytes, a)
    BY <1>2 DEF Nearest, Holding
  <2> DEFINE new == [base |-> r.base, start |-> start, bytes |-> bytes, array |-> a,
                     thread |-> t, views |-> [k \in Keys |-> NoArray]]
  <2>2. stored' = Surviving(r, start, bytes) \cup {new}
    BY <2>1 DEF StoreInto
  <2>3. \A e \in Surviving(r, start, bytes) : e \in stored /\ e.start # start
    <3>1. SUFFICES ASSUME NEW e \in Surviving(r, start, bytes) PROVE e \in stored /\ e.start # start
      OBVIOUS
    <3>2. e \in stored /\ Span(e.start, e.bytes) \cap Span(start, bytes) = {}
      BY <2>1, SurvivorsApart DEF HInv, IInv, RegionsDisjoint
    <3>3. e \in Entry
      BY <3>2 DEF HInv, IInv, TypeOK
    <3>4. start \in Span(start, bytes)
      BY <2>1 DEF Holding, Span
    <3>5. e.start \in Span(e.start, e.bytes)
      BY <3>3 DEF Entry, Addr, Span
    <3> QED
      BY <3>2, <3>4, <3>5
  <2>4. new.start = start /\ \A k \in Keys : new.views[k] = NoArray
    OBVIOUS
  <2> HIDE DEF new
  <2>5. OneEntryEach'
    BY <2>2, <2>3, <2>4 DEF HInv, OneEntryEach
  <2>6. ViewsFresh'
    BY <2>2, <2>3, <2>4 DEF HInv, ViewsFresh
  <2> QED
    BY <2>2, <2>5, <2>6, ReadSurvives
<1>3. CASE \E r \in index : Nearest(r, start) /\ Fits(r, start, bytes) /\ bytes > 0
                          /\ StoreLost(r, start, bytes)
  <2>1. PICK r \in index : StoreLost(r, start, bytes)
    BY <1>3
  <2>2. stored' = Surviving(r, start, bytes)
    BY <2>1 DEF StoreLost
  <2>3. stored' \subseteq stored
    BY <2>2 DEF Surviving
  <2> QED
    BY <2>2, <2>3, ReadSurvives DEF HInv, OneEntryEach, ViewsFresh
<1> QED
  BY <1>1, <1>2, <1>3 DEF Stored, NotStored

LEMMA FreeViews ==
    ASSUME InputsStable, HInv, NEW t \in Threads, Free(t)
    PROVE  OneEntryEach' /\ ViewsFresh' /\ ReadsHeld'
<1>1. PICK r \in index :
         /\ Undisturbed(t, r.base, r.size)
         /\ stored' = {e \in stored : e.base # r.base}
  BY DEF Free
<1>2. task' = task /\ task[t].kind = "idle"
  BY DEF Free
<1>3. ASSUME NEW u \in Threads \ {t}, NEW e \in stored, Reading(u), ReadFrom(u, e)
      PROVE  e \in stored'
  <2>1. SUFFICES ASSUME e.base = r.base PROVE FALSE
    BY <1>1
  <2>2. PICK s \in index : s.base = e.base /\ Span(e.start, e.bytes) \subseteq Span(s.base, s.size)
    BY DEF HInv, IInv, RegionsDisjoint, EntriesInside
  <2>3. s \in Region /\ r \in Region /\ e \in Entry
    BY DEF HInv, IInv, TypeOK
  <2>4. s = r
    <3>1. Overlap(s.base, s.size, r.base, r.size)
      BY <2>1, <2>2, <2>3 DEF Overlap, Region, Addr
    <3> QED
      BY <3>1 DEF HInv, IInv, RegionsDisjoint, AllocationsApart
  <2>5. e.start \in Span(r.base, r.size)
    BY <2>2, <2>3, <2>4 DEF Span, Entry, Addr
  <2>6. Overlap(r.base, r.size, e.start, e.bytes)
    BY <2>3, <2>5 DEF Overlap, Span, Region, Entry, Addr
  <2> QED
    BY <1>1, <1>3, <2>6 DEF Undisturbed, InHostRead, Reading, ReadFrom
<1>4. ReadsHeld'
  BY <1>2, <1>3, ReadsStay DEF HInv
<1> QED
  BY <1>1, <1>4 DEF HInv, OneEntryEach, ViewsFresh

-----------------------------------------------------------------------------
(* The three locked sections of host_data.                                 *)

\* The address finds the entry the read is from.
LEMMA SameEntry ==
    ASSUME HInv, NEW t \in Threads, Reading(t), NEW e \in stored, EntryAt(e, task[t].start)
    PROVE  ReadFrom(t, e)
<1>1. PICK f \in stored : ReadFrom(t, f)
  BY DEF HInv, ReadsHeld
<1> QED
  BY <1>1 DEF HInv, OneEntryEach, EntryAt, ReadFrom

\* A read that begins, or goes on, without touching the table.
LEMMA ReadMoves ==
    ASSUME HInv, NEW t \in Threads, UNCHANGED stored, NEW w,
           task' = [task EXCEPT ![t] = w], NEW e \in stored,
           e.thread = t, e.start = w.start, e.bytes = w.bytes, e.array = w.array,
           w.kind = "pointing" => e.views[w.key] = w.array
    PROVE  OneEntryEach' /\ ViewsFresh' /\ ReadsHeld'
<1>1. \A u \in Threads : task'[u] = IF u = t THEN w ELSE task[u]
  BY DEF HInv, IInv, TypeOK
<1>2. ReadsHeld'
  BY <1>1 DEF HInv, ReadsHeld, Reading, ReadFrom
<1> QED
  BY <1>2 DEF HInv, OneEntryEach, ViewsFresh

LEMMA HostDataViews ==
    ASSUME HInv, NEW t \in Threads, HostData(t)
    PROVE  OneEntryEach' /\ ViewsFresh' /\ ReadsHeld'
<1>0. UNCHANGED stored
  BY DEF HostData
<1>1. CASE \E start \in Addr, bytes \in 1 .. HeapSize :
             LoadMisses(t, start, bytes) \/ LoadFails(t, start, bytes)
  <2>1. PICK kind \in {"missing", "failed"} : Become(t, kind)
    BY <1>1 DEF LoadMisses, LoadFails
  <2> QED
    BY <1>0, <2>1, OthersStay, QuietReads DEF HInv
<1>2. CASE \E start \in Addr, bytes \in 1 .. HeapSize, k \in Keys :
             \E a \in Found(t, start, bytes) :
               task' = [task EXCEPT ![t] = [kind |-> "probe", start |-> start,
                                            bytes |-> bytes, key |-> k, array |-> a]]
  <2>1. PICK start \in Addr, bytes \in 1 .. HeapSize, k \in Keys :
          \E a \in Found(t, start, bytes) :
            task' = [task EXCEPT ![t] = [kind |-> "probe", start |-> start,
                                         bytes |-> bytes, key |-> k, array |-> a]]
    BY <1>2
  <2>2. PICK e \in stored :
          /\ Loadable(t, e, start, bytes)
          /\ task' = [task EXCEPT ![t] = [kind |-> "probe", start |-> start,
                                          bytes |-> bytes, key |-> k, array |-> e.array]]
    BY <2>1 DEF Found
  <2> DEFINE w == [kind |-> "probe", start |-> start, bytes |-> bytes, key |-> k,
                   array |-> e.array]
  <2>3. /\ e.thread = t /\ e.start = w.start /\ e.bytes = w.bytes /\ e.array = w.array
        /\ w.kind = "probe"
    BY <2>2 DEF Loadable
  <2>4. task' = [task EXCEPT ![t] = w]
    BY <2>2
  <2> HIDE DEF w
  <2> QED
    BY <1>0, <2>3, <2>4, ReadMoves
<1> QED
  BY <1>1, <1>2 DEF HostData

LEMMA HostViewViews ==
    ASSUME HInv, NEW t \in Threads, HostView(t)
    PROVE  OneEntryEach' /\ ViewsFresh' /\ ReadsHeld'
<1>0. /\ UNCHANGED stored /\ Reading(t) /\ task[t].kind = "probe"
      /\ task \in [Threads -> Task] /\ task[t] \in Task
  BY DEF HostView, Reading, HInv, IInv, TypeOK
<1>1. CASE \E e \in stored :
             /\ EntryAt(e, task[t].start)
             /\ e.views[task[t].key] # NoArray
             /\ task' = [task EXCEPT ![t].kind = "pointing",
                                     ![t].array = e.views[task[t].key]]
  <2>1. PICK e \in stored :
          /\ EntryAt(e, task[t].start)
          /\ e.views[task[t].key] # NoArray
          /\ task' = [task EXCEPT ![t].kind = "pointing",
                                  ![t].array = e.views[task[t].key]]
    BY <1>1
  <2>2. ReadFrom(t, e)
    BY <1>0, <2>1, SameEntry
  <2>3. e.views[task[t].key] = e.array
    BY <1>0, <2>1 DEF HInv, ViewsFresh, Task
  <2> DEFINE w == [task[t] EXCEPT !.kind = "pointing", !.array = e.array]
  <2>4. /\ w.kind = "pointing" /\ w.start = e.start /\ w.bytes = e.bytes /\ w.array = e.array
        /\ w.key = task[t].key /\ e.thread = t
    BY <1>0, <2>2 DEF ReadFrom, Task
  <2>5. task' = [task EXCEPT ![t] = w]
    BY <1>0, <2>1, <2>3
  <2> HIDE DEF w
  <2> QED
    BY <1>0, <2>3, <2>4, <2>5, ReadMoves
<1>2. CASE task' = [task EXCEPT ![t].kind = "eval"]
  <2>1. PICK e \in stored : ReadFrom(t, e)
    BY <1>0 DEF HInv, ReadsHeld
  <2> DEFINE w == [task[t] EXCEPT !.kind = "eval"]
  <2>2. /\ w.kind = "eval" /\ w.start = e.start /\ w.bytes = e.bytes /\ w.array = e.array
        /\ e.thread = t
    BY <1>0, <2>1 DEF ReadFrom, Task
  <2>3. task' = [task EXCEPT ![t] = w]
    BY <1>0, <1>2
  <2> HIDE DEF w
  <2> QED
    BY <1>0, <2>2, <2>3, ReadMoves
<1> QED
  BY <1>1, <1>2 DEF HostView

LEMMA HostInsertViews ==
    ASSUME HInv, NEW t \in Threads, HostInsert(t)
    PROVE  OneEntryEach' /\ ViewsFresh' /\ ReadsHeld'
<1>0. /\ Reading(t) /\ task[t].kind = "eval" /\ task \in [Threads -> Task] /\ task[t] \in Task
      /\ stored \subseteq Entry
  BY DEF HostInsert, Reading, HInv, IInv, TypeOK
<1>1. PICK e \in stored :
         /\ EntryAt(e, task[t].start)
         /\ stored' = (stored \ {e}) \cup {[e EXCEPT !.views[task[t].key] = task[t].array]}
  BY DEF HostInsert
<1>2. ReadFrom(t, e)
  BY <1>0, <1>1, SameEntry
<1> DEFINE viewed == [e EXCEPT !.views[task[t].key] = task[t].array]
<1>3. /\ viewed.start = e.start /\ viewed.bytes = e.bytes /\ viewed.array = e.array
      /\ viewed.thread = e.thread
      /\ \A k \in Keys : viewed.views[k] = IF k = task[t].key THEN e.array ELSE e.views[k]
  BY <1>0, <1>2 DEF Entry, ReadFrom
<1>4. stored' = (stored \ {e}) \cup {viewed}
  BY <1>1
<1> HIDE DEF viewed
<1>5. OneEntryEach'
  BY <1>3, <1>4 DEF HInv, OneEntryEach
<1>6. ViewsFresh'
  BY <1>3, <1>4 DEF HInv, ViewsFresh
<1>7. \A u \in Threads : /\ task'[u].start = task[u].start /\ task'[u].bytes = task[u].bytes
                         /\ task'[u].array = task[u].array /\ task'[u].key = task[u].key
                         /\ task[u].key \in Keys
                         /\ task'[u].kind = IF u = t THEN "pointing" ELSE task[u].kind
  <2>1. task' = [task EXCEPT ![t].kind = "pointing"]
    BY DEF HostInsert
  <2> QED
    BY <1>0, <2>1 DEF Task
<1>8. ReadsHeld'
  <2>1. SUFFICES ASSUME NEW u \in Threads, task'[u].kind \in {"probe", "eval", "pointing"}
                 PROVE  \E f \in stored' :
                          /\ f.thread = u
                          /\ f.start = task'[u].start
                          /\ f.bytes = task'[u].bytes
                          /\ f.array = task'[u].array
                          /\ task'[u].kind = "pointing" => f.views[task'[u].key] = task'[u].array
    BY DEF ReadsHeld, Reading, ReadFrom
  <2>2. Reading(u)
    BY <1>0, <1>7, <2>1 DEF Reading
  <2>3. PICK f \in stored : ReadFrom(u, f)
    BY <2>2 DEF HInv, ReadsHeld
  <2>4. CASE u = t
    BY <1>2, <1>3, <1>4, <1>7, <2>4 DEF ReadFrom
  <2>5. CASE u # t /\ f = e
    BY <1>3, <1>4, <1>7, <2>3, <2>5 DEF ReadFrom
  <2>6. CASE u # t /\ f # e
    BY <1>4, <1>7, <2>3, <2>6 DEF ReadFrom
  <2> QED
    BY <2>4, <2>5, <2>6
<1> QED
  BY <1>5, <1>6, <1>8

-----------------------------------------------------------------------------
\* A store at the end of a Run or of a transfer.
LEMMA StoringStep ==
    ASSUME InputsStable, HInv, NEW t \in Threads, Assign(t) \/ CopyDestination(t)
    PROVE  OneEntryEach' /\ ViewsFresh' /\ ReadsHeld'
<1>0. /\ task[t].kind \in {"loaded", "made"} /\ task[t].array \in Arrays /\ UNCHANGED index
  BY DEF Assign, CopyDestination, HInv, IInv, TypeOK, ArraysHeld
<1>1. PICK kind \in {"idle", "copy", "failed"} : Become(t, kind)
  BY DEF Assign, CopyDestination, Finish, Fail, NextTensor
<1>2. /\ ~(task'[t].kind \in {"probe", "eval", "pointing"})
      /\ \A u \in Threads \ {t} : task'[u] = task[u]
  BY <1>1, OthersStay DEF HInv
<1>3. CASE UNCHANGED stored
  BY <1>2, <1>3, QuietReads
<1>4. ASSUME NEW start \in Nat, NEW bytes \in Nat, Undisturbed(t, start, bytes),
             Stored(t, start, bytes, task[t].array) \/ NotStored(start, bytes)
      PROVE  OneEntryEach' /\ ViewsFresh' /\ ReadsHeld'
  BY <1>0, <1>2, <1>4, StoreViews, ReadsStay DEF HInv
<1>5. CASE Assign(t)
  BY <1>4, <1>5 DEF Assign, Addr
<1>6. CASE CopyDestination(t)
  <2> DEFINE pair == Head(todo[t])
  <2>1. todo[t] # <<>> /\ todo[t] \in Seq(Pair)
    BY <1>6 DEF CopyDestination, HInv, IInv, TypeOK
  <2>2. pair \in Pair
    BY <2>1
  <2>3. CASE pair.dst = Host
    BY <1>3, <1>6, <2>3 DEF CopyDestination
  <2>4. CASE pair.dst # Host
    <3>1. pair.dst \in Nat /\ pair.bytes \in Nat
      BY <2>2, <2>4 DEF Pair, Addr
    <3> QED
      BY <1>4, <1>6, <2>4, <3>1 DEF CopyDestination
  <2> QED
    BY <2>3, <2>4
<1> QED
  BY <1>5, <1>6

\* A step that is neither a store nor a host read.
LEMMA OtherStep ==
    ASSUME HInv, NEW t \in Threads,
           \/ Allocate(t) \/ Publish(t) \/ Produce(t) \/ Array(t) \/ HostFail(t)
           \/ CopyTensors(t) \/ CopySource(t) \/ Done(t)
    PROVE  OneEntryEach' /\ ViewsFresh' /\ ReadsHeld'
<1>1. UNCHANGED stored
  BY DEF Allocate, Publish, Produce, Array, HostFail, CopyTensors, CopySource, Done
<1>2. \/ \E kind : kind \notin {"probe", "eval", "pointing"} /\ Become(t, kind)
      \/ \E a : \E kind \in {"loaded", "made"} : Hold(t, kind, a)
      \/ \E base, size : task' = [task EXCEPT ![t] = TaskAt("alloc", base, size)]
  <2>1. CASE Allocate(t)
    BY <2>1 DEF Allocate
  <2>2. CASE Publish(t) \/ HostFail(t) \/ CopyTensors(t) \/ Done(t)
    <3>1. Become(t, "idle") \/ Become(t, "failed") \/ Become(t, "copy")
      BY <2>2 DEF Publish, HostFail, CopyTensors, Done, Finish, Fail
    <3> QED
      BY <3>1
  <2>3. CASE Produce(t)
    BY <2>3 DEF Produce
  <2>4. ASSUME NEW start, NEW bytes,
               \/ Load(t, start, bytes) \/ LoadMisses(t, start, bytes)
               \/ LoadFails(t, start, bytes)
        PROVE  \/ \E kind : kind \notin {"probe", "eval", "pointing"} /\ Become(t, kind)
               \/ \E a : \E kind \in {"loaded", "made"} : Hold(t, kind, a)
    <3>1. CASE Load(t, start, bytes)
      BY <3>1 DEF Load
    <3>2. CASE LoadMisses(t, start, bytes) \/ LoadFails(t, start, bytes)
      <4>1. Become(t, "missing") \/ Become(t, "failed")
        BY <3>2 DEF LoadMisses, LoadFails
      <4> QED
        BY <4>1
    <3> QED
      BY <2>4, <3>1, <3>2
  <2>5. CASE Array(t)
    BY <2>4, <2>5 DEF Array
  <2>6. CASE CopySource(t)
    <3>1. CASE Become(t, "failed")
      BY <3>1
    <3>2. CASE \E a \in Arrays : Hold(t, "made", a)
      BY <3>2
    <3> QED
      BY <2>4, <2>6, <3>1, <3>2 DEF CopySource, Fail
  <2> QED
    BY <2>1, <2>2, <2>3, <2>5, <2>6
<1> QED
  BY <1>1, <1>2, OthersStay, QuietReads DEF HInv

LEMMA InitHInv == Init => HInv
<1>1. SUFFICES ASSUME Init PROVE HInv
  OBVIOUS
<1>2. \A u \in Threads : ~Reading(u)
  BY <1>1 DEF Init, Reading, TaskAt
<1> QED
  BY <1>1, <1>2, InitIInv DEF HInv, Init, OneEntryEach, ViewsFresh, ReadsHeld

LEMMA NextHInv == InputsStable /\ HInv /\ [Next]_vars => HInv'
<1>1. SUFFICES ASSUME InputsStable, HInv, [Next]_vars PROVE HInv'
  OBVIOUS
<1>2. IInv'
  BY <1>1, NextIInv DEF HInv
<1>3. CASE UNCHANGED vars
  BY <1>1, <1>2, <1>3 DEF vars, HInv, OneEntryEach, ViewsFresh, ReadsHeld, Reading, ReadFrom
<1>4. ASSUME NEW t \in Threads,
             \/ Allocate(t) \/ Publish(t) \/ Free(t)
             \/ Produce(t) \/ Assign(t) \/ Array(t)
             \/ HostData(t) \/ HostView(t) \/ HostInsert(t) \/ HostFail(t)
             \/ CopyTensors(t) \/ CopySource(t) \/ CopyDestination(t)
             \/ Done(t)
      PROVE  OneEntryEach' /\ ViewsFresh' /\ ReadsHeld'
  BY <1>1, <1>4, FreeViews, HostDataViews, HostViewViews, HostInsertViews, StoringStep, OtherStep
<1> QED
  BY <1>1, <1>2, <1>3, <1>4 DEF Next, HInv

-----------------------------------------------------------------------------
\* A cached host view shows the payload of its entry (Entry::host_views of
\* device.rs), when callers leave an input alone while it is read.
THEOREM ViewsStayFresh == ASSUME InputsStable PROVE Spec => []ViewsFresh
<1>1. HInv => ViewsFresh
  BY DEF HInv
<1>2. HInv /\ [Next]_vars => HInv'
  BY NextHInv
<1> QED
  BY <1>1, <1>2, InitHInv, PTL DEF Spec

\* The pointer that host_data returned stays inside a view the table owns until
\* the Run is done with it.
THEOREM PointersStayLive == ASSUME InputsStable PROVE Spec => []PointerLive
<1>1. HInv => PointerLive
  BY DEF HInv, PointerLive, ReadsHeld, Reading, ReadFrom
<1>2. HInv /\ [Next]_vars => HInv'
  BY NextHInv
<1> QED
  BY <1>1, <1>2, InitHInv, PTL DEF Spec
-----------------------------------------------------------------------------
(* The refinement.                                                         *)

Answers == [t \in Threads |-> MemAnswer(t)]

\* MemAnswer, of the task alone.
AnswerOf(w) ==
    CASE w.kind \in {"loaded", "pointing"} -> [from |-> "memory", array |-> w.array]
      [] w.kind = "made" -> [from |-> "made", array |-> w.array]
      [] w.kind \in {"missing", "failed"} -> [from |-> w.kind]
      [] OTHER -> [from |-> "none"]

\* A memory step, with the index and the tasks for its variables.
MemStep == Memory!Next \/ UNCHANGED <<index, written, Answers>>

LEMMA OneAnswer ==
    ASSUME IInv, NEW t \in Threads, NEW w, task' = [task EXCEPT ![t] = w]
    PROVE  Answers' = [Answers EXCEPT ![t] = AnswerOf(w)]
<1>1. task \in [Threads -> Task]
  BY DEF IInv, TypeOK
<1>2. \A u \in Threads : task'[u] = IF u = t THEN w ELSE task[u]
  BY <1>1
<1>3. \A u \in Threads : MemAnswer(u) = AnswerOf(task[u]) /\ MemAnswer(u)' = AnswerOf(task'[u])
  BY DEF MemAnswer, AnswerOf
<1>4. Answers' = [u \in Threads |-> AnswerOf(task'[u])]
  BY <1>3 DEF Answers
<1>5. Answers = [u \in Threads |-> AnswerOf(task[u])]
  BY <1>3 DEF Answers
<1>6. ASSUME NEW u \in Threads
      PROVE  AnswerOf(task'[u]) = IF u = t THEN AnswerOf(w) ELSE AnswerOf(task[u])
  <2>1. CASE u = t
    <3>1. task'[u] = w
      BY <1>2, <2>1
    <3> QED
      BY <2>1, <3>1
  <2>2. CASE u # t
    <3>1. task'[u] = task[u]
      BY <1>2, <2>2
    <3> QED
      BY <2>2, <3>1
  <2> QED
    BY <2>1, <2>2
<1> QED
  BY <1>4, <1>5, <1>6, Zenon

\* What a thread gets from the steps that end a call.
LEMMA Gets ==
    ASSUME IInv, NEW t \in Threads
    PROVE  /\ \A kind \in {"idle", "copy"} :
                Become(t, kind) => Answers' = [Answers EXCEPT ![t] = Memory!Nothing]
           /\ Become(t, "missing") => Answers' = [Answers EXCEPT ![t] = Memory!Missing]
           /\ Become(t, "failed") => Answers' = [Answers EXCEPT ![t] = Memory!Failed]
           /\ \A a : Hold(t, "made", a) => Answers' = [Answers EXCEPT ![t] = Memory!Made(a)]
           /\ \A a : Hold(t, "loaded", a) => Answers' = [Answers EXCEPT ![t] = Memory!Read(a)]
<1>1. ASSUME NEW kind \in {"idle", "copy"}, Become(t, kind)
      PROVE  Answers' = [Answers EXCEPT ![t] = Memory!Nothing]
  <2>1. Answers' = [Answers EXCEPT ![t] = AnswerOf(TaskAt(kind, 0, 0))]
    BY <1>1, OneAnswer DEF Become
  <2>2. AnswerOf(TaskAt(kind, 0, 0)) = Memory!Nothing
    BY DEF AnswerOf, TaskAt, Memory!Nothing
  <2> QED
    BY <2>1, <2>2
<1>2. ASSUME Become(t, "missing") PROVE Answers' = [Answers EXCEPT ![t] = Memory!Missing]
  <2>1. Answers' = [Answers EXCEPT ![t] = AnswerOf(TaskAt("missing", 0, 0))]
    BY <1>2, OneAnswer DEF Become
  <2>2. AnswerOf(TaskAt("missing", 0, 0)) = Memory!Missing
    BY DEF AnswerOf, TaskAt, Memory!Missing
  <2> QED
    BY <2>1, <2>2
<1>3. ASSUME Become(t, "failed") PROVE Answers' = [Answers EXCEPT ![t] = Memory!Failed]
  <2>1. Answers' = [Answers EXCEPT ![t] = AnswerOf(TaskAt("failed", 0, 0))]
    BY <1>3, OneAnswer DEF Become
  <2>2. AnswerOf(TaskAt("failed", 0, 0)) = Memory!Failed
    BY DEF AnswerOf, TaskAt, Memory!Failed
  <2> QED
    BY <2>1, <2>2
<1>4. ASSUME NEW a, Hold(t, "made", a)
      PROVE  Answers' = [Answers EXCEPT ![t] = Memory!Made(a)]
  <2>1. Answers' = [Answers EXCEPT ![t] = AnswerOf(TaskWith("made", a))]
    BY <1>4, OneAnswer DEF Hold
  <2>2. AnswerOf(TaskWith("made", a)) = Memory!Made(a)
    BY DEF AnswerOf, TaskWith, Memory!Made
  <2> QED
    BY <2>1, <2>2
<1>5. ASSUME NEW a, Hold(t, "loaded", a)
      PROVE  Answers' = [Answers EXCEPT ![t] = Memory!Read(a)]
  <2>1. Answers' = [Answers EXCEPT ![t] = AnswerOf(TaskWith("loaded", a))]
    BY <1>5, OneAnswer DEF Hold
  <2>2. AnswerOf(TaskWith("loaded", a)) = Memory!Read(a)
    BY DEF AnswerOf, TaskWith, Memory!Read
  <2> QED
    BY <2>1, <2>2
<1> QED
  BY <1>1, <1>2, <1>3, <1>4, <1>5

-----------------------------------------------------------------------------
(* The table and the memory.                                               *)

\* The memory reads what an entry holds.
LEMMA EntryReadable ==
    ASSUME IInv, NEW e \in stored
    PROVE  Memory!Readable(e.thread, e.start, e.bytes, e.array)
<1>1. PICK s \in index : s.base = e.base /\ Span(e.start, e.bytes) \subseteq Span(s.base, s.size)
  BY DEF IInv, RegionsDisjoint, EntriesInside
<1>2. Span(s.base, s.size) \subseteq Addr
  <2>1. s \in Region
    BY DEF IInv, TypeOK
  <2>2. s.base \in Nat /\ s.size \in Nat /\ s.base + s.size <= HeapSize
    BY <2>1 DEF Region, Addr
  <2> QED
    BY <2>2, HeapAssumption DEF Span, Addr
<1> QED
  BY <1>1, <1>2 DEF IInv, IndexAgrees, EntriesCurrent, Memory!Readable, Memory!Span, Memory!Addr,
     Span, Addr

\* Nothing hides an entry from the search by address.
LEMMA EntryFound ==
    ASSUME IInv, NEW e \in stored
    PROVE  Loadable(e.thread, e, e.start, e.bytes)
<1>1. PICK r \in index : r.base = e.base /\ Span(e.start, e.bytes) \subseteq Span(r.base, r.size)
  BY DEF IInv, RegionsDisjoint, EntriesInside
<1>2. r \in Region /\ e \in Entry
  BY DEF IInv, TypeOK
<1>3. e.start \in Span(r.base, r.size) /\ e.start + e.bytes - 1 \in Span(r.base, r.size)
  BY <1>1, <1>2 DEF Span, Entry, Addr
<1>4. Fits(r, e.start, e.bytes) /\ r.base <= e.start
  BY <1>2, <1>3 DEF Fits, Span, Region, Entry, Addr
<1>5. ASSUME NEW s \in index, s.base <= e.start PROVE s.base <= r.base
  <2>1. SUFFICES ASSUME r.base < s.base PROVE FALSE
    BY <1>2 DEF IInv, TypeOK, Region, Addr
  <2>2. s \in Region
    BY DEF IInv, TypeOK
  <2>3. Overlap(r.base, r.size, s.base, s.size)
    BY <1>2, <1>3, <1>5, <2>1, <2>2 DEF Overlap, Span, Region, Entry, Addr
  <2>4. r # s
    BY <1>2, <2>1 DEF Region, Addr
  <2> QED
    BY <2>3, <2>4 DEF IInv, RegionsDisjoint, AllocationsApart
<1> QED
  BY <1>1, <1>4, <1>5 DEF Loadable, Nearest

\* A load that finds nothing misses what the memory does not have.
LEMMA MissUnreadable ==
    ASSUME IInv, NEW t \in Threads, NEW start \in Addr, NEW bytes \in 1 .. HeapSize,
           Found(t, start, bytes) = {}, NEW a \in Arrays
    PROVE  ~Memory!Readable(t, start, bytes, a)
<1>1. SUFFICES ASSUME Memory!Readable(t, start, bytes, a) PROVE FALSE
  OBVIOUS
<1> DEFINE w == [start |-> start, bytes |-> bytes, array |-> a, thread |-> t]
<1>2. w \in Write
  BY DEF Write
<1>3. \A x \in Span(w.start, w.bytes) : x \in Addr /\ written[x] = w
  BY <1>1 DEF Memory!Readable, Memory!Span, Memory!Addr, Span, Addr
<1>4. w.start = start /\ w.bytes = bytes /\ w.thread = t
  OBVIOUS
<1> HIDE DEF w
<1>5. PICK e \in stored : e.start = start /\ e.bytes = bytes
  BY <1>2, <1>3, <1>4 DEF IInv, IndexAgrees, PayloadsKept
<1>6. start \in Span(start, bytes)
  BY DEF Span, Addr
<1>7. written[start] = [start |-> e.start, bytes |-> e.bytes, array |-> e.array,
                        thread |-> e.thread]
  BY <1>5, <1>6 DEF IInv, IndexAgrees, EntriesCurrent
<1>8. e.thread = t
  BY <1>3, <1>4, <1>6, <1>7
<1>9. e.array \in Found(t, start, bytes)
  BY <1>5, <1>8, EntryFound DEF Found
<1> QED
  BY <1>9

LEMMA LoadMapped ==
    ASSUME IInv, NEW t \in Threads, NEW start \in Addr, NEW bytes \in 0 .. HeapSize,
           \/ Load(t, start, bytes) \/ LoadMisses(t, start, bytes)
           \/ LoadFails(t, start, bytes),
           UNCHANGED <<index, written>>
    PROVE  Memory!Next
<1>1. CASE bytes = 0 /\ \E a \in Arrays : Hold(t, "made", a)
  BY <1>1, Gets DEF Memory!Next, Memory!Produce, Answers
<1>2. CASE bytes > 0 /\ \E a \in Found(t, start, bytes) : Hold(t, "loaded", a)
  <2>1. PICK e \in stored : Loadable(t, e, start, bytes) /\ Hold(t, "loaded", e.array)
    BY <1>2 DEF Found
  <2>2. e.array \in Arrays
    BY DEF IInv, TypeOK, Entry
  <2>3. Memory!Readable(t, start, bytes, e.array)
    BY <2>1, EntryReadable DEF Loadable
  <2>4. Answers' = [Answers EXCEPT ![t] = Memory!Read(e.array)]
    BY <2>1, Gets
  <2>5. Memory!Fetch(t, start, bytes)
    BY <2>2, <2>3, <2>4 DEF Memory!Fetch, Answers
  <2>6. bytes \in 1 .. HeapSize
    BY <1>2
  <2> QED
    BY <2>5, <2>6 DEF Memory!Next, Memory!Addr, Addr
<1>3. CASE LoadMisses(t, start, bytes)
  <2>1. bytes \in 1 .. HeapSize /\ Found(t, start, bytes) = {} /\ Become(t, "missing")
    BY <1>3 DEF LoadMisses
  <2>2. Answers' = [Answers EXCEPT ![t] = Memory!Missing]
    BY <2>1, Gets
  <2>3. Memory!Fetch(t, start, bytes)
    BY <2>1, <2>2, MissUnreadable DEF Memory!Fetch, Answers
  <2> QED
    BY <2>1, <2>3 DEF Memory!Next, Memory!Addr, Addr
<1>4. CASE LoadFails(t, start, bytes)
  BY <1>4, Gets DEF LoadFails, Memory!Next, Memory!Refuse, Answers
<1> QED
  BY <1>1, <1>2, <1>3, <1>4 DEF Load

\* Failing a call that wrote nothing, dropping an array, and moving on.
LEMMA RefuseMapped ==
    ASSUME IInv, NEW t \in Threads, Become(t, "failed"), UNCHANGED <<index, written>>
    PROVE  Memory!Next
BY Gets DEF Memory!Next, Memory!Refuse, Answers

LEMMA ForgetMapped ==
    ASSUME IInv, NEW t \in Threads, NEW kind \in {"idle", "copy"}, Become(t, kind),
           UNCHANGED <<index, written>>
    PROVE  Memory!Next
BY Gets DEF Memory!Next, Memory!Forget, Answers

LEMMA ProduceMapped ==
    ASSUME IInv, NEW t \in Threads, NEW a \in Arrays, Hold(t, "made", a),
           UNCHANGED <<index, written>>
    PROVE  Memory!Next
BY Gets DEF Memory!Next, Memory!Produce, Answers

\* A store covers its whole range, or spoils it, or does nothing.
LEMMA StoreMapped ==
    ASSUME IInv, NEW t \in Threads, task[t].kind \in {"loaded", "made"},
           NEW start \in Addr, NEW bytes \in 0 .. HeapSize, UNCHANGED index,
           \/ /\ Stored(t, start, bytes, task[t].array)
              /\ \E kind \in {"idle", "copy"} : Become(t, kind)
           \/ NotStored(start, bytes) /\ Become(t, "failed")
    PROVE  Memory!Next
<1>1. CASE UNCHANGED <<stored, written>>
  BY <1>1, RefuseMapped, ForgetMapped
<1>2. CASE /\ bytes > 0
           /\ \E r \in index : Nearest(r, start) /\ Fits(r, start, bytes)
                                 /\ StoreInto(t, r, start, bytes, task[t].array)
           /\ \E kind \in {"idle", "copy"} : Become(t, kind)
  <2>1. PICK r \in index : Holding(r, start, bytes) /\ StoreInto(t, r, start, bytes, task[t].array)
    BY <1>2 DEF Nearest, Holding, Addr
  <2>2. task[t].array \in Arrays
    BY DEF IInv, TypeOK, ArraysHeld
  <2>3. Answers' = [Answers EXCEPT ![t] = Memory!Nothing]
    BY <1>2, Gets
  <2>4. Memory!Holds(t, task[t].array)
    BY DEF Memory!Holds, Memory!Read, Memory!Made, MemAnswer
  <2>5. Memory!Span(start, bytes) \subseteq Memory!Span(r.base, r.size)
    BY <2>1, HoldingSpan DEF Memory!Span, Span, IInv
  <2>6. written' = [x \in Addr |->
                      IF x \in Span(start, bytes)
                        THEN [start |-> start, bytes |-> bytes, array |-> task[t].array,
                              thread |-> t]
                        ELSE written[x]]
    BY <2>1 DEF StoreInto
  <2>7. Memory!Put(t, start, bytes, task[t].array)
    BY <2>3, <2>4, <2>5, <2>6 DEF Memory!Put, Memory!Span, Memory!Addr, Span, Addr, Answers
  <2>8. bytes \in 1 .. HeapSize
    BY <1>2
  <2> QED
    BY <2>2, <2>7, <2>8 DEF Memory!Next, Memory!Addr, Addr
<1>3. CASE /\ bytes > 0
           /\ \E r \in index : StoreLost(r, start, bytes)
           /\ Become(t, "failed")
  <2>1. written' = [x \in Addr |-> IF x \in Span(start, bytes) THEN Wiped ELSE written[x]]
    BY <1>3 DEF StoreLost
  <2>2. Answers' = [Answers EXCEPT ![t] = Memory!Failed]
    BY <1>3, Gets
  <2>3. Memory!Spoil(t, start, bytes)
    BY <2>1, <2>2 DEF Memory!Spoil, Memory!Span, Memory!Addr, Memory!Wiped, Span, Addr, Wiped, Answers
  <2>4. bytes \in 1 .. HeapSize
    BY <1>3
  <2> QED
    BY <2>3, <2>4 DEF Memory!Next, Memory!Addr, Addr
<1> QED
  BY <1>1, <1>2, <1>3 DEF Stored, NotStored

-----------------------------------------------------------------------------
(* One step per action.                                                    *)

LEMMA AllocationMapped ==
    ASSUME IInv, NEW t \in Threads, Allocate(t) \/ Publish(t) \/ Free(t)
    PROVE  MemStep
<1>1. CASE Allocate(t)
  <2>1. PICK base, size : task' = [task EXCEPT ![t] = TaskAt("alloc", base, size)]
    BY <1>1 DEF Allocate
  <2>2. Answers' = [Answers EXCEPT ![t] = AnswerOf(TaskAt("alloc", base, size))]
    BY <2>1, OneAnswer
  <2>3. AnswerOf(TaskAt("alloc", base, size)) = Answers[t]
    BY <1>1 DEF Allocate, AnswerOf, TaskAt, Answers, MemAnswer
  <2>4. Answers' = Answers
    BY <2>2, <2>3 DEF Answers
  <2> QED
    BY <1>1, <2>4 DEF Allocate, MemStep
<1>2. CASE Publish(t)
  <2> DEFINE base == task[t].start
             size == task[t].bytes
  <2>1. task[t].kind = "alloc" /\ [base |-> base, size |-> size] \in Region
    BY <1>2 DEF Publish, IInv, TypeOK
  <2>2. base \in Addr /\ size \in 1 .. HeapSize /\ base + size <= HeapSize
    BY <2>1 DEF Region
  <2>3. Answers' = [Answers EXCEPT ![t] = Memory!Nothing]
    BY <1>2, Gets DEF Publish
  <2>4. Answers[t] = Memory!Nothing
    BY <2>1 DEF Answers, MemAnswer, Memory!Nothing
  <2>5. Answers' = Answers
    BY <2>3, <2>4 DEF Answers
  <2>6. ASSUME NEW r \in index PROVE Memory!Span(base, size) \cap Memory!Span(r.base, r.size) = {}
    <3>1. ~Overlap(r.base, r.size, base, size)
      BY <2>1 DEF IInv, RegionsDisjoint, ReservationsApart
    <3>2. r.base \in Nat /\ r.size \in Nat
      BY DEF IInv, TypeOK, Region, Addr
    <3>3. base \in Nat /\ size \in Nat
      BY <2>2 DEF Addr
    <3>4. r.base + r.size <= base \/ base + size <= r.base
      BY <3>1, <3>2, <3>3 DEF Overlap
    <3> QED
      BY <3>2, <3>3, <3>4, Apart DEF Memory!Span
  <2>7. Memory!Reserve(base, size)
    BY <1>2, <2>2, <2>5, <2>6 DEF Publish, Memory!Reserve, Answers
  <2> QED
    BY <2>2, <2>7 DEF MemStep, Memory!Next, Memory!Addr, Addr
<1>3. CASE Free(t)
  <2>1. PICK r \in index :
          /\ index' = index \ {r}
          /\ written' = [x \in Addr |->
                           IF x \in Span(r.base, r.size) THEN Wiped ELSE written[x]]
    BY <1>3 DEF Free
  <2>2. Answers' = Answers
    BY <1>3 DEF Free, Answers, MemAnswer
  <2>3. Memory!Release(r)
    BY <2>1, <2>2 DEF Memory!Release, Memory!Span, Memory!Addr, Memory!Wiped, Span, Addr, Wiped, Answers
  <2> QED
    BY <2>3 DEF MemStep, Memory!Next
<1> QED
  BY <1>1, <1>2, <1>3

\* A host read answers with what the memory still has at the address.
LEMMA ReadMapped ==
    ASSUME IInv, NEW t \in Threads, NEW e \in stored, e.thread = t, NEW w,
           task' = [task EXCEPT ![t] = w], w.kind = "pointing", w.array = e.array,
           UNCHANGED <<index, written>>
    PROVE  Memory!Next
<1>1. e \in Entry
  BY DEF IInv, TypeOK
<1>2. Memory!Readable(t, e.start, e.bytes, e.array)
  BY EntryReadable
<1>3. AnswerOf(w) = Memory!Read(e.array)
  BY DEF AnswerOf, Memory!Read
<1>4. Answers' = [Answers EXCEPT ![t] = Memory!Read(e.array)]
  BY <1>3, OneAnswer
<1>5. Memory!Fetch(t, e.start, e.bytes)
  BY <1>1, <1>2, <1>4 DEF Memory!Fetch, Answers, Entry
<1> QED
  BY <1>1, <1>5 DEF Memory!Next, Memory!Addr, Addr, Entry

LEMMA HostReadMapped ==
    ASSUME HInv, NEW t \in Threads, HostData(t) \/ HostView(t) \/ HostInsert(t) \/ HostFail(t)
    PROVE  MemStep
<1>0. IInv /\ task \in [Threads -> Task] /\ task[t] \in Task
  BY DEF HInv, IInv, TypeOK
<1>n. ASSUME NEW w, task' = [task EXCEPT ![t] = w], w.kind \in {"probe", "eval"},
             task[t].kind \in {"idle", "probe"}, UNCHANGED <<index, written>>
      PROVE  MemStep
  <2>1. Answers' = [Answers EXCEPT ![t] = AnswerOf(w)]
    BY <1>0, <1>n, OneAnswer
  <2>2. AnswerOf(w) = Answers[t]
    BY <1>n DEF AnswerOf, Answers, MemAnswer
  <2>3. Answers' = Answers
    BY <2>1, <2>2 DEF Answers
  <2> QED
    BY <1>n, <2>3 DEF MemStep
<1>1. CASE HostData(t)
  <2>1. CASE \E start \in Addr, bytes \in 1 .. HeapSize :
               LoadMisses(t, start, bytes) \/ LoadFails(t, start, bytes)
    <3>1. PICK start \in Addr, bytes \in 0 .. HeapSize :
            LoadMisses(t, start, bytes) \/ LoadFails(t, start, bytes)
      BY <2>1
    <3> QED
      BY <1>0, <1>1, <3>1, LoadMapped DEF HostData, MemStep
  <2>2. CASE \E start \in Addr, bytes \in 1 .. HeapSize, k \in Keys :
               \E a \in Found(t, start, bytes) :
                 task' = [task EXCEPT ![t] = [kind |-> "probe", start |-> start,
                                              bytes |-> bytes, key |-> k, array |-> a]]
    <3>0. PICK start \in Addr, bytes \in 1 .. HeapSize, k \in Keys :
            \E a \in Found(t, start, bytes) :
              task' = [task EXCEPT ![t] = [kind |-> "probe", start |-> start,
                                           bytes |-> bytes, key |-> k, array |-> a]]
      BY <2>2
    <3>1. PICK a \in Found(t, start, bytes) :
            task' = [task EXCEPT ![t] = [kind |-> "probe", start |-> start,
                                         bytes |-> bytes, key |-> k, array |-> a]]
      BY <3>0
    <3> DEFINE w == [kind |-> "probe", start |-> start, bytes |-> bytes, key |-> k, array |-> a]
    <3>2. w.kind = "probe" /\ task' = [task EXCEPT ![t] = w]
      BY <3>1
    <3> HIDE DEF w
    <3> QED
      BY <1>1, <1>n, <3>2 DEF HostData
  <2> QED
    BY <1>1, <2>1, <2>2 DEF HostData
<1>2. CASE HostView(t)
  <2>0. Reading(t) /\ task[t].kind = "probe" /\ UNCHANGED <<index, written>>
    BY <1>2 DEF HostView, Reading
  <2>1. CASE \E e \in stored :
               /\ EntryAt(e, task[t].start)
               /\ e.views[task[t].key] # NoArray
               /\ task' = [task EXCEPT ![t].kind = "pointing",
                                       ![t].array = e.views[task[t].key]]
    <3>1. PICK e \in stored :
            /\ EntryAt(e, task[t].start)
            /\ e.views[task[t].key] # NoArray
            /\ task' = [task EXCEPT ![t].kind = "pointing",
                                    ![t].array = e.views[task[t].key]]
      BY <2>1
    <3>2. e.thread = t
      BY <2>0, <3>1, SameEntry DEF ReadFrom
    <3>3. e.views[task[t].key] = e.array
      BY <1>0, <3>1 DEF HInv, ViewsFresh, Task
    <3> DEFINE w == [task[t] EXCEPT !.kind = "pointing", !.array = e.array]
    <3>4. w.kind = "pointing" /\ w.array = e.array
      BY <1>0 DEF Task
    <3>5. task' = [task EXCEPT ![t] = w]
      BY <1>0, <3>1, <3>3
    <3> HIDE DEF w
    <3> QED
      BY <1>0, <2>0, <3>2, <3>4, <3>5, ReadMapped DEF MemStep
  <2>2. CASE task' = [task EXCEPT ![t].kind = "eval"]
    <3> DEFINE w == [task[t] EXCEPT !.kind = "eval"]
    <3>1. w.kind = "eval" /\ task' = [task EXCEPT ![t] = w]
      BY <1>0, <2>2 DEF Task
    <3> HIDE DEF w
    <3> QED
      BY <1>n, <2>0, <3>1
  <2> QED
    BY <1>2, <2>1, <2>2 DEF HostView
<1>3. CASE HostInsert(t)
  <2>1. Reading(t) /\ task' = [task EXCEPT ![t].kind = "pointing"] /\ UNCHANGED <<index, written>>
    BY <1>3 DEF HostInsert, Reading
  <2>2. PICK e \in stored : EntryAt(e, task[t].start)
    BY <1>3 DEF HostInsert
  <2>3. e.thread = t /\ e.array = task[t].array
    BY <2>1, <2>2, SameEntry DEF ReadFrom
  <2> DEFINE w == [task[t] EXCEPT !.kind = "pointing"]
  <2>4. w.kind = "pointing" /\ w.array = e.array
    BY <1>0, <2>3 DEF Task
  <2>5. task' = [task EXCEPT ![t] = w]
    BY <1>0, <2>1
  <2>6. UNCHANGED <<index, written>>
    BY <2>1
  <2> HIDE DEF w
  <2>7. Memory!Next
    BY <1>0, <2>3, <2>4, <2>5, <2>6, ReadMapped
  <2> QED
    BY <2>7 DEF MemStep
<1>4. CASE HostFail(t)
  BY <1>0, <1>4, RefuseMapped DEF HostFail, Fail, MemStep
<1> QED
  BY <1>1, <1>2, <1>3, <1>4

LEMMA CallMapped ==
    ASSUME IInv, NEW t \in Threads, Produce(t) \/ Assign(t) \/ Array(t) \/ Done(t)
    PROVE  MemStep
<1>1. CASE Produce(t)
  BY <1>1, ProduceMapped DEF Produce, MemStep
<1>2. CASE Assign(t)
  BY <1>2, StoreMapped DEF Assign, Finish, Fail, MemStep
<1>3. CASE Array(t)
  BY <1>3, LoadMapped DEF Array, MemStep
<1>4. CASE Done(t)
  BY <1>4, ForgetMapped DEF Done, Finish, MemStep
<1> QED
  BY <1>1, <1>2, <1>3, <1>4

\* A transfer under way has a tensor left to move.
Moving == \A t \in Threads : task[t].kind = "copy" => todo[t] # <<>>

LEMMA MovingStep ==
    ASSUME IInv, Moving, [Next]_vars
    PROVE  Moving'
<1>0. task \in [Threads -> Task] /\ todo \in [Threads -> Seq(Pair)]
  BY DEF IInv, TypeOK
<1>1. CASE UNCHANGED vars
  BY <1>1 DEF vars, Moving
<1>2. ASSUME NEW t \in Threads, \A u \in Threads \ {t} : task'[u] = task[u] /\ todo'[u] = todo[u],
             task'[t].kind = "copy" => todo'[t] # <<>>
      PROVE  Moving'
  BY <1>2 DEF Moving
<1>3. ASSUME NEW t \in Threads, NEW w, task' = [task EXCEPT ![t] = w], w.kind # "copy",
             UNCHANGED todo \/ todo' = [todo EXCEPT ![t] = <<>>]
      PROVE  Moving'
  BY <1>0, <1>3 DEF Moving
<1>4. ASSUME NEW t \in Threads, NEW kind, kind # "copy", Become(t, kind),
             UNCHANGED todo \/ todo' = [todo EXCEPT ![t] = <<>>]
      PROVE  Moving'
  <2>1. TaskAt(kind, 0, 0).kind # "copy"
    BY <1>4 DEF TaskAt
  <2> QED
    BY <1>3, <1>4, <2>1 DEF Become
<1>5. ASSUME NEW t \in Threads, NEW kind \in {"made", "loaded"}, NEW a, Hold(t, kind, a),
             UNCHANGED todo
      PROVE  Moving'
  <2>1. TaskWith(kind, a).kind # "copy"
    BY <1>5 DEF TaskWith
  <2> QED
    BY <1>3, <1>5, <2>1 DEF Hold
<1>6. ASSUME NEW t \in Threads, NextTensor(t), todo[t] # <<>>
      PROVE  Moving'
  <2>1. \A u \in Threads \ {t} : task'[u] = task[u] /\ todo'[u] = todo[u]
    BY <1>0, <1>6 DEF NextTensor, Become
  <2>2. CASE Len(todo[t]) = 1
    BY <1>0, <1>2, <1>6, <2>1, <2>2 DEF NextTensor, Become, TaskAt
  <2>3. CASE Len(todo[t]) # 1
    <3> DEFINE rest == todo[t]
    <3>1. rest \in Seq(Pair) /\ rest # <<>> /\ Len(rest) # 1
      BY <1>0, <1>6, <2>3
    <3> HIDE DEF rest
    <3>2. Len(rest) \in Nat /\ Len(rest) # 0
      BY <3>1
    <3>3. Len(Tail(rest)) = Len(rest) - 1
      BY <3>1
    <3>4. Tail(rest) # <<>>
      <4>1. Len(<<>>) = 0
        OBVIOUS
      <4>2. Len(Tail(rest)) # 0
        BY <3>1, <3>2, <3>3
      <4> QED
        BY <4>1, <4>2, Zenon
    <3>5. todo'[t] = Tail(rest)
      BY <1>0, <1>6 DEF NextTensor, rest
    <3> QED
      BY <1>2, <2>1, <3>4, <3>5
  <2> QED
    BY <2>2, <2>3
<1>7. ASSUME NEW t \in Threads, NEW start, NEW bytes,
             \/ Load(t, start, bytes) /\ UNCHANGED todo
             \/ /\ LoadMisses(t, start, bytes) \/ LoadFails(t, start, bytes)
                /\ UNCHANGED todo \/ todo' = [todo EXCEPT ![t] = <<>>]
      PROVE  Moving'
  <2>1. CASE Load(t, start, bytes) /\ UNCHANGED todo
    BY <1>5, <2>1 DEF Load
  <2>2. CASE /\ Become(t, "missing") \/ Become(t, "failed")
             /\ UNCHANGED todo \/ todo' = [todo EXCEPT ![t] = <<>>]
    BY <1>4, <2>2
  <2> QED
    BY <1>7, <2>1, <2>2 DEF LoadMisses, LoadFails
<1>8. ASSUME NEW t \in Threads, Allocate(t) \/ HostView(t) \/ HostInsert(t) PROVE Moving'
  <2>1. CASE Allocate(t)
    <3>1. PICK base \in Addr, size \in 1 .. HeapSize :
            task' = [task EXCEPT ![t] = TaskAt("alloc", base, size)]
      BY <2>1 DEF Allocate
    <3>2. TaskAt("alloc", base, size).kind # "copy"
      BY DEF TaskAt
    <3> QED
      BY <1>3, <2>1, <3>1, <3>2 DEF Allocate
  <2>2. CASE HostView(t) \/ HostInsert(t)
    <3>1. /\ UNCHANGED todo /\ task[t] \in Task /\ task'[t].kind \in {"pointing", "eval"}
          /\ \A u \in Threads \ {t} : task'[u] = task[u]
      BY <1>0, <2>2 DEF HostView, HostInsert, Task
    <3> QED
      BY <1>2, <3>1
  <2> QED
    BY <1>8, <2>1, <2>2
<1>9. ASSUME NEW t \in Threads, Free(t) PROVE Moving'
  BY <1>9 DEF Free, Moving
<1>10. ASSUME NEW t \in Threads, HostData(t) PROVE Moving'
  <2>1. CASE \E start \in Addr, bytes \in 1 .. HeapSize :
               LoadMisses(t, start, bytes) \/ LoadFails(t, start, bytes)
    BY <1>7, <1>10, <2>1 DEF HostData
  <2>2. ASSUME NEW start \in Addr, NEW bytes \in 1 .. HeapSize, NEW k \in Keys, NEW a,
               task' = [task EXCEPT ![t] = [kind |-> "probe", start |-> start,
                                            bytes |-> bytes, key |-> k, array |-> a]]
        PROVE  Moving'
    <3> DEFINE w == [kind |-> "probe", start |-> start, bytes |-> bytes, key |-> k, array |-> a]
    <3>1. w.kind # "copy" /\ task' = [task EXCEPT ![t] = w]
      BY <2>2
    <3> HIDE DEF w
    <3> QED
      BY <1>3, <1>10, <3>1 DEF HostData
  <2> QED
    BY <1>10, <2>1, <2>2 DEF HostData
<1>11. ASSUME NEW t \in Threads, Publish(t) \/ Produce(t) \/ HostFail(t) \/ Done(t) \/ Array(t)
       PROVE  Moving'
  <2>1. CASE Publish(t)
    BY <1>4, <2>1 DEF Publish
  <2>2. CASE Produce(t)
    BY <1>5, <2>2 DEF Produce
  <2>3. CASE HostFail(t)
    BY <1>4, <2>3 DEF HostFail, Fail
  <2>4. CASE Done(t)
    BY <1>4, <2>4 DEF Done, Finish
  <2>5. CASE Array(t)
    BY <1>7, <2>5 DEF Array
  <2> QED
    BY <1>11, <2>1, <2>2, <2>3, <2>4, <2>5
<1>12. ASSUME NEW t \in Threads, CopyTensors(t) PROVE Moving'
  <2>1. PICK batch \in Batches : batch # <<>> /\ todo' = [todo EXCEPT ![t] = batch]
    BY <1>12 DEF CopyTensors
  <2> QED
    BY <1>0, <1>2, <1>12, <2>1 DEF CopyTensors, Become
<1>13. ASSUME NEW t \in Threads, CopySource(t) PROVE Moving'
  BY <1>4, <1>5, <1>7, <1>13 DEF CopySource, Fail
<1>14. ASSUME NEW t \in Threads, Assign(t) \/ CopyDestination(t) PROVE Moving'
  <2>1. CASE Assign(t)
    BY <1>4, <2>1 DEF Assign, Finish, Fail
  <2>2. CASE CopyDestination(t)
    BY <1>4, <1>6, <2>2 DEF CopyDestination, Fail
  <2> QED
    BY <1>14, <2>1, <2>2
<1> QED
  BY <1>1, <1>8, <1>9, <1>10, <1>11, <1>12, <1>13, <1>14 DEF Next

LEMMA TransferMapped ==
    ASSUME IInv, Moving, NEW t \in Threads,
           CopyTensors(t) \/ CopySource(t) \/ CopyDestination(t)
    PROVE  MemStep
<1> DEFINE pair == Head(todo[t])
<1>1. CASE CopyTensors(t)
  BY <1>1, ForgetMapped DEF CopyTensors, MemStep
<1>2. CASE CopySource(t)
  <2>0. todo[t] # <<>> /\ todo[t] \in Seq(Pair)
    BY <1>2 DEF CopySource, Moving, IInv, TypeOK
  <2>1. pair \in Pair
    BY <2>0
  <2>2. CASE Fail(t)
    BY <1>2, <2>2, RefuseMapped DEF CopySource, Fail, MemStep
  <2>3. CASE \E a \in Arrays : Hold(t, "made", a)
    BY <1>2, <2>3, ProduceMapped DEF CopySource, MemStep
  <2>4. CASE pair.src # Host /\ (\/ Load(t, pair.src, pair.bytes)
                                 \/ LoadMisses(t, pair.src, pair.bytes)
                                 \/ LoadFails(t, pair.src, pair.bytes))
    <3>1. pair.src \in Addr /\ pair.bytes \in 0 .. HeapSize
      BY <2>1, <2>4 DEF Pair
    <3> QED
      BY <1>2, <2>4, <3>1, LoadMapped DEF CopySource, MemStep
  <2> QED
    BY <1>2, <2>2, <2>3, <2>4 DEF CopySource
<1>3. CASE CopyDestination(t)
  <2>0. task[t].kind \in {"loaded", "made"} /\ todo[t] # <<>> /\ todo[t] \in Seq(Pair) /\ UNCHANGED index
    BY <1>3 DEF CopyDestination, IInv, TypeOK
  <2>1. pair \in Pair
    BY <2>0
  <2>2. NextTensor(t) => \E kind \in {"idle", "copy"} : Become(t, kind)
    BY DEF NextTensor
  <2>3. CASE pair.dst = Host
    BY <1>3, <2>0, <2>2, <2>3, ForgetMapped, RefuseMapped DEF CopyDestination, Fail, MemStep
  <2>4. CASE pair.dst # Host
    <3>1. pair.dst \in Addr /\ pair.bytes \in 0 .. HeapSize
      BY <2>1, <2>4 DEF Pair
    <3> QED
      BY <1>3, <2>0, <2>2, <2>4, <3>1, StoreMapped DEF CopyDestination, Fail, MemStep
  <2> QED
    BY <2>3, <2>4
<1> QED
  BY <1>1, <1>2, <1>3

LEMMA InitMapped == Init => Memory!Init /\ Moving
<1>1. SUFFICES ASSUME Init PROVE Memory!Init /\ Moving
  OBVIOUS
<1>2. \A t \in Threads : task[t].kind = "idle"
  BY <1>1 DEF Init, TaskAt
<1>3. Answers = [t \in Threads |-> Memory!Nothing]
  BY <1>2 DEF Answers, MemAnswer, Memory!Nothing
<1> QED
  BY <1>1, <1>2, <1>3 DEF Init, Moving, Memory!Init, Memory!Addr, Memory!Wiped, Addr, Wiped, Answers

LEMMA StepMapped ==
    ASSUME HInv, Moving, [Next]_vars
    PROVE  [Memory!Next]_Memory!memVars
<1>0. IInv
  BY DEF HInv
<1>1. CASE UNCHANGED vars
  <2>1. Answers' = Answers
    BY <1>1 DEF vars, Answers, MemAnswer
  <2> QED
    BY <1>1, <2>1 DEF vars, Memory!memVars, Answers
<1>2. ASSUME NEW t \in Threads,
             \/ Allocate(t) \/ Publish(t) \/ Free(t)
             \/ Produce(t) \/ Assign(t) \/ Array(t)
             \/ HostData(t) \/ HostView(t) \/ HostInsert(t) \/ HostFail(t)
             \/ CopyTensors(t) \/ CopySource(t) \/ CopyDestination(t)
             \/ Done(t)
      PROVE  MemStep
  BY <1>0, <1>2, AllocationMapped, HostReadMapped, CallMapped, TransferMapped
<1>3. MemStep => [Memory!Next]_Memory!memVars
  BY DEF MemStep, Memory!memVars, Answers
<1> QED
  BY <1>1, <1>2, <1>3 DEF Next

-----------------------------------------------------------------------------
\* Every load, host read, transfer and publication of an output through the
\* index of device.rs behaves as one read or write of the abstract memory, when
\* callers leave an input alone while it is read.
THEOREM IndexIsMemory == ASSUME InputsStable PROVE Spec => ImplementsMemory
<1>1. HInv /\ Moving /\ [Next]_vars => HInv' /\ Moving' /\ [Memory!Next]_Memory!memVars
  BY NextHInv, MovingStep, StepMapped DEF HInv
<1>2. Init => HInv /\ Moving /\ Memory!Init
  BY InitHInv, InitMapped
<1> QED
  BY <1>1, <1>2, PTL DEF Spec, ImplementsMemory, Memory!Spec
=============================================================================
