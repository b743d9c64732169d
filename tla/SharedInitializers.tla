-------------------------- MODULE SharedInitializers --------------------------
(***************************************************************************)
(* Immutable weights shared among sessions (rust/src/shared_initializers.rs,*)
(* with the plan fields of rust/src/engine.rs that own them and the        *)
(* no-copy wrapper of rust/src/mlx.rs).  Host bytes are interned once per  *)
(* content in a process-wide pool; materialized MLX leaves are interned    *)
(* once per thread, under the ADDRESS of their host bytes.  Both indexes   *)
(* are weak, so what keeps an address from being reused while it is a key  *)
(* is only who owns what, and sessions are torn down field by field on any *)
(* thread while others compile and run.                                    *)
(*                                                                         *)
(* Modelled with device tensors enabled, where outputs may be lazy; without*)
(* them a small weight's leaf borrows its plan's bytes, and no output keeps*)
(* it after the run.                                                       *)
(*                                                                         *)
(* A tensor stands for one content with its dtype and shape; Meta gives    *)
(* the dtype and shape.  A weak reference is the address of a live buffer, *)
(* or None from the moment the buffer is freed.                            *)
(***************************************************************************)
EXTENDS Naturals, FiniteSets

CONSTANTS
    Sessions,
    Threads,
    Tensors,        \* initializers, by what they contain
    Large,          \* those of at least 4096 bytes; none with sharing off
    Meta,           \* each tensor's dtype and shape
    Addresses,      \* where the host allocator may put a buffer
    MaxRetained,    \* bound: leaves that device outputs refer to at a time
    None

ASSUME LargeAssumption == Large \subseteq Tensors
ASSUME MetaAssumption == DOMAIN Meta = Tensors
ASSUME RetainedAssumption == MaxRetained \in Nat
ASSUME NoneAssumption == None \notin Tensors \cup Addresses \cup Threads

VARIABLES
    heap,           \* the buffer at each address, by its contents
    pool,           \* BUFFERS: the weak index of buffers by content
    plan,           \* what each session's Plan owns
    retained        \* leaves that lazy device outputs still refer to

vars == <<heap, pool, plan, retained>>
-----------------------------------------------------------------------------
\* An Arc<Vec<u8>> that a NodeDesc owns, and an MLX leaf made from one.  MLX
\* takes the bytes without copying, or copies them and lets them go at once.
Owned == [tensor : Tensors, addr : Addresses]
Leaf == [tensor : Tensors, addr : Addresses, thread : Threads, copied : BOOLEAN]

Closed == [stage |-> "closed", thread |-> None,
           nodes |-> {}, cache |-> {}, shared |-> {}]

\* plan[s].nodes: the buffers; .cache: a private handle on a leaf for each
\* tensor resolved; .shared: the strong owners from the thread's leaf index.
Entries == UNION {plan[s].shared : s \in Sessions}
Handles == UNION {plan[s].cache : s \in Sessions}
Leaves == Entries \cup {h.leaf : h \in Handles} \cup retained

Init ==
    /\ heap = [a \in Addresses |-> None]
    /\ pool = [t \in Large |-> None]
    /\ plan = [s \in Sessions |-> Closed]
    /\ retained = {}

\* Mutant: a leaf borrows the bytes that its plan owns.
HeldByPlans(p, r) ==
    {o.addr : o \in UNION {p[s].nodes \cup p[s].shared : s \in Sessions}}

\* Mutant: an entry of the leaf index does not own its buffer.
HeldByLeaves(p, r) ==
    LET entries == UNION {p[s].shared : s \in Sessions}
        leaves == entries \cup r \cup {h.leaf : h \in UNION {p[s].cache : s \in Sessions}}
    IN {o.addr : o \in UNION {p[s].nodes : s \in Sessions}}
       \cup {l.addr : l \in {m \in leaves : ~m.copied}}

\* Mutant: the pool holds strong references.
HeldByPool(p, r) == HeldByPlans(p, r) \cup HeldByLeaves(p, r) \cup {pool[t] : t \in Large}

\* The strong owners of buffers: nodes, index entries (_storage), and the
\* payload of every leaf that MLX did not copy.
Held(p, r) == HeldByPlans(p, r) \cup HeldByLeaves(p, r)

\* Mutant: the pool keeps raw pointers.
Pointers(newPool, held) == newPool

\* What Weak::upgrade can still find: references die with the last owner.
Upgradable(newPool, held) ==
    [t \in Large |-> IF newPool[t] \in held THEN newPool[t] ELSE None]

\* A buffer is freed with its last owner.
Own(newHeap, newPool, newPlan, newRetained) ==
    LET held == Held(newPlan, newRetained) IN
    /\ heap' = [a \in Addresses |-> IF a \in held THEN newHeap[a] ELSE None]
    /\ pool' = Upgradable(newPool, held)
    /\ plan' = newPlan
    /\ retained' = newRetained

Release(newPlan, newRetained) == Own(heap, pool, newPlan, newRetained)

-----------------------------------------------------------------------------
(* Compiling: own, once per initializer of the plan being built.           *)

Open(s) ==
    /\ plan[s] = Closed
    /\ plan' = [plan EXCEPT ![s].stage = "open"]
    /\ UNCHANGED <<heap, pool, retained>>

With(s, o) == [plan EXCEPT ![s].nodes = @ \cup {o}]
MayOwn(s, t) ==
    plan[s].stage = "open" /\ plan[s].thread = None /\ \A o \in plan[s].nodes : o.tensor # t

Pooled(t) == IF t \in Large THEN pool[t] ELSE None

OwnPooled(s, t) ==
    /\ MayOwn(s, t)
    /\ Pooled(t) # None
    /\ plan' = With(s, [tensor |-> t, addr |-> Pooled(t)])
    /\ UNCHANGED <<heap, pool, retained>>

OwnNew(s, t) ==
    /\ MayOwn(s, t)
    /\ Pooled(t) = None
    /\ \E a \in Addresses :
         /\ heap[a] = None
         /\ Own([heap EXCEPT ![a] = t],
                [u \in Large |-> IF u = t THEN a ELSE pool[u]],
                With(s, [tensor |-> t, addr |-> a]), retained)

-----------------------------------------------------------------------------
(* Running: get, the first time a run resolves an initializer.             *)

Indexes(l, r, a, t) == l.thread = r /\ l.addr = a /\ Meta[l.tensor] = Meta[t]

\* Mutant: leaves are indexed for the process.
FoundAnywhere(r, a, t) == {l \in Entries : \E u \in Threads : Indexes(l, u, a, t)}

\* The index is keyed by the buffer's address, dtype and shape.
Found(r, a, t) == {l \in Entries : Indexes(l, r, a, t)}

Resolve(s, t, l) ==
    [plan EXCEPT ![s].cache = @ \cup {[tensor |-> t, leaf |-> l]},
                 ![s].shared = IF t \in Large THEN @ \cup {l} ELSE @]

\* The first run of a session settles its thread.
FirstRun(s, r) ==
    /\ plan[s].stage = "open"
    /\ plan[s].thread = None
    /\ plan' = [plan EXCEPT ![s].thread = r]
    /\ UNCHANGED <<heap, pool, retained>>

\* A resolution that fails to evaluate or to retain the leaf leaves nothing.
Get(s, o) ==
    /\ plan[s].stage = "open"
    /\ plan[s].thread # None
    /\ o \in plan[s].nodes
    /\ \A h \in plan[s].cache : h.tensor # o.tensor
    /\ LET r == plan[s].thread
           found == IF o.tensor \in Large THEN Found(r, o.addr, o.tensor) ELSE {}
       IN \/ \E l \in found : Release(Resolve(s, o.tensor, l), retained)
          \/ /\ found = {}
             /\ \E copied \in BOOLEAN :
                  Release(Resolve(s, o.tensor, [tensor |-> heap[o.addr], addr |-> o.addr,
                                                thread |-> r, copied |-> copied]), retained)

\* A lazy device output refers to a leaf it was computed from, for as long as
\* the tensor lives.
Retain(s, h) ==
    /\ plan[s].stage = "open"
    /\ h \in plan[s].cache
    /\ Cardinality(retained) < MaxRetained
    /\ Release(plan, retained \cup {h.leaf})

DropOutput(l) ==
    /\ l \in retained
    /\ Release(plan, retained \ {l})

-----------------------------------------------------------------------------
(* Teardown, on whatever thread releases the session: the fields of Plan   *)
(* are dropped in their order, nodes, cache, shared_initializers.          *)

\* A panic that unwinds through a run loses the nodes of a plan that lives on.
LoseNodes(s) ==
    /\ plan[s].stage = "open"
    /\ plan[s].nodes # {}
    /\ plan[s].thread # None
    /\ Release([plan EXCEPT ![s].nodes = {}], retained)

DropNodes(s) ==
    /\ plan[s].stage = "open"
    /\ Release([plan EXCEPT ![s].nodes = {}, ![s].stage = "cache"], retained)

DropCache(s) ==
    /\ plan[s].stage = "cache"
    /\ Release([plan EXCEPT ![s].cache = {}, ![s].stage = "shared"], retained)

DropShared(s) ==
    /\ plan[s].stage = "shared"
    /\ Release([plan EXCEPT ![s] = Closed], retained)

Next ==
    \/ \E s \in Sessions :
         \/ Open(s)
         \/ \E t \in Tensors : OwnPooled(s, t) \/ OwnNew(s, t)
         \/ \E r \in Threads : FirstRun(s, r)
         \/ \E o \in plan[s].nodes : Get(s, o)
         \/ \E h \in plan[s].cache : Retain(s, h)
         \/ LoseNodes(s)
         \/ DropNodes(s) \/ DropCache(s) \/ DropShared(s)
    \/ \E l \in retained : DropOutput(l)

Spec == Init /\ [][Next]_vars
-----------------------------------------------------------------------------
Handle == [tensor : Tensors, leaf : Leaf]
Owner == [stage : {"closed", "open", "cache", "shared"}, thread : Threads \cup {None},
          nodes : SUBSET Owned, cache : SUBSET Handle, shared : SUBSET Leaf]

\* The shape of the state: every handle that a plan or an output keeps is on a
\* leaf made from bytes that were there when it was made.
TypeOK ==
    /\ heap \in [Addresses -> Tensors \cup {None}]
    /\ pool \in [Large -> Addresses \cup {None}]
    /\ plan \in [Sessions -> Owner]
    /\ retained \in SUBSET Leaf

\* Whatever a session's run reads as an initializer is the content the model
\* declares, on the run's own thread: no leaf is found under an address that
\* other bytes have taken over, and none crosses threads through the index.
ResolvedRight ==
    \A s \in Sessions : \A h \in plan[s].cache :
        /\ h.leaf.tensor = h.tensor
        /\ h.leaf.thread = plan[s].thread

\* The bytes under a leaf that MLX did not copy stay in place for as long as
\* anything refers to the leaf, the outputs that outlive the session included.
BytesOutliveLeaves ==
    \A l \in Leaves : ~l.copied => heap[l.addr] = l.tensor

\* Large weights are in memory once per process, and materialized once per
\* thread, however the compiling and closing of sessions interleave.
SharedOnce ==
    /\ \A a, b \in Addresses : heap[a] = heap[b] /\ heap[a] \in Large => a = b
    /\ \A l, m \in Entries : l.thread = m.thread /\ l.tensor = m.tensor => l = m

\* Closing the last session and dropping its outputs releases everything.
NothingLeft ==
    (\A s \in Sessions : plan[s] = Closed) /\ retained = {} =>
        \A a \in Addresses : heap[a] = None
=============================================================================
