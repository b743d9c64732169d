----------------------- MODULE SharedInitializersProofs -----------------------
(***************************************************************************)
(* The weak indexes of shared_initializers.rs never lie, for any number of *)
(* sessions, threads, tensors and addresses.                               *)
(*                                                                         *)
(* The invariant behind the theorems relates three things: what an owner   *)
(* believes is at its address, what is there, and what the pool can still  *)
(* find.  It is stated with the state as parameters, so that one lemma     *)
(* about Own covers every action that may free a buffer.                   *)
(***************************************************************************)
EXTENDS SharedInitializers, TLAPS

\* Every owner of a buffer is right about its contents.
OwnersRight(h, p, r) ==
    /\ \A s \in Sessions : \A o \in p[s].nodes : h[o.addr] = o.tensor
    /\ \A s \in Sessions : \A l \in p[s].shared : h[l.addr] = l.tensor
    /\ \A s \in Sessions : \A k \in p[s].cache : ~k.leaf.copied => h[k.leaf.addr] = k.leaf.tensor
    /\ \A l \in r : ~l.copied => h[l.addr] = l.tensor

\* The pool knows where every large buffer is, and nothing else.
PoolAgrees(h, q) ==
    /\ \A t \in Large : q[t] # None => h[q[t]] = t
    /\ \A a \in Addresses : h[a] \in Large => q[h[a]] = a

\* No buffer is without an owner.
HeapHeld(h, p, r) == \A a \in Addresses : h[a] # None => a \in Held(p, r)

\* Handles and index entries of a session are of its thread, which is settled
\* before there are any; only large tensors are indexed.
PlanRight(p) ==
    \A s \in Sessions :
        /\ p[s].thread = None => p[s].cache = {} /\ p[s].shared = {}
        /\ \A k \in p[s].cache : k.leaf.tensor = k.tensor /\ k.leaf.thread = p[s].thread
        /\ \A l \in p[s].shared : l.tensor \in Large

\* One index entry for each tensor and thread.
EntryOnce(p) ==
    \A s, u \in Sessions : \A l \in p[s].shared, m \in p[u].shared :
        l.thread = m.thread /\ l.tensor = m.tensor => l = m

IInv ==
    /\ TypeOK
    /\ OwnersRight(heap, plan, retained)
    /\ PoolAgrees(heap, pool)
    /\ HeapHeld(heap, plan, retained)
    /\ PlanRight(plan)
    /\ EntryOnce(plan)

-----------------------------------------------------------------------------
\* An address is held exactly when one of the four kinds of owner has it.
LEMMA HeldByOwner ==
    ASSUME NEW p, NEW r
    PROVE  /\ \A s \in Sessions : \A o \in p[s].nodes : o.addr \in Held(p, r)
           /\ \A s \in Sessions : \A l \in p[s].shared : l.addr \in Held(p, r)
           /\ \A s \in Sessions : \A k \in p[s].cache : ~k.leaf.copied => k.leaf.addr \in Held(p, r)
           /\ \A l \in r : ~l.copied => l.addr \in Held(p, r)
BY DEF Held, HeldByPlans, HeldByLeaves

\* Freeing what has lost its last owner keeps the owners right, the pool in
\* agreement and no buffer ownerless.
LEMMA OwnKeeps ==
    ASSUME NEW h \in [Addresses -> Tensors \cup {None}],
           NEW q \in [Large -> Addresses \cup {None}],
           NEW p \in [Sessions -> Owner],
           NEW r \in SUBSET Leaf,
           Own(h, q, p, r),
           OwnersRight(h, p, r),
           PoolAgrees(h, q),
           PlanRight(p),
           EntryOnce(p)
    PROVE  IInv'
<1> DEFINE held == Held(p, r)
<1>1. /\ heap' = [a \in Addresses |-> IF a \in held THEN h[a] ELSE None]
      /\ pool' = [t \in Large |-> IF q[t] \in held THEN q[t] ELSE None]
      /\ plan' = p
      /\ retained' = r
  BY DEF Own, Upgradable
<1> HIDE DEF held
<1>2. TypeOK'
  BY <1>1 DEF TypeOK
<1>3. OwnersRight(heap', plan', retained')
  <2>1. \A a \in Addresses : a \in held => heap'[a] = h[a]
    BY <1>1
  <2>2. \A s \in Sessions : p[s].nodes \subseteq Owned /\ p[s].shared \subseteq Leaf
                            /\ p[s].cache \subseteq Handle
    BY DEF Owner
  <2>3. \A s \in Sessions : \A o \in p[s].nodes : heap'[o.addr] = o.tensor
    BY <2>1, <2>2, HeldByOwner DEF OwnersRight, Owned, held
  <2>4. \A s \in Sessions : \A l \in p[s].shared : heap'[l.addr] = l.tensor
    BY <2>1, <2>2, HeldByOwner DEF OwnersRight, Leaf, held
  <2>5. \A s \in Sessions : \A k \in p[s].cache :
          ~k.leaf.copied => heap'[k.leaf.addr] = k.leaf.tensor
    BY <2>1, <2>2, HeldByOwner DEF OwnersRight, Leaf, Handle, held
  <2>6. \A l \in r : ~l.copied => heap'[l.addr] = l.tensor
    BY <2>1, HeldByOwner DEF OwnersRight, Leaf, held
  <2> QED BY <1>1, <2>3, <2>4, <2>5, <2>6 DEF OwnersRight
<1>4. PoolAgrees(heap', pool')
  <2>1. ASSUME NEW t \in Large, pool'[t] # None PROVE heap'[pool'[t]] = t
    <3>1. pool'[t] = q[t] /\ q[t] \in held /\ q[t] \in Addresses /\ q[t] # None
      BY <1>1, <2>1
    <3> QED BY <1>1, <3>1 DEF PoolAgrees
  <2>2. ASSUME NEW a \in Addresses, heap'[a] \in Large PROVE pool'[heap'[a]] = a
    <3>1. None \notin Large
      BY NoneAssumption, LargeAssumption
    <3>2. a \in held /\ heap'[a] = h[a]
      BY <1>1, <2>2, <3>1
    <3>3. q[h[a]] = a
      BY <2>2, <3>2 DEF PoolAgrees
    <3> QED BY <1>1, <2>2, <3>2, <3>3
  <2> QED BY <2>1, <2>2 DEF PoolAgrees
<1>5. HeapHeld(heap', plan', retained')
  BY <1>1 DEF HeapHeld, held
<1> QED BY <1>1, <1>2, <1>3, <1>4, <1>5 DEF IInv

-----------------------------------------------------------------------------
\* Nothing is owned at the start.
LEMMA InitRight == Init => IInv
<1> SUFFICES ASSUME Init PROVE IInv
  OBVIOUS
<1>1. Closed \in Owner
  BY DEF Closed, Owner
<1>2. TypeOK
  BY <1>1 DEF Init, TypeOK
<1>3. \A s \in Sessions : plan[s].nodes = {} /\ plan[s].cache = {} /\ plan[s].shared = {}
  BY DEF Init, Closed
<1>4. None \notin Large
  BY NoneAssumption, LargeAssumption
<1>5. OwnersRight(heap, plan, retained) /\ PlanRight(plan) /\ EntryOnce(plan)
  BY <1>3 DEF Init, OwnersRight, PlanRight, EntryOnce
<1>6. PoolAgrees(heap, pool) /\ HeapHeld(heap, plan, retained)
  BY <1>4 DEF Init, PoolAgrees, HeapHeld
<1> QED BY <1>2, <1>5, <1>6 DEF IInv

\* A step that frees nothing: the plan gains, or keeps, what it owns.
LEMMA GainKeeps ==
    ASSUME IInv, NEW s \in Sessions, NEW e \in Owner,
           plan' = [plan EXCEPT ![s] = e], UNCHANGED <<heap, pool, retained>>,
           plan[s].nodes \subseteq e.nodes,
           e.cache = plan[s].cache, e.shared = plan[s].shared,
           \A o \in e.nodes : heap[o.addr] = o.tensor,
           e.thread = plan[s].thread \/ plan[s].thread = None
    PROVE  IInv'
<1>1. \A u \in Sessions : /\ plan'[u].cache = plan[u].cache
                          /\ plan'[u].shared = plan[u].shared
                          /\ plan[u].nodes \subseteq plan'[u].nodes
                          /\ \A o \in plan'[u].nodes : heap[o.addr] = o.tensor
  BY DEF IInv, TypeOK, OwnersRight
<1>2. TypeOK'
  BY DEF IInv, TypeOK
<1>3. OwnersRight(heap', plan', retained')
  BY <1>1 DEF IInv, OwnersRight
<1>4. PoolAgrees(heap', pool')
  BY DEF IInv, PoolAgrees
<1>5. HeapHeld(heap', plan', retained')
  <2>1. Held(plan, retained) \subseteq Held(plan', retained')
    BY <1>1 DEF Held, HeldByPlans, HeldByLeaves
  <2> QED BY <2>1 DEF IInv, HeapHeld
<1>6. PlanRight(plan')
  <2>1. \A u \in Sessions : plan'[u].thread = plan[u].thread \/ plan[u].thread = None
    BY DEF IInv, TypeOK
  <2> QED BY <1>1, <2>1 DEF IInv, PlanRight
<1>7. EntryOnce(plan')
  BY <1>1 DEF IInv, EntryOnce
<1> QED BY <1>2, <1>3, <1>4, <1>5, <1>6, <1>7 DEF IInv

\* A step that lets go: no plan and no output owns more than before.
LEMMA LossKeeps ==
    ASSUME IInv, NEW s \in Sessions, NEW e \in Owner, NEW r \in SUBSET retained,
           Release([plan EXCEPT ![s] = e], r),
           e.nodes \subseteq plan[s].nodes,
           e.cache \subseteq plan[s].cache,
           e.shared \subseteq plan[s].shared,
           e.thread = plan[s].thread \/ (e.cache = {} /\ e.shared = {})
    PROVE  IInv'
<1> DEFINE p == [plan EXCEPT ![s] = e]
<1>1. p \in [Sessions -> Owner] /\ r \in SUBSET Leaf
  BY DEF IInv, TypeOK
<1>2. \A u \in Sessions : /\ p[u].nodes \subseteq plan[u].nodes
                          /\ p[u].cache \subseteq plan[u].cache
                          /\ p[u].shared \subseteq plan[u].shared
                          /\ p[u].thread = plan[u].thread \/ (p[u].cache = {} /\ p[u].shared = {})
  BY DEF IInv, TypeOK
<1>3. Own(heap, pool, p, r)
  BY DEF Release
<1> HIDE DEF p
<1>4. OwnersRight(heap, p, r)
  BY <1>2 DEF IInv, OwnersRight
<1>5. PlanRight(p) /\ EntryOnce(p)
  BY <1>2 DEF IInv, PlanRight, EntryOnce
<1> QED BY <1>1, <1>3, <1>4, <1>5, OwnKeeps DEF IInv, TypeOK

-----------------------------------------------------------------------------
\* own of bytes that the pool does not find puts them at a free address, where
\* no owner has anything to be wrong about.
LEMMA OwnNewKeeps ==
    ASSUME IInv, NEW s \in Sessions, NEW t \in Tensors, OwnNew(s, t)
    PROVE  IInv'
<1>1. PICK a \in Addresses :
         /\ heap[a] = None
         /\ Own([heap EXCEPT ![a] = t],
                [u \in Large |-> IF u = t THEN a ELSE pool[u]],
                With(s, [tensor |-> t, addr |-> a]), retained)
  BY DEF OwnNew
<1> DEFINE h == [heap EXCEPT ![a] = t]
           q == [u \in Large |-> IF u = t THEN a ELSE pool[u]]
           p == With(s, [tensor |-> t, addr |-> a])
<1>2. /\ None \notin Tensors /\ None \notin Addresses /\ Large \subseteq Tensors
      /\ heap \in [Addresses -> Tensors \cup {None}]
      /\ pool \in [Large -> Addresses \cup {None}]
      /\ plan \in [Sessions -> Owner] /\ retained \in SUBSET Leaf
  BY NoneAssumption, LargeAssumption DEF IInv, TypeOK
<1>3. h \in [Addresses -> Tensors \cup {None}] /\ q \in [Large -> Addresses \cup {None}]
  BY <1>2
<1>4. p \in [Sessions -> Owner]
  BY <1>2 DEF With, Owner, Owned
<1>5. \A u \in Sessions : /\ p[u].thread = plan[u].thread
                          /\ p[u].cache = plan[u].cache
                          /\ p[u].shared = plan[u].shared
  BY <1>2 DEF With, Owner
<1>6. \A u \in Sessions : \A o \in p[u].nodes :
          o \in plan[u].nodes \/ o = [tensor |-> t, addr |-> a]
  BY <1>2 DEF With, Owner
<1>7. h[a] = t /\ \A x \in Addresses : heap[x] # None => h[x] = heap[x]
  BY <1>1, <1>2
<1>8. OwnersRight(h, p, retained)
  <2>1. \A u \in Sessions : /\ plan[u].nodes \subseteq Owned
                            /\ plan[u].shared \subseteq Leaf
                            /\ plan[u].cache \subseteq Handle
    BY <1>2 DEF Owner
  <2>2. \A u \in Sessions : \A o \in p[u].nodes : h[o.addr] = o.tensor
    BY <1>2, <1>6, <1>7, <2>1 DEF IInv, OwnersRight, Owned
  <2>3. \A u \in Sessions : \A l \in p[u].shared : h[l.addr] = l.tensor
    BY <1>2, <1>5, <1>7, <2>1 DEF IInv, OwnersRight, Leaf
  <2>4. \A u \in Sessions : \A k \in p[u].cache : ~k.leaf.copied => h[k.leaf.addr] = k.leaf.tensor
    BY <1>2, <1>5, <1>7, <2>1 DEF IInv, OwnersRight, Leaf, Handle
  <2>5. \A l \in retained : ~l.copied => h[l.addr] = l.tensor
    BY <1>2, <1>7 DEF IInv, OwnersRight, Leaf
  <2> QED BY <2>2, <2>3, <2>4, <2>5 DEF OwnersRight
<1>9. PoolAgrees(h, q)
  <2>1. t \in Large => pool[t] = None
    BY DEF OwnNew, Pooled
  <2>2. \A u \in Large : q[u] # None => h[q[u]] = u
    BY <1>1, <1>2, <1>7 DEF IInv, PoolAgrees
  <2>3. ASSUME NEW x \in Addresses, h[x] \in Large PROVE q[h[x]] = x
    <3>1. CASE x = a
      BY <1>7, <2>3, <3>1
    <3>2. CASE x # a
      <4>1. h[x] = heap[x] /\ pool[heap[x]] = x
        BY <1>2, <2>3, <3>2 DEF IInv, PoolAgrees
      <4>2. heap[x] # t
        BY <1>2, <2>1, <2>3, <4>1
      <4> QED BY <2>3, <4>1, <4>2
    <3> QED BY <3>1, <3>2
  <2> QED BY <2>2, <2>3 DEF PoolAgrees
<1>10. PlanRight(p) /\ EntryOnce(p)
  BY <1>5 DEF IInv, PlanRight, EntryOnce
<1>11. Own(h, q, p, retained)
  BY <1>1
<1> HIDE DEF h, q, p
<1> QED BY <1>2, <1>3, <1>4, <1>8, <1>9, <1>10, <1>11, OwnKeeps

\* get: the leaf found or made has the bytes that the plan owns, and becomes
\* the only entry of its thread for them.
LEMMA GetKeeps ==
    ASSUME IInv, NEW s \in Sessions, NEW o \in plan[s].nodes, Get(s, o)
    PROVE  IInv'
<1>1. /\ None \notin Tensors /\ Large \subseteq Tensors
      /\ heap \in [Addresses -> Tensors \cup {None}]
      /\ pool \in [Large -> Addresses \cup {None}]
      /\ plan \in [Sessions -> Owner] /\ retained \in SUBSET Leaf
  BY NoneAssumption, LargeAssumption DEF IInv, TypeOK
<1>2. /\ o.tensor \in Tensors /\ o.addr \in Addresses
      /\ plan[s].thread \in Threads
      /\ heap[o.addr] = o.tensor
  BY <1>1 DEF Get, Owner, Owned, IInv, OwnersRight
<1>3. \A u \in Sessions : \A l \in plan[u].shared :
          /\ l \in Leaf /\ l.tensor \in Large /\ heap[l.addr] = l.tensor /\ l \in Entries
  BY <1>1 DEF Owner, IInv, PlanRight, OwnersRight, Entries
<1>4. PICK l \in Leaf :
         /\ l.tensor = o.tensor /\ l.addr = o.addr /\ l.thread = plan[s].thread
         /\ Release(Resolve(s, o.tensor, l), retained)
         /\ o.tensor \in Large => \A u \in Sessions : \A m \in plan[u].shared :
                m.thread = l.thread /\ m.tensor = l.tensor => m = l
  <2> DEFINE r == plan[s].thread
             found == IF o.tensor \in Large THEN Found(r, o.addr, o.tensor) ELSE {}
  <2>1. ASSUME NEW l \in found, Release(Resolve(s, o.tensor, l), retained)
        PROVE  /\ l \in Leaf /\ l.tensor = o.tensor /\ l.addr = o.addr /\ l.thread = r
               /\ \A u \in Sessions : \A m \in plan[u].shared :
                    m.thread = l.thread /\ m.tensor = l.tensor => m = l
    <3>1. PICK v \in Sessions : l \in plan[v].shared
      BY DEF Found, Entries
    <3>2. l.thread = r /\ l.addr = o.addr
      BY DEF Found, Indexes
    <3>3. l \in Leaf /\ l.tensor = o.tensor
      BY <1>2, <1>3, <3>1, <3>2
    <3> QED BY <3>1, <3>2, <3>3 DEF IInv, EntryOnce
  <2>2. ASSUME found = {}, NEW copied \in BOOLEAN,
               Release(Resolve(s, o.tensor, [tensor |-> heap[o.addr], addr |-> o.addr,
                                             thread |-> r, copied |-> copied]), retained)
        PROVE  \E l \in Leaf :
         /\ l.tensor = o.tensor /\ l.addr = o.addr /\ l.thread = plan[s].thread
         /\ Release(Resolve(s, o.tensor, l), retained)
         /\ o.tensor \in Large => \A u \in Sessions : \A m \in plan[u].shared :
                m.thread = l.thread /\ m.tensor = l.tensor => m = l
    <3> DEFINE l == [tensor |-> heap[o.addr], addr |-> o.addr, thread |-> r, copied |-> copied]
    <3>1. l \in Leaf /\ l.tensor = o.tensor /\ l.addr = o.addr /\ l.thread = r
      BY <1>2 DEF Leaf
    <3>2. ASSUME o.tensor \in Large, NEW u \in Sessions, NEW m \in plan[u].shared,
                 m.thread = r, m.tensor = o.tensor
          PROVE FALSE
      <4>1. m \in Leaf /\ m \in Entries /\ heap[m.addr] = o.tensor /\ m.addr \in Addresses
        BY <1>3, <3>2 DEF Leaf
      <4>2. m.addr = o.addr
        BY <1>2, <3>2, <4>1 DEF IInv, PoolAgrees
      <4>3. m \in Found(r, o.addr, o.tensor)
        BY <3>2, <4>1, <4>2 DEF Found, Indexes
      <4> QED BY <2>2, <3>2, <4>3
    <3>3. Release(Resolve(s, o.tensor, l), retained)
      BY <2>2
    <3> HIDE DEF l
    <3>4. \A u \in Sessions : \A m \in plan[u].shared :
             o.tensor \in Large => ~(m.thread = l.thread /\ m.tensor = l.tensor)
      BY <3>1, <3>2
    <3> QED BY <3>1, <3>3, <3>4
  <2>3. \/ \E l \in found : Release(Resolve(s, o.tensor, l), retained)
        \/ /\ found = {}
           /\ \E copied \in BOOLEAN :
                Release(Resolve(s, o.tensor, [tensor |-> heap[o.addr], addr |-> o.addr,
                                              thread |-> r, copied |-> copied]), retained)
    BY DEF Get
  <2> HIDE DEF found, r
  <2>4. CASE \E l \in found : Release(Resolve(s, o.tensor, l), retained)
    BY <2>1, <2>4 DEF r
  <2> QED BY <2>2, <2>3, <2>4
<1> DEFINE p == Resolve(s, o.tensor, l)
<1>5. p \in [Sessions -> Owner]
  <2>1. [tensor |-> o.tensor, leaf |-> l] \in Handle
    BY <1>2 DEF Handle
  <2> DEFINE c == plan[s].cache \cup {[tensor |-> o.tensor, leaf |-> l]}
             i == IF o.tensor \in Large THEN plan[s].shared \cup {l} ELSE plan[s].shared
  <2>2. plan[s] \in Owner /\ c \subseteq Handle /\ i \subseteq Leaf
    BY <1>1, <2>1 DEF Owner
  <2>3. p = [plan EXCEPT ![s] = [plan[s] EXCEPT !.cache = c, !.shared = i]]
    BY <1>1 DEF Resolve, Owner
  <2> HIDE DEF c, i, p
  <2>4. [plan[s] EXCEPT !.cache = c, !.shared = i] \in Owner
    BY <2>2 DEF Owner
  <2> QED BY <1>1, <2>3, <2>4
<1>6. \A u \in Sessions : /\ p[u].thread = plan[u].thread
                          /\ p[u].nodes = plan[u].nodes
  BY <1>1 DEF Resolve, Owner
<1>7. \A u \in Sessions : \A k \in p[u].cache :
          k \in plan[u].cache \/ (k = [tensor |-> o.tensor, leaf |-> l] /\ u = s)
  BY <1>1 DEF Resolve, Owner
<1>8. \A u \in Sessions : \A m \in p[u].shared :
          m \in plan[u].shared \/ (m = l /\ u = s /\ o.tensor \in Large)
  BY <1>1 DEF Resolve, Owner
<1>9. Own(heap, pool, p, retained)
  BY <1>4 DEF Release
<1> HIDE DEF p
<1>10. OwnersRight(heap, p, retained)
  <2>1. \A u \in Sessions : \A x \in p[u].nodes : heap[x.addr] = x.tensor
    BY <1>6 DEF IInv, OwnersRight
  <2>2. \A u \in Sessions : \A m \in p[u].shared : heap[m.addr] = m.tensor
    BY <1>2, <1>4, <1>8 DEF IInv, OwnersRight
  <2>3. \A u \in Sessions : \A k \in p[u].cache : ~k.leaf.copied => heap[k.leaf.addr] = k.leaf.tensor
    BY <1>2, <1>4, <1>7 DEF IInv, OwnersRight
  <2> QED BY <2>1, <2>2, <2>3 DEF IInv, OwnersRight
<1>11. PlanRight(p)
  <2>1. \A u \in Sessions : p[u].thread = None => p[u].cache = {} /\ p[u].shared = {}
    <3>1. plan[s].thread # None
      BY DEF Get
    <3> QED BY <1>6, <1>7, <1>8, <3>1 DEF IInv, PlanRight
  <2>2. \A u \in Sessions : \A k \in p[u].cache :
            k.leaf.tensor = k.tensor /\ k.leaf.thread = p[u].thread
    BY <1>4, <1>6, <1>7 DEF IInv, PlanRight
  <2>3. \A u \in Sessions : \A m \in p[u].shared : m.tensor \in Large
    BY <1>4, <1>8 DEF IInv, PlanRight
  <2> QED BY <2>1, <2>2, <2>3 DEF PlanRight
<1>12. EntryOnce(p)
  BY <1>4, <1>8 DEF IInv, EntryOnce
<1> QED BY <1>1, <1>5, <1>9, <1>10, <1>11, <1>12, OwnKeeps DEF IInv

-----------------------------------------------------------------------------
\* Every step keeps the indexes honest.
LEMMA NextKeeps == IInv /\ [Next]_vars => IInv'
<1> SUFFICES ASSUME IInv, [Next]_vars PROVE IInv'
  OBVIOUS
<1>1. /\ None \notin Tensors /\ None \notin Addresses /\ None \notin Threads
      /\ heap \in [Addresses -> Tensors \cup {None}]
      /\ pool \in [Large -> Addresses \cup {None}]
      /\ plan \in [Sessions -> Owner] /\ retained \in SUBSET Leaf
  BY NoneAssumption, LargeAssumption DEF IInv, TypeOK
<1>2. ASSUME NEW s \in Sessions, Open(s) PROVE IInv'
  <2> DEFINE e == [plan[s] EXCEPT !.stage = "open"]
  <2>1. /\ e \in Owner /\ e.nodes = plan[s].nodes /\ e.cache = plan[s].cache
        /\ e.shared = plan[s].shared /\ e.thread = plan[s].thread
    BY <1>1 DEF Owner
  <2>2. plan' = [plan EXCEPT ![s] = e] /\ UNCHANGED <<heap, pool, retained>>
    BY <1>1, <1>2 DEF Open
  <2>3. \A o \in e.nodes : heap[o.addr] = o.tensor
    BY <2>1 DEF IInv, OwnersRight
  <2> HIDE DEF e
  <2> QED BY <2>1, <2>2, <2>3, GainKeeps
<1>3. ASSUME NEW s \in Sessions, NEW t \in Tensors, OwnPooled(s, t) PROVE IInv'
  <2> DEFINE o == [tensor |-> t, addr |-> Pooled(t)]
             e == [plan[s] EXCEPT !.nodes = @ \cup {o}]
  <2>1. o \in Owned /\ heap[o.addr] = o.tensor
    BY <1>1, <1>3 DEF OwnPooled, Pooled, Owned, IInv, PoolAgrees
  <2>2. plan' = [plan EXCEPT ![s] = e] /\ UNCHANGED <<heap, pool, retained>>
    BY <1>1, <1>3 DEF OwnPooled, With
  <2> HIDE DEF o
  <2>3. /\ e \in Owner /\ e.nodes = plan[s].nodes \cup {o} /\ e.cache = plan[s].cache
        /\ e.shared = plan[s].shared /\ e.thread = plan[s].thread
    BY <1>1, <2>1 DEF Owner
  <2>4. \A x \in e.nodes : heap[x.addr] = x.tensor
    BY <2>1, <2>3 DEF IInv, OwnersRight
  <2> HIDE DEF e
  <2> QED BY <2>2, <2>3, <2>4, GainKeeps
<1>4. ASSUME NEW s \in Sessions, NEW t \in Tensors, OwnNew(s, t) PROVE IInv'
  BY <1>4, OwnNewKeeps
<1>5. ASSUME NEW s \in Sessions, NEW r \in Threads, FirstRun(s, r) PROVE IInv'
  <2> DEFINE e == [plan[s] EXCEPT !.thread = r]
  <2>1. /\ e \in Owner /\ e.nodes = plan[s].nodes /\ e.cache = plan[s].cache
        /\ e.shared = plan[s].shared /\ plan[s].thread = None
    BY <1>1, <1>5 DEF Owner, FirstRun
  <2>2. plan' = [plan EXCEPT ![s] = e] /\ UNCHANGED <<heap, pool, retained>>
    BY <1>1, <1>5 DEF FirstRun
  <2>3. \A o \in e.nodes : heap[o.addr] = o.tensor
    BY <2>1 DEF IInv, OwnersRight
  <2> HIDE DEF e
  <2> QED BY <2>1, <2>2, <2>3, GainKeeps
<1>6. ASSUME NEW s \in Sessions, NEW o \in plan[s].nodes, Get(s, o) PROVE IInv'
  BY <1>6, GetKeeps
<1>7. ASSUME NEW s \in Sessions, NEW h \in plan[s].cache, Retain(s, h) PROVE IInv'
  <2> DEFINE r == retained \cup {h.leaf}
  <2>1. h.leaf \in Leaf
    BY <1>1 DEF Owner, Handle
  <2>2. r \in SUBSET Leaf /\ Own(heap, pool, plan, r)
    BY <1>1, <1>7, <2>1 DEF Retain, Release
  <2>3. OwnersRight(heap, plan, r)
    BY DEF IInv, OwnersRight
  <2> HIDE DEF r
  <2> QED BY <1>1, <2>2, <2>3, OwnKeeps DEF IInv
<1>8. ASSUME NEW s \in Sessions, LoseNodes(s) PROVE IInv'
  <2> DEFINE e == [plan[s] EXCEPT !.nodes = {}]
  <2>1. /\ e \in Owner /\ e.nodes = {} /\ e.cache = plan[s].cache
        /\ e.shared = plan[s].shared /\ e.thread = plan[s].thread
    BY <1>1 DEF Owner
  <2>2. Release([plan EXCEPT ![s] = e], retained)
    BY <1>8 DEF LoseNodes
  <2> HIDE DEF e
  <2> QED BY <2>1, <2>2, LossKeeps
<1>9. ASSUME NEW s \in Sessions, DropNodes(s) PROVE IInv'
  <2> DEFINE e == [plan[s] EXCEPT !.nodes = {}, !.stage = "cache"]
  <2>1. /\ e \in Owner /\ e.nodes = {} /\ e.cache = plan[s].cache
        /\ e.shared = plan[s].shared /\ e.thread = plan[s].thread
    BY <1>1 DEF Owner
  <2>2. [plan EXCEPT ![s].nodes = {}, ![s].stage = "cache"] = [plan EXCEPT ![s] = e]
    BY <1>1
  <2>3. Release([plan EXCEPT ![s] = e], retained)
    BY <1>9, <2>2 DEF DropNodes
  <2> HIDE DEF e
  <2> QED BY <2>1, <2>3, LossKeeps
<1>10. ASSUME NEW s \in Sessions, DropCache(s) PROVE IInv'
  <2> DEFINE e == [plan[s] EXCEPT !.cache = {}, !.stage = "shared"]
  <2>1. /\ e \in Owner /\ e.nodes = plan[s].nodes /\ e.cache = {}
        /\ e.shared = plan[s].shared /\ e.thread = plan[s].thread
    BY <1>1 DEF Owner
  <2>2. [plan EXCEPT ![s].cache = {}, ![s].stage = "shared"] = [plan EXCEPT ![s] = e]
    BY <1>1
  <2>3. Release([plan EXCEPT ![s] = e], retained)
    BY <1>10, <2>2 DEF DropCache
  <2> HIDE DEF e
  <2> QED BY <2>1, <2>3, LossKeeps
<1>11. ASSUME NEW s \in Sessions, DropShared(s) PROVE IInv'
  <2>1. Closed \in Owner /\ Closed.nodes = {} /\ Closed.cache = {} /\ Closed.shared = {}
    BY DEF Closed, Owner
  <2>2. Release([plan EXCEPT ![s] = Closed], retained)
    BY <1>11 DEF DropShared
  <2> QED BY <2>1, <2>2, LossKeeps
<1>12. ASSUME NEW l \in retained, DropOutput(l) PROVE IInv'
  <2> DEFINE r == retained \ {l}
  <2>1. r \in SUBSET Leaf /\ Own(heap, pool, plan, r)
    BY <1>1, <1>12 DEF DropOutput, Release
  <2>2. OwnersRight(heap, plan, r)
    BY DEF IInv, OwnersRight
  <2> HIDE DEF r
  <2> QED BY <1>1, <2>1, <2>2, OwnKeeps DEF IInv
<1>13. CASE UNCHANGED vars
  BY <1>13 DEF vars, IInv, TypeOK, OwnersRight, PoolAgrees, HeapHeld, Held, HeldByPlans,
               HeldByLeaves, PlanRight, EntryOnce
<1> QED BY <1>2, <1>3, <1>4, <1>5, <1>6, <1>7, <1>8, <1>9, <1>10, <1>11, <1>12, <1>13 DEF Next

LEMMA Invariance == Spec => []IInv
BY InitRight, NextKeeps, PTL DEF Spec

-----------------------------------------------------------------------------
\* A session's state always has its shape: own, get and the drops of a plan
\* leave typed indexes and owners.
THEOREM TypeCorrect == Spec => []TypeOK
<1>1. IInv => TypeOK
  BY DEF IInv
<1> QED BY <1>1, Invariance, PTL

\* get never hands a run another weight's contents, nor another thread's leaf,
\* although it looks leaves up by the address of their bytes.
THEOREM AlwaysResolvedRight == Spec => []ResolvedRight
<1>1. IInv => ResolvedRight
  BY DEF IInv, PlanRight, ResolvedRight
<1> QED BY <1>1, Invariance, PTL

\* from_bytes borrows bytes that stay in place until the last array on them is
\* gone, in whatever order sessions are closed and outputs released.
THEOREM BytesStay == Spec => []BytesOutliveLeaves
<1>1. IInv => BytesOutliveLeaves
  BY DEF IInv, OwnersRight, BytesOutliveLeaves, Leaves, Entries, Handles
<1> QED BY <1>1, Invariance, PTL

\* The two weak indexes of shared_initializers never let a second copy of a
\* large weight in.
THEOREM AlwaysSharedOnce == Spec => []SharedOnce
<1>1. IInv => SharedOnce
  <2> SUFFICES ASSUME IInv PROVE SharedOnce
    OBVIOUS
  <2>1. \A a, b \in Addresses : heap[a] = heap[b] /\ heap[a] \in Large => a = b
    <3> SUFFICES ASSUME NEW a \in Addresses, NEW b \in Addresses,
                        heap[a] = heap[b], heap[a] \in Large
                 PROVE  a = b
      OBVIOUS
    <3>1. pool[heap[a]] = a /\ pool[heap[b]] = b
      BY DEF IInv, PoolAgrees
    <3> QED BY <3>1
  <2>2. \A l, m \in Entries : l.thread = m.thread /\ l.tensor = m.tensor => l = m
    BY DEF IInv, EntryOnce, Entries
  <2> QED BY <2>1, <2>2 DEF SharedOnce
<1> QED BY <1>1, Invariance, PTL

\* Neither index keeps a buffer alive: with every Plan dropped and every output
\* released, no weight is left in memory.
THEOREM AllReleased == Spec => []NothingLeft
<1>1. IInv => NothingLeft
  <2> SUFFICES ASSUME IInv, \A s \in Sessions : plan[s] = Closed, retained = {}
               PROVE  \A a \in Addresses : heap[a] = None
    BY DEF NothingLeft
  <2>1. \A s \in Sessions : plan[s].nodes = {} /\ plan[s].cache = {} /\ plan[s].shared = {}
    BY DEF Closed
  <2>2. Held(plan, retained) = {}
    BY <2>1 DEF Held, HeldByPlans, HeldByLeaves
  <2> QED BY <2>2 DEF IInv, HeapHeld
<1> QED BY <1>1, Invariance, PTL
=============================================================================
