---------------------------- MODULE DeviceTensors ----------------------------
(***************************************************************************)
(* The device-tensor index of rust/src/device.rs: one process-wide table   *)
(* from reserved addresses to retained MLX arrays, shared by ORT's         *)
(* allocator callbacks, the run threads (load, store, host_data) and the   *)
(* data-transfer callback (copy_tensors).  A lock guards every access to   *)
(* the table, so each locked section is one action; host_data and          *)
(* copy_tensors take the lock several times and other threads run between. *)
(*                                                                         *)
(* An address stands for one 64-byte unit of the process heap.  Arrays are *)
(* immutable values, so an array is its payload.                           *)
(***************************************************************************)
EXTENDS Naturals, Sequences

CONSTANTS
    HeapSize,       \* addresses are 0 .. HeapSize - 1
    Threads,        \* threads that call into the provider
    Arrays,         \* MLX arrays
    Keys,           \* (dtype, shape) pairs a host read asks for
    Host,           \* an ORT tensor in CPU memory
    Batches,        \* the tensor lists ORT hands to copy_tensors
    NoArray,        \* no array
    InputsStable    \* callers leave an input alone while a host read uses it

ASSUME HeapAssumption == HeapSize \in Nat \ {0}
ASSUME ArrayAssumption == NoArray \notin Arrays
ASSUME KeyAssumption == Keys # {}
ASSUME HostAssumption == Host \notin Nat
ASSUME StableAssumption == InputsStable \in BOOLEAN

VARIABLES
    index,          \* the allocations in the table, as address ranges
    stored,         \* their payload entries (Stored), over all allocations
    task,           \* what each thread is in the middle of
    todo,           \* the tensors a copy_tensors call still has to move
    written         \* history: the last write to cover each address

vars == <<index, stored, task, todo, written>>
-----------------------------------------------------------------------------
Addr == 0 .. HeapSize - 1
Span(start, bytes) == start .. start + bytes - 1
Overlap(s1, n1, s2, n2) == s1 < s2 + n2 /\ s2 < s1 + n1

Region == {r \in [base : Addr, size : 1 .. HeapSize] : r.base + r.size <= HeapSize}

\* One entry of Allocation.entries; views holds the cached host views.
Entry == [base : Addr, start : Addr, bytes : 1 .. HeapSize, array : Arrays,
          thread : Threads, views : [Keys -> Arrays \cup {NoArray}]]

\* A tensor pair of copy_tensors; same tells whether shape, dtype and byte
\* count agree.
Pair == [src : Addr \cup {Host}, dst : Addr \cup {Host}, bytes : 0 .. HeapSize,
         same : BOOLEAN]

\* can_copy: a transfer has a device side.
ASSUME BatchAssumption ==
    /\ Batches \subseteq Seq(Pair)
    /\ \A batch \in Batches : \A i \in DOMAIN batch : Host \notin {batch[i].src} \cap {batch[i].dst}

Kinds == {"idle",     \* outside the provider
          "alloc",    \* has heap memory, not in the table yet
          "loaded",   \* has an array load found in the table
          "made",     \* has an array it computed or uploaded
          "failed",   \* returned an error to ORT
          "missing",  \* the load found no payload
          "probe",    \* host_data: loaded, about to look for a host view
          "eval",     \* host_data: no view, evaluating outside the lock
          "pointing", \* host_data: returned a pointer the Run still uses
          "copy"}     \* copy_tensors: between two tensors

Task == [kind : Kinds, start : Nat, bytes : Nat, key : Keys,
         array : Arrays \cup {NoArray}]
Write == [start : Addr, bytes : 1 .. HeapSize, array : Arrays, thread : Threads]
Wiped == [start |-> 0, bytes |-> 0]

AnyKey == CHOOSE k \in Keys : TRUE
TaskAt(kind, start, bytes) == [kind |-> kind, start |-> start, bytes |-> bytes,
                               key |-> AnyKey, array |-> NoArray]
TaskWith(kind, a) == [kind |-> kind, start |-> 0, bytes |-> 0, key |-> AnyKey, array |-> a]

Become(t, kind) == task' = [task EXCEPT ![t] = TaskAt(kind, 0, 0)]
Hold(t, kind, a) == task' = [task EXCEPT ![t] = TaskWith(kind, a)]
Fail(t) == /\ Become(t, "failed")
           /\ todo' = [todo EXCEPT ![t] = <<>>]

-----------------------------------------------------------------------------
(* Looking an address up: the greatest base not above it, if any, owns it. *)

Nearest(r, start) ==
    /\ r \in index
    /\ r.base <= start
    /\ \A s \in index : s.base <= start => s.base <= r.base

\* Mutant: an off-by-one bound.
FitsOneMore(r, start, bytes) == start + bytes <= r.base + r.size + 1

Fits(r, start, bytes) == start + bytes <= r.base + r.size

\* Mutant: the producer's thread is not compared.
LoadableAnywhere(t, e, start, bytes) ==
    /\ e \in stored
    /\ e.start = start
    /\ e.bytes = bytes
    /\ \E r \in index : Nearest(r, start) /\ Fits(r, start, bytes) /\ e.base = r.base

\* The entry load answers from: the exact range, on its producer's thread.
Loadable(t, e, start, bytes) ==
    /\ e \in stored
    /\ e.start = start
    /\ e.bytes = bytes
    /\ e.thread = t
    /\ \E r \in index : Nearest(r, start) /\ Fits(r, start, bytes) /\ e.base = r.base

\* A thread other than t is using the host bytes of an input in the range.
InHostRead(t, start, bytes) ==
    \E u \in Threads \ {t} :
        /\ task[u].kind \in {"probe", "eval", "pointing"}
        /\ Overlap(start, bytes, task[u].start, task[u].bytes)

Undisturbed(t, start, bytes) == InputsStable => ~InHostRead(t, start, bytes)

-----------------------------------------------------------------------------
Init ==
    /\ index = {}
    /\ stored = {}
    /\ task = [t \in Threads |-> TaskAt("idle", 0, 0)]
    /\ todo = [t \in Threads |-> <<>>]
    /\ written = [x \in Addr |-> Wiped]

\* allocate, first half: the system allocator hands out unused addresses.
\* A request for no bytes still reserves one unit.
Reserved == index \cup {[base |-> task[t].start, size |-> task[t].bytes] :
                          t \in {u \in Threads : task[u].kind = "alloc"}}

Allocate(t) ==
    /\ task[t].kind = "idle"
    /\ \E base \in Addr, size \in 1 .. HeapSize :
         /\ base + size <= HeapSize
         /\ \A r \in Reserved : ~Overlap(base, size, r.base, r.size)
         /\ task' = [task EXCEPT ![t] = TaskAt("alloc", base, size)]
    /\ UNCHANGED <<index, stored, todo, written>>

\* allocate, second half: the locked insertion.
Publish(t) ==
    /\ task[t].kind = "alloc"
    /\ index' = index \cup {[base |-> task[t].start, size |-> task[t].bytes]}
    /\ Become(t, "idle")
    /\ UNCHANGED <<stored, todo, written>>

\* free: the entries go with the allocation, and the memory is returned
\* before the lock is.
Free(t) ==
    /\ task[t].kind = "idle"
    /\ \E r \in index :
         /\ Undisturbed(t, r.base, r.size)
         /\ index' = index \ {r}
         /\ stored' = {e \in stored : e.base # r.base}
         /\ written' = [x \in Addr |->
                          IF x \in Span(r.base, r.size) THEN Wiped ELSE written[x]]
    /\ UNCHANGED <<task, todo>>

-----------------------------------------------------------------------------
(* store: drop every entry the range touches, then insert the new one.     *)
(* Retaining the array can fail in between, which leaves the range without *)
(* a payload.                                                              *)

\* Mutant: only the entry at the same offset is replaced.
SurvivingSameStart(r, start, bytes) ==
    {e \in stored : e.base = r.base => e.start # start}

Surviving(r, start, bytes) ==
    {e \in stored : e.base = r.base => ~Overlap(start, bytes, e.start, e.bytes)}

\* Mutant: the entry is updated in place and keeps its host views.
StoreIntoKeepsViews(t, r, start, bytes, a) ==
    /\ stored' = Surviving(r, start, bytes) \cup
                   {[base |-> r.base, start |-> start, bytes |-> bytes, array |-> a,
                     thread |-> t,
                     views |-> IF \E e \in stored : e.start = start
                                 THEN (CHOOSE e \in stored : e.start = start).views
                                 ELSE [k \in Keys |-> NoArray]]}
    /\ written' = [x \in Addr |->
                     IF x \in Span(start, bytes)
                       THEN [start |-> start, bytes |-> bytes, array |-> a, thread |-> t]
                       ELSE written[x]]

StoreInto(t, r, start, bytes, a) ==
    /\ stored' = Surviving(r, start, bytes) \cup
                   {[base |-> r.base, start |-> start, bytes |-> bytes, array |-> a,
                     thread |-> t, views |-> [k \in Keys |-> NoArray]]}
    /\ written' = [x \in Addr |->
                     IF x \in Span(start, bytes)
                       THEN [start |-> start, bytes |-> bytes, array |-> a, thread |-> t]
                       ELSE written[x]]

StoreLost(r, start, bytes) ==
    /\ stored' = Surviving(r, start, bytes)
    /\ written' = [x \in Addr |-> IF x \in Span(start, bytes) THEN Wiped ELSE written[x]]

\* Mutant: no early return for an empty tensor.
StoredEmpty(t, start, bytes, a) ==
    \E r \in index :
      Nearest(r, start) /\ Fits(r, start, bytes) /\ StoreInto(t, r, start, bytes, a)

Stored(t, start, bytes, a) ==
    \/ bytes = 0 /\ UNCHANGED <<stored, written>>
    \/ /\ bytes > 0
       /\ \E r \in index :
            Nearest(r, start) /\ Fits(r, start, bytes) /\ StoreInto(t, r, start, bytes, a)

\* The array has another byte count, no allocation holds the range, or
\* retaining the array failed.
NotStored(start, bytes) ==
    \/ UNCHANGED <<stored, written>>
    \/ /\ bytes > 0
       /\ \E r \in index :
            Nearest(r, start) /\ Fits(r, start, bytes) /\ StoreLost(r, start, bytes)

Finish(t) ==
    /\ Become(t, "idle")
    /\ UNCHANGED todo

\* A Run computed an output, or an array was made from host bytes.
Produce(t) ==
    /\ task[t].kind = "idle"
    /\ \E a \in Arrays : Hold(t, "made", a)
    /\ UNCHANGED <<index, stored, todo, written>>

\* assign on a device output.
Assign(t) ==
    /\ task[t].kind \in {"loaded", "made"}
    /\ todo[t] = <<>>
    /\ \E start \in Addr, bytes \in 0 .. HeapSize :
         /\ Undisturbed(t, start, bytes)
         /\ \/ Stored(t, start, bytes, task[t].array) /\ Finish(t)
            \/ NotStored(start, bytes) /\ Fail(t)
    /\ UNCHANGED index

-----------------------------------------------------------------------------
(* load, and the reads built from it.                                      *)

\* The arrays a load can return: an empty tensor is answered without looking
\* at the table, and no array at all is an error.
Found(t, start, bytes) == {e.array : e \in {f \in stored : Loadable(t, f, start, bytes)}}

Load(t, start, bytes) ==
    \/ bytes = 0 /\ \E a \in Arrays : Hold(t, "made", a)
    \/ bytes > 0 /\ \E a \in Found(t, start, bytes) : Hold(t, "loaded", a)

LoadMisses(t, start, bytes) ==
    /\ bytes > 0
    /\ Found(t, start, bytes) = {}
    /\ Become(t, "missing")

\* The payload is there and cannot be retained or viewed with the declared
\* dtype and shape, or the dtype of an empty tensor has no MLX form.
LoadFails(t, start, bytes) ==
    /\ bytes > 0 => Found(t, start, bytes) # {}
    /\ Become(t, "failed")

\* array on a device input.
Array(t) ==
    /\ task[t].kind = "idle"
    /\ \E start \in Addr, bytes \in 0 .. HeapSize :
         Load(t, start, bytes) \/ LoadMisses(t, start, bytes) \/ LoadFails(t, start, bytes)
    /\ UNCHANGED <<index, stored, todo, written>>

\* host_data: load; then look for a cached view; then, without the lock,
\* materialize one; then insert it in whatever entry is there by now.
HostData(t) ==
    /\ task[t].kind = "idle"
    /\ \E start \in Addr, bytes \in 1 .. HeapSize, k \in Keys :
         \/ \E a \in Found(t, start, bytes) :
              task' = [task EXCEPT ![t] = [kind |-> "probe", start |-> start,
                                           bytes |-> bytes, key |-> k, array |-> a]]
         \/ LoadMisses(t, start, bytes)
         \/ LoadFails(t, start, bytes)
    /\ UNCHANGED <<index, stored, todo, written>>

\* The entry host_data finds again by address alone.
EntryAt(e, start) ==
    /\ e \in stored
    /\ e.start = start
    /\ \E r \in index : Nearest(r, start) /\ e.base = r.base

HostView(t) ==
    LET w == task[t] IN
    /\ w.kind = "probe"
    /\ \/ \E e \in stored :
            /\ EntryAt(e, w.start)
            /\ e.views[w.key] # NoArray
            /\ task' = [task EXCEPT ![t].kind = "pointing", ![t].array = e.views[w.key]]
       \/ /\ ~\E e \in stored : EntryAt(e, w.start) /\ e.views[w.key] # NoArray
          /\ task' = [task EXCEPT ![t].kind = "eval"]
    /\ UNCHANGED <<index, stored, todo, written>>

\* Mutant: the view is dropped at the end of host_data.
HostInsertUnowned(t) ==
    /\ task[t].kind = "eval"
    /\ \E e \in stored : EntryAt(e, task[t].start)
    /\ task' = [task EXCEPT ![t].kind = "pointing"]
    /\ UNCHANGED <<index, stored, todo, written>>

HostInsert(t) ==
    LET w == task[t] IN
    /\ w.kind = "eval"
    /\ \E e \in stored :
         /\ EntryAt(e, w.start)
         /\ stored' = (stored \ {e}) \cup {[e EXCEPT !.views[w.key] = w.array]}
         /\ task' = [task EXCEPT ![t].kind = "pointing"]
    /\ UNCHANGED <<index, todo, written>>

\* The materialization failed, or the entry is gone.
HostFail(t) ==
    /\ task[t].kind = "eval"
    /\ Fail(t)
    /\ UNCHANGED <<index, stored, written>>

\* The Run drops its arrays and pointers.
Done(t) ==
    /\ task[t].kind \in {"loaded", "made", "pointing", "failed", "missing"}
    /\ todo[t] = <<>>
    /\ Finish(t)
    /\ UNCHANGED <<index, stored, written>>

-----------------------------------------------------------------------------
(* copy_tensors: one pair after the other, the lock released between the   *)
(* load and the store of a pair.  The first failure ends the call; what it *)
(* has moved stays moved.                                                  *)

CopyTensors(t) ==
    /\ task[t].kind = "idle"
    /\ \E batch \in Batches :
         /\ batch # <<>>
         /\ todo' = [todo EXCEPT ![t] = batch]
    /\ Become(t, "copy")
    /\ UNCHANGED <<index, stored, written>>

CopySource(t) ==
    LET pair == Head(todo[t]) IN
    /\ task[t].kind = "copy"
    /\ \/ /\ ~pair.same
          /\ Fail(t)
       \/ /\ pair.same
          /\ pair.src = Host
          /\ \E a \in Arrays : Hold(t, "made", a)
          /\ UNCHANGED todo
       \/ /\ pair.same
          /\ pair.src # Host
          /\ \/ Load(t, pair.src, pair.bytes) /\ UNCHANGED todo
             \/ /\ LoadMisses(t, pair.src, pair.bytes) \/ LoadFails(t, pair.src, pair.bytes)
                /\ todo' = [todo EXCEPT ![t] = <<>>]
    /\ UNCHANGED <<index, stored, written>>

NextTensor(t) ==
    /\ todo' = [todo EXCEPT ![t] = Tail(@)]
    /\ Become(t, IF Len(todo[t]) = 1 THEN "idle" ELSE "copy")

CopyDestination(t) ==
    LET pair == Head(todo[t]) IN
    /\ task[t].kind \in {"loaded", "made"}
    /\ todo[t] # <<>>
    /\ \/ /\ pair.dst = Host
          /\ NextTensor(t) \/ Fail(t)
          /\ UNCHANGED <<stored, written>>
       \/ /\ pair.dst # Host
          /\ Undisturbed(t, pair.dst, pair.bytes)
          /\ \/ Stored(t, pair.dst, pair.bytes, task[t].array) /\ NextTensor(t)
             \/ NotStored(pair.dst, pair.bytes) /\ Fail(t)
    /\ UNCHANGED index

-----------------------------------------------------------------------------
\* What the callers of the index observe: the abstract memory.
MemAnswer(t) ==
    LET w == task[t] IN
    CASE w.kind \in {"loaded", "pointing"} -> [from |-> "memory", array |-> w.array]
      [] w.kind = "made" -> [from |-> "made", array |-> w.array]
      [] w.kind \in {"missing", "failed"} -> [from |-> w.kind]
      [] OTHER -> [from |-> "none"]

Memory == INSTANCE DeviceMemory
            WITH regions <- index, answer <- [t \in Threads |-> MemAnswer(t)]

Next ==
    \E t \in Threads :
        \/ Allocate(t) \/ Publish(t) \/ Free(t)
        \/ Produce(t) \/ Assign(t) \/ Array(t)
        \/ HostData(t) \/ HostView(t) \/ HostInsert(t) \/ HostFail(t)
        \/ CopyTensors(t) \/ CopySource(t) \/ CopyDestination(t)
        \/ Done(t)

Spec == Init /\ [][Next]_vars
-----------------------------------------------------------------------------
\* A thread that is past its load has an array.
ArraysHeld ==
    \A t \in Threads : task[t].kind \in {"loaded", "made", "probe", "eval", "pointing"} =>
      task[t].array \in Arrays

\* Every allocation, entry, view and pending call is one the Rust types of the
\* table and of its callers can hold; no entry is empty.
TypeOK ==
    /\ index \subseteq Region
    /\ stored \subseteq Entry
    /\ task \in [Threads -> Task]
    /\ \A t \in Threads : task[t].kind = "alloc" =>
         [base |-> task[t].start, size |-> task[t].bytes] \in Region
    /\ ArraysHeld
    /\ todo \in [Threads -> Seq(Pair)]
    /\ written \in [Addr -> Write \cup {Wiped}]

\* Two allocations never share an address, in the table or on the way there,
\* and every entry lies inside the allocation it is filed under.
AllocationsApart ==
    \A r, s \in index : r # s => ~Overlap(r.base, r.size, s.base, s.size)

ReservationsApart ==
    \A t \in Threads : task[t].kind = "alloc" =>
      /\ \A r \in index : ~Overlap(r.base, r.size, task[t].start, task[t].bytes)
      /\ \A u \in Threads \ {t} : task[u].kind = "alloc" =>
           ~Overlap(task[u].start, task[u].bytes, task[t].start, task[t].bytes)

EntriesInside ==
    \A e \in stored : \E r \in index :
      r.base = e.base /\ Span(e.start, e.bytes) \subseteq Span(r.base, r.size)

\* No caller ever gets memory that another allocation owns, and no store files
\* a payload under an allocation that does not hold its whole range.
RegionsDisjoint == AllocationsApart /\ ReservationsApart /\ EntriesInside

\* An entry holds exactly what was last written to its whole range.
EntriesCurrent ==
    \A e \in stored : \A x \in Span(e.start, e.bytes) :
      written[x] = [start |-> e.start, bytes |-> e.bytes,
                    array |-> e.array, thread |-> e.thread]

\* A range that one write still covers whole has its entry.
PayloadsKept ==
    \A w \in Write :
      (\A x \in Span(w.start, w.bytes) : x \in Addr /\ written[x] = w) =>
        \E e \in stored : e.start = w.start /\ e.bytes = w.bytes

\* Overlapping stores, failed stores, frees and reused addresses never leave
\* the table with a payload that was overwritten, and never lose one that was
\* not.
IndexAgrees == EntriesCurrent /\ PayloadsKept

\* A cached host view shows the payload of the entry that caches it.
ViewsFresh ==
    \A e \in stored : \A k \in Keys : e.views[k] \in {NoArray, e.array}

\* The pointer a Run got from host_data points into a view the table still
\* owns: no store or free has released the bytes under it.
PointerLive ==
    \A t \in Threads : task[t].kind = "pointing" =>
        \E e \in stored : e.start = task[t].start /\ e.views[task[t].key] = task[t].array

\* A host read that had to materialize its view hands out the pointer only if
\* the payload it was made from is still the one at the address ("MLX device
\* payload changed during a host read", device.rs:339).
ChangeRefused ==
    [][\A t \in Threads :
         task[t].kind = "eval" /\ task'[t].kind = "pointing" =>
           \E e \in stored : EntryAt(e, task[t].start) /\ e.array = task[t].array]_vars

\* Every load, host read, transfer and publication of an output behaves as one
\* read or write of the abstract memory.
ImplementsMemory == Memory!Spec
=============================================================================
