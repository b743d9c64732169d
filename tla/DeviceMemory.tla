----------------------------- MODULE DeviceMemory -----------------------------
(***************************************************************************)
(* What the device-tensor index of rust/src/device.rs promises its         *)
(* callers, with no index in it.  Memory is a map from reserved addresses  *)
(* to the last write that covered them; a thread reads a range only if one *)
(* write of its own produced exactly that range and nothing has touched    *)
(* any part of it since, and otherwise the read fails.                     *)
(***************************************************************************)
EXTENDS Naturals

CONSTANTS
    HeapSize,       \* addresses are 0 .. HeapSize - 1
    Threads,        \* run and transfer threads
    Arrays          \* immutable MLX arrays

VARIABLES
    regions,        \* the reserved address ranges
    written,        \* the last write to cover each address
    answer          \* what each thread has got from its last call

memVars == <<regions, written, answer>>
-----------------------------------------------------------------------------
Addr == 0 .. HeapSize - 1
Span(start, bytes) == start .. start + bytes - 1

\* One write: its range, its payload and the thread that made it.  Wiped
\* marks an address that no successful write covers.
Write == [start : Addr, bytes : 1 .. HeapSize, array : Arrays, thread : Threads]
Wiped == [start |-> 0, bytes |-> 0]

\* Nothing; an array read from memory; an array made elsewhere; a read that
\* found no payload; a refused write or evaluation.
Nothing == [from |-> "none"]
Missing == [from |-> "missing"]
Failed == [from |-> "failed"]
Read(a) == [from |-> "memory", array |-> a]
Made(a) == [from |-> "made", array |-> a]
Holds(t, a) == answer[t] \in {Read(a), Made(a)}

Readable(t, start, bytes, a) ==
    \A x \in Span(start, bytes) :
        /\ x \in Addr
        /\ written[x] = [start |-> start, bytes |-> bytes, array |-> a, thread |-> t]

-----------------------------------------------------------------------------
Init ==
    /\ regions = {}
    /\ written = [x \in Addr |-> Wiped]
    /\ answer = [t \in Threads |-> Nothing]

Reserve(base, size) ==
    /\ base + size <= HeapSize
    /\ \A r \in regions : Span(base, size) \cap Span(r.base, r.size) = {}
    /\ regions' = regions \cup {[base |-> base, size |-> size]}
    /\ UNCHANGED <<written, answer>>

Release(r) ==
    /\ regions' = regions \ {r}
    /\ written' = [x \in Addr |-> IF x \in Span(r.base, r.size) THEN Wiped ELSE written[x]]
    /\ UNCHANGED answer

\* A computation or an upload hands the thread an array.
Produce(t, a) ==
    /\ answer' = [answer EXCEPT ![t] = Made(a)]
    /\ UNCHANGED <<regions, written>>

\* The write of the array the thread holds: it covers its whole range, or it
\* fails and leaves the range without a payload, or it fails and does nothing.
Put(t, start, bytes, a) ==
    /\ Holds(t, a)
    /\ \E r \in regions : Span(start, bytes) \subseteq Span(r.base, r.size)
    /\ written' = [x \in Addr |->
                     IF x \in Span(start, bytes)
                       THEN [start |-> start, bytes |-> bytes,
                             array |-> a, thread |-> t]
                       ELSE written[x]]
    /\ answer' = [answer EXCEPT ![t] = Nothing]
    /\ UNCHANGED regions

Spoil(t, start, bytes) ==
    /\ written' = [x \in Addr |-> IF x \in Span(start, bytes) THEN Wiped ELSE written[x]]
    /\ answer' = [answer EXCEPT ![t] = Failed]
    /\ UNCHANGED regions

Refuse(t) ==
    /\ answer' = [answer EXCEPT ![t] = Failed]
    /\ UNCHANGED <<regions, written>>

\* A read answers with the payload of the range.  It is refused only when the
\* range is not readable by this thread.
Fetch(t, start, bytes) ==
    /\ \/ \E a \in Arrays : /\ Readable(t, start, bytes, a)
                            /\ answer' = [answer EXCEPT ![t] = Read(a)]
       \/ /\ \A a \in Arrays : ~Readable(t, start, bytes, a)
          /\ answer' = [answer EXCEPT ![t] = Missing]
    /\ UNCHANGED <<regions, written>>

\* The array is dropped, or went to host memory.
Forget(t) ==
    /\ answer' = [answer EXCEPT ![t] = Nothing]
    /\ UNCHANGED <<regions, written>>

Next ==
    \/ \E base \in Addr, size \in 1 .. HeapSize : Reserve(base, size)
    \/ \E r \in regions : Release(r)
    \/ \E t \in Threads :
         \/ \E a \in Arrays : Produce(t, a)
         \/ \E start \in Addr, bytes \in 1 .. HeapSize :
              \/ \E a \in Arrays : Put(t, start, bytes, a)
              \/ Spoil(t, start, bytes)
              \/ Fetch(t, start, bytes)
         \/ Refuse(t)
         \/ Forget(t)

Spec == Init /\ [][Next]_memVars
=============================================================================
