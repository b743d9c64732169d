# A TLA+ model of the MLX execution provider

Specifications, model-checking configurations and machine-checked proofs for
`onnxruntime-ep-mlx`, the plugin that runs ONNX Runtime subgraphs on Apple GPUs
through MLX. Line numbers refer to the repository at the commit modelled; paths
are relative to it.

Run a configuration with `tlc -config MC<name>.cfg <module>.tla` (each run of
`PROJECT.json` names its module and configuration), and check the proofs with
`tlapm <module>.tla` on each module whose name ends in `Proofs`.

## 1. Inventory

### How the parts interact

ORT loads the library (`lib.rs`), gets a factory (`factory.rs`) and one EP per
session (`ep.rs`). While a session is built, ORT calls `GetCapability`
(`capability.rs`): a snapshot of the optimized graph (`ort_graph.rs`) is taken,
every node is put to the registry (`registry.rs`), and the claimed nodes are cut
into subgraphs (`partition.rs`). ORT fuses them and calls `Compile`
(`runtime.rs`), which builds one `Plan` per subgraph (`plan_builder.rs`,
`engine.rs`) and interns its weights (`shared_initializers.rs`). Each `Run` calls
`Compute` once per subgraph: the run gate, then up to three compiled routes
(`compiled.rs`), then the eager translator (`engine.rs` with the handlers in
`ops/`). With device tensors enabled, ORT also calls the allocator and the data
transfer of `device.rs`, from its own threads, and `Compute` reads inputs from and
publishes outputs to that index.

State is shared in four places: the process-wide device index, the process-wide
weight pool, the per-thread leaf index, and MLX's own process-wide allocator
limits. Everything else belongs to one `Plan` behind one mutex.

### Components

| Component | State | Operations | What is hard | What makes it correct |
|---|---|---|---|---|
| Device tensor index, `device.rs` | `ALLOCATIONS`: allocations by base address, each with entries by offset (payload, producer thread, cached host views) | `allocate`, `free`, `load`, `store`, `array`, `assign`, `host_data`, `copy_tensors` | `host_data` and `copy_tensors` release the lock half way; addresses are reused; stores overlap; retaining can fail after the old entries are gone | a read returns the last write of exactly that range by the same thread, or fails; regions never overlap; a host pointer stays valid while it is used |
| Compute runtime, `runtime.rs` | `RunGate` (owner, serial lock), the plan mutex, the decode stream | `compile`, `release_node_compute_infos`, `compute_impl` | concurrent Runs, poisoned locks, generation detection by address | one thread evaluates, every call returns, no call serves another generation's state |
| Compiled capture, `compiled.rs` | three slots per plan: attempted, valid, closure, specializations, cache contract, cross-attention copies | `try_compiled`, `build_closure`, `trace_thunk`, key functions | a trace bakes host values; transient and final declines; failure after publication | success means the eager answer; fall back only while nothing is visible |
| Eager translator, `engine.rs` | environment of one run, plan cache, writebacks, KV deltas | `execute`, `run_trace`, `resolve`, `finish_boundary`, copy-out | nodes taken out of the plan, partial copy-out, aliased outputs | every boundary output is written once, with the value of the call's inputs |
| Shared initializers, `shared_initializers.rs` | `BUFFERS` (weak, process), `ARRAYS` (weak, thread), owners in plans | `own`, `get` | weak indexes keyed by content and by ADDRESS, teardown on any thread, lazy outputs outliving sessions | the right bytes, one copy, no leak |
| Partitioning, `partition.rs` | none between calls | contiguous, convex and region clustering, colour runs, layer inference and splitting | fusions that depend on each other in a cycle | the fused graph is schedulable and covers every claimed node once |
| Capability policy, `capability.rs` | none between calls | node classification, choice of algorithm, layer metadata, claim loop | promotion of compile classes, sibling regions | claims exactly what the registry accepts outside control-flow bodies |
| Plan builder, `plan_builder.rs` | none between calls | graph to `NodeDesc`, boundary indices, fences, control-flow bodies | scoping of body initializers, shape fences | every reference resolves to the ORT value it names |
| Graph snapshot, `ort_graph.rs` | the snapshot | `from_ort` | optional slots, nested scopes | the IR has the edges ORT has |
| Registry, `registry.rs` | a constant table | lookup, claims | version ranges, claim and translate in step | a claimed node is translatable |
| Factory, EP, ABI, `lib.rs` `factory.rs` `ep.rs` `sys.rs` | factory, allocator metadata, EP | create, release, panic guard | release order, partial failure | each owner releases once |
| Memory budgets, `memory.rs` | two limits inside MLX | `configure` | process-wide, two setters, partial failure | nothing is applied unless all values parse |
| Options, `config.rs` | none | parse | | |
| MLX wrappers, `mlx.rs` | handles | RAII over mlx-c | payload callbacks on MLX threads | each handle and payload is released once |
| Operators, `ops/*.rs` | none, or plan cache entries | one handler and one claim each | integer geometry at boundaries, cache offsets, control-flow scoping | ONNX semantics |
| Tracing and logging, `trace.rs` `logging.rs` | counters, spans | record, export | | observe only |
| Python package, `bench/`, `tests/` | | | | |

## 2. What is modelled

| Modules | Model | Role |
|---|---|---|
| `DeviceMemory` | the promise of `device.rs` | abstract specification: memory as the last write of each address |
| `DeviceTensors` | `device.rs` | detailed specification, one action per locked section |
| `SubgraphCompute` | `runtime.rs` `compute_impl`, `compiled.rs`, the boundary in `engine.rs` | one fused subgraph under concurrent calls |
| `Partition` | `partition.rs`, the clustering part of `capability.rs` | the algorithms as a state machine over graphs |
| `SharedInitializers` | `shared_initializers.rs` and the owners in `Plan` | ownership of weights among sessions |
| `GqaRows` | GroupQueryAttention and the row primitives of `ops/attention.rs` | attention as a movement of rows |
| `KvGeneration` | the same operator with its routes in `compiled.rs`, `runtime.rs` and copy-out in `engine.rs` | generators calling one decoder session |
| `PagedCache` | PagedAttention, `ops/paged_attention.rs`, writebacks in `engine.rs` | a server scheduling sequences over one block pool |
| `MlxArrays` | the MLX primitives the handlers use (external) | tensors as shape and elements |
| `NodeViews` | `registry.rs` | what a claim sees of a node, the table's lookup, `CompileShapeSafety` |
| `IndexOps`, `LayoutOps`, `ExtentOps` | `ops/shape.rs` | claims and lowerings of data movement |
| `ReduceOps` | `ops/reduction.rs` | reductions, arg-extrema, scans along an axis, TopK |
| `MatmulOps`, `ArithmeticOps` | `ops/matmul.rs`, `elementwise.rs`, `math.rs` | products, element-by-element arithmetic |
| `WindowOps`, `PoolOps` | `ops/conv.rs` | convolutions and pools |
| `AttentionOps` | `ops/attention.rs` | the attention operators without a cache, rotary embeddings |
| `QuantOps`, `MoeOps` | `ops/quant.rs` | quantized arithmetic, block-quantized weights, QMoE |
| `OpTable` | the `register` functions of `ops/` | which claim, lowering and shape safety belong to an operator |
| `OperatorMeaning`, `ExtentMeaning`, `ArithmeticMeaning`, `WindowMeaning`, `AttentionMeaning`, `QuantMeaning` | ONNX and com.microsoft schemas | reference definitions, written without the lowerings |
| `OpDefinitions` | | joins the meanings; what each classified lowering reads on the host |
| `Operators` | offering, claiming and running a node | the life of one node |
| `*Proofs` | | theorems, see section 4 |
| `MC*` | | constants for TLC |

### Device tensors

State: `index` is the key set of `ALLOCATIONS` with layouts, `stored` the union of
all `Allocation.entries`, `task` what each thread is in the middle of, `todo` the
tensors a `copy_tensors` call has left, `written` a history variable. An address
is one 64-byte unit. The lock is not a variable: each locked section is one
action, and functions that take it several times are several actions
(`HostData`, `HostView`, `HostInsert`; `CopySource`, `CopyDestination`;
`Allocate`, `Publish`). `NotStored` covers the byte-count mismatch, the missing
allocation and a failed `retained()`, the last after the overlapped entries have
gone. `InputsStable` is the promise callers make ("do not mutate inputs during
Run"): with it no other thread stores to or frees a range while a host read uses
it.

`ImplementsMemory` is the refinement: entries map to nothing, `index` to the
regions, a thread's task to the answer it has. A refused operation maps to
`Refuse`, or to `Spoil` when the old payload was lost.

Simplified: a thread holds one array or one pointer at a time; dtype and shape of
a payload matter only as the key of a host view; a load whose view or reshape
fails is `LoadFails`.

### Subgraph compute

State: `owner` and `phase` are the run gate (`Start` requires `run = NoRun`, the
serial lock), `plan` the mutable plan, `run` the call inside, `outs` what it has
written, `gen` the application's generators, each with an encoder K buffer at
some address. `plan.of` is the kind of subgraph, chosen at the start from
`Subgraphs`.

A call goes `next -> prepare -> build -> gather -> apply -> publish -> eval ->
copy -> ok | failed`, back to `next` when a route declines, and to `translate`
when none is left. The value of an output is the tuple of everything a closure
could get wrong: query length, host decisions, boundary parameters, cache
contract, cross-attention contents. `SuccessIsCorrect` compares it with the eager
translation of the call's own inputs.

`mlx_compile` is external: a shape-keyed closure keeps one trace per (input
shapes, token), a shapeless one a single trace. Each enabled subset, with the
conditions under which `Plan::new` enables it, is in `Plannable`.

Simplified: what the key functions compute from tensors is the component of the
call they distinguish; validation of ROIs and rotary positions is a choice among
accept, decline and fail. What a call's outputs hold, row by row, and the
writebacks to its inputs are the subject of `KvGeneration` and `PagedCache`.

### Partitioning

Nodes are numbers in topological order, a colour is a (float64, compile class)
pair. One action per loop iteration or phase. Reachability is stated by closed
sets, without recursion, so that the module can be proved about. The order in
which the merge loop meets edges is left open: `HashSet`-built successor lists and
the IR's own order make it depend on more than the graph. `Graph::successors` and
the topological order are external (`onnx_runtime_ir`). A run checks several
families of graphs at once: `Cases` gives their sizes, edges, colourings, region
lists and span.

### Shared initializers

A tensor stands for its content; `Meta` is its dtype and shape. `heap` is what the
allocator has at each address; a buffer is freed as soon as no strong owner is
left (`Held`: nodes, index entries, no-copy payloads), and weak references die
with it. `own` is one action since the pool's lock covers it; `get` is one action
since its index is thread-local. Teardown is three actions, in the declaration
order of `Plan`'s fields, on any thread. `retained` are leaves that lazy device
outputs, or a compiled closure that is dropped after them, still refer to.
Modelled with device tensors enabled; without them small weights borrow the
plan's bytes and no output is lazy. Sharing switched off is the instance without
large tensors.

### Generations over a key/value cache

Keys and values move by the same slices, so `GqaRows` follows one sequence of
rows: a row is the generator and token it belongs to and the rotary position
applied to it. For a call it gives the eager lowering of GroupQueryAttention (the
single-row route, the batched one, the sliding buffer with its front cut off),
and for each query row the set of rows it attends to. `KvGeneration` adds
everything around it: which route of `compiled.rs` takes the call (decode,
prefill, neither), what the trace bakes in and what its key distinguishes, the
conditions under which a present is copied out whole or only its new rows
(`copy_out_raw_delta`), and the caller, who binds one buffer, swaps two or lets
ORT allocate, continues a generation, starts another or rewinds one
(`MaxRewinds`). `batch` members may be at different lengths.

`AttendsExact` compares what each query saw with its own sequence, `CacheHolds`
what the buffer holds afterwards, `RefusesOnlyOverflow` says that only a call that
does not fit is refused. Between calls everything is one thread's: `Step` is a
whole call, because the plan's lock covers it.

The caller's contract, in named conjuncts: all caches of a call have one capacity
(`OneCapacity`; `compiled.rs:777-784`, `docs/COMPILED_CAPTURE.md:100-103`, `280`);
a captured prefill that is not narrow does not cross the end of its buffer, where
the captured slice clamps and the eager one refuses (`WithinContract`);
`attention_mask` is as wide as the total length, as exporters make it. Two
properties of the code narrow what a session can do and are in the model: the
single-member route refuses a chunk of several tokens that crosses the end of a
padded or rolled-back growing cache, while the batched one grows; and a sliding
cache cannot rewind over a dropped block (`docs/DESIGN.md:201`).

### Paged cache

A layer is a record that fixes the attributes and which of the optional mechanisms
apply. `mem` is the memory of the cache inputs, a row for each slot, `apart` that of
cache outputs bound elsewhere, `held` and `table` the rows and blocks of each
sequence, `call` the call in progress. `StepOne` and `StepBoth` are the server's
call and the handler's checks and lazy arrays; `Assign`, `Evaluate`, `CopyOut`,
`WriteBack` and `Return` what follows one by one, and `Fail` may take the place of
the evaluation or of any output. A call may send rows that do not stay: to slot -1,
to a spare block, or over an earlier row of the sequence's own (as speculative
decoding and revision do). Between calls the server forks a sequence (`Fork`, which
shares full blocks), drops one (`Drop`) and gives its blocks to others, or does
again what failed.
`AttendsOwn` compares what the kernel over pages or the gathered pages saw with the
rows of the sequence itself, `CachesHold` the pages with what the server believes,
and `Coherent` what a caller reads back with what its queries attended to.

The server's contract: caches of integers never have dropped rows (they read back
every row, skipped slots too); a ring of blocks holds the window and the widest
step; the rows a failed call was to revise are given up; only slots that are not
shared are revised. The asynchronous evaluation of the device path counts as
`Evaluate`. Encoding and decoding an integer cache keeps the identity of a row.
`paged_attention_claim` is not modelled. `MaxRare` bounds drops, failures and calls
with rows that do not stay, together.

### Operators

A node has attributes, the tensors it will get, and how much of their shapes
inference knew (`Sights`). `Operators` offers it (`Offer`), decides with what the
claim can see (`Decide`), and runs what was taken (one action per family of
lowerings, then `Close`). Each lowering is written as the composition of MLX
primitives its handler emits, each meaning directly over indices. The result of
an operator taken is compared with its meaning by one property per family
(`IndexExact` ... `QuantExact`), whenever the node is legal for ONNX. Apart from
those: `NeverOutside` (where the handler checks bounds that MLX would not, it
refuses), and two about lowerings classified as shapeless, which are traced once
and replayed. `FreezesNothing` says what `compiled.rs:72-73` demands: the trace
builds in nothing read on the host that another run of the session may give
differently at the same ranks. The code does not keep it (section 3). `ReplaysAlike`
is what it keeps: the same, but for the extents and ranks the next paragraphs name.

Both are about every operator with a classifier of its own (`FrozenOps`) but
ScatterND, which is never shapeless; `HostReadsOf` gives what each of their lowerings
builds in, and leaves out what it reads only to refuse a node. Of operators registered as
always shapeless the code promises only that MLX primitives can infer output shapes
(`registry.rs:30-44`). Extents built in that no classifier asks for (`UnaskedInputs`):
- the input of a reduction to Max, Min or LogSumExp, when it is empty: what is filled in;
- the input of a Conv: the padding derived for `auto_pad`, and on the way through
  `conv_general` (volumes, uneven padding) what is filled in for an empty batch;
- the activations of MatMulNBits and the indices of GatherBlockQuantized, which
  are flattened and restored;
- the scales of QuantizeLinear and DequantizeLinear: one, or one for each slice.

Ranks built in that none asks for (`UnaskedRanks`): those of the first inputs of
reductions, QuantizeLinear and DequantizeLinear, which resolve an axis. Nothing in
the repository says whether MLX retraces a shapeless closure for another rank, so
`FreezesNothing` is about equal ranks.

Elements are integers, or symbolic where arithmetic would hide a displaced
element:
- attention: an element is a `Mixture`, the query row and the keys it attends to,
  each with its bias and its value. Scale and softcap are left out; score output
  mode 1 is taken as the raw scores. The order of mask and bias and the alignment
  of causal masks are the code's. The extents a 3-D reshape bakes are not tracked.
- rotary: a rotated element is the pair, cosine and sine it is computed from.
- softmax: an element is its power of two and the sum of its run; LogSumExp is the
  sum of powers of two (with no axes and noop, which then logs each element, it is
  excluded). Pow has bases that are signed powers of two.
- pools: an average is scaled by 2520, the root of LpPool is left out. DeformConv
  has offsets in halves and results in quarters.
- quantization: scales are positive integers, a quotient is kept exact until it is
  rounded; float32 is exact up to 2^24 and Garbage beyond. FP4 codes are halves,
  FP8 codes and activations 512ths. Negative rows wrap as MLX's take does. The
  route in float16 differs in rounding only. DynamicQuantizeLinear of zeros alone
  is 0/0 and undefined. In QMoE a gate is a power of two over the sum of those
  chosen, `Sigmoid` any function, gelu is left out; `normalize_routing_weights` is
  not read by the code, and ties go to the last expert.
- integers have their width (`Bits`): sums, products and left shifts wrap, and the least
  integer divided by -1 is excluded.

Legal nodes leave out, besides what ONNX excludes, GatherElements with indices
narrower than the data off the axis, which ONNX allows and the claim does not see.

### What the modules leave out of what they model

- `SubgraphCompute`: the error for an unexpected number of outputs
  (`compiled.rs:988`), raised before anything is published.
- `Partition.Convex`: the search of `partition.rs:143` stops at the last node of the
  set. With numbers that follow the edges, as here, that changes no answer.
- `PagedCache.Accepted`: a call's block table is one matrix as wide as its longest row
  (`attention.rs:3912`, `3931`); shorter rows are taken to be padded with -1, so a
  sequence past its own blocks is refused for its length or for the padding.
- `ExtentOps.RangeOf`: the branch of a native decode (`shape.rs:1671-1679`), whose one
  value is the start.
- `NodeViews.CompileShapeSafety`: nodes have no bodies, so the boundaries found in
  bodies (`registry.rs:275-279`, `292-309`) are left out.

## 3. What is checked

| Run | Bounds | States | Shows |
|---|---|---|---|
| `device_memory` | 2 addresses, 2 threads, 2 arrays, 3 batches, inputs stable | 25,173 | `RegionsDisjoint`, `IndexAgrees`, `ImplementsMemory`, `ViewsFresh`, `PointerLive`, `TypeOK` |
| `device_stale_view` | 2 addresses, callers unrestricted | stops at the violation | `ChangeRefused` fails |
| `compute` | 2 threads, 2 outputs, 3 kinds of subgraph, 2 generators on 3 addresses, specialization limit 2 | 634,954 | `SuccessIsCorrect`, `CleanFallback`, `OneThreadEvaluates`, `TypeOK` |
| `compute_returns` | 2 kinds of subgraph, panics anywhere, fairness | 129,794 | `CallsReturn`, `CleanFallback` |
| `compute_panic` | one plain subgraph, panics | stops at the violation | `SuccessIsCorrect` fails |
| `compute_stale_cross` | a cross-attention decoder whose generations may begin with a past | stops at the violation | `SuccessIsCorrect` fails |
| `partition` | all 64 graphs on 4 nodes, 3 colours and unsupported, 4 region lists; 5-node residual chains whole or in pieces, spans 1 and 2 | 367,074 | `ClustersCover`, `Schedulable`, `GroupsConvex`, `RegionsWhole`, `LayersApart`, `TypeOK` |
| `shared_initializers` | 2 sessions, 2 threads, 2 large weights of one shape, a bias, 3 addresses | 169,599 | `ResolvedRight`, `BytesOutliveLeaves`, `SharedOnce`, `NothingLeft`, `TypeOK` |
| `kv_generation` | 22 sessions: up to 2 generators of 4 tokens, or one of 5 to 8; calls of up to 3 rows; capacity 2 to 4, or growing; batches of 1 and 2; 1 rewind | 147,526 | `AttendsExact`, `CacheHolds`, `RefusesOnlyOverflow` |
| `paged_cache` | 6 layers, 2 sequences, 4 blocks of 2 rows, steps of 2 rows, 1 rare event | 528,145 | `AttendsOwn`, `CachesHold`, `Coherent` |
| `operators` | some hundred operators, each on several small nodes, with every state of shape inference and with or without constants | 126,914 | one `Exact` property per family, `NeverOutside`, `ReplaysAlike`, `TypeOK` |
| `freezes` | the reductions of `operators`, and its Conv with `auto_pad` | stops at the violation | `FreezesNothing` fails |

Why the bounds are enough: two addresses hold two adjacent allocations, or one of two
units with two overlapping stores in it; that `RegionsDisjoint` and `IndexAgrees` hold
on larger heaps, and with callers that do not keep inputs stable, is proved. Three host keys exceed a
specialization limit of two (sixteen in the code). Three encoder addresses let one
generator move while the other stays. Four nodes are the least that make two
convex groups depend on each other in a cycle; five hold two layers with a
residual connection each. Two tensors of one dtype and shape and a reused address
are the least that make an address-keyed index lie. Capacities of 2 to 4 rows with
4 to 8 tokens reach the end of every buffer, a step across it, and a sliding
buffer that has dropped two blocks; two generators interleave, and two members of
a batch are at different lengths. Four blocks of two rows hold two sequences with
a partial last block, a shared block and a block freed and taken again; a ring of
two blocks is used three times by five tokens. The nodes of `operators` have an
extent 1 and, where allowed, an extent 0, negative axes and indices, and elements
that are all different where position is the question.

Fairness: `compute_returns` assumes that a thread inside the gate, or entering it,
takes its next step. The code between is sequential and without waits but the
serial mutex; with one thread owning the session at most one caller waits for it.
No fairness is assumed of a thread outside.

Deadlock is checked in every run but `kv_generation` and `paged_cache`: there the
callers have a bounded number of tokens, rewinds and rare events to spend, so the
system stops when they are used up.

`PROJECT.json` names, for every property, a change of the code that breaks it.

### Disagreements with the repository's own words

1. `host_data` says it fails when a payload changes during a host read; it fails
   only when the entry is gone (`device_stale_view`).
2. A panic during a trace or an eager run leaves the plan without nodes, and the
   eager path, said to be "still correct", reports success with no output
   (`compute_panic`).
3. Cross-attention copies "per generation" outlive a generation that starts with a
   past and reuses the encoder buffer's address (`compute_stale_cross`).
4. "Decode has no host-value specialization key", so what a shapeless lowering reads
   on the host "must therefore be proven safe independently" (`compiled.rs:72-73`).
   Conv derives the padding for `auto_pad` while tracing (`conv.rs:234`; its comment
   at 196-197 takes the compiled path to be shape-keyed), and its classifier calls it
   shapeless: `freezes` stops there. Given the reductions alone (`Nodes <- ReduceNodes`)
   it stops at ReduceMax: Max, Min and LogSumExp fill in the result for an empty input
   with the extents of the trace (`reduction.rs:162`) and are shapeless whatever their
   input (`reduction.rs:621-629`). The decline of empty inputs (`compiled.rs:790-799`)
   is for the shape-keyed route only. The other entries of `UnaskedInputs` are of this
   kind.

Met while reading, and not the subject of a run:

5. `docs/DESIGN.md:155`, `368` and `docs/OP_ARCHITECTURE.md:61`, `986` say that an
   asymmetric GatherBlockQuantized is not claimed; `quant.rs:1277-1305` and `2187`
   claim and lower it.
6. FP4 products check `input_scale` (input 4) in the claim, and the handler does
   not use it.
7. `docs/OP_ARCHITECTURE.md:738-760` describes the paged writeback and duplicate
   caches; for duplicates `test_paged_attention.py:605` asks for input and output
   to agree, which is what `Coherent` states.

## 4. What is proved

`DeviceTensorsProofs` proves, for every heap size, set of threads, arrays, keys and
batches, and with or without `InputsStable`:

- `TypeCorrect`: `Spec => []TypeOK`
- `RegionsStayDisjoint`: `Spec => []RegionsDisjoint`
- `IndexMatchesMemory`: `Spec => []IndexAgrees`

Assumptions: `HeapAssumption`, `ArrayAssumption`, `KeyAssumption`,
`HostAssumption`, `BatchAssumption`; TLC evaluates them in the device runs.

Argument: `TypeOK` is inductive. `RegionsDisjoint` is inductive with it: a new
reservation is apart from everything reserved, a publication turns a reservation
into an allocation, and `Surviving` and `Fits` keep entries inside. For
`IndexAgrees` the proof needs both: a store is the last write of its whole range,
every entry that survives it is disjoint from that range within its allocation,
and entries of other allocations are disjoint because their regions are; freeing
wipes only addresses of the freed region.

Its second part proves, with `InputsStable`, that cached host views show their
entry's payload and that the pointer a Run holds is into a live view:

- `ViewsStayFresh`: `Spec => []ViewsFresh`
- `PointersStayLive`: `Spec => []PointerLive`

`InputsStable` is needed, as `device_stale_view` shows. Between its locked
sections a host read relies on the entry it loaded from; the invariant adds that
this entry stays (`ReadsHeld`) and that its address finds no other
(`OneEntryEach`).

and, from the same invariant, the refinement:

- `IndexIsMemory`: `Spec => ImplementsMemory`

Each step is mapped to the step of `DeviceMemory` that gives the same answer. A
load answers what memory has because entries are current (`EntriesCurrent`), it
misses only what memory lost because payloads not overwritten are kept
(`PayloadsKept`), and a host read that answers two locked sections later still
has what memory has (`ReadsHeld`).

`SubgraphComputeProofs` proves, for every number of threads, outputs and
generators, any kinds of subgraph and any specialization limit:

- `TypeCorrect`: `Spec => []TypeOK`
- `OneThread`: `Spec => []OneThreadEvaluates`
- `FallbackIsClean`: `Spec => []CleanFallback`
- `SuccessIsEager`: `Steady` implies `Spec => []SuccessIsCorrect`

The first three hold with panics anywhere. `Steady` says that nothing panics and
that a generation begins with an empty self-attention cache (`Panics = FALSE`,
`BeginsEmpty = TRUE`); `compute_panic` and
`compute_stale_cross` show that each half is needed. The invariant: every trace in
a slot was made for some call of the subgraph, and the key that finds it tells that
call from every call it would be wrong for (`TracesTold`, `KeyTells`, with tokens
numbering the specializations injectively); cross-attention copies are of the
generator that the plan's key names (`CopiesKept`), since no two generators have
their encoder states in one place (`Apart`); and what has been written of a call's
outputs is what its own inputs give (`RouteSound`, `OutputsSound`).

`PartitionProofs` proves, with no bound on the nodes, first of the merge for every
graph, colouring and list of regions:

- `GroupsStayConvex`: `Spec => []GroupsConvex`

The merge test looks at dependencies among atoms only. A path of nodes that leaves
a group and returns projects to a path of atoms (`Project`), so a set convex among
atoms is convex among nodes (`ConvexLifts`). The invariant is that atoms are apart
and numbered, groups are unions of them, and edges run forwards.

and then of what the clustering answers:

- `PartitionTypeOK`: `Spec => []TypeOK`
- `PartitionCovers`: `Spec => []ClustersCover`
- `PartitionSchedulable`: `Spec => []Schedulable`
- `RegionsStayWhole`: `Spec => []RegionsWhole`
- `PartitionLayersApart`: `Spec => []LayersApart`

Assumptions: `KindAssumption`, `CaseAssumption`, `LayerAssumption`,
`MixedAssumption`; TLC evaluates them in `partition`.

Argument: `ClustersCover` and `Schedulable` speak of an answer only, so the invariant
`CutInv` says of every phase what the answer will need. The units a phase works on
cut up the graph, each of one colour (`Fine`), and depend on each other in no cycle
(`Acyclic`). While Kahn's test and the run building emit units, what has been emitted
depends on nothing that has not (`DownClosed`); the units of a run may then be
contracted to one without making a cycle, since nothing emitted depends on the run
that goes on (`RunGoesOn`). A run, and a part of it, is a sequence of nodes in an
order their edges allow (`Sound`), and cutting the units of an order along that order
leaves an order. `Layered` adds where layers end. `LayersApart` counts: between two
attention nodes in a row that a part of the answer holds there is the end of a layer
(`EndBehind`), different for different pairs, and a part holds fewer ends than the
span (`KeptApart`).

`KvRowsProofs` proves what the routes of GroupQueryAttention promise each other,
for any capacity, window, length and step:

- `DeltaIsWhole`: copying only the new rows leaves the buffer as copying all would
- `WindowFits`: what a sliding cache keeps fits in it and includes the whole window
- `SeedsInside`: the rows a sliding step starts from are rows of its cache, and a
  step that does not stage keeps every row its first query's window needs
- `OneRowNeverStages`: a step of one row needs no staging buffer
- `RoutesAgree`: the captured decode, over the whole buffer under a mask, answers
  what the eager handler answers over the rows that are valid

and, as lemmas, what a route owes each member of a batch. `Asks` says what a call
asks for a member that has fed some tokens: a past that holds them (`Holding`: all
of them, or the window's worth a sliding cache keeps), new rows that follow them,
position ids of their places. `Serves` says what answers it: a present that holds
the longer sequence, and for each query not beyond its end exactly the tokens it may
see, turned to their places. `BatchedRight`, `SingleRight`, `SlidingRight` and
`SlidingAllRight` show that each handler serves every member, `EagerRight` that the
dispatch does. `RotaryRight` follows the flattened position ids of a batch back to
the member's own (`RotaryPicks`). `BatchedAnswers`, `SlidingAnswers`, `SingleAnswers`
and `EagerAnswers` say of the same handlers when they fail at all: a call whose
members are `Able` (positions inside the rotary caches, rows for what they ask) is
`Answered`, or it crosses the end of a buffer and fails as an overflow. The caches the caller does not swap or bind (`spare`) do not
matter: a present is delivered whole, or, by `DeltaIsWhole`, as if it were.

`KvGenerationProofs` proves, for any sessions, any number of rewinds and steps, and
any interleaving of the generators' calls:

- `AttendsExactly`: `Spec => []AttendsExact`
- `CachesHold`: `Spec => []CacheHolds`
- `RefusesRightly`: `Spec => []RefusesOnlyOverflow`

Assumptions: `SessionAssumption` gives the fields of a session their types,
`RewindAssumption` the bound of rewinds, and `WindowAssumption` a sliding cache room
for its window, which the claim of GroupQueryAttention requires of every node it takes
(`attention.rs:2408-2428`); TLC evaluates all three in `kv_generation`. Only
`RefusesRightly` uses the last.
That a caller keeps to `WithinContract` is part of the model (a step is taken only
then), and the proof uses it where a capture would otherwise read past the end of the
buffer or of the rotary caches.

Argument: `CacheHolds` is not inductive. A cache may be read back by another route
than the one that wrote it, so the invariant `KvInv` is about what they share. `Holds`
is `Holding` for every generator. `Fits` says that a bound buffer keeps its size and
that a sliding cache in use has a window that fits in it, so that after going back
its rows are still the last of the shorter sequence.
`Baked` says that a prefill trace baked in the valid past that its shape key implies,
once there is a closure: a later call with that key has that past, which is what makes
replaying it right (`CapturedRight`). From a state of `KvInv` each call of a generator
asks what its tokens say (`StepAsks`, `RereadAsks`), its route serves it
(`ResultRight`), and copy-out keeps what it was served (`DeliverRight`). TLC checked
`KvInv` on the sessions of `kv_generation` before it was proved.

`RefusesOnlyOverflow` needs one thing more of the state, `HeldTurn`: what a generator
holds stays short of the rotary caches, so a reread finds all its positions there and
a step finds its new ones by the contract. With it every step and reread is `Able`
(`StepAble`, `RereadAble`), its route answers or overflows (`ResultAnswers`), and the
call is told so (`DeliverRefuses`).

`PagedCacheProofs` proves, for every set of layers, any sequences, every number and
size of blocks and every number of new rows in a call:

- `PagedCorrect`: `Spec => []PagedInv`
- `PromisedRowsHeld`: `Spec => []CachesHold`
- `OutputsCoherent`: `Spec => []Coherent`
- `QueriesSeeTheirOwn`: `Spec => []AttendsOwn`

Assumptions: `SizeAssumption` and `LayerAssumption` (what sizes and attributes are),
and `RingAssumption`: a ring of blocks holds the window and the widest step, which is
the server's side of the contract. TLC evaluates them in `paged_cache`. Calls of one
and of two sequences are proved from a lemma about any number (`StepMoves`).

Argument: none of the three properties is inductive. A sequence keeps its rows only if
no other writes to its blocks, which depends on how blocks are shared: `SharedFront`
says that two sequences share blocks only where both their tables begin, and that
those blocks are full of rows of both. The new rows of a sequence go behind its rows,
so into blocks that no other has (`NewPrivate`, `NotTheirs`). `Roomy` says that a
block repeats in a table only a whole round of the ring later, so that by
`RingAssumption` a step replaces no row that its queries or later ones need, and no
slot a query reads gets two rows of its sequence (`OwnOnce`). Of a call in progress
the invariant keeps the entries it was given (`BatchRight`), that its writes and its
updated caches are those of the pool it read (`UpdatesRight`), and that each cache is
the updated one, or waits for its copy and differs only in slots the call writes
(`ProgressRight`). `ReadRight` follows: the updated cache holds the view of every
sequence of the call, which `AttendsOwn` then needs for each route of reading
(`ReadIs`; `PatchedPages` for the kernel that is given the old cache and patches).
`CopiesWhole` says of ranges and of patches that they bring all that was written. A
call that fails leaves rows the caller gives up, and those it keeps are in slots it
did not write (`LostPrivate`). A grown table takes each lacking block from `Free` once
(`GrantedIs`), which keeps `SharedFront` and moves no row (`GrowingTables`). TLC
checked `PagedInv` on the layers of `paged_cache` before it was proved.

`SharedInitializersProofs` proves, for any number of sessions, threads, tensors
and addresses, and any split of the tensors into large and small:

- `TypeCorrect`: `Spec => []TypeOK`
- `AlwaysResolvedRight`: `Spec => []ResolvedRight`
- `BytesStay`: `Spec => []BytesOutliveLeaves`
- `AlwaysSharedOnce`: `Spec => []SharedOnce`
- `AllReleased`: `Spec => []NothingLeft`

Assumptions: `LargeAssumption`, `NoneAssumption`; TLC evaluates them in
`shared_initializers`.

Argument: none of the four safety properties is inductive alone. `ResolvedRight`
needs a leaf found under an address to be of the bytes now at that address, which
holds because every index entry owns its buffer. The invariant `IInv` says what
the owners, the heap and the pool know of each other: every owner is right about
its address (`OwnersRight`), the pool knows exactly where the large buffers are
(`PoolAgrees`), every buffer has an owner (`HeapHeld`), handles and entries are of
their session's thread (`PlanRight`), and there is one entry for each tensor and
thread (`EntryOnce`). Since every release frees buffers in the same way, the
invariant's parts take the state as parameters and one lemma, `OwnKeeps`, covers
`Own` for any new plan: freeing what lost its last owner keeps them all. `own` of
new bytes needs a free address, where no owner can be wrong; `get` of a new leaf
needs `PoolAgrees`, by which another entry of the same tensor would be at the same
address and so would have been found.

`OperatorsProofs` proves, for any nodes whatever their attributes, shapes and data:

- `ShapelessReplaysAlike`: `Spec => []ReplaysAlike`

Assumption: `NodeAssumption` (what a `NodeDesc` consists of, that extents are integers,
that Attention has the three inputs its claim reads at `attention.rs:2969-2984`, and
Conv its two); TLC evaluates it in `operators`.

Argument: the invariant `ClaimInv` says that a claimed node is one a session can hold
and that its claim accepted it. Two runs of a session (`Replay`) agree on attributes,
constants and on what is seen of the shapes; what is seen is true (`SeenTrue`), so a
shape all of whose extents are seen is the same in both (`ShapeStays`). Then one lemma
for each classifier: what it asks to be static or constant, and what the theorem takes to
agree although nobody asks for it (`Agreeing`), is all that its handler builds in;
`freezes` shows that the second part is needed. Several also need the claim: TopK's,
without which a shape of unknown rank would pass for static; that of Squeeze and
Unsqueeze, without which axes might come from an input before opset 13; those of
Softmax, Conv, GatherBlockQuantized and the block products, which demand known ranks,
static weights or constants that their classifiers do not look at again.
`RankChangeFreezes` is the hard one: Squeeze may leave
other extents open so long as those it removes are seen to be 1.

Only model-checked: every operator against its meaning (`NeverOutside`, the `Exact`
properties, the number of outputs in `TypeOK`), and `CallsReturn`. Liveness under
fairness and ENABLED are beyond the proof system's back ends. So is induction by the library's theorems,
which take an operator as a parameter; where a proof needs it (a least node, the
nodes counted along a run, the groups in ascending order) it argues from a least
counterexample, with the well-foundedness of the natural numbers. What an operator
computes is folded over the elements of its inputs, so a proof that it agrees with its
meaning is an induction over data; the runs check it on tables of small inputs.

## 5. Plan

What is left, in order of importance.

1. `ControlFlow`: If, Loop and Scan (`ops/controlflow.rs`, `run_subgraph` in
   `engine.rs:2363`): scoping of a body's names, trip counts and conditions, scan
   axes and directions, the recognizers that replace a Scan.
2. `Lifecycle`: factory, EPs, callback state, partial compilation, memory budgets
   (`factory.rs`, `ep.rs`, `runtime.rs`, `memory.rs`).
3. `PlanBuilding`: boundary indices, scoping of bodies, shape fences
   (`plan_builder.rs`, `ort_graph.rs`).
4. Caches of state-space layers: TensorScatter and packed slots (`ops/ssm.rs`).
5. Composition: several subgraphs of one session over the device index, refining
   an abstract session that runs its graph eagerly.

## 6. Not modelled

Floating-point arithmetic and what consists of it: transcendental activations,
casts, Inverse, normalizations, signal, vision, image, recurrent, random and ML
operators, the linear and cubic modes of Resize, gradients. Metal kernels, except
that the paged kernel's reads are followed; MLX's scheduler beyond the trace
cache; ORT beyond the order of its calls; recognition of patterns in `qdq.rs` and
`lut4.rs`; tracing, logging and packaging. Each component's entry in
`PROJECT.json` says how far it is modelled and why.

Three hazards have no property yet: a Compile that fails at a later graph
(`runtime.rs:59`), a second memory limit that is refused after the first was
applied (`memory.rs:84`), and the order in which ORT releases the factory, its EPs
and allocators (`factory.rs:319`). All three belong to the lifecycle module of the
plan.
