--------------------------- MODULE SubgraphCompute ---------------------------
(***************************************************************************)
(* One fused subgraph from the Compute callback inward: the run gate       *)
(* (rust/src/runtime.rs), the choice among the three compiled routes and   *)
(* the eager translator, the compiled closure's life (rust/src/compiled.rs)*)
(* and the eager boundary (rust/src/engine.rs).  Every step that can fail, *)
(* decline or panic does so in some behaviour.                             *)
(*                                                                         *)
(* A tensor's contents matter only where a closure can get them wrong, so  *)
(* the value of an output records what the graph that produced it was      *)
(* specialized to (query length, control-flow decisions, boundary          *)
(* parameters, cache contract) and which cross-attention K/V it consumed.  *)
(***************************************************************************)
EXTENDS Naturals, Sequences, FiniteSets

CONSTANTS
    Threads,
    Outputs,        \* number of boundary outputs of the subgraph
    Subgraphs,      \* the kinds of fused subgraph to consider
    Panics,         \* a node handler can panic
    BeginsEmpty,    \* every generation begins with an empty self-attention cache
    SpecLimit,      \* host_specializations holds at most this many keys
    Generators,     \* token generators that share the session
    Addresses,      \* where a cross-attention K buffer can be
    Contents,       \* what it can hold
    None            \* absent thread, address, content, key

VARIABLES
    owner,          \* RunGate.owner_thread
    phase,          \* where each thread is with respect to the gate
    plan,           \* the mutable Plan, behind run_gate.serial and the plan mutex
    run,            \* the Compute call that holds the gate
    outs,           \* what that call has put in each output
    gen             \* external: each generator's cross-attention K buffer

vars == <<owner, phase, plan, run, outs, gen>>
-----------------------------------------------------------------------------
Decode == "decode"
Prefill == "prefill"
General == "general"
Slots == {Decode, Prefill, General}

Call == [seq : {0, 1, 2},       \* detect_seq_len: None, one, several
         branch : Nat,          \* the decisions If and Loop read on the host
         param : Nat,           \* the boundary values Reshape, Slice ... read
         kv : {"shared", "growing", "unknown"},     \* detect_shared_kv; without
                                \* GroupQueryAttention nothing is shared
         borrowed : BOOLEAN,    \* some input is ORT host memory
         bound : SUBSET (1 .. Outputs)]             \* outputs on the device

\* What Plan::new and the session settle once for the subgraph.
Static == [enabled : SUBSET Slots,      \* the routes that may be built
           gqa : BOOLEAN,               \* GroupQueryAttention (rope_as_data, kv_alias)
           cross : BOOLEAN,             \* stable_cross_ctx_indices is not empty
           control : BOOLEAN,           \* control_flow_specialization_enabled
           guarded : BOOLEAN,           \* boundary_shape_inputs is not empty
           device : BOOLEAN,            \* device tensors are enabled
           calls : SUBSET Call]         \* the distinguishable calls ORT makes

\* decode_enabled, prefill_enabled, general_enabled: a route that cannot guard
\* a host-read value is not enabled for a graph that reads one.
Plannable(sub) ==
    /\ General \in sub.enabled => ~sub.gqa /\ ~sub.cross
    /\ Prefill \in sub.enabled => sub.gqa
    /\ sub.enabled \cap {Decode, Prefill} # {} => ~sub.control /\ ~sub.guarded
    /\ ~sub.control => \A c, d \in sub.calls : c.branch = d.branch
    /\ ~sub.guarded => \A c, d \in sub.calls : c.param = d.param
    /\ ~sub.gqa => \A c \in sub.calls : c.kv = "growing"

ASSUME PlanAssumption ==
    /\ Outputs \in Nat \ {0}
    /\ SpecLimit \in Nat
    /\ \A sub \in Subgraphs :
         /\ DOMAIN sub = {"enabled", "gqa", "cross", "control", "guarded", "device", "calls"}
         /\ sub.enabled \subseteq Slots
         /\ {sub.gqa, sub.cross, sub.control, sub.guarded, sub.device} \subseteq BOOLEAN
         /\ sub.calls \subseteq Call
         /\ Plannable(sub)
ASSUME SwitchAssumption == {Panics, BeginsEmpty} \subseteq BOOLEAN
ASSUME NoneAssumption == None \notin Threads \cup Addresses \cup Contents

-----------------------------------------------------------------------------
Gqa == plan.of.gqa
CrossCache == plan.of.cross
Enabled(s) == s \in plan.of.enabled

\* What an output must hold: the eager translation of the call's own inputs.
Value(call) == [seq |-> call.seq, branch |-> call.branch, param |-> call.param,
                kv |-> call.kv, cross |-> call.cross]

Unwritten == [is |-> "unwritten"]
Spoiled == [is |-> "spoiled"]   \* published, and then its evaluation failed

\* Mutant: boundary parameters are keyed only where control flow is not.
KeyOfDecisionsAlone(call) ==
    IF plan.of.control THEN {<<"branch", call.branch>>}
    ELSE IF plan.of.guarded THEN {<<"param", call.param>>} ELSE {}

\* The host decisions and parameters of a call; none when there is nothing to
\* specialize.
\* control_flow_specialization_key walks the plan's nodes.
HostKey(call) ==
    (IF plan.of.control /\ plan.nodes THEN {<<"branch", call.branch>>} ELSE {})
    \cup (IF plan.of.guarded THEN {<<"param", call.param>>} ELSE {})

\* External: what mlx_compile keys a trace by.  A shapeless closure has one.
TraceKey(s, call, token) ==
    IF s = Decode THEN <<>> ELSE <<call.seq, token>>

FreshSlot == [attempted |-> FALSE, valid |-> FALSE, kv |-> "growing",
              traces |-> {}, specs |-> {}, cross |-> None]

NoRun == [stage |-> "none"]
Unstarted == [i \in 1 .. Outputs |-> Unwritten]

\* Who calls, and with which encoder states, makes no difference to a subgraph
\* without cross-attention.
Callers == IF CrossCache THEN Generators ELSE {CHOOSE g \in Generators : TRUE}
Relevant(S) == IF CrossCache THEN S ELSE {None}

Init ==
    /\ owner = None
    /\ phase = [t \in Threads |-> "out"]
    /\ \E sub \in Subgraphs :
         plan = [of |-> sub, nodes |-> TRUE, warm |-> FALSE, key |-> None,
                 slots |-> [s \in Slots |-> FreshSlot]]
    /\ run = NoRun
    /\ outs = Unstarted
    /\ \E place \in [Callers -> Relevant(Addresses)],
          holds \in [Callers -> Relevant(Contents)] :
         /\ \A g, h \in Callers : g # h => place[g] # place[h]
         /\ gen = [g \in Callers |-> [addr |-> place[g], cross |-> holds[g], fresh |-> TRUE]]

-----------------------------------------------------------------------------
(* The environment: a generator starts over with new encoder states, in a  *)
(* buffer that may be one it or another has freed.                         *)

NewGeneration(g) ==
    /\ CrossCache
    /\ run = NoRun
    /\ ~gen[g].fresh
    /\ \E addr \in Addresses, cross \in Contents :
         /\ \A h \in Callers \ {g} : gen[h].addr # addr
         /\ gen' = [gen EXCEPT ![g] = [addr |-> addr, cross |-> cross, fresh |-> TRUE]]
    /\ UNCHANGED <<owner, phase, plan, run, outs>>

-----------------------------------------------------------------------------
(* RunGate.enter: the first thread owns the session for good.              *)

\* Mutant: any thread passes the gate.
AdmitsAll(t) == t \in Threads

Admits(t) == owner \in {None, t}

Enter(t) ==
    /\ phase[t] = "out"
    /\ owner' = IF owner = None THEN t ELSE owner
    /\ phase' = [phase EXCEPT ![t] = IF Admits(t) THEN "waiting" ELSE "refused"]
    /\ UNCHANGED <<plan, run, outs, gen>>

Refused(t) ==
    /\ phase[t] = "refused"
    /\ phase' = [phase EXCEPT ![t] = "out"]
    /\ UNCHANGED <<owner, plan, run, outs, gen>>

\* The compiled routes compute_impl will try, in order.  Decode may be skipped
\* for a batch the native attention kernel does not take.
Routes(seq) ==
    {(IF d /\ Enabled(Decode) /\ seq = 1 THEN <<Decode>> ELSE <<>>)
     \o (IF Enabled(Prefill) /\ seq > 1 THEN <<Prefill>> ELSE <<>>)
     \o (IF Enabled(General) THEN <<General>> ELSE <<>>) : d \in BOOLEAN}

\* A new sequence, or another cross-attention K buffer than the last call's.
NewSequence(empty, key) == empty \/ key # plan.key

\* Both locks, the call's inputs, and the generation check before any route.
\* Without its nodes the plan finds neither a query length nor a K buffer.
Start(t) ==
    /\ phase[t] = "waiting"
    /\ run = NoRun
    /\ \E c \in plan.of.calls, g \in Callers :
         LET seq == IF plan.nodes THEN c.seq ELSE 0
             key == IF plan.nodes /\ CrossCache THEN gen[g].addr ELSE None
             empty == plan.nodes /\ CrossCache /\ BeginsEmpty /\ gen[g].fresh
         IN /\ \E r \in Routes(seq) :
                 run' = [stage |-> "next", routes |-> r, slot |-> "eager", token |-> 0,
                         at |-> 1, async |-> TRUE, value |-> None,
                         call |-> [seq |-> c.seq, branch |-> c.branch, param |-> c.param,
                                   kv |-> c.kv, borrowed |-> c.borrowed, bound |-> c.bound,
                                   cross |-> gen[g].cross, from |-> g]]
            /\ plan' = IF NewSequence(empty, key)
                         THEN [plan EXCEPT !.key = key,
                                           !.slots[Decode].cross = None,
                                           !.slots[Prefill].cross = None]
                         ELSE plan
    /\ phase' = [phase EXCEPT ![t] = "in"]
    /\ outs' = Unstarted
    /\ UNCHANGED <<owner, gen>>

Return(t) ==
    /\ phase[t] = "in"
    /\ run.stage \in {"ok", "failed"}
    /\ gen' = IF run.stage = "ok" THEN [gen EXCEPT ![run.call.from].fresh = FALSE] ELSE gen
    /\ run' = NoRun
    /\ outs' = Unstarted
    /\ phase' = [phase EXCEPT ![t] = "out"]
    /\ UNCHANGED <<owner, plan>>

-----------------------------------------------------------------------------
(* try_compiled, for the slot of the current route.                        *)

At(stage) == run.stage = stage
Goto(stage) == run' = [run EXCEPT !.stage = stage]
Slot == plan.slots[run.slot]

NextRoute ==
    /\ At("next")
    /\ run' = IF run.routes = <<>>
                THEN [run EXCEPT !.stage = "translate", !.slot = "eager"]
                ELSE [run EXCEPT !.stage = "prepare", !.slot = Head(run.routes),
                                 !.routes = Tail(run.routes)]
    /\ UNCHANGED <<plan, outs>>

\* Mutant: tokens are counted from the keys already there.
ReusedToken == Cardinality(Slot.specs)

NextToken == Cardinality(Slot.specs) + 1

\* ROI and rotary-position validation may decline or fail the call; then the
\* general route assigns the host values their token.
Prepare ==
    /\ At("prepare")
    /\ UNCHANGED outs
    /\ \/ Goto("next") /\ UNCHANGED plan
       \/ Goto("failed") /\ UNCHANGED plan
       \/ /\ run.slot # General \/ HostKey(run.call) = {}
          /\ run' = [run EXCEPT !.stage = "build", !.token = 0]
          /\ UNCHANGED plan
       \/ /\ run.slot = General
          /\ \E spec \in Slot.specs :
               /\ spec.key = HostKey(run.call)
               /\ run' = [run EXCEPT !.stage = "build", !.token = spec.token]
          /\ UNCHANGED plan
       \/ /\ run.slot = General
          /\ HostKey(run.call) # {}
          /\ \A spec \in Slot.specs : spec.key # HostKey(run.call)
          /\ IF Cardinality(Slot.specs) >= SpecLimit
               THEN Goto("next") /\ UNCHANGED plan
               ELSE /\ run' = [run EXCEPT !.stage = "build", !.token = NextToken]
                    /\ plan' = [plan EXCEPT !.slots[General].specs =
                                  @ \cup {[key |-> HostKey(run.call), token |-> NextToken]}]

\* A slot is built once, and serves or declines from then on.
Built ==
    /\ At("build")
    /\ Slot.attempted
    /\ Goto(IF Slot.valid THEN "gather" ELSE "next")
    /\ UNCHANGED <<plan, outs>>

\* A RoPE cache that no eager translation has loaded yet leaves the slot to be
\* tried again by a later call.
ColdCache ==
    /\ At("build")
    /\ ~Slot.attempted /\ plan.nodes
    /\ Gqa /\ ~plan.warm
    /\ Goto("next")
    /\ UNCHANGED <<plan, outs>>

\* Every other outcome of build_closure is final.
Build ==
    /\ At("build")
    /\ ~Slot.attempted
    /\ UNCHANGED outs
    /\ \/ /\ Goto("next")
          /\ plan' = [plan EXCEPT !.slots[run.slot].attempted = TRUE]
       \/ /\ plan.nodes
          /\ Gqa => plan.warm
          /\ Goto("gather")
          /\ plan' = [plan EXCEPT !.slots[run.slot] =
                        [@ EXCEPT !.attempted = TRUE, !.valid = TRUE,
                                  !.kv = IF run.call.kv = "shared" THEN "shared" ELSE "growing"]]

Serves == Gqa => run.call.kv = Slot.kv

\* The closure serves the cache contract it was built for.  Any input may turn
\* out empty, packed, too large or unreadable; the cross-attention K/V is
\* copied the first time and read from the copy afterwards.
Gather ==
    LET used == IF CrossCache /\ Slot.cross # None THEN Slot.cross ELSE run.call.cross IN
    /\ At("gather")
    /\ UNCHANGED outs
    /\ \/ Goto("next") /\ UNCHANGED plan
       \/ /\ Serves
          /\ run' = [run EXCEPT !.stage = "apply", !.value = used]
          /\ plan' = IF CrossCache THEN [plan EXCEPT !.slots[run.slot].cross = used] ELSE plan
       \/ /\ Goto("failed")
          /\ \/ UNCHANGED plan
             \/ CrossCache /\ plan' = [plan EXCEPT !.slots[run.slot].cross = used]

-----------------------------------------------------------------------------
(* closure.apply: replay a trace MLX has for the key, or trace.  A closure *)
(* returns as many outputs as its trace collected; the error for another   *)
(* number, raised before anything is published, is left out.               *)

Produces(baked) ==
    run' = [run EXCEPT !.stage = "publish", !.at = 1, !.async = TRUE,
                       !.value = [seq |-> baked.seq, branch |-> baked.branch,
                                  param |-> baked.param, kv |-> baked.kv,
                                  cross |-> run.value]]

Replay ==
    /\ At("apply")
    /\ \E trace \in Slot.traces :
         /\ trace.key = TraceKey(run.slot, run.call, run.token)
         /\ Produces(trace.baked)
    /\ UNCHANGED <<plan, outs>>

\* run_trace takes the nodes out of the plan and puts them back.
Trace ==
    LET key == TraceKey(run.slot, run.call, run.token)
        baked == [seq |-> run.call.seq, branch |-> run.call.branch,
                  param |-> run.call.param, kv |-> Slot.kv]
    IN
    /\ At("apply")
    /\ plan.nodes
    /\ \A trace \in Slot.traces : trace.key # key
    /\ Produces(baked)
    /\ plan' = [plan EXCEPT !.slots[run.slot].traces = @ \cup {[key |-> key, baked |-> baked]}]
    /\ UNCHANGED outs

\* The trace or the replay failed: the slot is disabled.  A trace without
\* nodes finds no output to return.
ApplyFails ==
    /\ At("apply")
    /\ Goto("next")
    /\ plan' = [plan EXCEPT !.slots[run.slot].valid = FALSE]
    /\ UNCHANGED outs

\* trace_thunk catches the panic; the nodes run_trace held are gone.
TracePanics ==
    /\ Panics
    /\ At("apply")
    /\ plan.nodes
    /\ \A trace \in Slot.traces : trace.key # TraceKey(run.slot, run.call, run.token)
    /\ Goto("next")
    /\ plan' = [plan EXCEPT !.slots[run.slot].valid = FALSE, !.nodes = FALSE]
    /\ UNCHANGED outs

-----------------------------------------------------------------------------
(* The boundary, shared by both paths: publish to the device, evaluate,    *)
(* copy to the host.                                                       *)

Eager == run.slot = "eager"

\* finish_boundary collects the outputs of the nodes it is given.
Collected == IF Eager /\ ~plan.nodes THEN 0 ELSE Outputs

Publishing == plan.of.device /\ ~run.call.borrowed /\ Collected > 0

Publish ==
    /\ At("publish")
    /\ UNCHANGED plan
    /\ \/ /\ ~Publishing
          /\ run' = [run EXCEPT !.stage = "eval", !.async = FALSE]
          /\ UNCHANGED outs
       \/ /\ Publishing /\ run.at > Collected
          /\ Goto("eval")
          /\ UNCHANGED outs
       \/ /\ Publishing /\ run.at <= Collected
          /\ \/ /\ run.at \in run.call.bound
                /\ outs' = [outs EXCEPT ![run.at] = run.value]
                /\ run' = [run EXCEPT !.at = @ + 1]
             \/ /\ run.at \notin run.call.bound
                /\ run' = [run EXCEPT !.at = @ + 1, !.async = FALSE]
                /\ UNCHANGED outs
             \/ Goto("failed") /\ UNCHANGED outs

\* The eager path is finished once every output is on the device.
Evaluate ==
    /\ At("eval")
    /\ IF Eager /\ run.async THEN Goto("ok") ELSE run' = [run EXCEPT !.stage = "copy", !.at = 1]
    /\ UNCHANGED <<plan, outs>>

\* Mutant: the eager path is always there to fall back to.
AlwaysRetried == "next"

\* A payload already published cannot be taken back, so the compiled path
\* falls back to the eager one only without device tensors.
AfterFailure == IF plan.of.device THEN "failed" ELSE "next"

EvaluateFails ==
    /\ At("eval")
    /\ outs' = [i \in 1 .. Outputs |-> IF outs[i] = Unwritten THEN Unwritten ELSE Spoiled]
    /\ IF Eager
         THEN Goto("failed") /\ UNCHANGED plan
         ELSE /\ Goto(AfterFailure)
              /\ plan' = [plan EXCEPT !.slots[run.slot].valid = FALSE]

CopyOut ==
    /\ At("copy")
    /\ UNCHANGED plan
    /\ \/ run.at > Collected /\ Goto("ok") /\ UNCHANGED outs
       \/ /\ run.at <= Collected
          /\ outs' = [outs EXCEPT ![run.at] = run.value]
          /\ run' = [run EXCEPT !.at = @ + 1]
       \/ run.at <= Collected /\ Goto("failed") /\ UNCHANGED outs

-----------------------------------------------------------------------------
(* TranslationContext::execute.                                            *)

\* Translating loads the initializers, the RoPE cache among them; a translation
\* that fails may have loaded it.
Translate ==
    /\ At("translate")
    /\ UNCHANGED outs
    /\ \/ /\ run' = [run EXCEPT !.stage = "publish", !.at = 1, !.async = TRUE,
                                !.value = Value(run.call)]
          /\ plan' = [plan EXCEPT !.warm = plan.nodes \/ @]
       \/ /\ plan.nodes
          /\ Goto("failed")
          /\ \E warm \in {plan.warm, TRUE} : plan' = [plan EXCEPT !.warm = warm]

\* Mutant: the panic unwinds out of the callback.
Unwinds == "unwound"

\* guard_ffi_status turns it into a status for ORT.
Caught == "failed"

\* Any other panic.  execute holds the nodes until
\* its outputs are copied.
Panic ==
    /\ Panics
    /\ run.stage \in {"prepare", "gather", "translate", "publish", "eval", "copy"}
    /\ Goto(Caught)
    /\ plan' = [plan EXCEPT !.nodes = @ /\ ~Eager]
    /\ UNCHANGED outs

-----------------------------------------------------------------------------
Step ==
    \/ NextRoute \/ Prepare \/ Built \/ ColdCache \/ Build \/ Gather
    \/ Replay \/ Trace \/ ApplyFails \/ TracePanics
    \/ Publish \/ Evaluate \/ EvaluateFails \/ CopyOut
    \/ Translate \/ Panic

Inside(t) == phase[t] = "in" /\ Step /\ UNCHANGED <<owner, phase, gen>>

Next ==
    \/ \E g \in Callers : NewGeneration(g)
    \/ \E t \in Threads : \/ Enter(t) \/ Refused(t) \/ Start(t)
                          \/ Inside(t) \/ Return(t)

\* ORT waits for Compute to return, and the code of a call runs to its end.
Fairness ==
    \A t \in Threads : WF_vars(Refused(t) \/ Start(t) \/ Inside(t) \/ Return(t))

Spec == Init /\ [][Next]_vars
FairSpec == Spec /\ Fairness
-----------------------------------------------------------------------------
Baked == [seq : {0, 1, 2}, branch : Nat, param : Nat, kv : {"shared", "growing", "unknown"}]

SlotState == [attempted : BOOLEAN, valid : BOOLEAN, kv : {"shared", "growing"},
              cross : Contents \cup {None}]

\* The plan, the gate and the call under way only ever hold what the Rust
\* types and the bounds of the caches allow.
TypeOK ==
    /\ owner \in Threads \cup {None}
    /\ phase \in [Threads -> {"out", "waiting", "refused", "in"}]
    /\ plan.key \in Addresses \cup {None}
    /\ \A s \in Slots :
         LET c == plan.slots[s] IN
         /\ [attempted |-> c.attempted, valid |-> c.valid, kv |-> c.kv, cross |-> c.cross]
              \in SlotState
         /\ c.valid => c.attempted
         /\ \A trace \in c.traces : trace.baked \in Baked
         /\ Cardinality(c.specs) <= SpecLimit
         /\ {spec.token : spec \in c.specs} = 1 .. Cardinality(c.specs)
    /\ DOMAIN outs = 1 .. Outputs

\* A Compute that reports success has written every output, and with what the
\* eager translator computes from this call's inputs: no trace of other host
\* values, of another cache contract or of another generation's encoder
\* states, and no output left out.
SuccessIsCorrect ==
    At("ok") => \A i \in 1 .. Outputs : outs[i] = Value(run.call)

\* A call goes on to another route, or to the eager translator, only while
\* nothing of it is visible to ORT.
CleanFallback ==
    run.stage \in {"next", "prepare", "build", "gather", "apply", "translate"} =>
        outs = Unstarted

\* All evaluation of the session happens on the thread that ran it first, one
\* call at a time (MLX evaluation is thread-affine).
OneThreadEvaluates ==
    \A t, u \in Threads : phase[t] = "in" /\ phase[u] = "in" => t = u /\ t = owner

\* Every Run gets its answer: no route declines into itself, and no caller
\* waits for the gate for good.
CallsReturn ==
    \A t \in Threads : phase[t] \in {"waiting", "refused"} ~> phase[t] = "out"
=============================================================================
