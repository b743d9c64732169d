------------------------ MODULE SubgraphComputeProofs ------------------------
(***************************************************************************)
(* What compute_impl answers, for any number of threads, outputs, calls    *)
(* and kinds of subgraph and any limit on specializations.                 *)
(*                                                                         *)
(* That one thread evaluates, and that a call falls back only while        *)
(* nothing of it is visible, hold whatever panics.  That success means the *)
(* eager answer holds when nothing panics and every generation begins with *)
(* an empty self-attention cache.  The invariant behind it says of every   *)
(* trace which call it was made for, and that the key that finds it tells  *)
(* that call from every other one.                                         *)
(***************************************************************************)
EXTENDS SubgraphCompute, FiniteSetTheorems, SequenceTheorems, TLAPS

Stages == {"next", "prepare", "build", "gather", "apply", "publish", "eval", "copy",
           "translate", "ok", "failed"}
Encoder == Contents \cup {None}
Values == [seq : {0, 1, 2}, branch : Nat, param : Nat,
           kv : {"shared", "growing", "unknown"}, cross : Encoder]
Made == [seq : {0, 1, 2}, branch : Nat, param : Nat,
         kv : {"shared", "growing", "unknown"}, borrowed : BOOLEAN,
         bound : SUBSET (1 .. Outputs), cross : Encoder, from : Callers]
Run == [stage : Stages, routes : Seq(Slots), slot : Slots \cup {"eager"}, token : Nat,
        at : Nat \ {0}, async : BOOLEAN, value : Values \cup Encoder, call : Made]
SlotType == [attempted : BOOLEAN, valid : BOOLEAN, kv : {"shared", "growing"},
             traces : SUBSET [key : {<<>>} \cup ({0, 1, 2} \X Nat), baked : Baked],
             specs : SUBSET [key : SUBSET ({"branch", "param"} \X Nat), token : Nat],
             cross : Encoder]
Plan == [of : Subgraphs, nodes : BOOLEAN, warm : BOOLEAN, key : Addresses \cup {None},
         slots : [Slots -> SlotType]]
Outcome == {Unwritten, Spoiled} \cup Values \cup Encoder

\* The shape of the state.
Shape ==
    /\ owner \in Threads \cup {None}
    /\ phase \in [Threads -> {"out", "waiting", "refused", "in"}]
    /\ plan \in Plan
    /\ run \in Run \cup {NoRun}
    /\ outs \in [1 .. Outputs -> Outcome]
    /\ gen \in [Callers -> [addr : Addresses \cup {None}, cross : Encoder, fresh : BOOLEAN]]

\* Who waits or is inside owns the session, and who is inside has a call.
Gated ==
    /\ \A t \in Threads : phase[t] \in {"waiting", "in"} => owner = t
    /\ \A t \in Threads : phase[t] = "in" => run # NoRun

\* A compiled route has its slot, and what it applies the closure to.
Routed ==
    /\ run.stage \in {"prepare", "build", "gather", "apply"} => run.slot \in Slots
    /\ run.stage = "apply" => run.value \in Encoder

\* A slot's specializations are numbered from one, without gaps.
Numbered(specs) ==
    /\ IsFiniteSet(specs)
    /\ Cardinality(specs) <= SpecLimit
    /\ {spec.token : spec \in specs} = 1 .. Cardinality(specs)
    /\ \A s, t \in specs : s.token = t.token => s = t
    /\ \A s \in specs : s.key # {}
SlotsSound ==
    \A s \in Slots : /\ Numbered(plan.slots[s].specs)
                     /\ plan.slots[s].valid => plan.slots[s].attempted

\* Nothing is visible before publication, nor without device tensors before the
\* copies.
Unseen ==
    /\ run.stage \in {"next", "prepare", "build", "gather", "apply", "translate"} =>
         outs = Unstarted
    /\ run.stage \in {"publish", "eval"} /\ ~plan.of.device => outs = Unstarted

Safe == Shape /\ Gated /\ Routed /\ SlotsSound /\ Unseen

-----------------------------------------------------------------------------
Steady == Panics = FALSE /\ BeginsEmpty = TRUE

\* Routes a call of this length may take.
Allowed(seq) == {s \in Slots : Enabled(s) /\ (s = Decode => seq = 1)}

\* The token that specializes slot s to the host values of call c.
Tokened(s, c, k) ==
    IF s = General /\ HostKey(c) # {}
    THEN [key |-> HostKey(c), token |-> k] \in plan.slots[General].specs
    ELSE k = 0

\* A trace is of some call, and its key is that call's.
TracesTold ==
    \A s \in Slots : \A trace \in plan.slots[s].traces :
        /\ plan.slots[s].attempted
        /\ \E c \in plan.of.calls, k \in Nat :
             /\ trace.key = TraceKey(s, c, k)
             /\ trace.baked = [seq |-> c.seq, branch |-> c.branch, param |-> c.param,
                               kv |-> plan.slots[s].kv]
             /\ s = Decode => c.seq = 1
             /\ Tokened(s, c, k)
Unshared == ~Gqa => \A s \in Slots : plan.slots[s].kv = "growing"

\* No two generators have their encoder states in one place.
Apart ==
    CrossCache => \A g, h \in Callers : g # h => gen[g].addr # gen[h].addr

\* The copies are of the generation that the plan's key names.
CopiesOf(x) == \A s \in {Decode, Prefill} : plan.slots[s].cross \in {None, x}
CopiesKept ==
    run = NoRun /\ CrossCache =>
        \A g \in Callers : ~gen[g].fresh /\ gen[g].addr = plan.key => CopiesOf(gen[g].cross)

\* The call under way is one of the subgraph's, by a generator the copies are of.
CallKnown ==
    run # NoRun =>
        /\ \E c \in plan.of.calls :
             /\ run.call.seq = c.seq /\ run.call.branch = c.branch
             /\ run.call.param = c.param /\ run.call.kv = c.kv
        /\ run.call.cross = gen[run.call.from].cross
        /\ CrossCache => /\ plan.key = gen[run.call.from].addr
                         /\ CopiesOf(run.call.cross)
        /\ run.routes \in Seq(Allowed(run.call.seq))

\* What each stage of a compiled route has settled.
RouteSound ==
    /\ run.stage \in {"prepare", "build", "gather", "apply"} =>
         run.slot \in Allowed(run.call.seq)
    /\ run.stage \in {"build", "gather", "apply"} => Tokened(run.slot, run.call, run.token)
    /\ run.stage \in {"gather", "apply"} => Slot.attempted
    /\ run.stage = "apply" => run.call.kv = Slot.kv /\ run.value = run.call.cross

\* What each stage of the boundary has put where.
Produced == run.value = Value(run.call)
OutputsSound ==
    /\ run.stage = "publish" =>
         Produced /\ (run.async => \A i \in 1 .. Outputs : i < run.at => outs[i] = run.value)
    /\ run.stage = "eval" =>
         Produced /\ (run.async => \A i \in 1 .. Outputs : outs[i] = run.value)
    /\ run.stage = "copy" =>
         Produced /\ \A i \in 1 .. Outputs : i < run.at => outs[i] = run.value
    /\ run.stage = "ok" => \A i \in 1 .. Outputs : outs[i] = Value(run.call)

IInv ==
    /\ Safe
    /\ plan.nodes
    /\ TracesTold
    /\ Unshared
    /\ Apart
    /\ CopiesKept
    /\ CallKnown
    /\ RouteSound
    /\ OutputsSound

-----------------------------------------------------------------------------
(* The assumptions on a subgraph, in the form the proofs use.              *)

LEMMA SubgraphFacts ==
    ASSUME NEW sub \in Subgraphs
    PROVE  /\ sub.enabled \subseteq Slots
           /\ sub.gqa \in BOOLEAN /\ sub.cross \in BOOLEAN /\ sub.control \in BOOLEAN
           /\ sub.guarded \in BOOLEAN /\ sub.device \in BOOLEAN
           /\ sub.calls \subseteq Call
           /\ Plannable(sub)
BY PlanAssumption

LEMMA InitSafe == Init => Safe
<1> SUFFICES ASSUME Init PROVE Safe
    OBVIOUS
<1>1. Shape
  <2>1. plan \in Plan
    BY DEF Init, Plan, FreshSlot, SlotType, Encoder
  <2>2. outs \in [1 .. Outputs -> Outcome]
    BY DEF Init, Unstarted, Outcome
  <2>3. gen \in [Callers -> [addr : Addresses \cup {None}, cross : Encoder, fresh : BOOLEAN]]
    BY DEF Init, Relevant, Encoder
  <2> QED
    BY <2>1, <2>2, <2>3 DEF Init, Shape, NoRun
<1>2. Gated
  BY NoneAssumption DEF Init, Gated
<1>3. SlotsSound
  <2>1. Numbered({})
    BY FS_EmptySet, PlanAssumption DEF Numbered
  <2>2. \A s \in Slots : plan.slots[s] = FreshSlot
    BY DEF Init
  <2> QED
    BY <2>1, <2>2 DEF SlotsSound, FreshSlot
<1>4. Unseen
  BY DEF Init, Unseen, NoRun
<1> QED
  BY <1>1, <1>2, <1>3, <1>4 DEF Safe, Init, NoRun, Routed

\* A slot may be replaced by any other.
LEMMA SlotUpdate ==
    ASSUME plan \in Plan, NEW s \in Slots, NEW v \in SlotType
    PROVE  LET p == [plan EXCEPT !.slots[s] = v] IN
           /\ p \in Plan
           /\ p.of = plan.of /\ p.nodes = plan.nodes /\ p.warm = plan.warm /\ p.key = plan.key
           /\ p.slots = [plan.slots EXCEPT ![s] = v]
BY DEF Plan

LEMMA NumberedNext ==
    ASSUME NEW specs, Numbered(specs)
    PROVE  Cardinality(specs) \in Nat
BY FS_CardinalityType DEF Numbered

\* No step changes what the subgraph is; the slots keep their types.
LEMMA StepPlan ==
    ASSUME Shape, Routed, SlotsSound, run # NoRun, Step
    PROVE  plan' \in Plan /\ plan'.of = plan.of
<1>0. run \in Run /\ plan \in Plan
  BY DEF Shape
<1>1. CASE UNCHANGED plan
  BY <1>0, <1>1
<1>2. CASE Prepare
  <2>1. CASE UNCHANGED plan
    BY <1>0, <2>1
  <2>2. CASE /\ At("prepare")
             /\ plan' = [plan EXCEPT !.slots[General].specs =
                           @ \cup {[key |-> HostKey(run.call), token |-> NextToken]}]
    <3>1. HostKey(run.call) \in SUBSET ({"branch", "param"} \X Nat)
      BY <1>0 DEF HostKey, Run, Made
    <3>2. NextToken \in Nat
      BY <2>2, NumberedNext DEF SlotsSound, NextToken, Slot, Routed, At
    <3> QED
      BY <1>0, <2>2, <3>1, <3>2 DEF Plan, SlotType, Slots
  <2> QED
    BY <1>2, <2>1, <2>2 DEF Prepare
<1>3. CASE Build
  <2>1. run.slot \in Slots /\ plan.slots[run.slot] \in SlotType
    BY <1>0, <1>3 DEF Build, Routed, At, Plan
  <2>2. CASE plan' = [plan EXCEPT !.slots[run.slot].attempted = TRUE]
    <3> DEFINE v == [plan.slots[run.slot] EXCEPT !.attempted = TRUE]
    <3>1. v \in SlotType
      BY <2>1 DEF SlotType
    <3> QED
      BY <1>0, <2>1, <2>2, <3>1, SlotUpdate
  <2>3. CASE plan' = [plan EXCEPT !.slots[run.slot] =
                        [@ EXCEPT !.attempted = TRUE, !.valid = TRUE,
                                  !.kv = IF run.call.kv = "shared" THEN "shared" ELSE "growing"]]
    <3> DEFINE v == [plan.slots[run.slot] EXCEPT !.attempted = TRUE, !.valid = TRUE,
                         !.kv = IF run.call.kv = "shared" THEN "shared" ELSE "growing"]
    <3>1. v \in SlotType
      BY <2>1 DEF SlotType
    <3> QED
      BY <1>0, <2>1, <2>3, <3>1, SlotUpdate
  <2> QED
    BY <1>3, <2>2, <2>3 DEF Build
<1>4. CASE Gather
  BY <1>0, <1>4 DEF Gather, Plan, SlotType, Routed, At, Slot, Encoder, Run, Made
<1>5. CASE Trace
  <2>1. run.slot \in Slots /\ plan.slots[run.slot] \in SlotType
    BY <1>0, <1>5 DEF Trace, Routed, At, Plan
  <2> DEFINE trace == [key |-> TraceKey(run.slot, run.call, run.token),
                       baked |-> [seq |-> run.call.seq, branch |-> run.call.branch,
                                  param |-> run.call.param, kv |-> Slot.kv]]
             v == [plan.slots[run.slot] EXCEPT !.traces = @ \cup {trace}]
  <2>2. trace.key \in {<<>>} \cup ({0, 1, 2} \X Nat)
    BY <1>0 DEF TraceKey, Run, Made
  <2>3. trace.baked \in Baked
    BY <1>0, <2>1 DEF Baked, Run, Made, Slot, SlotType
  <2>4. v \in SlotType
    BY <2>1, <2>2, <2>3 DEF SlotType
  <2>5. plan' = [plan EXCEPT !.slots[run.slot] = v]
    BY <1>5 DEF Trace
  <2> QED
    BY <1>0, <2>1, <2>4, <2>5, SlotUpdate
<1>6. CASE ApplyFails \/ TracePanics
  <2>1. run.slot \in Slots /\ plan.slots[run.slot] \in SlotType
    BY <1>0, <1>6 DEF ApplyFails, TracePanics, Routed, At, Plan
  <2> DEFINE v == [plan.slots[run.slot] EXCEPT !.valid = FALSE]
  <2>2. v \in SlotType
    BY <2>1 DEF SlotType
  <2>3. CASE ApplyFails
    BY <1>0, <2>1, <2>2, <2>3, SlotUpdate DEF ApplyFails
  <2>4. CASE TracePanics
    <3>1. plan' = [[plan EXCEPT !.slots[run.slot] = v] EXCEPT !.nodes = FALSE]
      BY <2>4 DEF TracePanics
    <3> QED
      BY <1>0, <2>1, <2>2, <3>1, SlotUpdate DEF Plan
  <2> QED
    BY <1>6, <2>3, <2>4
<1>7. CASE EvaluateFails
  <2>1. CASE UNCHANGED plan
    BY <1>0, <2>1
  <2>2. CASE ~Eager /\ plan' = [plan EXCEPT !.slots[run.slot].valid = FALSE]
    <3>1. run.slot \in Slots /\ plan.slots[run.slot] \in SlotType
      BY <1>0, <2>2 DEF Eager, Run, Plan
    <3> DEFINE v == [plan.slots[run.slot] EXCEPT !.valid = FALSE]
    <3>2. v \in SlotType
      BY <3>1 DEF SlotType
    <3> QED
      BY <1>0, <2>2, <3>1, <3>2, SlotUpdate
  <2> QED
    BY <1>7, <2>1, <2>2 DEF EvaluateFails
<1>8. CASE Translate
  BY <1>0, <1>8 DEF Translate, Plan
<1>9. CASE Panic
  BY <1>0, <1>9 DEF Panic, Plan
<1> QED
  BY <1>1, <1>2, <1>3, <1>4, <1>5, <1>6, <1>7, <1>8, <1>9
  DEF Step, NextRoute, Built, ColdCache, Replay, Publish, Evaluate, CopyOut

\* The call under way stays one.
LEMMA StepRun ==
    ASSUME Shape, Routed, SlotsSound, run # NoRun, Step
    PROVE  run' \in Run
<1>0. run \in Run /\ plan \in Plan /\ 1 \in Nat \ {0}
  BY DEF Shape
<1>1. CASE NextRoute
  <2>1. CASE run.routes = <<>>
    BY <1>0, <1>1, <2>1 DEF NextRoute, Run, Stages
  <2>2. CASE run.routes # <<>>
    <3>1. Head(run.routes) \in Slots /\ Tail(run.routes) \in Seq(Slots)
      BY <1>0, <2>2 DEF Run
    <3> QED
      BY <1>0, <1>1, <2>2, <3>1 DEF NextRoute, Run, Stages
  <2> QED
    BY <2>1, <2>2
<1>2. CASE Prepare
  <2>1. \A x \in Stages, k \in Nat : /\ [run EXCEPT !.stage = x] \in Run
                                     /\ [run EXCEPT !.stage = x, !.token = k] \in Run
    BY <1>0 DEF Run
  <2>0. run.slot \in Slots
    BY <1>2 DEF Prepare, Routed, At
  <2>2. Slot \in SlotType /\ NextToken \in Nat
    BY <1>0, <2>0, NumberedNext DEF SlotsSound, Slot, Plan, NextToken
  <2>3. \A spec \in Slot.specs : spec.token \in Nat
    BY <2>2 DEF SlotType
  <2>4. \/ \E x \in {"next", "failed"} : run' = [run EXCEPT !.stage = x]
        \/ \E k \in Nat : run' = [run EXCEPT !.stage = "build", !.token = k]
    BY <1>2, <2>2, <2>3 DEF Prepare, Goto
  <2> QED
    BY <2>1, <2>4 DEF Stages
<1>3. CASE Built \/ ColdCache \/ Build \/ ApplyFails \/ TracePanics
  BY <1>0, <1>3 DEF Built, ColdCache, Build, ApplyFails, TracePanics, Goto, Run, Stages
<1>4. CASE Gather
  <2>1. plan.slots[run.slot].cross \in Encoder /\ run.call.cross \in Encoder
    BY <1>0, <1>4 DEF Gather, Routed, At, Plan, SlotType, Run, Made
  <2> QED
    BY <1>0, <1>4, <2>1 DEF Gather, Goto, Run, Stages, Slot
<1>5. CASE Replay \/ Trace
  <2>1. PICK baked \in Baked : Produces(baked)
    <3>1. CASE Replay
      BY <1>0, <3>1 DEF Replay, Routed, At, Plan, SlotType, Slot
    <3>2. CASE Trace
      BY <1>0, <3>2 DEF Trace, Routed, At, Plan, SlotType, Slot, Run, Made, Baked
    <3> QED
      BY <1>5, <3>1, <3>2
  <2>2. run.value \in Encoder
    BY <1>5 DEF Replay, Trace, Routed, At
  <2> DEFINE v == [seq |-> baked.seq, branch |-> baked.branch, param |-> baked.param,
                   kv |-> baked.kv, cross |-> run.value]
  <2>3. v \in Values
    BY <2>2 DEF Baked, Values
  <2>4. run' = [run EXCEPT !.stage = "publish", !.at = 1, !.async = TRUE, !.value = v]
    BY <2>1 DEF Produces
  <2> HIDE DEF v
  <2> QED
    BY <1>0, <2>3, <2>4 DEF Run, Stages
<1>6. CASE Publish \/ Evaluate \/ CopyOut
  <2>1. run.at + 1 \in Nat \ {0}
    BY <1>0 DEF Run
  <2>2. CASE Publish
    BY <1>0, <2>1, <2>2 DEF Publish, Goto, Run, Stages
  <2>3. CASE Evaluate
    <3>1. run' = [run EXCEPT !.stage = "ok"] \/ run' = [run EXCEPT !.stage = "copy", !.at = 1]
      BY <2>3 DEF Evaluate, Goto
    <3> QED
      BY <1>0, <3>1 DEF Run, Stages
  <2>4. CASE CopyOut
    BY <1>0, <2>1, <2>4 DEF CopyOut, Goto, Run, Stages
  <2> QED
    BY <1>6, <2>2, <2>3, <2>4
<1>7. CASE EvaluateFails
  BY <1>0, <1>7 DEF EvaluateFails, AfterFailure, Goto, Run, Stages
<1>8. CASE Translate
  <2>1. Value(run.call) \in Values
    BY <1>0 DEF Value, Values, Run, Made
  <2>2. CASE Goto("failed")
    BY <1>0, <2>2 DEF Goto, Run, Stages
  <2>3. CASE run' = [run EXCEPT !.stage = "publish", !.at = 1, !.async = TRUE,
                                !.value = Value(run.call)]
    BY <1>0, <2>1, <2>3 DEF Run, Stages
  <2> QED
    BY <1>8, <2>2, <2>3 DEF Translate
<1>9. CASE Panic
  BY <1>0, <1>9 DEF Panic, Goto, Caught, Run, Stages
<1> QED
  BY <1>1, <1>2, <1>3, <1>4, <1>5, <1>6, <1>7, <1>8, <1>9 DEF Step

LEMMA StepShape ==
    ASSUME Shape, Routed, SlotsSound, run # NoRun, Step, UNCHANGED <<owner, phase, gen>>
    PROVE  Shape'
<1>0. run \in Run /\ plan \in Plan
  BY DEF Shape
<1>1. plan' \in Plan /\ plan'.of = plan.of
  BY StepPlan
<1>2. Callers' = Callers /\ Run' = Run
  BY <1>1 DEF Callers, CrossCache, Run, Made, Relevant
<1>3. run' \in Run
  BY StepRun
<1>4. outs' \in [1 .. Outputs -> Outcome]
  <2>1. outs \in [1 .. Outputs -> Outcome]
    BY DEF Shape
  <2>2. CASE UNCHANGED outs
    BY <2>1, <2>2
  <2>3. CASE \E i \in 1 .. Outputs : outs' = [outs EXCEPT ![i] = run.value]
    BY <1>0, <2>1, <2>3 DEF Run, Outcome
  <2>4. CASE EvaluateFails
    BY <2>1, <2>4 DEF EvaluateFails, Outcome
  <2>5. CASE Publish
    BY <1>0, <2>2, <2>3, <2>5, PlanAssumption DEF Publish, Collected, Run
  <2>6. CASE CopyOut
    BY <1>0, <2>2, <2>3, <2>6, PlanAssumption DEF CopyOut, Collected, Run
  <2> QED
    BY <2>2, <2>4, <2>5, <2>6
    DEF Step, NextRoute, Prepare, Built, ColdCache, Build, Gather, Replay, Trace, ApplyFails,
        TracePanics, Evaluate, Translate, Panic
<1> QED
  BY <1>1, <1>2, <1>3, <1>4 DEF Shape

\* A new key gets the next number; no other slot is touched.
LEMMA PrepareNumbers ==
    ASSUME Shape, Routed, SlotsSound, run # NoRun, Prepare
    PROVE  SlotsSound'
<1>0. run \in Run /\ plan \in Plan
  BY DEF Shape
<1>1. CASE UNCHANGED plan
  BY <1>1 DEF SlotsSound
<1>2. CASE /\ run.slot = General
           /\ HostKey(run.call) # {}
           /\ ~(Cardinality(Slot.specs) >= SpecLimit)
           /\ plan' = [plan EXCEPT !.slots[General].specs =
                         @ \cup {[key |-> HostKey(run.call), token |-> NextToken]}]
  <2> DEFINE old == plan.slots[General].specs
             new == [key |-> HostKey(run.call), token |-> NextToken]
  <2>1. Numbered(old) /\ Cardinality(old) \in Nat /\ NextToken = Cardinality(old) + 1
    BY <1>2, NumberedNext DEF SlotsSound, Slots, NextToken, Slot
  <2>2. \A spec \in old : spec.token \in 1 .. Cardinality(old)
    BY <2>1 DEF Numbered
  <2>3. new \notin old
    BY <2>1, <2>2
  <2>4. IsFiniteSet(old \cup {new}) /\ Cardinality(old \cup {new}) = Cardinality(old) + 1
    BY <2>1, <2>3, FS_AddElement DEF Numbered
  <2>5. {spec.token : spec \in old \cup {new}} = 1 .. Cardinality(old) + 1
    <3>1. {spec.token : spec \in old} = 1 .. Cardinality(old)
      BY <2>1 DEF Numbered
    <3>2. {spec.token : spec \in old \cup {new}} = {spec.token : spec \in old} \cup {new.token}
      OBVIOUS
    <3>3. new.token = Cardinality(old) + 1
      BY <2>1
    <3> HIDE DEF new, old
    <3> QED
      BY <2>1, <3>1, <3>2, <3>3
  <2>6. \A s, u \in old \cup {new} : s.token = u.token => s = u
    BY <2>1, <2>2 DEF Numbered
  <2>7. Cardinality(old) + 1 <= SpecLimit
    BY <1>2, <2>1, PlanAssumption DEF Slot
  <2>a. \A s \in old \cup {new} : s.key # {}
    BY <1>2, <2>1 DEF Numbered
  <2>8. Numbered(old \cup {new})
    <3> HIDE DEF old, new
    <3> QED
      BY <2>4, <2>5, <2>6, <2>7, <2>a DEF Numbered
  <2>9. \A s \in Slots : /\ plan'.slots[s].specs = IF s = General THEN old \cup {new}
                                                   ELSE plan.slots[s].specs
                         /\ plan'.slots[s].valid = plan.slots[s].valid
                         /\ plan'.slots[s].attempted = plan.slots[s].attempted
    BY <1>0, <1>2 DEF Plan, SlotType, Slots
  <2> HIDE DEF old, new
  <2> QED
    BY <2>8, <2>9 DEF SlotsSound
<1> QED
  BY <1>1, <1>2 DEF Prepare

LEMMA StepKeepsSpecs ==
    ASSUME Shape, Routed, SlotsSound, run # NoRun, Step, ~Prepare
    PROVE  \A s \in Slots : /\ plan'.slots[s].specs = plan.slots[s].specs
                            /\ plan'.slots[s].valid => plan'.slots[s].attempted
<1>0. run \in Run /\ plan \in Plan
  BY DEF Shape
<1>1. CASE UNCHANGED plan
  BY <1>1 DEF SlotsSound
<1>2. CASE Build
  <2>1. run.slot \in Slots
    BY <1>2 DEF Build, Routed, At
  <2>2. CASE plan' = [plan EXCEPT !.slots[run.slot].attempted = TRUE]
    BY <1>0, <2>1, <2>2 DEF Plan, SlotType, SlotsSound
  <2>3. CASE plan' = [plan EXCEPT !.slots[run.slot] =
                        [@ EXCEPT !.attempted = TRUE, !.valid = TRUE,
                                  !.kv = IF run.call.kv = "shared" THEN "shared" ELSE "growing"]]
    BY <1>0, <2>1, <2>3 DEF Plan, SlotType, SlotsSound
  <2> QED
    BY <1>2, <2>2, <2>3 DEF Build
<1>3. CASE Gather
  BY <1>0, <1>3 DEF Gather, Plan, SlotType, SlotsSound
<1>4. CASE Trace
  BY <1>0, <1>4 DEF Trace, Plan, SlotType, SlotsSound
<1>5. CASE ApplyFails \/ TracePanics \/ EvaluateFails
  <2>1. CASE ApplyFails
    BY <1>0, <2>1 DEF ApplyFails, Plan, SlotType, SlotsSound
  <2>2. CASE TracePanics
    BY <1>0, <2>2 DEF TracePanics, Plan, SlotType, SlotsSound
  <2>3. CASE EvaluateFails
    <3>1. UNCHANGED plan \/ plan' = [plan EXCEPT !.slots[run.slot].valid = FALSE]
      BY <2>3 DEF EvaluateFails
    <3> QED
      BY <1>0, <3>1 DEF Plan, SlotType, SlotsSound
  <2> QED
    BY <1>5, <2>1, <2>2, <2>3
<1>6. CASE Translate \/ Panic
  BY <1>0, <1>6 DEF Translate, Panic, Plan, SlotsSound
<1> QED
  BY <1>1, <1>2, <1>3, <1>4, <1>5, <1>6
  DEF Step, NextRoute, Built, ColdCache, Replay, Publish, Evaluate, CopyOut

\* A step of the call inside keeps the rest of Safe.
LEMMA StepSafe ==
    ASSUME Safe, NEW t \in Threads, phase[t] = "in", Step, UNCHANGED <<owner, phase, gen>>
    PROVE  Safe'
<1>0. /\ Shape /\ Routed /\ SlotsSound /\ Gated /\ Unseen
      /\ run \in Run /\ run # NoRun /\ plan \in Plan
  BY DEF Safe, Shape, Gated
<1>1. Shape'
  BY <1>0, StepShape
<1>2. Gated'
  <2>1. run' \in Run
    BY <1>0, StepRun
  <2>2. run' # NoRun
    BY <2>1 DEF Run, NoRun, Stages
  <2> QED
    BY <1>0, <2>2 DEF Gated
<1>3. Routed'
  <2>1. CASE NextRoute
    BY <1>0, <2>1 DEF NextRoute, Routed, Run
  <2>2. CASE Prepare \/ Built \/ ColdCache \/ Build \/ ApplyFails \/ TracePanics
    BY <1>0, <2>2 DEF Prepare, Built, ColdCache, Build, ApplyFails, TracePanics, Goto, At, Routed, Run
  <2>3. CASE Gather
    <3>1. run.slot \in Slots
      BY <1>0, <2>3 DEF Gather, Routed, At
    <3>2. plan.slots[run.slot].cross \in Encoder /\ run.call.cross \in Encoder
      BY <1>0, <3>1 DEF Plan, SlotType, Run, Made
    <3> QED
      BY <1>0, <2>3, <3>1, <3>2 DEF Gather, Goto, Slot, Routed, Run
  <2>4. CASE Replay \/ Trace
    <3>1. run'.stage = "publish"
      BY <1>0, <2>4 DEF Replay, Trace, Produces, Run
    <3> QED
      BY <3>1 DEF Routed
  <2>5. CASE Publish \/ Evaluate \/ EvaluateFails \/ CopyOut
    BY <1>0, <2>5 DEF Publish, Evaluate, EvaluateFails, CopyOut, AfterFailure, Goto, At, Routed, Run
  <2>6. CASE Translate \/ Panic
    BY <1>0, <2>6 DEF Translate, Panic, Caught, Goto, At, Routed, Run
  <2> QED
    BY <2>1, <2>2, <2>3, <2>4, <2>5, <2>6 DEF Step
<1>4. SlotsSound'
  <2>1. CASE Prepare
    BY <1>0, <2>1, PrepareNumbers
  <2>2. CASE ~Prepare
    <3>1. \A s \in Slots : /\ plan'.slots[s].specs = plan.slots[s].specs
                           /\ plan'.slots[s].valid => plan'.slots[s].attempted
      BY <1>0, <2>2, StepKeepsSpecs
    <3> QED
      BY <1>0, <3>1 DEF SlotsSound
  <2> QED
    BY <2>1, <2>2
<1>5. Unseen'
  <2>0. plan'.of = plan.of
    BY <1>0, StepPlan
  <2>1. CASE NextRoute
    BY <1>0, <2>0, <2>1 DEF NextRoute, Unseen, Run, At
  <2>2. CASE Prepare \/ Built \/ ColdCache \/ Build \/ ApplyFails \/ TracePanics
    BY <1>0, <2>0, <2>2 DEF Prepare, Built, ColdCache, Build, ApplyFails, TracePanics, Goto, At, Unseen, Run
  <2>3. CASE Gather
    BY <1>0, <2>0, <2>3 DEF Gather, Goto, At, Unseen, Run
  <2>4. CASE Replay \/ Trace
    BY <1>0, <2>0, <2>4 DEF Replay, Trace, Produces, Unseen, Run, At
  <2>5. CASE Publish
    BY <1>0, <2>0, <2>5 DEF Publish, Publishing, Goto, At, Unseen, Run
  <2>6. CASE Evaluate \/ CopyOut
    BY <1>0, <2>0, <2>6 DEF Evaluate, CopyOut, Goto, At, Unseen, Run
  <2>7. CASE EvaluateFails
    BY <1>0, <2>0, <2>7 DEF EvaluateFails, AfterFailure, Unstarted, Goto, At, Unseen, Run
  <2>8. CASE Translate \/ Panic
    BY <1>0, <2>0, <2>8 DEF Translate, Panic, Caught, Goto, At, Unseen, Run
  <2> QED
    BY <2>1, <2>2, <2>3, <2>4, <2>5, <2>6, <2>7, <2>8 DEF Step
<1> QED
  BY <1>1, <1>2, <1>3, <1>4, <1>5 DEF Safe

\* The routes of a call are routes the subgraph has.
LEMMA RoutesAllowed ==
    ASSUME NEW seq \in {0, 1, 2}, NEW r \in Routes(seq)
    PROVE  r \in Seq(Allowed(seq))
<1> DEFINE A == Allowed(seq)
<1>1. PICK d \in BOOLEAN :
        r = (IF d /\ Enabled(Decode) /\ seq = 1 THEN <<Decode>> ELSE <<>>)
            \o (IF Enabled(Prefill) /\ seq > 1 THEN <<Prefill>> ELSE <<>>)
            \o (IF Enabled(General) THEN <<General>> ELSE <<>>)
  BY DEF Routes
<1>2. (IF d /\ Enabled(Decode) /\ seq = 1 THEN <<Decode>> ELSE <<>>) \in Seq(A)
  <2>1. CASE d /\ Enabled(Decode) /\ seq = 1
    <3>1. Decode \in A
      BY <2>1 DEF Allowed, Slots
    <3> HIDE DEF A
    <3> QED
      BY <2>1, <3>1
  <2>2. CASE ~(d /\ Enabled(Decode) /\ seq = 1)
    BY <2>2
  <2> QED
    BY <2>1, <2>2
<1>3. (IF Enabled(Prefill) /\ seq > 1 THEN <<Prefill>> ELSE <<>>) \in Seq(A)
  <2>1. CASE Enabled(Prefill) /\ seq > 1
    <3>1. Prefill \in A
      BY <2>1 DEF Allowed, Slots, Prefill, Decode
    <3> HIDE DEF A
    <3> QED
      BY <2>1, <3>1
  <2>2. CASE ~(Enabled(Prefill) /\ seq > 1)
    BY <2>2
  <2> QED
    BY <2>1, <2>2
<1>4. (IF Enabled(General) THEN <<General>> ELSE <<>>) \in Seq(A)
  <2>1. CASE Enabled(General)
    <3>1. General \in A
      BY <2>1 DEF Allowed, Slots, General, Decode
    <3> HIDE DEF A
    <3> QED
      BY <2>1, <3>1
  <2>2. CASE ~Enabled(General)
    BY <2>2
  <2> QED
    BY <2>1, <2>2
<1> HIDE DEF A
<1>5. r \in Seq(A)
  BY <1>1, <1>2, <1>3, <1>4, ConcatProperties
<1> QED
  BY <1>5 DEF A

LEMMA AllowedSlots == \A seq : Allowed(seq) \subseteq Slots
BY DEF Allowed

\* What a call begins with.
LEMMA Started ==
    ASSUME Shape, NEW t \in Threads, Start(t)
    PROVE  \E c \in plan.of.calls, g \in Callers :
             /\ run' \in Run
             /\ run'.stage = "next" /\ run'.slot = "eager"
             /\ run'.routes \in Seq(Allowed(IF plan.nodes THEN c.seq ELSE 0))
             /\ run'.call = [seq |-> c.seq, branch |-> c.branch, param |-> c.param,
                             kv |-> c.kv, borrowed |-> c.borrowed, bound |-> c.bound,
                             cross |-> gen[g].cross, from |-> g]
<1>0. plan \in Plan /\ plan.of \in Subgraphs /\ plan.nodes \in BOOLEAN
  BY DEF Shape, Plan
<1> DEFINE Begun(r, c, g) ==
        [stage |-> "next", routes |-> r, slot |-> "eager", token |-> 0,
         at |-> 1, async |-> TRUE, value |-> None,
         call |-> [seq |-> c.seq, branch |-> c.branch, param |-> c.param,
                   kv |-> c.kv, borrowed |-> c.borrowed, bound |-> c.bound,
                   cross |-> gen[g].cross, from |-> g]]
<1>a. PICK c \in plan.of.calls, g \in Callers :
        \E r \in Routes(IF plan.nodes THEN c.seq ELSE 0) : run' = Begun(r, c, g)
  BY DEF Start
<1>1. PICK r \in Routes(IF plan.nodes THEN c.seq ELSE 0) : run' = Begun(r, c, g)
  BY <1>a
<1>2. c \in Call
  BY <1>0, SubgraphFacts
<1>3. r \in Seq(Allowed(IF plan.nodes THEN c.seq ELSE 0))
  BY <1>0, <1>2, RoutesAllowed DEF Call
<1>4. r \in Seq(Slots)
  BY <1>3, AllowedSlots, SeqMonotonic
<1>5. run'.call \in Made
  BY <1>1, <1>2 DEF Call, Made, Shape
<1>6. 1 \in Nat \ {0} /\ None \in Values \cup Encoder
  BY DEF Encoder
<1>7. run' \in Run
  BY <1>1, <1>4, <1>5, <1>6 DEF Run, Stages
<1> QED
  BY <1>1, <1>3, <1>7

\* A call that begins a new sequence forgets the copies, and nothing else.
LEMMA StartPlan ==
    ASSUME Shape, NEW t \in Threads, Start(t)
    PROVE  /\ plan' \in Plan /\ plan'.of = plan.of /\ plan'.nodes = plan.nodes
           /\ \A s \in Slots : /\ plan'.slots[s].specs = plan.slots[s].specs
                               /\ plan'.slots[s].traces = plan.slots[s].traces
                               /\ plan'.slots[s].kv = plan.slots[s].kv
                               /\ plan'.slots[s].valid = plan.slots[s].valid
                               /\ plan'.slots[s].attempted = plan.slots[s].attempted
<1>0. plan \in Plan
  BY DEF Shape
<1>1. CASE UNCHANGED plan
  BY <1>0, <1>1
<1>2. ASSUME NEW key \in Addresses \cup {None},
             plan' = [plan EXCEPT !.key = key, !.slots[Decode].cross = None,
                                  !.slots[Prefill].cross = None]
      PROVE  plan'.slots = [plan.slots EXCEPT ![Decode].cross = None, ![Prefill].cross = None]
             /\ plan' \in Plan /\ plan'.of = plan.of /\ plan'.nodes = plan.nodes
  <2> DEFINE new == [plan.slots EXCEPT ![Decode].cross = None, ![Prefill].cross = None]
  <2>1. new \in [Slots -> SlotType]
    BY <1>0 DEF Plan, SlotType, Slots, Encoder
  <2>2. plan' = [plan EXCEPT !.key = key, !.slots = new]
    BY <1>2
  <2> HIDE DEF new
  <2>3. plan'.slots = new /\ plan' \in Plan /\ plan'.of = plan.of /\ plan'.nodes = plan.nodes
    BY <1>0, <1>2, <2>1, <2>2 DEF Plan
  <2> QED
    BY <2>3 DEF new
<1>3. \/ UNCHANGED plan
      \/ \E key \in Addresses \cup {None} :
           plan' = [plan EXCEPT !.key = key, !.slots[Decode].cross = None,
                                !.slots[Prefill].cross = None]
  BY DEF Start, Shape
<1>4. ASSUME plan'.slots = [plan.slots EXCEPT ![Decode].cross = None, ![Prefill].cross = None],
             NEW s \in Slots
      PROVE  /\ plan'.slots[s].specs = plan.slots[s].specs
             /\ plan'.slots[s].traces = plan.slots[s].traces
             /\ plan'.slots[s].kv = plan.slots[s].kv
             /\ plan'.slots[s].valid = plan.slots[s].valid
             /\ plan'.slots[s].attempted = plan.slots[s].attempted
  <2>1. plan.slots \in [Slots -> SlotType]
    BY <1>0 DEF Plan
  <2>2. CASE s \in {Decode, Prefill}
    <3>1. plan'.slots[s] = [plan.slots[s] EXCEPT !.cross = None]
      BY <1>4, <2>1, <2>2 DEF Slots, Decode, Prefill
    <3> QED
      BY <2>1, <3>1 DEF SlotType
  <2>3. CASE s \notin {Decode, Prefill}
    BY <1>4, <2>1, <2>3
  <2> QED
    BY <2>2, <2>3
<1> QED
  BY <1>1, <1>2, <1>3, <1>4

\* Starting a call keeps Safe.
LEMMA StartSafe ==
    ASSUME Safe, NEW t \in Threads, Start(t)
    PROVE  Safe'
<1>0. Shape /\ Gated /\ SlotsSound /\ plan \in Plan
  BY DEF Safe, Shape
<1>1. run' \in Run /\ run'.stage = "next"
  BY <1>0, Started
<1>2. /\ plan' \in Plan /\ plan'.of = plan.of
      /\ \A s \in Slots : /\ plan'.slots[s].specs = plan.slots[s].specs
                          /\ plan'.slots[s].valid = plan.slots[s].valid
                          /\ plan'.slots[s].attempted = plan.slots[s].attempted
  BY <1>0, StartPlan
<1>3. Shape'
  <2>1. outs' \in [1 .. Outputs -> Outcome]
    BY DEF Start, Unstarted, Outcome
  <2> QED
    BY <1>0, <1>1, <1>2, <2>1 DEF Start, Shape, Callers, CrossCache, Run, Made
<1>4. Gated'
  BY <1>0, <1>1 DEF Start, Gated, Shape, NoRun
<1>5. Routed' /\ Unseen'
  BY <1>1 DEF Routed, Unseen, Start
<1>6. SlotsSound'
  BY <1>0, <1>2 DEF SlotsSound
<1> QED
  BY <1>3, <1>4, <1>5, <1>6 DEF Safe

\* Every step keeps Safe, whatever panics.
LEMMA NextSafe == Safe /\ [Next]_vars => Safe'
<1> SUFFICES ASSUME Safe, [Next]_vars PROVE Safe'
    OBVIOUS
<1>0. Shape /\ Gated /\ Routed /\ SlotsSound /\ Unseen
  BY DEF Safe
<1>1. CASE UNCHANGED vars
  <2>1. Shape'
    BY <1>0, <1>1 DEF vars, Shape, Callers, CrossCache, Run, Made
  <2>2. Gated' /\ Routed' /\ SlotsSound' /\ Unseen'
    BY <1>0, <1>1 DEF vars, Gated, Routed, SlotsSound, Unseen
  <2> QED
    BY <2>1, <2>2 DEF Safe
<1>2. ASSUME NEW g \in Callers, NewGeneration(g) PROVE Safe'
  <2>1. Shape'
    BY <1>0, <1>2 DEF NewGeneration, Shape, Callers, CrossCache, Run, Made, Encoder
  <2>2. Gated' /\ Routed' /\ SlotsSound' /\ Unseen'
    BY <1>0, <1>2 DEF NewGeneration, Gated, Routed, SlotsSound, Unseen
  <2> QED
    BY <2>1, <2>2 DEF Safe
<1>3. ASSUME NEW t \in Threads, Enter(t) \/ Refused(t) PROVE Safe'
  <2>1. Shape'
    BY <1>0, <1>3 DEF Enter, Refused, Admits, Shape, Callers, CrossCache, Run, Made
  <2>2. Gated'
    BY <1>0, <1>3, NoneAssumption DEF Enter, Refused, Admits, Gated, Shape
  <2>3. Routed' /\ SlotsSound' /\ Unseen'
    BY <1>0, <1>3 DEF Enter, Refused, Routed, SlotsSound, Unseen
  <2> QED
    BY <2>1, <2>2, <2>3 DEF Safe
<1>4. ASSUME NEW t \in Threads, Start(t) PROVE Safe'
  BY <1>0, <1>4, StartSafe DEF Safe
<1>5. ASSUME NEW t \in Threads, Inside(t) PROVE Safe'
  BY <1>5, StepSafe DEF Inside
<1>6. ASSUME NEW t \in Threads, Return(t) PROVE Safe'
  <2>0. run \in Run
    BY <1>0, <1>6 DEF Return, Shape, NoRun
  <2>1. Shape'
    <3>1. run.call.from \in Callers
      BY <2>0 DEF Run, Made
    <3>2. outs' \in [1 .. Outputs -> Outcome]
      BY <1>6 DEF Return, Unstarted, Outcome
    <3> QED
      BY <1>0, <1>6, <3>1, <3>2 DEF Return, Shape, Callers, CrossCache, Run, Made
  <2>2. Gated'
    BY <1>0, <1>6 DEF Return, Gated, Shape
  <2>3. Routed' /\ SlotsSound' /\ Unseen'
    BY <1>0, <1>6 DEF Return, Routed, SlotsSound, Unseen, NoRun
  <2> QED
    BY <2>1, <2>2, <2>3 DEF Safe
<1> QED
  BY <1>1, <1>2, <1>3, <1>4, <1>5, <1>6 DEF Next
-----------------------------------------------------------------------------
\* The gate, the plan and the call only ever hold what they may.
THEOREM TypeCorrect == Spec => []TypeOK
<1>1. Safe => TypeOK
  BY DEF Safe, Shape, SlotsSound, Numbered, TypeOK, Plan, SlotType, SlotState, Encoder
<1> QED
  BY <1>1, InitSafe, NextSafe, PTL DEF Spec

\* All evaluation of a session happens on the thread that ran it first (RunGate
\* in runtime.rs), whatever panics.
THEOREM OneThread == Spec => []OneThreadEvaluates
<1>1. Safe => OneThreadEvaluates
  BY DEF Safe, Gated, OneThreadEvaluates
<1> QED
  BY <1>1, InitSafe, NextSafe, PTL DEF Spec

\* A call goes on to another route only while nothing of it is visible to ORT
\* (try_compiled and its fallback in compute_impl), whatever fails or panics.
THEOREM FallbackIsClean == Spec => []CleanFallback
<1>1. Safe => CleanFallback
  BY DEF Safe, Unseen, CleanFallback
<1> QED
  BY <1>1, InitSafe, NextSafe, PTL DEF Spec
-----------------------------------------------------------------------------
(* Success, when nothing panics and generations begin empty.               *)

\* The host values a subgraph can be specialized to are told by the key.
LEMMA KeyTells ==
    ASSUME plan.of \in Subgraphs, plan.nodes,
           NEW c \in plan.of.calls, NEW d \in plan.of.calls, HostKey(c) = HostKey(d)
    PROVE  c.branch = d.branch /\ c.param = d.param
<1>1. c.branch = d.branch
  <2>1. CASE plan.of.control
    <3>1. <<"branch", c.branch>> \in HostKey(d)
      BY <2>1 DEF HostKey
    <3> QED
      BY <3>1 DEF HostKey
  <2>2. CASE ~plan.of.control
    BY <2>2, SubgraphFacts DEF Plannable
  <2> QED
    BY <2>1, <2>2
<1>2. c.param = d.param
  <2>1. CASE plan.of.guarded
    <3>1. <<"param", c.param>> \in HostKey(d)
      BY <2>1 DEF HostKey
    <3> QED
      BY <3>1 DEF HostKey
  <2>2. CASE ~plan.of.guarded
    BY <2>2, SubgraphFacts DEF Plannable
  <2> QED
    BY <2>1, <2>2
<1> QED
  BY <1>1, <1>2

LEMMA InitIInv == Steady /\ Init => IInv
<1> SUFFICES ASSUME Steady, Init PROVE IInv
    OBVIOUS
<1>1. Safe
  BY InitSafe
<1>2. \A s \in Slots : plan.slots[s] = FreshSlot
  BY DEF Init
<1>3. run = NoRun /\ plan.nodes /\ \A g \in Callers : gen[g].fresh
  BY DEF Init
<1>4. Apart
  BY DEF Init, Apart
<1>5. TracesTold /\ Unshared
  BY <1>2 DEF TracesTold, Unshared, FreshSlot
<1>6. CopiesKept /\ CallKnown /\ RouteSound /\ OutputsSound
  BY <1>3 DEF CopiesKept, CallKnown, RouteSound, OutputsSound, NoRun
<1> QED
  BY <1>1, <1>3, <1>4, <1>5, <1>6 DEF IInv

\* The trace of the call under way.
Traced == [key |-> TraceKey(run.slot, run.call, run.token),
           baked |-> [seq |-> run.call.seq, branch |-> run.call.branch,
                      param |-> run.call.param, kv |-> Slot.kv]]

\* What a step of the call inside may make of slot s.
Evolves(s, a, b) ==
    /\ a.specs \subseteq b.specs
    /\ a.attempted => b.attempted /\ b.kv = a.kv
    /\ b.kv \in {a.kv, IF run.call.kv = "shared" THEN "shared" ELSE "growing"}
    /\ \/ b.traces = a.traces
       \/ At("apply") /\ s = run.slot /\ b.traces = a.traces \cup {Traced}
    /\ \/ b.cross = a.cross
       \/ /\ CrossCache /\ s = run.slot /\ At("gather")
          /\ b.cross = IF a.cross # None THEN a.cross ELSE run.call.cross

LEMMA SlotEvolves ==
    ASSUME IInv, run # NoRun, Step, NEW s \in Slots
    PROVE  Evolves(s, plan.slots[s], plan'.slots[s])
<1> DEFINE a == plan.slots[s]
           b == plan'.slots[s]
<1>0. run \in Run /\ plan \in Plan /\ plan.slots \in [Slots -> SlotType] /\ a \in SlotType /\ Routed
  BY DEF IInv, Safe, Shape, Plan
<1>s. ASSUME b = a \/ \E v \in BOOLEAN : b = [a EXCEPT !.valid = v]
      PROVE  Evolves(s, a, b)
  BY <1>0, <1>s DEF Evolves, SlotType
<1>u. ASSUME NEW u \in Slots, NEW v, plan' = [plan EXCEPT !.slots[u] = v]
      PROVE  b = IF s = u THEN v ELSE a
  BY <1>0, <1>u DEF Plan
<1>1. CASE UNCHANGED plan
  BY <1>1, <1>s
<1>2. CASE Prepare
  <2>1. CASE plan' = [plan EXCEPT !.slots[General].specs =
                        @ \cup {[key |-> HostKey(run.call), token |-> NextToken]}]
    <3> DEFINE g == plan.slots[General]
               v == [g EXCEPT !.specs = @ \cup {[key |-> HostKey(run.call), token |-> NextToken]}]
    <3>1. b = IF s = General THEN v ELSE a
      BY <2>1, <1>u DEF Slots
    <3>2. CASE s = General
      <4>1. /\ a.specs \subseteq b.specs /\ b.attempted = a.attempted /\ b.kv = a.kv
            /\ b.traces = a.traces /\ b.cross = a.cross
        BY <1>0, <3>1, <3>2 DEF SlotType
      <4> QED
        BY <1>0, <4>1 DEF Evolves, SlotType
    <3> QED
      BY <1>s, <3>1, <3>2
  <2> QED
    BY <1>1, <1>2, <2>1 DEF Prepare
<1>3. CASE Build
  <2>1. run.slot \in Slots /\ ~plan.slots[run.slot].attempted
    BY <1>0, <1>3 DEF Build, Routed, At, Slot
  <2>2. CASE plan' = [plan EXCEPT !.slots[run.slot].attempted = TRUE]
    <3>1. b = IF s = run.slot THEN [a EXCEPT !.attempted = TRUE] ELSE a
      BY <2>1, <2>2, <1>u
    <3>2. CASE s = run.slot
      <4>1. /\ b.specs = a.specs /\ ~a.attempted /\ b.kv = a.kv
            /\ b.traces = a.traces /\ b.cross = a.cross
        BY <1>0, <2>1, <3>1, <3>2 DEF SlotType
      <4> QED
        BY <4>1 DEF Evolves
    <3> QED
      BY <1>s, <3>1, <3>2
  <2>3. CASE plan' = [plan EXCEPT !.slots[run.slot] =
                        [@ EXCEPT !.attempted = TRUE, !.valid = TRUE,
                                  !.kv = IF run.call.kv = "shared" THEN "shared" ELSE "growing"]]
    <3>1. b = IF s = run.slot
              THEN [a EXCEPT !.attempted = TRUE, !.valid = TRUE,
                             !.kv = IF run.call.kv = "shared" THEN "shared" ELSE "growing"]
              ELSE a
      BY <1>0, <2>1, <2>3 DEF Plan, SlotType
    <3>2. CASE s = run.slot
      <4>1. /\ b.specs = a.specs /\ ~a.attempted
            /\ b.kv = IF run.call.kv = "shared" THEN "shared" ELSE "growing"
            /\ b.traces = a.traces /\ b.cross = a.cross
        BY <1>0, <2>1, <3>1, <3>2 DEF SlotType
      <4> QED
        BY <4>1 DEF Evolves
    <3> QED
      BY <1>s, <3>1, <3>2
  <2> QED
    BY <1>3, <2>2, <2>3 DEF Build
<1>4. CASE Gather
  <2>1. CASE CrossCache /\ plan' = [plan EXCEPT !.slots[run.slot].cross =
                IF CrossCache /\ Slot.cross # None THEN Slot.cross ELSE run.call.cross]
    <3>1. run.slot \in Slots
      BY <1>0, <1>4 DEF Gather, Routed, At
    <3>2. b = IF s = run.slot
              THEN [a EXCEPT !.cross = IF a.cross # None THEN a.cross ELSE run.call.cross] ELSE a
      BY <2>1, <3>1, <1>u DEF Slot
    <3>3. At("gather")
      BY <1>4 DEF Gather
    <3>4. CASE s = run.slot
      <4>1. /\ b.specs = a.specs /\ b.attempted = a.attempted /\ b.kv = a.kv
            /\ b.traces = a.traces
            /\ b.cross = IF a.cross # None THEN a.cross ELSE run.call.cross
        BY <1>0, <3>2, <3>4 DEF SlotType
      <4> QED
        BY <1>0, <2>1, <3>3, <3>4, <4>1 DEF Evolves, SlotType
    <3> QED
      BY <1>s, <3>2, <3>4
  <2> QED
    BY <1>1, <1>4, <2>1 DEF Gather
<1>5. CASE Trace
  <2>1. run.slot \in Slots
    BY <1>0, <1>5 DEF Trace, Routed, At
  <2>2. At("apply") /\ plan' = [plan EXCEPT !.slots[run.slot].traces = @ \cup {Traced}]
    BY <1>5 DEF Trace, Traced
  <2>3. b = IF s = run.slot THEN [a EXCEPT !.traces = @ \cup {Traced}] ELSE a
    BY <2>1, <2>2, <1>u
  <2> HIDE DEF b
  <2> QED
    BY <1>0, <1>s, <2>2, <2>3 DEF Evolves, SlotType
<1>6. CASE ApplyFails \/ TracePanics
  <2>1. run.slot \in Slots
    BY <1>0, <1>6 DEF ApplyFails, TracePanics, Routed, At
  <2>2. b = IF s = run.slot THEN [a EXCEPT !.valid = FALSE] ELSE a
    <3>1. CASE ApplyFails
      BY <2>1, <3>1, <1>u DEF ApplyFails
    <3>2. CASE TracePanics
      BY <1>0, <2>1, <3>2 DEF TracePanics, Plan
    <3> QED
      BY <1>6, <3>1, <3>2
  <2> QED
    BY <1>s, <2>2
<1>8. CASE EvaluateFails
  <2>1. CASE ~Eager /\ plan' = [plan EXCEPT !.slots[run.slot].valid = FALSE]
    <3>1. run.slot \in Slots
      BY <1>0, <2>1 DEF Eager, Run
    <3>2. b = IF s = run.slot THEN [a EXCEPT !.valid = FALSE] ELSE a
      BY <2>1, <3>1, <1>u
    <3> QED
      BY <1>s, <3>2
  <2> QED
    BY <1>1, <1>8, <2>1 DEF EvaluateFails
<1>9. CASE Translate \/ Panic
  <2>1. b = a
    BY <1>0, <1>9 DEF Translate, Panic, Plan
  <2> QED
    BY <1>s, <2>1
<1> QED
  BY <1>1, <1>2, <1>3, <1>4, <1>5, <1>6, <1>8, <1>9
  DEF Step, NextRoute, Built, ColdCache, Replay, Publish, Evaluate, CopyOut

\* What it leaves alone.
LEMMA StepKeeps ==
    ASSUME Steady, IInv, run # NoRun, Step
    PROVE  /\ plan'.nodes /\ plan'.key = plan.key /\ plan'.of = plan.of
           /\ run'.call = run.call /\ run' # NoRun
           /\ run'.stage \in {"build", "gather", "apply"} => run'.slot = run.slot
           /\ \A c : HostKey(c)' = HostKey(c)
<1>0. run \in Run /\ plan \in Plan /\ plan.nodes /\ Shape /\ Routed /\ SlotsSound
  BY DEF IInv, Safe, Shape
<1>1. plan'.of = plan.of
  BY <1>0, StepPlan
<1>2. run' # NoRun
  <2>1. run' \in Run
    BY <1>0, StepRun
  <2> QED
    BY <2>1 DEF Run, NoRun, Stages
<1>3. run'.call = run.call
  BY <1>0 DEF Step, NextRoute, Prepare, Built, ColdCache, Build, Gather, Replay, Trace, ApplyFails,
     TracePanics, Publish, Evaluate, EvaluateFails, CopyOut, Translate, Panic, Goto, Produces, Run
<1>4. run'.stage \in {"build", "gather", "apply"} => run'.slot = run.slot
  <2>1. CASE NextRoute
    BY <1>0, <2>1 DEF NextRoute, Run
  <2>2. CASE Prepare \/ Built \/ ColdCache \/ Build \/ Gather
    BY <1>0, <2>2 DEF Prepare, Built, ColdCache, Build, Gather, Goto, Run
  <2>3. CASE Replay \/ Trace \/ ApplyFails \/ TracePanics
    BY <1>0, <2>3 DEF Replay, Trace, ApplyFails, TracePanics, Produces, Goto, Run
  <2>4. CASE Publish \/ Evaluate \/ EvaluateFails \/ CopyOut
    BY <1>0, <2>4 DEF Publish, Evaluate, EvaluateFails, CopyOut, Goto, Run
  <2>5. CASE Translate \/ Panic
    BY <1>0, <2>5 DEF Translate, Panic, Goto, Run
  <2> QED
    BY <2>1, <2>2, <2>3, <2>4, <2>5 DEF Step
<1>5. plan'.nodes = plan.nodes /\ plan'.key = plan.key
  BY <1>0 DEF Step, NextRoute, Prepare, Built, ColdCache, Build, Gather, Replay, Trace, ApplyFails,
     TracePanics, Publish, Evaluate, EvaluateFails, CopyOut, Translate, Panic, Steady, Plan
<1>6. \A c : HostKey(c)' = HostKey(c)
  BY <1>1, <1>5 DEF HostKey
<1> QED
  BY <1>0, <1>1, <1>2, <1>3, <1>4, <1>5, <1>6

\* A key given out stays given out.
LEMMA TokenKept ==
    ASSUME Steady, IInv, run # NoRun, Step,
           NEW s \in Slots, NEW c, NEW k, Tokened(s, c, k)
    PROVE  Tokened(s, c, k)'
<1>1. HostKey(c)' = HostKey(c)
  BY StepKeeps
<1>2. plan.slots[General].specs \subseteq plan'.slots[General].specs
  BY SlotEvolves DEF Evolves, Slots
<1> QED
  BY <1>1, <1>2 DEF Tokened

\* The call under way is like one of the subgraph's calls.
LEMMA LikeACall ==
    ASSUME IInv, run # NoRun
    PROVE  \E c \in plan.of.calls :
             /\ run.call.seq = c.seq /\ run.call.branch = c.branch
             /\ run.call.param = c.param /\ run.call.kv = c.kv
             /\ HostKey(c) = HostKey(run.call)
             /\ ~Gqa => run.call.kv = "growing"
<1>1. PICK c \in plan.of.calls :
        /\ run.call.seq = c.seq /\ run.call.branch = c.branch
        /\ run.call.param = c.param /\ run.call.kv = c.kv
  BY DEF IInv, CallKnown
<1>2. HostKey(c) = HostKey(run.call)
  BY <1>1 DEF HostKey
<1>3. plan.of \in Subgraphs
  BY DEF IInv, Safe, Shape, Plan
<1>4. ~Gqa => run.call.kv = "growing"
  BY <1>1, <1>3, SubgraphFacts DEF Plannable, Gqa
<1> QED
  BY <1>1, <1>2, <1>4

LEMMA StepTraces ==
    ASSUME Steady, IInv, run # NoRun, Step
    PROVE  TracesTold' /\ Unshared'
<1>0. run \in Run /\ plan \in Plan /\ Routed /\ RouteSound /\ TracesTold /\ Unshared
  BY DEF IInv, Safe, Shape
<1>1. plan'.of = plan.of
  BY StepKeeps
<1>2. Unshared'
  <2>1. ASSUME ~Gqa, NEW s \in Slots PROVE plan'.slots[s].kv = "growing"
    BY <1>0, <2>1, LikeACall, SlotEvolves DEF Evolves, Unshared
  <2> QED
    BY <1>1, <2>1 DEF Unshared, Gqa
<1>3. ASSUME NEW s \in Slots, NEW trace \in plan'.slots[s].traces
      PROVE  /\ plan'.slots[s].attempted
             /\ \E c \in plan.of.calls, k \in Nat :
                  /\ trace.key = TraceKey(s, c, k)
                  /\ trace.baked = [seq |-> c.seq, branch |-> c.branch, param |-> c.param,
                                    kv |-> plan'.slots[s].kv]
                  /\ s = Decode => c.seq = 1
                  /\ Tokened(s, c, k)'
  <2>0. Evolves(s, plan.slots[s], plan'.slots[s])
    BY SlotEvolves
  <2>1. CASE trace \in plan.slots[s].traces
    <3>1. plan.slots[s].attempted
      BY <1>0, <2>1 DEF TracesTold
    <3>2. PICK c \in plan.of.calls, k \in Nat :
             /\ trace.key = TraceKey(s, c, k)
             /\ trace.baked = [seq |-> c.seq, branch |-> c.branch, param |-> c.param,
                               kv |-> plan.slots[s].kv]
             /\ s = Decode => c.seq = 1
             /\ Tokened(s, c, k)
      BY <1>0, <2>1 DEF TracesTold
    <3>3. Tokened(s, c, k)'
      BY <3>2, TokenKept
    <3> QED
      BY <2>0, <3>1, <3>2, <3>3 DEF Evolves
  <2>2. CASE trace \notin plan.slots[s].traces
    <3>1. At("apply") /\ s = run.slot /\ trace = Traced
      BY <2>0, <2>2 DEF Evolves
    <3>2. PICK c \in plan.of.calls :
             /\ run.call.seq = c.seq /\ run.call.branch = c.branch
             /\ run.call.param = c.param /\ run.call.kv = c.kv
             /\ HostKey(c) = HostKey(run.call)
      BY LikeACall
    <3>3. Slot.attempted /\ run.slot \in Allowed(run.call.seq)
          /\ Tokened(run.slot, run.call, run.token)
      BY <1>0, <3>1 DEF RouteSound, At
    <3>a. PICK k \in Nat : k = run.token
      BY <1>0 DEF Run
    <3>4. Tokened(s, c, k)
      BY <3>1, <3>2, <3>3, <3>a DEF Tokened
    <3>5. Tokened(s, c, k)'
      BY <3>4, TokenKept
    <3>6. s = Decode => c.seq = 1
      BY <1>0, <3>1, <3>2, <3>3 DEF Allowed
    <3>7. trace.key = TraceKey(s, c, k)
      BY <3>1, <3>2, <3>a DEF Traced, TraceKey
    <3>8. plan'.slots[s].attempted /\ plan'.slots[s].kv = Slot.kv
      BY <2>0, <3>1, <3>3 DEF Evolves, Slot
    <3>9. trace.baked = [seq |-> c.seq, branch |-> c.branch, param |-> c.param,
                         kv |-> plan'.slots[s].kv]
      BY <3>1, <3>2, <3>8 DEF Traced
    <3> QED
      BY <3>5, <3>6, <3>7, <3>8, <3>9
  <2> QED
    BY <2>1, <2>2
<1>4. TracesTold'
  BY <1>1, <1>3 DEF TracesTold, TraceKey
<1> QED
  BY <1>2, <1>4

LEMMA StepCall ==
    ASSUME Steady, IInv, run # NoRun, Step, UNCHANGED gen
    PROVE  Apart' /\ CopiesKept' /\ CallKnown'
<1>0. /\ run \in Run /\ plan \in Plan /\ plan.of \in Subgraphs
      /\ Apart /\ CallKnown /\ RouteSound /\ Shape /\ Routed
  BY DEF IInv, Safe, Shape, Plan
<1>1. /\ plan'.of = plan.of /\ plan'.key = plan.key
      /\ run'.call = run.call /\ run' # NoRun
  BY StepKeeps
<1>2. Apart' /\ CopiesKept'
  BY <1>0, <1>1 DEF Apart, CopiesKept, CrossCache, Callers
<1>3. ASSUME CrossCache, NEW s \in {Decode, Prefill}
      PROVE  plan'.slots[s].cross \in {None, run.call.cross}
  <2>1. plan.slots[s].cross \in {None, run.call.cross}
    BY <1>0, <1>3 DEF CallKnown, CopiesOf
  <2> QED
    BY <2>1, SlotEvolves DEF Evolves, Slots
<1>4. run'.routes \in Seq(Allowed(run.call.seq))
  <2>1. run.routes \in Seq(Allowed(run.call.seq))
    BY <1>0 DEF CallKnown
  <2>2. CASE NextRoute
    <3>1. CASE run.routes = <<>>
      BY <1>0, <2>1, <2>2, <3>1 DEF NextRoute, Run
    <3>2. CASE run.routes # <<>>
      <4>1. Tail(run.routes) \in Seq(Allowed(run.call.seq))
        <5> DEFINE A == Allowed(run.call.seq)
        <5>1. run.routes \in Seq(A)
          BY <2>1
        <5> HIDE DEF A
        <5>2. Tail(run.routes) \in Seq(A)
          BY <3>2, <5>1
        <5> QED
          BY <5>2 DEF A
      <4> QED
        BY <1>0, <2>2, <3>2, <4>1 DEF NextRoute, Run
    <3> QED
      BY <3>1, <3>2
  <2>3. CASE ~NextRoute
    <3>1. run'.routes = run.routes
      BY <1>0, <2>3 DEF Step, Prepare, Built, ColdCache, Build, Gather, Replay, Trace, ApplyFails,
         TracePanics, Publish, Evaluate, EvaluateFails, CopyOut, Translate, Panic, Goto, Produces, Run
    <3> QED
      BY <2>1, <3>1
  <2> QED
    BY <2>2, <2>3
<1>5. Allowed(run.call.seq)' = Allowed(run.call.seq)
  BY <1>1 DEF Allowed, Enabled
<1>6. CallKnown'
  BY <1>0, <1>1, <1>3, <1>4, <1>5 DEF CallKnown, CopiesOf, CrossCache
<1> QED
  BY <1>2, <1>6

LEMMA StepRoute ==
    ASSUME Steady, IInv, run # NoRun, Step, UNCHANGED gen
    PROVE  RouteSound'
<1>0. /\ run \in Run /\ plan \in Plan /\ plan.of \in Subgraphs /\ plan.nodes
      /\ CallKnown /\ RouteSound /\ Routed /\ Unshared
  BY DEF IInv, Safe, Shape, Plan
<1>1. plan'.of = plan.of /\ run'.call = run.call
  BY StepKeeps
<1>2. \A x : Allowed(x)' = Allowed(x)
  BY <1>1 DEF Allowed, Enabled
<1>3. CASE NextRoute
  <2>1. CASE run.routes = <<>>
    BY <1>0, <1>3, <2>1 DEF NextRoute, RouteSound, Run
  <2>2. CASE run.routes # <<>>
    <3>1. run.routes \in Seq(Allowed(run.call.seq))
      BY <1>0 DEF CallKnown
    <3>2. Head(run.routes) \in Allowed(run.call.seq)
      <4> DEFINE A == Allowed(run.call.seq)
      <4> HIDE DEF A
      <4>1. run.routes \in Seq(A)
        BY <3>1 DEF A
      <4>2. Head(run.routes) \in A
        BY <2>2, <4>1
      <4> QED
        BY <4>2 DEF A
    <3>3. run'.stage = "prepare" /\ run'.slot = Head(run.routes)
      BY <1>0, <1>3, <2>2 DEF NextRoute, Run
    <3> QED
      BY <1>1, <1>2, <3>2, <3>3 DEF RouteSound
  <2> QED
    BY <2>1, <2>2
<1>4. CASE Prepare
  <2>1. CASE run' = [run EXCEPT !.stage = "next"] \/ run' = [run EXCEPT !.stage = "failed"]
    BY <1>0, <2>1 DEF RouteSound, Run
  <2>2. ASSUME NEW k \in Nat, run' = [run EXCEPT !.stage = "build", !.token = k],
               Tokened(run.slot, run.call, k)'
        PROVE  RouteSound'
    <3>1. run'.stage = "build" /\ run'.slot = run.slot /\ run'.token = k
      BY <1>0, <2>2 DEF Run
    <3>2. run.slot \in Allowed(run.call.seq)
      BY <1>0, <1>4 DEF RouteSound, Prepare, At
    <3> QED
      BY <1>1, <1>2, <2>2, <3>1, <3>2 DEF RouteSound
  <2>3. run.slot \in Slots /\ run'.call = run.call /\ HostKey(run.call)' = HostKey(run.call)
    <3>1. \A c : HostKey(c)' = HostKey(c)
      BY StepKeeps
    <3>2. PICK c : c = run.call
      OBVIOUS
    <3>3. HostKey(c)' = HostKey(c)
      BY <3>1
    <3> QED
      BY <1>0, <1>1, <1>4, <3>2, <3>3 DEF Routed, Prepare, At, HostKey
  <2>4. CASE /\ run.slot # General \/ HostKey(run.call) = {}
             /\ run' = [run EXCEPT !.stage = "build", !.token = 0]
    <3>1. run'.slot = run.slot
      BY <1>0, <2>4 DEF Run
    <3>2. Tokened(run.slot, run.call, 0)'
      BY <2>3, <2>4, <3>1 DEF Tokened
    <3> QED
      BY <2>2, <2>4, <3>2
  <2>5. ASSUME run.slot = General, NEW spec \in Slot.specs, spec.key = HostKey(run.call),
               run' = [run EXCEPT !.stage = "build", !.token = spec.token], UNCHANGED plan
        PROVE  RouteSound'
    <3>0. spec \in [key : SUBSET ({"branch", "param"} \X Nat), token : Nat]
      BY <1>0, <2>5 DEF Slot, Plan, SlotType, Slots
    <3>1. PICK k \in Nat : k = spec.token
      BY <3>0
    <3>2. spec = [key |-> HostKey(run.call), token |-> k]
      BY <2>5, <3>0, <3>1
    <3>3. spec \in plan'.slots[General].specs
      BY <2>5 DEF Slot
    <3>4. HostKey(run.call) # {}
      BY <2>5 DEF IInv, Safe, SlotsSound, Numbered, Slot, Slots
    <3>5. run'.slot = run.slot
      BY <1>0, <2>5 DEF Run
    <3>6. Tokened(run.slot, run.call, k)'
      BY <2>3, <2>5, <3>2, <3>3, <3>4, <3>5 DEF Tokened
    <3> QED
      BY <2>2, <2>5, <3>1, <3>6
  <2>6. ASSUME run.slot = General, HostKey(run.call) # {},
               run' = [run EXCEPT !.stage = "build", !.token = NextToken],
               plan' = [plan EXCEPT !.slots[General].specs =
                          @ \cup {[key |-> HostKey(run.call), token |-> NextToken]}]
        PROVE  RouteSound'
    <3>0. NextToken \in Nat
      BY <2>6, NumberedNext DEF IInv, Safe, SlotsSound, NextToken, Slot, Slots
    <3>1. PICK k \in Nat : k = NextToken
      BY <3>0
    <3>3. [key |-> HostKey(run.call), token |-> k] \in plan'.slots[General].specs
      BY <1>0, <2>6, <3>1 DEF Plan, SlotType, Slots
    <3>5. run'.slot = run.slot
      BY <1>0, <2>6 DEF Run
    <3>6. Tokened(run.slot, run.call, k)'
      BY <2>3, <2>6, <3>3, <3>5 DEF Tokened
    <3> QED
      BY <2>2, <2>6, <3>1, <3>6
  <2> QED
    BY <1>4, <2>1, <2>3, <2>4, <2>5, <2>6 DEF Prepare, Goto
<1>5. ASSUME run'.stage \in {"gather", "apply"}, run'.slot = run.slot, run'.token = run.token,
             run.stage \in {"build", "gather"}, plan'.slots[run.slot].attempted,
             run'.stage = "apply" =>
               run.call.kv = plan'.slots[run.slot].kv /\ run'.value = run.call.cross
      PROVE  RouteSound'
  <2>1. run.slot \in Slots /\ run.slot \in Allowed(run.call.seq)
        /\ Tokened(run.slot, run.call, run.token)
    BY <1>0, <1>5 DEF RouteSound, Routed
  <2>2. PICK s, c, k : s \in Slots /\ s = run.slot /\ c = run.call /\ k = run.token
    BY <2>1
  <2>3. Tokened(s, c, k)'
    BY <2>1, <2>2, TokenKept
  <2>4. Tokened(run.slot, run.call, run.token)'
    BY <1>1, <1>5, <2>2, <2>3 DEF Tokened, HostKey
  <2> QED
    BY <1>1, <1>2, <1>5, <2>1, <2>4 DEF RouteSound, Slot
<1>6. CASE Built
  <2>1. CASE run' = [run EXCEPT !.stage = "next"]
    BY <1>0, <2>1 DEF RouteSound, Run
  <2>2. CASE run' = [run EXCEPT !.stage = "gather"]
    BY <1>0, <1>5, <1>6, <2>2 DEF Built, At, Slot, Run
  <2> QED
    BY <1>6, <2>1, <2>2 DEF Built, Goto
<1>7. CASE Build
  <2>1. CASE run' = [run EXCEPT !.stage = "next"]
    BY <1>0, <2>1 DEF RouteSound, Run
  <2>2. CASE /\ run' = [run EXCEPT !.stage = "gather"]
             /\ plan' = [plan EXCEPT !.slots[run.slot] =
                           [@ EXCEPT !.attempted = TRUE, !.valid = TRUE,
                             !.kv = IF run.call.kv = "shared" THEN "shared" ELSE "growing"]]
    <3>1. run.slot \in Slots
      BY <1>0, <1>7 DEF Build, Routed, At
    <3>2. plan'.slots[run.slot].attempted
      BY <1>0, <2>2, <3>1 DEF Plan, SlotType
    <3> QED
      BY <1>0, <1>5, <1>7, <2>2, <3>2 DEF Build, At, Run
  <2> QED
    BY <1>7, <2>1, <2>2 DEF Build, Goto
<1>8. CASE Gather
  <2> DEFINE used == IF CrossCache /\ Slot.cross # None THEN Slot.cross ELSE run.call.cross
  <2>1. CASE run' = [run EXCEPT !.stage = "next"] \/ run' = [run EXCEPT !.stage = "failed"]
    BY <1>0, <2>1 DEF RouteSound, Run
  <2>2. CASE /\ Serves
             /\ run' = [run EXCEPT !.stage = "apply", !.value = used]
    <3>1. At("gather") /\ run.slot \in Slots /\ Slot.attempted
          /\ run.slot \in Allowed(run.call.seq)
      BY <1>0, <1>8 DEF Gather, Routed, RouteSound, At
    <3>2. run.call.kv = Slot.kv
      BY <1>0, <2>2, <3>1, LikeACall DEF Serves, Unshared, Slot
    <3>3. used = run.call.cross
      <4>1. CASE CrossCache
        <5>1. run.slot # General
          BY <1>0, <3>1, <4>1, SubgraphFacts DEF Allowed, Enabled, Plannable, CrossCache
        <5> QED
          BY <1>0, <3>1, <4>1, <5>1 DEF CallKnown, CopiesOf, Slots, Slot
      <4> QED
        BY <4>1
    <3>4. plan'.slots[run.slot].attempted /\ plan'.slots[run.slot].kv = run.call.kv
      BY <3>1, <3>2, SlotEvolves DEF Evolves, Slot
    <3>5. run'.stage = "apply" /\ run'.slot = run.slot /\ run'.token = run.token
          /\ run'.value = used
      BY <1>0, <2>2 DEF Run
    <3> QED
      BY <1>5, <3>1, <3>3, <3>4, <3>5 DEF At
  <2> QED
    BY <1>8, <2>1, <2>2 DEF Gather, Goto
<1>9. CASE run'.stage \notin {"prepare", "build", "gather", "apply"}
  BY <1>9 DEF RouteSound
<1> QED
  <2>1. CASE ColdCache
    BY <1>0, <1>9, <2>1 DEF ColdCache, Goto, Run
  <2>2. CASE Replay \/ Trace \/ ApplyFails \/ TracePanics
    BY <1>0, <1>9, <2>2 DEF Replay, Trace, ApplyFails, TracePanics, Produces, Goto, Run
  <2>3. CASE Publish \/ Evaluate
    BY <1>0, <1>9, <2>3 DEF Publish, Evaluate, Goto, At, Run
  <2>4. CASE EvaluateFails
    BY <1>0, <1>9, <2>4 DEF EvaluateFails, AfterFailure, Goto, Run
  <2>5. CASE CopyOut
    BY <1>0, <1>9, <2>5 DEF CopyOut, Goto, At, Run
  <2>6. CASE Translate
    BY <1>0, <1>9, <2>6 DEF Translate, Goto, Run
  <2>7. CASE Panic
    BY <2>7 DEF Panic, Steady
  <2> QED
    BY <1>3, <1>4, <1>6, <1>7, <1>8, <2>1, <2>2, <2>3, <2>4, <2>5, <2>6, <2>7 DEF Step

\* Of two calls with one trace key, a trace of the first answers the second.
LEMMA ReplayIsRight ==
    ASSUME IInv, run # NoRun, At("apply"), NEW trace \in Slot.traces,
           trace.key = TraceKey(run.slot, run.call, run.token)
    PROVE  /\ trace.baked.seq = run.call.seq /\ trace.baked.branch = run.call.branch
           /\ trace.baked.param = run.call.param /\ trace.baked.kv = run.call.kv
<1>0. /\ run \in Run /\ plan \in Plan /\ plan.of \in Subgraphs /\ plan.nodes
      /\ TracesTold /\ RouteSound /\ Routed /\ SlotsSound
  BY DEF IInv, Safe, Shape, Plan
<1>1. /\ run.slot \in Slots /\ run.slot \in Allowed(run.call.seq)
      /\ Tokened(run.slot, run.call, run.token) /\ run.call.kv = Slot.kv
  BY <1>0 DEF RouteSound, Routed, At
<1>2. PICK c \in plan.of.calls, k \in Nat :
        /\ trace.key = TraceKey(run.slot, c, k)
        /\ trace.baked = [seq |-> c.seq, branch |-> c.branch, param |-> c.param, kv |-> Slot.kv]
        /\ run.slot = Decode => c.seq = 1
        /\ Tokened(run.slot, c, k)
  BY <1>0, <1>1 DEF TracesTold, Slot
<1>3. PICK d \in plan.of.calls :
        /\ run.call.seq = d.seq /\ run.call.branch = d.branch
        /\ run.call.param = d.param /\ run.call.kv = d.kv
        /\ HostKey(d) = HostKey(run.call)
  BY LikeACall
<1>4. c.seq = run.call.seq
  BY <1>1, <1>2 DEF TraceKey, Allowed
<1>5. HostKey(c) = HostKey(d)
  <2>1. CASE run.slot # General
    <3>1. ~plan.of.control /\ ~plan.of.guarded
      BY <1>0, <1>1, <2>1, SubgraphFacts DEF Plannable, Allowed, Enabled, Slots
    <3> QED
      BY <3>1 DEF HostKey
  <2>2. CASE run.slot = General
    <3>1. k = run.token
      BY <1>2, <2>2 DEF TraceKey, General, Decode
    <3>2. Numbered(plan.slots[General].specs)
      BY <1>0 DEF SlotsSound, Slots
    <3>3. \A s \in plan.slots[General].specs : s.token # 0
      BY <3>2, NumberedNext DEF Numbered
    <3>4. CASE HostKey(c) # {} /\ HostKey(run.call) # {}
      <4>1. /\ [key |-> HostKey(c), token |-> k] \in plan.slots[General].specs
            /\ [key |-> HostKey(run.call), token |-> k] \in plan.slots[General].specs
        BY <1>1, <1>2, <2>2, <3>1, <3>4 DEF Tokened
      <4>2. [key |-> HostKey(c), token |-> k] = [key |-> HostKey(run.call), token |-> k]
        BY <3>2, <4>1 DEF Numbered
      <4> QED
        BY <1>3, <4>2
    <3>5. CASE HostKey(c) = {} /\ HostKey(run.call) = {}
      BY <1>3, <3>5
    <3>6. CASE HostKey(c) = {} /\ HostKey(run.call) # {}
      BY <1>1, <1>2, <2>2, <3>1, <3>3, <3>6 DEF Tokened
    <3>7. CASE HostKey(c) # {} /\ HostKey(run.call) = {}
      BY <1>1, <1>2, <2>2, <3>1, <3>3, <3>7 DEF Tokened
    <3> QED
      BY <3>4, <3>5, <3>6, <3>7
  <2> QED
    BY <2>1, <2>2
<1>6. c.branch = d.branch /\ c.param = d.param
  BY <1>0, <1>5, KeyTells
<1> QED
  BY <1>1, <1>2, <1>3, <1>4, <1>6

LEMMA StepOutputs ==
    ASSUME Steady, IInv, run # NoRun, Step
    PROVE  OutputsSound'
<1>0. /\ run \in Run /\ plan \in Plan /\ plan.nodes /\ RouteSound /\ OutputsSound
      /\ outs \in [1 .. Outputs -> Outcome]
  BY DEF IInv, Safe, Shape
<1>c. run'.call = run.call
  BY StepKeeps
<1>a. Collected = Outputs /\ Outputs \in Nat \ {0}
  BY <1>0, PlanAssumption DEF Collected
<1>n. CASE run'.stage \notin {"publish", "eval", "copy", "ok"}
  BY <1>n DEF OutputsSound
<1>p. ASSUME NEW v, run'.stage = "publish", run'.at = 1, run'.value = v, v = Value(run.call)
      PROVE  OutputsSound'
  <2>1. \A i \in 1 .. Outputs : ~(i < run'.at)
    BY <1>p
  <2>2. run'.value = Value(run'.call)
    BY <1>p, <1>c
  <2> QED
    BY <1>p, <2>1, <2>2 DEF OutputsSound, Produced, Value
<1>1. CASE NextRoute
  BY <1>0, <1>n, <1>1 DEF NextRoute, Run
<1>2. CASE Prepare \/ Built \/ ColdCache \/ Build \/ Gather
  BY <1>0, <1>n, <1>2 DEF Prepare, Built, ColdCache, Build, Gather, Goto, Run
<1>3. CASE Replay
  <2>1. PICK trace \in Slot.traces :
          /\ trace.key = TraceKey(run.slot, run.call, run.token)
          /\ Produces(trace.baked)
    BY <1>3 DEF Replay
  <2>2. At("apply") /\ run.value = run.call.cross
    BY <1>0, <1>3 DEF Replay, RouteSound, At
  <2>3. /\ trace.baked.seq = run.call.seq /\ trace.baked.branch = run.call.branch
        /\ trace.baked.param = run.call.param /\ trace.baked.kv = run.call.kv
    BY <2>1, <2>2, ReplayIsRight
  <2>4. run'.stage = "publish" /\ run'.at = 1 /\ run'.value = Value(run.call)
    BY <1>0, <2>1, <2>2, <2>3 DEF Produces, Run, Value
  <2> QED
    BY <1>p, <2>4
<1>4. CASE Trace
  <2>1. run.value = run.call.cross /\ run.call.kv = Slot.kv
    BY <1>0, <1>4 DEF Trace, RouteSound, At
  <2>2. run'.stage = "publish" /\ run'.at = 1 /\ run'.value = Value(run.call)
    BY <1>0, <1>4, <2>1 DEF Trace, Produces, Run, Value
  <2> QED
    BY <1>p, <2>2
<1>5. CASE ApplyFails \/ TracePanics
  BY <1>0, <1>n, <1>5 DEF ApplyFails, TracePanics, Goto, Run
<1>6. CASE Publish
  <2>0. run.value = Value(run.call)
        /\ (run.async => \A i \in 1 .. Outputs : i < run.at => outs[i] = run.value)
    BY <1>0, <1>6 DEF Publish, At, OutputsSound, Produced
  <2>0a. Value(run.call)' = Value(run.call)
    BY <1>c DEF Value
  <2>1. CASE run' = [run EXCEPT !.stage = "eval", !.async = FALSE]
    <3>1. run'.stage = "eval" /\ run'.value = run.value /\ ~run'.async
      BY <1>0, <2>1 DEF Run
    <3> QED
      BY <2>0, <2>0a, <3>1 DEF OutputsSound, Produced
  <2>2. CASE run.at > Collected /\ run' = [run EXCEPT !.stage = "eval"] /\ UNCHANGED outs
    <3>1. run'.stage = "eval" /\ run'.value = run.value /\ run'.async = run.async /\ outs' = outs
      BY <1>0, <2>2 DEF Run
    <3>2. \A i \in 1 .. Outputs : i < run.at
      BY <1>0, <1>a, <2>2 DEF Run
    <3> QED
      BY <2>0, <2>0a, <3>1, <3>2 DEF OutputsSound, Produced
  <2>3. CASE outs' = [outs EXCEPT ![run.at] = run.value] /\ run' = [run EXCEPT !.at = @ + 1]
    <3>1. run'.stage = "publish" /\ run'.value = run.value /\ run'.async = run.async
          /\ run'.at = run.at + 1 /\ run.at \in Nat
      BY <1>0, <1>6, <2>3 DEF Publish, At, Run
    <3>2. \A i \in 1 .. Outputs : i < run.at + 1 => i < run.at \/ i = run.at
      BY <3>1
    <3>3. \A i \in 1 .. Outputs : outs'[i] = IF i = run.at THEN run.value ELSE outs[i]
      BY <1>0, <2>3
    <3> QED
      BY <2>0, <2>0a, <3>1, <3>2, <3>3 DEF OutputsSound, Produced
  <2>4. CASE run' = [run EXCEPT !.at = @ + 1, !.async = FALSE]
    <3>1. run'.stage = "publish" /\ run'.value = run.value /\ ~run'.async
      BY <1>0, <1>6, <2>4 DEF Publish, At, Run
    <3> QED
      BY <2>0, <2>0a, <3>1 DEF OutputsSound, Produced
  <2>5. CASE run' = [run EXCEPT !.stage = "failed"]
    BY <1>0, <1>n, <2>5 DEF Run
  <2> QED
    BY <1>6, <2>1, <2>2, <2>3, <2>4, <2>5 DEF Publish, Goto
<1>7. CASE Evaluate
  <2>0. run.value = Value(run.call) /\ Value(run.call)' = Value(run.call) /\ outs' = outs
        /\ (run.async => \A i \in 1 .. Outputs : outs[i] = run.value)
    BY <1>0, <1>7, <1>c DEF Evaluate, At, OutputsSound, Produced, Value
  <2>1. CASE run.async /\ run' = [run EXCEPT !.stage = "ok"]
    <3>1. run'.stage = "ok"
      BY <1>0, <2>1 DEF Run
    <3> QED
      BY <2>0, <2>1, <3>1 DEF OutputsSound
  <2>2. CASE run' = [run EXCEPT !.stage = "copy", !.at = 1]
    <3>1. run'.stage = "copy" /\ run'.at = 1 /\ run'.value = run.value
      BY <1>0, <2>2 DEF Run
    <3>2. \A i \in 1 .. Outputs : ~(i < run'.at)
      BY <3>1
    <3> QED
      BY <2>0, <3>1, <3>2 DEF OutputsSound, Produced
  <2> QED
    BY <1>7, <2>1, <2>2 DEF Evaluate, Goto
<1>8. CASE EvaluateFails
  BY <1>0, <1>n, <1>8 DEF EvaluateFails, AfterFailure, Goto, Run
<1>9. CASE CopyOut
  <2>0. /\ run.value = Value(run.call) /\ Value(run.call)' = Value(run.call)
        /\ \A i \in 1 .. Outputs : i < run.at => outs[i] = run.value
    BY <1>0, <1>9, <1>c DEF CopyOut, At, OutputsSound, Produced, Value
  <2>1. CASE run.at > Collected /\ run' = [run EXCEPT !.stage = "ok"] /\ UNCHANGED outs
    <3>1. run'.stage = "ok" /\ outs' = outs
      BY <1>0, <2>1 DEF Run
    <3>2. \A i \in 1 .. Outputs : i < run.at
      BY <1>0, <1>a, <2>1 DEF Run
    <3> QED
      BY <2>0, <3>1, <3>2 DEF OutputsSound
  <2>2. CASE outs' = [outs EXCEPT ![run.at] = run.value] /\ run' = [run EXCEPT !.at = @ + 1]
    <3>1. run'.stage = "copy" /\ run'.value = run.value
          /\ run'.at = run.at + 1 /\ run.at \in Nat
      BY <1>0, <1>9, <2>2 DEF CopyOut, At, Run
    <3>2. \A i \in 1 .. Outputs : i < run.at + 1 => i < run.at \/ i = run.at
      BY <3>1
    <3>3. \A i \in 1 .. Outputs : outs'[i] = IF i = run.at THEN run.value ELSE outs[i]
      BY <1>0, <2>2
    <3> QED
      BY <2>0, <3>1, <3>2, <3>3 DEF OutputsSound, Produced
  <2>3. CASE run' = [run EXCEPT !.stage = "failed"]
    BY <1>0, <1>n, <2>3 DEF Run
  <2> QED
    BY <1>9, <2>1, <2>2, <2>3 DEF CopyOut, Goto
<1>t. CASE Translate
  <2>1. CASE run' = [run EXCEPT !.stage = "publish", !.at = 1, !.async = TRUE,
                                !.value = Value(run.call)]
    BY <1>0, <1>p, <2>1 DEF Run
  <2>2. CASE run' = [run EXCEPT !.stage = "failed"]
    BY <1>0, <1>n, <2>2 DEF Run
  <2> QED
    BY <1>t, <2>1, <2>2 DEF Translate, Goto
<1>u. CASE Panic
  BY <1>u DEF Panic, Steady
<1> QED
  BY <1>1, <1>2, <1>3, <1>4, <1>5, <1>6, <1>7, <1>8, <1>9, <1>t, <1>u DEF Step

\* What is of the subgraph and of the slots' closures survives a start.
LEMMA StartTraces ==
    ASSUME IInv, NEW t \in Threads, Start(t)
    PROVE  plan'.nodes /\ TracesTold' /\ Unshared'
<1>0. Shape /\ plan.nodes /\ TracesTold /\ Unshared
  BY DEF IInv, Safe
<1>1. /\ plan' \in Plan /\ plan'.of = plan.of /\ plan'.nodes = plan.nodes
      /\ \A s \in Slots : /\ plan'.slots[s].specs = plan.slots[s].specs
                          /\ plan'.slots[s].traces = plan.slots[s].traces
                          /\ plan'.slots[s].kv = plan.slots[s].kv
                          /\ plan'.slots[s].attempted = plan.slots[s].attempted
  BY <1>0, StartPlan
<1>2. ASSUME NEW s \in Slots, NEW c, NEW k PROVE Tokened(s, c, k)' = Tokened(s, c, k)
  BY <1>1 DEF Tokened, HostKey, Slots
<1>3. ASSUME NEW s \in Slots, NEW trace \in plan'.slots[s].traces
      PROVE  /\ plan'.slots[s].attempted
             /\ \E c \in plan'.of.calls, k \in Nat :
                  /\ trace.key = TraceKey(s, c, k)
                  /\ trace.baked = [seq |-> c.seq, branch |-> c.branch, param |-> c.param,
                                    kv |-> plan'.slots[s].kv]
                  /\ s = Decode => c.seq = 1
                  /\ Tokened(s, c, k)'
  <2>1. trace \in plan.slots[s].traces
    BY <1>1
  <2>2. PICK c \in plan.of.calls, k \in Nat :
          /\ trace.key = TraceKey(s, c, k)
          /\ trace.baked = [seq |-> c.seq, branch |-> c.branch, param |-> c.param,
                            kv |-> plan.slots[s].kv]
          /\ s = Decode => c.seq = 1
          /\ Tokened(s, c, k)
    BY <1>0, <2>1 DEF TracesTold
  <2>3. Tokened(s, c, k)'
    BY <1>2, <2>2
  <2> QED
    BY <1>0, <1>1, <2>1, <2>2, <2>3 DEF TracesTold
<1>4. TracesTold'
  BY <1>3 DEF TracesTold, TraceKey
<1>5. Unshared'
  BY <1>0, <1>1 DEF Unshared, Gqa
<1> QED
  BY <1>0, <1>1, <1>4, <1>5

\* The generation check: the copies left are of the generator that calls.
LEMMA StartCall ==
    ASSUME Steady, IInv, NEW t \in Threads, Start(t)
    PROVE  Apart' /\ CopiesKept' /\ CallKnown'
<1>0. /\ Shape /\ plan \in Plan /\ plan.of \in Subgraphs /\ plan.nodes /\ Apart
      /\ CopiesKept /\ run = NoRun /\ gen' = gen
  BY DEF IInv, Safe, Shape, Plan, Start
<1>1. plan'.of = plan.of
  BY <1>0, StartPlan
<1>a. PICK c \in plan.of.calls, g \in Callers :
        LET seq == IF plan.nodes THEN c.seq ELSE 0
            key == IF plan.nodes /\ CrossCache THEN gen[g].addr ELSE None
            empty == plan.nodes /\ CrossCache /\ BeginsEmpty /\ gen[g].fresh
        IN /\ \E r \in Routes(seq) :
                run' = [stage |-> "next", routes |-> r, slot |-> "eager", token |-> 0,
                        at |-> 1, async |-> TRUE, value |-> None,
                        call |-> [seq |-> c.seq, branch |-> c.branch, param |-> c.param,
                                  kv |-> c.kv, borrowed |-> c.borrowed, bound |-> c.bound,
                                  cross |-> gen[g].cross, from |-> g]]
           /\ plan' = IF NewSequence(empty, key)
                        THEN [plan EXCEPT !.key = key,
                                          !.slots[Decode].cross = None,
                                          !.slots[Prefill].cross = None]
                        ELSE plan
  BY DEF Start
<1>2. run'.call = [seq |-> c.seq, branch |-> c.branch, param |-> c.param,
                   kv |-> c.kv, borrowed |-> c.borrowed, bound |-> c.bound,
                   cross |-> gen[g].cross, from |-> g]
  BY <1>a
<1>3. run' \in Run /\ run' # NoRun
  <2>1. run' \in Run
    BY <1>0, Started
  <2> QED
    BY <2>1 DEF Run, NoRun, Stages
<1>4. run'.routes \in Seq(Allowed(run'.call.seq))
  <2>1. PICK d \in plan.of.calls, h \in Callers :
          /\ run'.routes \in Seq(Allowed(IF plan.nodes THEN d.seq ELSE 0))
          /\ run'.call = [seq |-> d.seq, branch |-> d.branch, param |-> d.param,
                          kv |-> d.kv, borrowed |-> d.borrowed, bound |-> d.bound,
                          cross |-> gen[h].cross, from |-> h]
    BY <1>0, Started
  <2>2. run'.call.seq = d.seq
    BY <2>1
  <2> QED
    BY <1>0, <2>1, <2>2
<1>5. ASSUME CrossCache
      PROVE  plan'.key = gen[g].addr
             /\ \A s \in {Decode, Prefill} : plan'.slots[s].cross \in {None, gen[g].cross}
  <2>1. CASE gen[g].fresh \/ gen[g].addr # plan.key
    <3>1. plan' = [plan EXCEPT !.key = gen[g].addr, !.slots[Decode].cross = None,
                               !.slots[Prefill].cross = None]
      BY <1>0, <1>5, <1>a, <2>1 DEF NewSequence, Steady
    <3> QED
      BY <1>0, <3>1 DEF Plan, SlotType, Slots, Decode, Prefill
  <2>2. CASE ~gen[g].fresh /\ gen[g].addr = plan.key
    <3>1. plan' = plan
      BY <1>0, <1>5, <1>a, <2>2 DEF NewSequence, Steady
    <3> QED
      BY <1>0, <1>5, <2>2, <3>1 DEF CopiesKept, CopiesOf
  <2> QED
    BY <2>1, <2>2
<1>6. Apart'
  BY <1>0, <1>1 DEF Apart, CrossCache, Callers
<1>7. CopiesKept'
  BY <1>3 DEF CopiesKept
<1>8. Allowed(run.call.seq)' = Allowed(run'.call.seq)
  BY <1>1 DEF Allowed, Enabled
<1>9. CallKnown'
  BY <1>0, <1>1, <1>2, <1>4, <1>5, <1>8 DEF CallKnown, CopiesOf, CrossCache
<1> QED
  BY <1>6, <1>7, <1>9

LEMMA StartIInv ==
    ASSUME Steady, IInv, NEW t \in Threads, Start(t)
    PROVE  IInv'
<1>1. Safe'
  BY StartSafe DEF IInv
<1>2. run'.stage = "next"
  BY Started DEF IInv, Safe
<1>3. RouteSound' /\ OutputsSound'
  BY <1>2 DEF RouteSound, OutputsSound
<1> QED
  BY <1>1, <1>3, StartTraces, StartCall DEF IInv

LEMMA TracesStay ==
    ASSUME plan' = plan, TracesTold, Unshared
    PROVE  TracesTold' /\ Unshared'
<1>1. Unshared'
  BY DEF Unshared, Gqa
<1>2. ASSUME NEW s \in Slots, NEW c, NEW k, Tokened(s, c, k) PROVE Tokened(s, c, k)'
  BY <1>2 DEF Tokened, HostKey
<1>3. ASSUME NEW s \in Slots, NEW trace \in plan.slots[s].traces
      PROVE  /\ plan.slots[s].attempted
             /\ \E c \in plan.of.calls, k \in Nat :
                  /\ trace.key = TraceKey(s, c, k)
                  /\ trace.baked = [seq |-> c.seq, branch |-> c.branch, param |-> c.param,
                                    kv |-> plan.slots[s].kv]
                  /\ s = Decode => c.seq = 1
                  /\ Tokened(s, c, k)'
  <2>1. PICK c \in plan.of.calls, k \in Nat :
          /\ trace.key = TraceKey(s, c, k)
          /\ trace.baked = [seq |-> c.seq, branch |-> c.branch, param |-> c.param,
                            kv |-> plan.slots[s].kv]
          /\ s = Decode => c.seq = 1
          /\ Tokened(s, c, k)
    BY <1>3 DEF TracesTold
  <2> QED
    BY <1>2, <1>3, <2>1 DEF TracesTold
<1>4. TracesTold'
  BY <1>3 DEF TracesTold, TraceKey
<1> QED
  BY <1>1, <1>4

\* After a call the copies are of its generator, and of no other: no two
\* generators have their buffers in one place.
LEMMA ReturnIInv ==
    ASSUME IInv, Safe', NEW t \in Threads, Return(t)
    PROVE  IInv'
<1>0. /\ Shape /\ plan.nodes /\ TracesTold /\ Unshared /\ Apart /\ CallKnown
      /\ plan' = plan /\ run' = NoRun /\ run \in Run /\ run # NoRun
  BY DEF IInv, Safe, Shape, Return, NoRun
<1>1. TracesTold' /\ Unshared'
  BY <1>0, TracesStay
<1>2. run.call.from \in Callers
  BY <1>0 DEF Run, Made
<1>3. \A g \in Callers : /\ gen'[g].addr = gen[g].addr /\ gen'[g].cross = gen[g].cross
                         /\ g # run.call.from => gen'[g].fresh = gen[g].fresh
  BY <1>0, <1>2 DEF Return, Shape
<1>4. Callers' = Callers /\ (CrossCache' <=> CrossCache)
  BY <1>0 DEF Callers, CrossCache
<1>5. Apart'
  BY <1>0, <1>3, <1>4 DEF Apart
<1>6. CopiesKept'
  <2> SUFFICES ASSUME CrossCache, NEW g \in Callers, gen'[g].addr = plan.key
               PROVE  CopiesOf(gen[g].cross)
    BY <1>0, <1>3, <1>4 DEF CopiesKept, CopiesOf
  <2>1. g = run.call.from
    BY <1>0, <1>2, <1>3 DEF Apart, CallKnown
  <2> QED
    BY <1>0, <2>1 DEF CallKnown
<1>7. CallKnown' /\ RouteSound' /\ OutputsSound'
  BY <1>0 DEF CallKnown, RouteSound, OutputsSound, NoRun
<1> QED
  BY <1>0, <1>1, <1>5, <1>6, <1>7 DEF IInv

LEMMA NewGenerationIInv ==
    ASSUME IInv, Safe', NEW g \in Callers, NewGeneration(g)
    PROVE  IInv'
<1>0. /\ Shape /\ plan.nodes /\ TracesTold /\ Unshared /\ Apart /\ CopiesKept
      /\ plan' = plan /\ run' = NoRun /\ run = NoRun /\ CrossCache
  BY DEF IInv, Safe, NewGeneration
<1>1. TracesTold' /\ Unshared'
  BY <1>0, TracesStay
<1>2. PICK addr, cross :
        /\ \A h \in Callers \ {g} : gen[h].addr # addr
        /\ gen' = [gen EXCEPT ![g] = [addr |-> addr, cross |-> cross, fresh |-> TRUE]]
  BY DEF NewGeneration
<1>3. \A h \in Callers : gen'[h] = IF h = g THEN [addr |-> addr, cross |-> cross, fresh |-> TRUE]
                                   ELSE gen[h]
  BY <1>0, <1>2 DEF Shape
<1>4. Callers' = Callers /\ (CrossCache' <=> CrossCache)
  BY <1>0 DEF Callers, CrossCache
<1>5. Apart'
  BY <1>0, <1>2, <1>3, <1>4 DEF Apart
<1>6. CopiesKept'
  BY <1>0, <1>3, <1>4 DEF CopiesKept, CopiesOf
<1>7. CallKnown' /\ RouteSound' /\ OutputsSound'
  BY <1>0 DEF CallKnown, RouteSound, OutputsSound, NoRun
<1> QED
  BY <1>0, <1>1, <1>5, <1>6, <1>7 DEF IInv

\* Steps that touch neither the plan, the call, the outputs nor the generators.
LEMMA GateIInv ==
    ASSUME IInv, Safe', UNCHANGED <<plan, run, outs, gen>>
    PROVE  IInv'
<1>0. /\ plan.nodes /\ TracesTold /\ Unshared /\ Apart /\ CopiesKept /\ CallKnown /\ RouteSound
      /\ OutputsSound
  BY DEF IInv
<1>1. TracesTold' /\ Unshared'
  BY <1>0, TracesStay
<1>2. Apart' /\ CopiesKept'
  BY <1>0 DEF Apart, CopiesKept, CopiesOf, CrossCache, Callers
<1>3. Allowed(run.call.seq)' = Allowed(run.call.seq)
  BY DEF Allowed, Enabled
<1>4. CallKnown'
  BY <1>0, <1>3 DEF CallKnown, CopiesOf, CrossCache
<1>5. RouteSound' /\ OutputsSound'
  BY <1>0, <1>3 DEF RouteSound, OutputsSound, Produced, Value, Tokened, HostKey, Slot
<1> QED
  BY <1>0, <1>1, <1>2, <1>4, <1>5 DEF IInv

LEMMA NextIInv == Steady /\ IInv /\ [Next]_vars => IInv'
<1> SUFFICES ASSUME Steady, IInv, [Next]_vars PROVE IInv'
    OBVIOUS
<1>0. Safe'
  BY NextSafe DEF IInv
<1>1. CASE UNCHANGED vars
  BY <1>0, <1>1, GateIInv DEF vars
<1>2. ASSUME NEW g \in Callers, NewGeneration(g) PROVE IInv'
  BY <1>0, <1>2, NewGenerationIInv
<1>3. ASSUME NEW t \in Threads, Enter(t) \/ Refused(t) PROVE IInv'
  BY <1>0, <1>3, GateIInv DEF Enter, Refused
<1>4. ASSUME NEW t \in Threads, Start(t) PROVE IInv'
  BY <1>4, StartIInv
<1>5. ASSUME NEW t \in Threads, Inside(t) PROVE IInv'
  <2>1. run # NoRun /\ Step /\ UNCHANGED gen
    BY <1>5 DEF Inside, IInv, Safe, Gated
  <2> QED
    BY <1>0, <2>1, StepKeeps, StepTraces, StepCall, StepRoute, StepOutputs DEF IInv
<1>6. ASSUME NEW t \in Threads, Return(t) PROVE IInv'
  BY <1>0, <1>6, ReturnIInv
<1> QED
  BY <1>1, <1>2, <1>3, <1>4, <1>5, <1>6 DEF Next

\* A Compute that succeeds has written, in every output, what the eager
\* translator computes from that call's inputs (compute_impl's compiled routes
\* against TranslationContext), when nothing panics and every generation begins
\* with an empty self-attention cache.
THEOREM SuccessIsEager == ASSUME Steady PROVE Spec => []SuccessIsCorrect
<1>1. IInv => SuccessIsCorrect
  BY DEF IInv, OutputsSound, SuccessIsCorrect, At
<1>2. Init => IInv
  BY InitIInv
<1>3. IInv /\ [Next]_vars => IInv'
  BY NextIInv
<1> QED
  BY <1>1, <1>2, <1>3, PTL DEF Spec
=============================================================================
