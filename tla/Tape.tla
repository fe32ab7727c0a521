-------------------------------- MODULE Tape --------------------------------
(***************************************************************************)
(* The autograd tape of crates/malus-runtime/src/tape.rs: the recording    *)
(* flag, the nodes that retain what their VJPs will read, the registry of  *)
(* leaves and of their accumulated gradients, and backward, which walks    *)
(* the nodes in reverse through a map from handle to gradient, folds that  *)
(* map into the registry and clears the tape.                              *)
(*                                                                         *)
(* A handle is an address: it is free for the next allocation as soon as   *)
(* its count reaches zero.  tensor_release calls back into the tape and    *)
(* may release further tensors, so a call is a sequence of steps, and      *)
(* "releasing" holds the handles it has still to release.  What a tensor   *)
(* holds is abstracted: with a gradient's handle the maps keep one number, *)
(* the factor it holds, modulo Modulus.                                    *)
(***************************************************************************)
EXTENDS Integers, Sequences, SequencesExt, FiniteSets, FiniteSetsExt, Functions, TLC

CONSTANTS Handles,      \* addresses a boxed TensorBuffer can have
          NewAt(_),     \* which of the free addresses the allocator may return
          Ops,          \* kinds of recorded operation the program uses
          Modulus,      \* gradients are counted modulo this
          MaxAlloc,     \* bound: live tensors after the host allocates one
          MaxLive,      \* bound: live tensors before backward, after an operation
          MaxNodes,     \* bound: length of the tape
          MaxExtra,     \* bound: references the host holds beyond one a tensor
          MaxLeaves,    \* bound: leaves
          MaxDepth,     \* bound: nesting of with no_grad
          MaxAbandoned  \* bound: tensors the host has lost

Kinds == {"binop", "unary", "layernorm", "cross_entropy", "embedding"}

ASSUME ConstantsAssumption ==
    /\ IsFiniteSet(Handles)
    /\ Ops \subseteq Kinds
    /\ Modulus \in Nat \ {0}
    /\ \A free \in SUBSET Handles : NewAt(free) \subseteq free
    /\ MaxAlloc \in Nat /\ MaxLive \in Nat /\ MaxNodes \in Nat /\ MaxExtra \in Nat /\ MaxLeaves \in Nat
    /\ MaxDepth \in Nat /\ MaxAbandoned \in Nat

VARIABLES refs,         \* handle -> ref_count; 0: not allocated
          held,         \* handle -> references the host program holds
          abandoned,    \* tensors the host dropped without a release
          recording,    \* RECORDING
          depth,        \* how many with no_grad bodies the host is inside
          nodes,        \* NODES, oldest first
          leaves,       \* LEAVES
          leafGrad,     \* LEAF_GRAD: leaf -> gradient
          phase,        \* where backward is; "host": the host runs
          at,           \* nodes still to walk
          grads,        \* backward's map: handle -> gradient
          todo,         \* VJP results still to be accumulated
          toRelease,    \* operands of sums, released after the fold
          releasing,    \* handles the current call has still to release
          status        \* "running" or "panicked"

memory == <<refs, held, abandoned>>
tape == <<recording, depth, nodes>>
registry == <<leaves, leafGrad>>
walk == <<phase, at, grads, todo, toRelease>>
vars == <<memory, tape, registry, walk, releasing, status>>

-----------------------------------------------------------------------------
(* Operations.  The number of saved handles, the position of the one the   *)
(* operation itself made for its VJP, and the factor of each VJP: 0 where  *)
(* backward has none (indices, targets, the variance, the softmax).        *)

Factors(op) ==
    CASE op = "binop" -> <<1, 2>>                 \* matmul, +, -, *, /
      [] op = "unary" -> <<2>>                    \* also reductions, reshape, permute
      [] op = "layernorm" -> <<2, 0>>             \* x, variance
      [] op = "cross_entropy" -> <<1, 0, 0>>      \* logits, softmax, targets
      [] op = "embedding" -> <<2, 0>>             \* weight, indices

Aids(op) == IF op \in {"layernorm", "cross_entropy"} THEN {2} ELSE {}

Positions(op) == DOMAIN Factors(op)

(* The positions that get a gradient, in the order backward accumulates.    *)
VjpOrder(op) == IF op = "binop" THEN <<1, 2>> ELSE <<1>>

Node == [op : Ops, saved : Seq(Handles), output : Handles]
Gradient == [grad : Handles, factor : 0..(Modulus - 1)]
Pending == [to : Handles, gradient : Gradient]

Init ==
    /\ refs = [h \in Handles |-> 0]
    /\ held = [h \in Handles |-> 0]
    /\ abandoned = {}
    /\ recording = TRUE /\ depth = 0
    /\ nodes = << >>
    /\ leaves = {} /\ leafGrad = << >>
    /\ phase = "host" /\ at = 0
    /\ grads = << >> /\ todo = << >> /\ toRelease = << >>
    /\ releasing = << >> /\ status = "running"

Live == {h \in Handles : refs[h] > 0}
Held == {h \in Handles : held[h] > 0}
FreeBut(taken) == NewAt(Handles \ (Live \cup taken))
Free == FreeBut({})
(* What n allocations in a row may return. *)
Drawn(n) == {s \in [1..n -> Handles \ Live] :
                 \A i \in 1..n : s[i] \in FreeBut({s[j] : j \in 1..(i - 1)})}

(* Counts and maps with an entry changed: new tensors have one reference.   *)
Allocated(hs) == [h \in Handles |-> IF h \in hs THEN 1 ELSE refs[h]]
With(f, x, y) == [k \in {x} \cup DOMAIN f |-> IF k = x THEN y ELSE f[k]]
Without(f, x) == Restrict(f, DOMAIN f \ {x})

(* The gradients of a map, in one order: releases of a batch commute.       *)
GradsOf(f) == LET order == SetToSeq(DOMAIN f)
              IN  [i \in DOMAIN order |-> f[order[i]].grad]

Idle == phase = "host" /\ releasing = << >> /\ status = "running"

CanAllocate == Cardinality(Live) < MaxAlloc
CanCompute == Cardinality(Live) < MaxLive
CanHold(h) == held[h] = 0 \/ MapThenSumSet(LAMBDA x : held[x] - 1, Held) < MaxExtra

-----------------------------------------------------------------------------
(* tensor_retain, tensor_release and the callback into the tape.            *)

ReleaseShared ==
    LET h == Head(releasing)
    IN  /\ refs[h] > 1
        /\ refs' = [refs EXCEPT ![h] = @ - 1]
        /\ releasing' = Tail(releasing)
        /\ UNCHANGED registry

ReleaseNoGradDrop ==                     \* mutant: the grad outlives its leaf
    LET h == Head(releasing)
    IN  /\ refs[h] = 1
        /\ refs' = [refs EXCEPT ![h] = 0]
        /\ leaves' = leaves \ {h}
        /\ leafGrad' = leafGrad
        /\ releasing' = Tail(releasing)

(* tape_on_release: the registry forgets the tensor, and its gradient is    *)
(* released next.                                                           *)
ReleaseLast ==
    LET h == Head(releasing)
        g == IF h \in DOMAIN leafGrad THEN <<leafGrad[h].grad>> ELSE << >>
    IN  /\ refs[h] = 1
        /\ refs' = [refs EXCEPT ![h] = 0]
        /\ leaves' = leaves \ {h}
        /\ leafGrad' = Without(leafGrad, h)
        /\ releasing' = g \o Tail(releasing)

(* It panics on an over-release, and when tape_on_release finds LEAF_GRAD   *)
(* borrowed by the fold.                                                    *)
Panics(h) == refs[h] = 0 \/ (refs[h] = 1 /\ phase = "fold")

TensorRelease ==
    /\ status = "running" /\ releasing # << >>
    /\ IF Panics(Head(releasing))
       THEN status' = "panicked" /\ UNCHANGED <<refs, registry, releasing>>
       ELSE (ReleaseShared \/ ReleaseLast) /\ UNCHANGED status
    /\ UNCHANGED <<held, abandoned, tape, walk>>

-----------------------------------------------------------------------------
(* The host program: it uses, retains and releases what it holds.           *)

Alloc(h) ==
    /\ Idle /\ CanAllocate /\ h \in Free
    /\ refs' = [refs EXCEPT ![h] = 1]
    /\ held' = [held EXCEPT ![h] = 1]
    /\ UNCHANGED <<abandoned, tape, registry, walk, releasing, status>>

HostRetain(h) ==
    /\ Idle /\ h \in Held /\ CanHold(h)
    /\ refs' = [refs EXCEPT ![h] = @ + 1]
    /\ held' = [held EXCEPT ![h] = @ + 1]
    /\ UNCHANGED <<abandoned, tape, registry, walk, releasing, status>>

HostRelease(h) ==
    /\ Idle /\ h \in Held
    /\ held' = [held EXCEPT ![h] = @ - 1]
    /\ releasing' = <<h>>
    /\ UNCHANGED <<refs, abandoned, tape, registry, walk, status>>

(* variable(t): the same handle, retained, and a leaf even when paused.     *)
Variable(h) ==
    /\ Idle /\ h \in Held /\ CanHold(h)
    /\ Cardinality(leaves \cup {h}) <= MaxLeaves
    /\ refs' = [refs EXCEPT ![h] = @ + 1]
    /\ held' = [held EXCEPT ![h] = @ + 1]
    /\ leaves' = leaves \cup {h}
    /\ UNCHANGED <<abandoned, tape, leafGrad, walk, releasing, status>>

(* with no_grad: tape_pause and tape_resume write one flag.  An operation   *)
(* written in the body is not grad-tracked; one in a function called from   *)
(* the body may be.  That function may have a with no_grad of its own; and  *)
(* a break in a body jumps past the resume.                                 *)
EnterNoGrad ==
    /\ Idle /\ depth < MaxDepth
    /\ depth' = depth + 1 /\ recording' = FALSE
    /\ UNCHANGED <<memory, nodes, registry, walk, releasing, status>>

LeaveNoGrad ==
    /\ Idle /\ depth > 0
    /\ depth' = depth - 1 /\ recording' = TRUE
    /\ UNCHANGED <<memory, nodes, registry, walk, releasing, status>>

BreakOutOfNoGrad ==
    /\ Idle /\ depth > 0
    /\ depth' = depth - 1
    /\ UNCHANGED <<memory, recording, nodes, registry, walk, releasing, status>>

(* What a record call retains: the output and all it saves but the aid,    *)
(* whose reference the operation hands over.                                *)
RetainsSaved(op, saved, out, h) ==       \* mutant: the output not retained
    Cardinality({p \in Positions(op) \ Aids(op) : saved[p] = h})

RetainsOutput(op, saved, out, h) ==      \* mutant: the operands not retained
    IF h = out THEN 1 ELSE 0

Retains(op, saved, out, h) ==
    Cardinality({p \in Positions(op) \ Aids(op) : saved[p] = h})
    + (IF h = out THEN 1 ELSE 0)

(* A forward operation makes its output, and for layernorm and              *)
(* cross_entropy the aid of the VJP.                                        *)
Forward(op, saved, out) ==
    /\ \A p \in Positions(op) : IF p \in Aids(op) THEN saved[p] \in FreeBut({out})
                                                 ELSE saved[p] \in Held
    /\ held' = [held EXCEPT ![out] = 1]

Operands(op, out) == [Positions(op) -> Held \cup FreeBut({out})]

AfterForward(op, saved, out) ==
    Allocated({out} \cup {saved[p] : p \in Aids(op)})

(* tape_record_*: a node while recording.                                   *)
Record(op) ==
    /\ Idle /\ CanCompute /\ recording /\ Len(nodes) < MaxNodes
    /\ \E out \in Free : \E saved \in Operands(op, out) :
        /\ Forward(op, saved, out)
        /\ refs' = [h \in Handles |-> AfterForward(op, saved, out)[h]
                                      + Retains(op, saved, out, h)]
        /\ nodes' = Append(nodes, [op |-> op, saved |-> saved, output |-> out])
    /\ UNCHANGED <<abandoned, recording, depth, registry, walk, releasing, status>>

AidToReleaseNone(op, saved) == << >>     \* mutant: the aid leaks

AidToRelease(op, saved) == IF Aids(op) = {} THEN << >> ELSE <<saved[2]>>

(* tape_record_* while paused releases the aid; codegen does the same for a *)
(* cross_entropy that is not grad-tracked.                                  *)
RecordPaused(op) ==
    /\ Idle /\ CanCompute /\ ~recording
    /\ \E out \in Free : \E saved \in Operands(op, out) :
        /\ Forward(op, saved, out)
        /\ refs' = AfterForward(op, saved, out)
        /\ releasing' = AidToRelease(op, saved)
    /\ UNCHANGED <<abandoned, tape, registry, walk, status>>

(* An operation that is not grad-tracked: no record call.  The variance of  *)
(* a layernorm is then nobody's.                                            *)
Untracked(op) ==
    /\ Idle /\ CanAllocate
    /\ op = "layernorm" => Cardinality(abandoned) < MaxAbandoned
    /\ \E out \in Free : \E saved \in Operands(op, out) :
        /\ Forward(op, saved, out)
        /\ refs' = AfterForward(op, saved, out)
        /\ abandoned' = IF op = "layernorm" THEN abandoned \cup {saved[2]} ELSE abandoned
        /\ releasing' = IF op = "layernorm" THEN << >> ELSE AidToRelease(op, saved)
    /\ UNCHANGED <<tape, registry, walk, status>>

(* tape_get_grad: the registry's gradient, retained; or zeros.              *)
GetGrad(h) ==
    /\ Idle /\ h \in Held
    /\ \/ /\ h \in DOMAIN leafGrad /\ CanHold(leafGrad[h].grad)
          /\ refs' = [refs EXCEPT ![leafGrad[h].grad] = @ + 1]
          /\ held' = [held EXCEPT ![leafGrad[h].grad] = @ + 1]
       \/ /\ h \notin DOMAIN leafGrad /\ CanAllocate
          /\ \E z \in Free : /\ refs' = [refs EXCEPT ![z] = 1]
                             /\ held' = [held EXCEPT ![z] = 1]
    /\ UNCHANGED <<abandoned, tape, registry, walk, releasing, status>>

TapeZeroGrad(hs) ==
    /\ Idle /\ hs \subseteq Held /\ hs # {}
    /\ leafGrad' = Restrict(leafGrad, DOMAIN leafGrad \ hs)
    /\ releasing' = GradsOf(Restrict(leafGrad, DOMAIN leafGrad \cap hs))
    /\ UNCHANGED <<memory, tape, leaves, walk, status>>

NodeHandles(s) == FlattenSeq([i \in DOMAIN s |-> s[i].saved \o <<s[i].output>>])

(* tape_reset, between tests.                                               *)
TapeReset ==
    /\ Idle /\ depth = 0
    /\ leaves' = {} /\ leafGrad' = << >>
    /\ nodes' = << >> /\ recording' = TRUE
    /\ releasing' = GradsOf(leafGrad) \o NodeHandles(nodes)
    /\ UNCHANGED <<memory, depth, walk, status>>

-----------------------------------------------------------------------------
(* backward, step by step.                                                  *)

Stepping(p) == phase = p /\ releasing = << >> /\ status = "running"

(* The map starts with ones_like(loss).                                     *)
Backward(loss) ==
    /\ Idle /\ Cardinality(Live) <= MaxLive /\ loss \in Held
    /\ \E seed \in Free :
        /\ refs' = [refs EXCEPT ![seed] = 1]
        /\ grads' = With(<< >>, loss, [grad |-> seed, factor |-> 1 % Modulus])
    /\ phase' = "walk" /\ at' = Len(nodes)
    /\ UNCHANGED <<held, abandoned, tape, registry, todo, toRelease, releasing, status>>

SkipNode ==
    /\ Stepping("walk") /\ todo = << >> /\ at > 0
    /\ nodes[at].output \notin DOMAIN grads
    /\ at' = at - 1
    /\ UNCHANGED <<memory, tape, registry, phase, grads, todo, toRelease, releasing, status>>

(* Each VJP allocates the gradient of one input.                            *)
WalkNode ==
    /\ Stepping("walk") /\ todo = << >> /\ at > 0
    /\ nodes[at].output \in DOMAIN grads
    /\ LET node == nodes[at]
           dout == grads[node.output].factor
           ps   == VjpOrder(node.op)
           Vjp(p) == (Factors(node.op)[p] * dout) % Modulus
       IN  \E ds \in Drawn(Len(ps)) :
            /\ refs' = Allocated(Range(ds))
            /\ todo' = [i \in DOMAIN ps |->
                    [to |-> node.saved[ps[i]],
                     gradient |-> [grad |-> ds[i], factor |-> Vjp(ps[i])]]]
    /\ at' = at - 1
    /\ UNCHANGED <<held, abandoned, tape, registry, phase, grads, toRelease, releasing, status>>

(* grad_acc: a new tensor s holds the sum.                                  *)
SumAt(s, old, new) == [grad |-> s, factor |-> (old.factor + new.factor) % Modulus]

AccumulateOverwrite(key, new) ==         \* mutant: the last VJP wins
    /\ grads' = With(grads, key, new)
    /\ releasing' = IF key \in DOMAIN grads THEN <<grads[key].grad>> ELSE << >>
    /\ UNCHANGED refs

(* accumulate_grad.                                                         *)
Accumulate(key, new) ==
    \/ /\ key \notin DOMAIN grads
       /\ grads' = With(grads, key, new)
       /\ UNCHANGED <<refs, releasing>>
    \/ /\ key \in DOMAIN grads
       /\ \E s \in Free : /\ refs' = [refs EXCEPT ![s] = 1]
                          /\ grads' = With(grads, key, SumAt(s, grads[key], new))
       /\ releasing' = <<grads[key].grad, new.grad>>

AccumulateGrad ==
    /\ Stepping("walk") /\ todo # << >>
    /\ Accumulate(Head(todo).to, Head(todo).gradient)
    /\ todo' = Tail(todo)
    /\ UNCHANGED <<held, abandoned, tape, registry, phase, at, toRelease, status>>

EndWalk ==
    /\ Stepping("walk") /\ todo = << >> /\ at = 0
    /\ phase' = "fold"
    /\ UNCHANGED <<memory, tape, registry, at, grads, todo, toRelease, releasing, status>>

FoldReleaseAtOnce(leaf) ==               \* mutant: operands released inside the borrow
    \/ /\ leaf \notin DOMAIN leafGrad
       /\ leafGrad' = With(leafGrad, leaf, grads[leaf])
       /\ UNCHANGED <<refs, toRelease, releasing>>
    \/ /\ leaf \in DOMAIN leafGrad
       /\ \E s \in Free :
            /\ refs' = [refs EXCEPT ![s] = 1]
            /\ leafGrad' = With(leafGrad, leaf, SumAt(s, leafGrad[leaf], grads[leaf]))
       /\ releasing' = <<leafGrad[leaf].grad, grads[leaf].grad>>
       /\ UNCHANGED toRelease

(* One leaf's gradient moves to the registry, or is added to what is there; *)
(* LEAVES and LEAF_GRAD stay borrowed until the last leaf is folded.        *)
Fold(leaf) ==
    \/ /\ leaf \notin DOMAIN leafGrad
       /\ leafGrad' = With(leafGrad, leaf, grads[leaf])
       /\ UNCHANGED <<refs, toRelease, releasing>>
    \/ /\ leaf \in DOMAIN leafGrad
       /\ \E s \in Free :
            /\ refs' = [refs EXCEPT ![s] = 1]
            /\ leafGrad' = With(leafGrad, leaf, SumAt(s, leafGrad[leaf], grads[leaf]))
       /\ toRelease' = toRelease \o <<leafGrad[leaf].grad, grads[leaf].grad>>
       /\ UNCHANGED releasing

(* LEAVES is a hash set: its order is anybody's guess.                      *)
FoldLeaf(leaf) ==
    /\ Stepping("fold") /\ leaf \in leaves \cap DOMAIN grads
    /\ Fold(leaf)
    /\ grads' = Without(grads, leaf)
    /\ UNCHANGED <<held, abandoned, tape, leaves, phase, at, todo, status>>

EndFold ==
    /\ Stepping("fold") /\ leaves \cap DOMAIN grads = {}
    /\ phase' = "discard"
    /\ releasing' = toRelease /\ toRelease' = << >>
    /\ UNCHANGED <<memory, tape, registry, at, grads, todo, status>>

(* The gradients of intermediates, in the order of a hash map.              *)
DiscardGrad(h) ==
    /\ Stepping("discard") /\ h \in DOMAIN grads
    /\ grads' = Without(grads, h)
    /\ releasing' = <<grads[h].grad>>
    /\ UNCHANGED <<memory, tape, registry, phase, at, todo, toRelease, status>>

EndBackwardUncleared ==                  \* mutant: tape_clear forgotten
    /\ Stepping("discard") /\ DOMAIN grads = {}
    /\ phase' = "host"
    /\ UNCHANGED <<memory, tape, registry, at, grads, todo, toRelease, releasing, status>>

(* tape_clear releases what the nodes hold, in order.                       *)
EndBackward ==
    /\ Stepping("discard") /\ DOMAIN grads = {}
    /\ phase' = "host"
    /\ nodes' = << >> /\ releasing' = NodeHandles(nodes)
    /\ UNCHANGED <<memory, recording, depth, registry, at, grads, todo, toRelease, status>>

BackwardStep ==
    \/ SkipNode \/ WalkNode \/ AccumulateGrad \/ EndWalk
    \/ \E h \in Handles : FoldLeaf(h) \/ DiscardGrad(h)
    \/ EndFold \/ EndBackward

Host ==
    \/ \E h \in Handles : \/ Alloc(h) \/ HostRetain(h) \/ HostRelease(h)
                          \/ Variable(h) \/ GetGrad(h) \/ Backward(h)
    \/ \E op \in Ops : Record(op) \/ RecordPaused(op) \/ Untracked(op)
    \/ \E hs \in SUBSET Held : TapeZeroGrad(hs)
    \/ EnterNoGrad \/ LeaveNoGrad \/ BreakOutOfNoGrad
    \/ TapeReset

Next == Host \/ BackwardStep \/ TensorRelease

Spec == Init /\ [][Next]_vars

(* A call that has begun runs to its end: the process has one thread, and   *)
(* nothing in tape.rs waits.  Nothing makes the host call.                  *)
FairSpec == Spec /\ WF_vars(BackwardStep \/ TensorRelease)

-----------------------------------------------------------------------------
(* Properties.                                                              *)

(* How often a handle occurs in a sequence, and as a gradient of a map.     *)
Times(h, f) == Cardinality({x \in DOMAIN f : f[x] = h})
Holding(h, map) == Cardinality({x \in DOMAIN map : map[x].grad = h})

Owners(h) ==
    held[h] + (IF h \in abandoned THEN 1 ELSE 0)
    + Times(h, NodeHandles(nodes)) + Times(h, toRelease) + Times(h, releasing)
    + Holding(h, leafGrad) + Holding(h, grads)
    + Cardinality({i \in DOMAIN todo : todo[i].gradient.grad = h})

(* Reference counts are exact: at every step each tensor's count is the     *)
(* number of owners it has, namely the host, the nodes that saved it or     *)
(* made it, the registry, backward's map and its pending results.  A count  *)
(* too low is a use after free to come, one too high is a leak.             *)
RefsExact == \A h \in Handles : refs[h] = Owners(h)

(* M27: the registry never outlives its tensors.  Every leaf is a live      *)
(* tensor and every gradient is a leaf's, so that a new tensor at a dead    *)
(* leaf's address is not taken for the leaf.                                *)
RegistryAlive == DOMAIN leafGrad \subseteq leaves /\ leaves \subseteq Live

(* The map of backward is keyed by address: while a key or a pending target *)
(* is in use no allocation can get its address.                             *)
KeysAlive == DOMAIN grads \cup {todo[i].to : i \in DOMAIN todo} \subseteq Live

(* No call panics: nothing is released twice, and no release runs the       *)
(* callback while the fold has the registry borrowed.                       *)
NeverPanics == status = "running"

(* The factor of each handle with respect to x through the first n nodes,   *)
(* forwards. An operand written t.data is t.                                *)
Path(n, x) ==
    LET after[i \in 0..n] ==
            IF i = 0 THEN [h \in Handles |-> IF h = x THEN 1 ELSE 0]
            ELSE LET before == after[i - 1]
                     node   == nodes[i]
                     via    == MapThenSumSet(
                                   LAMBDA p : Factors(node.op)[p] * before[node.saved[p]],
                                   Range(VjpOrder(node.op)))
                 IN  IF node.output = x THEN before
                     ELSE [before EXCEPT ![node.output] = via]
    IN  after[n]

(* What leaf x has, plus what the map and the pending results will still    *)
(* bring it through the nodes not yet walked.                               *)
Adjoint(x) ==
    LET path == Path(at, x)
    IN  ( (IF x \in DOMAIN leafGrad THEN leafGrad[x].factor ELSE 0)
        + MapThenSumSet(LAMBDA h : grads[h].factor * path[h], DOMAIN grads)
        + MapThenSumSet(LAMBDA i : todo[i].gradient.factor * path[todo[i].to], DOMAIN todo) )
        % Modulus

(* backward computes derivatives: what a leaf has and is still to get is    *)
(* the same at every step of backward, so that leaf x ends with what it had *)
(* plus the factor of the loss with respect to x.                           *)
GradientConserved ==
    [][phase # "host" =>
           \A x \in leaves \cap leaves' : Adjoint(x)' = Adjoint(x)]_vars

(* backward returns, with the tape empty and every transient released.      *)
BackwardReturns ==
    phase = "walk" ~> /\ phase = "host" /\ releasing = << >>
                      /\ nodes = << >> /\ grads = << >> /\ toRelease = << >>
=============================================================================
