# Verification of the malus runtime and compiler

malus is a small language for tensor programs: a compiler written in Rust
(`crates/malus-syntax`, `malus-loader`, `malus-sema`, `malus-codegen-cpu`,
`malus-codegen-gpu`) that runs its programs in the same process through
Cranelift, and a runtime (`crates/malus-runtime`) that keeps tensors on an
Apple GPU, records an autograd tape and frees everything by reference counts
the compiler places. This directory holds TLA+ modules of its stateful parts,
the configurations that model-check them and the proofs that go beyond the
bounds.

## 1. The system

| Component | State | Operations | Talks to |
|---|---|---|---|
| Device runtime, `malus-runtime/src/metal.rs` | one open Metal command buffer, `ENCODE_GEN` and `COMPLETED_GEN`, the boxed `TensorBuffer`s with reference counts and generation stamps, the buffer pool, the byte ledgers, the budget | `tensor_alloc_*`, `kernel_dispatch`, `kernel_dispatch_v2`, `tensor_matmul`, `tensor_reshape`, `tensor_retain`, `tensor_release`, host reads, `gpu_barrier`, `malus_pool_reset`, `malus_set_mem_budget` | the Metal device; calls `tape_on_release` |
| Autograd tape, `malus-runtime/src/tape.rs` | `RECORDING`, `NODES`, `LEAVES`, `LEAF_GRAD` | `tape_record_*`, `tape_register_leaf`, `tape_pause`, `tape_resume`, `backward`, `tape_get_grad`, `tape_zero_grad`, `tape_reset`, `tape_on_release` | retains and releases tensors, runs the compiled VJP functions |
| Lexer, `malus-syntax/src/lexer.rs` | position, the stack of indentation widths, a bracket counter, whether the last line ended with a colon | one pass over the source | tokens to the parser |
| Parser, `parser.rs` | position in the tokens, the call stack of the descent | `parse_program`, `parse_stmt`, `parse_body` | syntax tree to the checker |
| Loader, `malus-loader/src/lib.rs` | loaded files, the import stack, aliases | depth-first load, flatten | lexer and parser |
| Type checker, `malus-sema/src/check.rs`, `env.rs`, `builtins.rs`, `ty.rs` | one environment: scopes, mutable names, types, signatures, impls, generics and their instances; loop and `no_grad` depth of a body | five passes over the items, a rule a construct | typed program |
| Gradient inference, `grad_inference.rs` | monotone flags of functions, parameters and fields | a fixpoint over the program | decides which operations call `tape_record_*` |
| CTMM, `ctmm.rs`, `borrow_inference.rs`, `retain_sites.rs` | a typed function body being rewritten | where drops, retains and unwinds go | typed program in, typed program out |
| Code generators, `malus-codegen-cpu`, `malus-codegen-gpu` | a flat map from names to values; on the heap: boxes and tensors with counts | lowering to Cranelift and to Metal source | calls every runtime function |
| Host buffers, strings, bench: `buffer.rs`, `strio.rs`, `bench.rs` | counted byte boxes, step timings | get, set, copy | compiled code |
| Standard library, `malus-stdlib/stdlib/*.ml` | | forward and backward kernels in malus | |
| Command line, `malus-cli` | | run, check, lint | |

One thread runs all of it (ADR-0033): the compiler is a pipeline, compiled code
calls the runtime and the runtime calls compiled VJPs back. The concurrency that
matters is with the device, which runs a committed command buffer later than
the call that encoded it, and re-entrancy: a release that runs the tape's
callback that releases again, a generic body checked in the middle of its
caller's. In the rest of the compiler what is hard is order: which pass, which
fn, which line comes first, and what is still on a stack when something fails
or leaves early.

What should hold:

* **Device runtime.** Work is encoded and not run until a barrier; buffers are
  recycled while encoded work still names them; aliases share a buffer and its
  stamps; the allocator itself may run a barrier; a device error shows up at
  some later barrier. A program must not be able to tell any of it from a store
  of immutable tensors.
* **Tape.** Handles are addresses and addresses are reused; the maps of
  `backward` and the leaf registry are keyed by them. Every retain of a record
  call must be paired with one release, whoever performs it, and the gradients
  must be the derivatives.
* **CTMM and lowering.** Every owned value is released exactly once on every
  path, and never before its last use.
* **Gradient inference.** An operation on a value that derives from a leaf is
  recorded.
* **Type checker.** A name in an accepted fn, method or kernel is the nearest
  binding of that body, one that is free in a generic body a name of the call it
  was instantiated for; what is called exists and gets the types it wants; what
  one body leaves in the environment is of no use to another, in a program that
  keeps its names, generics and impls apart.
* **Lexer and parser.** Tokens and tree nest as the lines are indented, and
  exactly the well-formed sources are accepted.
* **Loader.** Each file once, dependencies before dependents, cycles reported.

## 2. The modules

```
TensorStore <--- refined by --- MetalRuntime
MetalRuntime <--- MetalRuntime_proofs <--- MetalRuntime_refinement
Tape <--- Tape_proofs
Loader <--- Loader_proofs
Layout <--- BlockParser <--- OffsideRule <--- Layout_proofs <--- OffsideRule_proofs
                                                           <--- OffsideRule_verdict
Induction: induction over numbers, what sums add up to and what lies end to end,
    used by the proof modules
TypedIR <--- Env <--- Sema
        <--- GradInference
        <--- Ctmm <--- Machine
```

### TensorStore: what the device runtime promises

A store of immutable counted tensors. Creating, computing, aliasing,
retaining, releasing and reading are atomic; a read sees every operation issued
before it; a device error ends the process and never becomes a value.

### MetalRuntime: `metal.rs`

State variables are the statics and fields of the code under their own names
(`encodeGen` is `ENCODE_GEN`, `lastUseGen` is `PoolState.last_use_gen` of a
buffer, `pool` maps a byte size to its bucket, and so on); `commands` is the
open command buffer, `<< >>` when there is none. A Rust function that runs
inside entry points is a step function from a runtime state to a runtime state
(`EnsureGen`, `GpuBarrier`, `Valve`, `AllocTensor`, `Encode`, `Reshape`,
`Release`, ...), in the order of the code; an action is the composition its
entry point runs, followed by `Become`, which keeps the result, or only the fact
that the process died. `GpuFault` is the device deciding to fail the open
command buffer.

* A tensor's contents are one letter. A kernel's output is an operator of its
  inputs' contents; what the device does is `Execute`, run for the whole
  command buffer by `GpuBarrier`. A buffer drawn for a tensor without data keeps
  whatever it held.
* A release waits for nothing: Metal keeps a buffer of an encoded command alive,
  so a buffer the device can hand out afresh (`Unowned`) is one no tensor, no
  pool entry and no command names.
* `memBudget` is -1 until read, as in the code; `Budgets` are the arguments of
  `malus_set_mem_budget`, negative ones included.
* The program is legal: it uses and releases what it holds, and passes shapes
  that fit (the mismatch panics of matmul and reshape are left out).

### Tape: `tape.rs` and the code that feeds it

Here one call is several steps, because what can go wrong is inside a call.
`releasing` is the worklist of handles the running call has still to release,
in order; `TensorRelease` releases one, and `tape_on_release` pushes the
gradient of a dying leaf in front. `backward` is a phase: `walk` over the nodes
(`SkipNode`, `WalkNode`, `AccumulateGrad`), `fold` into the registry with
`LEAVES` and `LEAF_GRAD` borrowed, `discard` of the transient gradients, then
the tape is cleared. A release of a last reference during `fold` panics, as the
`RefCell` would.

* An address is free as soon as its count is zero; `NewAt` says which free
  address an allocation may return, and the instances return the lowest, so
  reuse happens at once.
* What VJPs compute is abstracted to a factor per operand modulo `Modulus`;
  a handle's gradient is the factor it holds. With 3 and factors 1 and 2 a lost,
  doubled or misdirected contribution shows.
* The compiler's part: operations are tracked or not; those written inside a
  `with no_grad` are never tracked, those in a function called from there may
  be.
* `cross_entropy` and `layernorm` make a second tensor for their VJP (`Aids`)
  and hand its reference to the record call.

### Loader: `malus-loader/src/lib.rs`

`load_file` calls itself for each import; `frames` is the stack of its open
calls and `returned` the `FileId` the innermost has just given back. `NotFound`,
`Cached`, `Circular` and `Open` are what a call does before its loop over the
imports, `ResumeImport` and `ResumeFromImport` what the loop does with a result,
`CloseFile` its end; `Flatten` is the rest of `load`, with the order of the hash
map as a choice. A project is a function from canonical paths to what a file
holds; `Canonical` and `Alias` stand for `canonicalize` of a resolved path and
for its last segment. What a project needs and whether it is in order are
defined on the import graph alone (`Needed`, `Loadable`), without a loader.

### Layout, BlockParser, OffsideRule: lexer and parser

`Layout` is `Lexer::run`: a source is a sequence of lines, a line its leading
characters and the kinds of its tokens. One step is one turn of the loop of
`run`: a line start is blank, a continuation inside brackets, deeper, shallower
or at the same level (`handle_line_start`), a token is scanned, a line break is
handled, the end of the source emits what is left. `indents`, the bracket depth
and the colon note are the lexer's fields.

`BlockParser` reads the tokens with a stack of open blocks that stands for the
call stack of `parse_program`, `parse_body` and `parse_stmt`: a step reads one
statement, item, match arm or field, opens the block of a header or ends one at
its DEDENT. It notes of each line in which block it was put (`parent`) and of
each `else` the `if` it was given to (`partner`). An expression is words and
bracketed groups; `while` stands for while, for and with, `struct` for struct
and enum, `fn` for fn and kernel.

`OffsideRule` says what an indentation means without a stack or a token:
`Outline` finds for each logical line the nearest line before it that is
indented less, `WellFormed` is the grammar over that tree. Its invariants
compare the two.

### TypedIR: the program the passes share

One record shape for expressions and one for statements (`typed_ir.rs`), types
by name. A body is a sequence of statements; a control-flow statement holds its
inner bodies.

### Env and Sema: `check.rs`, `env.rs`, `ty.rs`

`Env` is the environment, its scopes and the resolution of written types.

A state is an environment, the pass and the item it is at; a step is one item
of one pass: names (`CollectName`), fields (`ResolveFields`), signatures
(`CollectItem`), impls (`RegisterImpl`), bodies (`CheckItem`), then the verdict
(`Decide`). `check_expr` and `check_body` are recursive operators that take and
return the environment, so that what a sub-check binds, instantiates or forgets
to remove is seen by the next one, an instance of a generic fn being checked in
the middle of its caller. A check yields a value or an error, and the statement
that fails ends its body, as in the code.

Abstracted: number formats, spans and messages; a constructor's fields are
written in declaration order; `Builtins` is a constant with one builtin of each
kind the code tells apart. `WellScoped`, `CallsAgree`, `JumpsHaveTarget`
and `NothingDropped` are stated on the typed program: `Sites` walks a body with
the scope each statement stands in, from the parameters of an item of the
program (`Opening`), and for an instance from the scopes of the calls that may
have made it (`Enclosing`), since the checker checks it inside those
(check.rs:1706-1724). `OrderFree` compares the verdict with another reading of
the same handlers: all items declared, in another order, and then each body
checked by itself in that environment (`Alone`, `Reordered`). It is claimed for
the programs of `KeptApart`, four conditions on the source, each of which stands
for something the environment does not keep apart (section 6). The run has
programs that break each of them; without any one of the four `OrderFree` fails.

### GradInference: `grad_inference.rs`

`InferExpr`, `InferStmt`, `InferBody` are the visitor, `InferFn` visits the next
fn of a round, `NextRound` and `Finish` are the loop of `infer`. What it is
compared with is the run of the program: `Runs` executes `main` on every path,
with values that know whether they derive from a leaf, and notes an operation
on such a value that the flags leave unrecorded (`missed`). `Records` is what
the code generator makes of a flag.

### Ctmm and Machine: `ctmm.rs`, `borrow_inference.rs`, `retain_sites.rs` and the lowering of `malus-codegen-cpu`

`Ctmm` is the pass as operators on a body, one a function of `ctmm.rs`, applied
in the order of `annotate_fns`. `Machine` compiles such a body (`Compile`; names
are resolved by one flat map in the order of lowering, as the code generator
does, and a name that is not there refuses the program) and executes it a
statement a step on a heap of counted boxes and tensors: a branch goes either
way, a loop runs up to `LoopBound` times, a callee is inlined as a frame of its
own. Freed handles stay visible, so a read, retain or release of one is seen
(`heap.bad`). Arrays have no header of their own, lists, structs, tuples and
enums do, as in the code generator.

## 3. The runs

| Run | Instance | What it shows |
|---|---|---|
| `metal_safety` | 3 handles, 3 buffers, lengths 0 and 1, kernels of up to 2 inputs, 2 command buffers of 2 commands, shared references, faults | stamps, pool, ledgers and peak agree with the command buffer and the device; no entry point waits for a lock it holds |
| `metal_store` | 3 handles, 2 buffers, contents of four letters that tell tensors and what a recycled buffer still holds apart, unary kernels, faults, budgets -7, 4 and the default | `MetalRuntime` implements `TensorStore`; a failed command buffer never completes; memory grows past the budget only after the valve has run |
| `metal_sync` | `MALUS_SYNC_DISPATCH=1`, 2 handles, 3 buffers, 3 generations | every call returns with nothing encoded |
| `tape_ownership` | 9 addresses, binary operations, tape of 2, 2 leaves | exact counts, no dangling registry or map key, no panic |
| `tape_aids` | 8 addresses, unary operations, layernorm, cross_entropy and embedding, nested `no_grad` | the handed-over reference is released once |
| `tape_gradient` | factors modulo 3, 9 addresses, tape of 2 | reverse accumulation is the forward derivative, and every `backward` comes back with an empty tape |
| `ctmm_clean` | every well-scoped body of 3 statements out of a pool of 50 and a return; bodies of 2 also with static barriers; loops of up to 2 turns, boxes of 2 slots | no use after free, every owner keeps its reference, nothing is left over, no name CTMM adds is unknown |
| `ctmm_read` | the same with an element's last read | the disagreement of section 6 |
| `sema` | a library of 10 items and a `main` of 1 or 2 statements, 30 odd items more, all rotations of the library, and around `main` two items of which one may live on what the other leaves (a name mutable elsewhere, an instance, a generic with a free name, a second impl): about 2200 programs, most of them wrong in one place | what is accepted is typed and complete and its names are those of its body (an instance's also of its call); if the program keeps apart what the environment does not, each of its bodies is accepted by itself, with the items in reverse order and the types last, exactly when it is |
| `grad` | a `main` of 3 statements out of 28, 8 helpers, 4 third fns (mutually recursive), 3 orders; loops of 2 turns, calls 3 deep | nothing that derives from a leaf goes unrecorded; the fixpoint is one and is reached |
| `layout` | 8 programs with every kind of block, with a line or two moved, changed, cut, added or tabbed, and all short sources; with and without a last line break: 16 thousand sources | tokens and tree nest as the lines do; exactly the well-formed sources are accepted |
| `loader_load` | all projects of 3 files: up to 2 imports in the entry and in one module, 1 in the other, two spellings of one file, missing, unreadable and unparsable files, missing names | each file read once, dependencies loaded first, verdict, cycle and flattened set right, loading ends |

Bounds. In the device runtime two buffers of one size, two generations and two
commands are enough for every hazard listed in PROJECT.json: an entry that is
busy behind one that is ready, an alias that dies before or after its original,
an input recycled while in flight, a valve that unlocks something. In the tape,
two nodes give chains, diamonds (both operands one handle) and a node with no
gradient; two leaves let a gradient be itself a leaf. `MaxRef`, `MaxExtra`,
`MaxAlloc`, `MaxLive`, `MaxNodes`, `MaxLeaves`, `MaxDepth`, `MaxAbandoned`,
`MaxGen` and `MaxCommands` bound what the host asks for, never what a call
does once begun. Two imports in the entry and in one module of a project give
the diamond, cycles of length one, two and three, a cycle found late and a file
reached by two spellings.

The compiler's instances enumerate programs. Three statements and a return
hold an owner, an alias of it, a way out or a store between the two, and a use
after it, which is what CTMM's passes look at; two turns of a loop are the
first and the repeated one. Three statements of `main` and a helper make a leaf,
send it through a construct and use it; three calls deep is one more than the
two fns that call each other. In `layout` a program has three nested blocks, and
two lines moved at once give every pair of wrong widths.

Shapes left out of the passing runs, because the code gets them wrong, are named
where they are excluded (`Clean` in MCMachine, `Loose` in MCGradInference) and
listed in section 6. Setting `Shapes` to `"all"` in MCGradInference brings the
element of a for-in in; the payloads of a match, loop-carried flow and stores
into an element are in no program of the pool. `tape_gradient` has one leaf, so
the order in which `backward` folds several leaves is left to the other two
runs, which count references and not derivatives.

Fairness. `Tape!FairSpec` assumes weak fairness of the steps of `backward` and
of pending releases, `Loader!FairSpec` of the loader's steps,
`GradInference!FairSpec` of a visit, a new round and the end. The process has
one thread and nothing in those functions waits, so a call that has begun goes
on. The host is not fair: nothing makes it call, read, flush or release, and a
program that never flushes never recycles (ADR-0039), which is why `metal.rs`
has a valve and why no liveness is claimed of it. That the lexer, the parser,
the checker and the annotated body come to their end is not stated as a
property: each step of the first three consumes a line, a token or an item, and
deadlock is checked in `layout`, so a source on which neither can go on would
show.

Each property has a mutant, a small bug of the code it is about (an input not
stamped, the alias's generation reset, the gradient released before the fold
ends, an INDENT that is not pushed, a break that unwinds nothing, a scope that
is not popped, ...), and the run refutes it.

## 4. What is proved

Every theorem holds for any values of the constants that satisfy the named
assumptions of its module. All of them are safety properties (or a refinement
without fairness), proved from an inductive invariant that is a conjunction of
named parts.

### The device runtime

`MetalRuntime_proofs`, for any sets of handles, buffers, lengths and values, any
bounds and either setting of `SyncDispatch` and `DeviceFaults`, under
`ConstantsAssumption`:

* `TypeCorrect`: `Spec => []TypeOK`;
* `GenerationsInStep`: the two counters differ by one exactly while a command
  buffer is open, which is what makes "pending iff last_write_gen >
  COMPLETED_GEN" (ADR-0035) meaningful;
* `PendingIsExact`: a tensor is pending iff an encoded command writes its
  buffer, through every alias;
* `NeverRecycledInFlight`: `pool_pop` never returns a buffer an encoded command
  touches (ADR-0039);
* `BuffersExclusive`: a buffer belongs to one family of aliases of one size or
  to one pool entry;
* `PeakIsAnUpperBound`, `NeverSelfDeadlocked`.

They follow from `IInv` (`IInvHolds`), which adds what is needed to make them
inductive: stamps are never ahead of `ENCODE_GEN` (`GensBounded`), a live tensor
has a real buffer and no pool entry shares it (`OwnersReal`), and everything the
open command buffer touches carries the current generation, whether a tensor or
a pool entry holds it now (`Stamped`). `NoRecycleInFlight` alone is not
inductive: a release moves a stamp into a pool entry, and only `Stamped` says
that the stamp was current. The proof is by step function: each one preserves
`Consistent`, pointwise lemmas say what it changes, and one theorem per action
composes them.

Its second part follows the same step functions with more questions:

* `LedgersAreExact` (`LedgerExact`): the live and pooled byte ledgers are the
  sums over what is held. A sum over a set is a fold; `Induction` proves what
  adding, removing or changing one term does to it, by induction on the size of
  the set. It needs the handles and the lengths to be finite, which the
  machine's memory justifies.
* `ValveActsBeforeGrowth`: no step allocates past the budget without the valve
  having run, in any call that may allocate.
* `FaultsNeverComplete`: after the device fails, no step completes the
  generation that failed.
* `SyncDispatchAttributes`: with `MALUS_SYNC_DISPATCH` a call returns with
  nothing encoded.

`MetalRuntime_refinement` proves `ImplementsStore`, `Spec => StoreSpec`: under
the mapping of MetalRuntime.tla every step is a step of `TensorStore` or a
stutter. The value of a tensor is what its buffer will hold when the open
command buffer has run (`ValueIn`), so the core is how that future changes: the
runs of a command sequence are unique and can be extended at the end, a command
changes only the buffer it writes, a barrier makes the future the present, a
buffer that is drawn, from the pool or afresh, is touched by no open command, so
what an upload writes into it disturbs nobody, and an alias shares its
original's future. A host read that does not flush is right because
`PendingExact` says that nothing encoded writes the buffer. A device error maps
to `Fail`, whatever call met it. `MaxArity` maps to at least 2, since a matmul
has two inputs whatever bound the other kernels are given. One lemma per entry point, and `NextRefines`
puts them together.

### The tape

`Tape_proofs`, for any finite set of handles: `CountsExact` (`RefsExact`: every
reference count is the number of owners: host, nodes, leaves, gradients and the
releases still due), `LeavesLive` (`RegistryAlive`), `WalkKeysLive`
(`KeysAlive`) and `ReleasesNeverPanic` (`NeverPanics`). The invariant adds that
outside a call nothing is left over (`Quiet`) and that each key of the maps of
`backward` has an owner in the graph (`KeysOwned`); a key is then a live handle
because its count is exact. `NeverPanics` cannot be proved alone: that no
last reference goes while the fold holds the registry is a fact about who else
owns it. The module begins with what the sums over sequences do when a node is
appended, flattened or dropped.

### The loader

`Loader_proofs`, for every project, however large: `FilesReadOnce`,
`LoadedInOrder`, `ProgramComplete`, `CyclesReal`, `VerdictsRight`. The invariant
relates the three things `load_file` keeps: the open calls are a path of the
import graph and hold exactly the files in progress, the cache holds exactly the
files whose calls have ended, with everything they import, and what a call has
already gone past is loaded (`Core`). Completeness, the reality of a reported
cycle and the verdict are kept by the steps that report them, and by `Core`.

### The lexer

`Layout_proofs`, for every set of sources (`SourcesAssumption` says only that
they are sequences of lines and that text holds no layout token):

* `LexTypeCorrect`: the stack of widths keeps 0 at its bottom and rises
  strictly, however many levels a line leaves at once and wherever a source is
  broken off, and the bracket counter is never negative. That it rises is what
  makes the loop that pops (`lexer.rs:332-343`) stop at the right level.
* `TokensBalance`: no prefix of the tokens closes more than it opened, and a
  source read to its end with its brackets closed has as many DEDENTs as
  INDENTs.
* `LinesNest` (`NestedAsIndented`): the open INDENTs at the first token of a
  logical line are those behind the lines it is indented under. The invariant,
  `NestInv`, says this of the newest logical line reached (`Nests`): each open
  INDENT is at a height, and the width at that height in the stack is the width
  of its header. Next to it, the height of the tokens is the height of the
  stack (`Balance`) and the bracket counter is the number of brackets open, as
  long as none too many was closed (`DepthRight`), so that the lexer and the
  lines agree on which lines are logical.

### The parser

`OffsideRule_proofs` goes on from there, again for every set of sources:

* `TreeFollowsIndentation` (`TreeRight`): in the tree of an accepted source each
  statement is in the block of the line it is indented under, and each else
  belongs to the if of its own width before it.

The parser sees tokens only, so the proof first says what they are, as an
invariant of the lexer (`LayInv`, `LayInvHolds`): Eof is the last token and the
only one; text that stands behind layout is the first of a logical line, one
for each and in their order (`StartsAre`); an INDENT stands right before the
first token of its line; the INDENTs open at a start stand behind the lines it
is indented under; and as long as the brackets of the tokens never go below
zero, their level is the bracket counter (`LevelRule`). Then it follows the
parser over them. What it has built at a place p is `Built`: its open blocks,
from the outermost, are the lines the open INDENTs before p stand behind
(`Stacked`), and its tables hold each line passed, with the line it is indented
under or, for an else, the if before it (`Recorded`). Each thing a step passes
over (line breaks, a line, a header's colon and INDENT, a DEDENT, an else)
keeps it (`PassBreaks`, `PassLeaf`, `PassHeader`, `PassDedent`, `PassElse`); that
an else right behind a DEDENT belongs to the block that ends there is
`ElsePartner`. None of this holds for a source whose lexer was left inside
brackets, or closed one too many, and nothing excludes that while the parser is
under way: `ParInv` carries `Built` only for the others, next to the fact that
the brackets of what has been read are closed. That is what decides it at the
end: whoever reads up to Eof has read every bracket, so the source was not one
of those (`AcceptedWhole`).

`OffsideRule_verdict` settles what is accepted, for every set of sources:

* `VerdictIsRight` (`VerdictRight`): a source that is judged is accepted exactly
  when its lines are well formed (`WellFormed`): one indentation character,
  siblings equally wide, a block behind each colon and nowhere else, and each
  line one its block may hold.

Both directions need the text of the lines, where the tree needs only their
places. `WellFormedIs` first says what `WellFormed` asks of a source line by line
(`Good`: `OneChar`, `GoodWidth`, `GoodLine`), with the line above and the sibling
before found by number and not by a set of ancestors. An invariant of the lexer,
`ReadInv` (`ReadInvHolds`), then compares tokens and lines: from the start of a
logical line to the next layout token stands its text, over as many source lines
as its brackets join (`TextRule`); of the lines reached, those under the same
line are equally wide (`WidthRule`) and one character indents them (`CharRule`);
and the lexer fails, closes a bracket too many or ends inside brackets only on a
source that is not `Good` (`FairRule`). `GoodEven` is behind the last: lines that
fit have even brackets each, so the depth is zero wherever one begins.

`VerInv` (`VerInvHolds`) follows the parser. While it is under way the state is
`Fitted`: every line that is in its tables is a `GoodLine` (`Noticed`), each open
block has the kind that the line it stands under gives its children (`Kinded`),
and every block but the innermost holds something (`Filled`). One lemma per
construct shows both sides at once: a line it takes is a `GoodLine` and keeps
`Fitted`, and where it refuses, the line in front of it is not `Good`. From
`Fitted`, an accepted source has all its lines in the tables
(`TreeFollowsIndentation` says where) and the lexer's rules give widths and
characters (`AcceptedGood`); the third conjunct of `VerInv` is the other
direction. So nothing the lexer lets pass, such as a line indented less than its
header after a colon or a closing bracket too many (section 6), gets past the parser.

### How inductions are done

The library's induction theorems take a predicate as a parameter, which no
installed prover can instantiate. `Induction` restates induction for a set:
`NatInduct` proves that a set with 0 and with each successor is all of `Nat`
from the least element of its complement, and is applied to the set of numbers
with the property.

### Only model-checked

Liveness (`BackwardReturns` of the tape, `Terminates` of the loader and of
gradient inference), because no installed prover handles fairness.
`GradientConserved`: reverse accumulation over a graph is an induction over its
data with sums modulo a number.
`Sema`, `GradInference`, `Ctmm` and `Machine`, whose passes over programs are
recursive operators, which the prover does not take.

## 5. What is not modelled

* `metal.rs`: the kernel registry of `runtime_init`, the shapes of permute and
  transpose, random fills, integer tensors and the printouts; `buffer.rs`,
  `strio.rs`, `bench.rs`: straight functions on a box with one owner, input
  and output.
* The lexer's scanning of numbers, strings and names; the parser's operators,
  types and literals; `print.rs`.
* Of the checker: the number formats and spans, named constructor arguments,
  the full table of `builtins.rs`.
* Of the CPU code generator: scalar arithmetic, printing, the shapes of
  broadcasting, host buffers, the declaration of runtime symbols. The GPU code
  generator is a tree walk from typed kernels to Metal source text.
* The kernels of the standard library (loops over elements without state) and
  the command line.

## 6. Findings and observations

`ctmm_read`: the drop of a container goes right after its last use
(ctmm.rs:837). When that use is `let x = l[0]`, the body becomes let, drop of
`l`, retain of `x`, and the list takes its element with it;
docs/adr/0040-retain-on-bind-container-element-reads.md:60-66 says that such
reads are sound.

Seen in the models while they were built, and kept out of the passing runs or,
where said, in the runs and left out of a property by a named condition:

* *Tape.* `tape_resume` sets the flag to true whatever it was (tape.rs:372), so
  an inner `with no_grad`, in a function called from the body, ends the outer
  one (CONTEXT.md:253). `x.data` is `x`'s handle (codegen-cpu lib.rs:2033), so
  an operation tracked through its other operand saves `x` and `backward`
  accumulates into it (CONTEXT.md:249). A layernorm that is not tracked drops
  its variance tensor (codegen-cpu lib.rs:2915; for `cross_entropy` the code
  frees the same kind of tensor and says why, 2965).
* *Checker.* `break` and `continue` leave a `with no_grad` body past
  `tape_resume` (check.rs:716-729), where error.rs:56 says all three jumps are
  rejected. A field whose struct is declared further down gets a copy without
  fields (check.rs:92, 2643-2661; the comment at 53-55 says forward references
  work). The sets of mutable names and of `mut` parameters are flat and never
  cut back (env.rs:113-117, 178-197; ADR-0025:13-17): a `let` is assignable when
  an earlier fn has a `let mut` of the name, and a `let mut` is not when an
  earlier fn has a `mut` parameter of the name, so the order of two fns decides
  (both in the run; condition `OneWay`). A generic body is checked in its first
  caller's scopes and may use that caller's names, while a second caller gets
  the instance from the cache (check.rs:1674, 1706-1724; in the run; condition
  `ClosedGenerics`, and `Enclosing` in `WellScoped`). A call by an instance's
  mangled name finds it once another body has made it, and a user fn of that
  name is overwritten (check.rs:1697; the call is in the run; condition
  `OwnNames`). A second impl of a trait for a type replaces the methods of the
  first (check.rs:370; in the run; condition `OneImpl`). A generic fn that calls
  itself with a larger type is instantiated for ever.
* *Gradient inference.* The variable of a for-in is taken as not derived
  whatever the list holds (grad_inference.rs:205;
  docs/milestones/m28-module-trait.md:89 says a list is tracked if any element
  is), likewise the payloads of a match; what a loop carries to its next turn
  is not seen at the beginning of its body; stores into a list's element are
  not followed.
* *CTMM.* The unwind in front of a return is copied from the drops that come
  after it, and may name a `let`, or a temporary the pass made, that the return
  precedes: the code generator refuses the program (ctmm.rs:850-922; in the run;
  condition `BindsAfterExit` of `AddedNamesExist`). In an arm
  with two tensor payloads of which the first is not the last used, a drop
  comes before its retain (ctmm.rs:278-288). A dead store `a = k(a)` drops
  twice, and every reassignment of a tensor leaks one reference (ADR-0011). A
  name bound again in an inner scope shares one slot of the flat map. A list
  returned from the fn that made it leaks one reference, unused bindings are
  never dropped (ADR-0040:76), a name returned on one path leaks on the others,
  and lists are not in the unwind tables (`PlainExits` of `NothingLeaks`). The
  body of a `with no_grad` is lowered beyond a jump in it (codegen-cpu
  lib.rs:1100-1106), every other body only up to it.
* *Layout.* A line indented less than its header after a colon is not reported
  by the lexer (docs/spec/02-syntax.md:47), the parser rejects it; a closing
  bracket too many leaves the counter at zero, the parser rejects it.
* *Loader.* `load` appends files in the order of a hash map (lib.rs:82), where
  docs/spec/09-modules.md:86 says dependencies first; prefixes are keyed by the
  last segment of a path (lib.rs:157), so of `import one.net` and `import
  two.net` the later takes the prefix `net`; and the prefixes of all files share
  one table (malus-sema env.rs:226), where 09-modules.md:54 gives each file its
  own.

## 7. Plan

In order of what matters most:

1. `GradientConserved` of the tape for graphs without sharing, then in general,
   with the sums of `Induction`.
2. The passes of gradient inference as recursive functions over a program of
   bounded depth, so that the monotone growth of its flags can be proved.
3. The index arithmetic of broadcasting (`malus-codegen-cpu`, `stdlib`) against
   the documented rule.
4. Larger CTMM bodies over a smaller pool, one for each construct.
