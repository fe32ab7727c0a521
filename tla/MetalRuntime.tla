----------------------------- MODULE MetalRuntime -----------------------------
(***************************************************************************)
(* The device runtime of crates/malus-runtime/src/metal.rs: one shared     *)
(* command buffer that every dispatch is encoded into and that only        *)
(* gpu_barrier commits, the generation counters that say what has          *)
(* completed, reference-counted tensors over Metal buffers that reshape    *)
(* aliases share, the pool that recycles those buffers, and the budget     *)
(* valve.  The host program is single-threaded (ADR-0033) and legal: it    *)
(* uses and releases only tensors it holds.                                *)
(*                                                                         *)
(* An entry point runs several steps of which some can end the process, so *)
(* the steps are functions from runtime state to runtime state and an      *)
(* action is the composition its entry point runs.                         *)
(***************************************************************************)
EXTENDS Integers, Sequences, SequencesExt, FiniteSets, Functions

CONSTANTS Handles,        \* addresses a boxed TensorBuffer can have
          Buffers,        \* MTLBuffers the device can hand out
          NoBuffer,       \* the buffer of a dead tensor
          Lens,           \* element counts the host asks for
          Value,          \* contents of a buffer, one letter for all elements
          Zero,           \* the all-zeros contents
          Data,           \* contents the host uploads
          Compute(_),     \* what a kernel writes, from its inputs' contents
          NoReply,        \* nothing was read
          MaxArity,       \* bound: inputs of one kernel
          SyncDispatch,   \* MALUS_SYNC_DISPATCH=1
          DeviceFaults,   \* whether the device can fail a command buffer
          DefaultBudget,  \* the environment's budget, in bytes
          Budgets,        \* what malus_set_mem_budget is called with
          MaxGen,         \* bound: command buffers opened
          MaxCommands,    \* bound: commands in one command buffer
          MaxRef          \* bound: references to one tensor

ASSUME ConstantsAssumption ==
    /\ NoBuffer \notin Buffers
    /\ IsFiniteSet(Handles) /\ IsFiniteSet(Lens) /\ Lens \subseteq Nat
    /\ Zero \in Value /\ Data \subseteq Value
    /\ MaxArity \in Nat /\ MaxGen \in Nat /\ MaxCommands \in Nat
    /\ MaxRef \in Nat
    /\ SyncDispatch \in BOOLEAN /\ DeviceFaults \in BOOLEAN
    /\ DefaultBudget \in Nat /\ Budgets \subseteq Int

VARIABLES encodeGen,        \* ENCODE_GEN
          completedGen,     \* COMPLETED_GEN
          commands,         \* the open command buffer; << >>: none is open
          guardHeld,        \* the current_command_buffer mutex
          tensors,          \* handle -> TensorBuffer; refCount 0: not allocated
          lastUseGen,       \* buffer -> PoolState.last_use_gen
          pool,             \* byte size -> bucket of recycled buffers, oldest first
          contents,         \* buffer -> what the host would read in it now
          liveBytes, pooledBytes, peakDeviceBytes,   \* the byte ledgers
          memBudget,        \* MEM_BUDGET_BYTES; -1: not derived yet
          gpuError,         \* the device will fail the open command buffer
          status,           \* "running", "aborted" or "deadlocked"
          reply             \* what the last call read for the host

vars == <<encodeGen, completedGen, commands, guardHeld, tensors, lastUseGen,
          pool, contents, liveBytes, pooledBytes, peakDeviceBytes, memBudget,
          gpuError, status, reply>>

-----------------------------------------------------------------------------
(* Types.                                                                   *)

ElementSize == 4            \* every tensor here is f32
Key(n) == IF n = 0 THEN 1 ELSE n * ElementSize
Keys == {Key(n) : n \in Lens}

Operand == [buffer : Buffers, len : Lens]
Command == [op : {"kernel", "fill"}, ins : Seq(Operand), out : Buffers]
Tensor == [buffer : Buffers \cup {NoBuffer}, len : Lens \cup {0},
           refCount : Nat, lastWriteGen : Nat]
Entry == [gen : Nat, buffer : Buffers]
Dead == [buffer |-> NoBuffer, len |-> 0, refCount |-> 0, lastWriteGen |-> 0]

(* The runtime as one value, for the step functions below.                  *)
state == [encodeGen |-> encodeGen, completedGen |-> completedGen,
          commands |-> commands, guardHeld |-> guardHeld, tensors |-> tensors,
          lastUseGen |-> lastUseGen, pool |-> pool, contents |-> contents,
          liveBytes |-> liveBytes, pooledBytes |-> pooledBytes,
          peakDeviceBytes |-> peakDeviceBytes, memBudget |-> memBudget,
          gpuError |-> gpuError, status |-> status, reply |-> reply]

(* The entry point leaves the runtime in state s.  A panic or a deadlock on *)
(* the way there ends the process: nothing else of s is ever observed.      *)
Become(s) ==
    /\ status' = s.status
    /\ IF s.status = "running"
       THEN /\ encodeGen' = s.encodeGen
            /\ completedGen' = s.completedGen
            /\ commands' = s.commands
            /\ guardHeld' = s.guardHeld
            /\ tensors' = s.tensors
            /\ lastUseGen' = s.lastUseGen
            /\ pool' = s.pool
            /\ contents' = s.contents
            /\ liveBytes' = s.liveBytes
            /\ pooledBytes' = s.pooledBytes
            /\ peakDeviceBytes' = s.peakDeviceBytes
            /\ memBudget' = s.memBudget
            /\ gpuError' = s.gpuError
            /\ reply' = s.reply
       ELSE UNCHANGED <<encodeGen, completedGen, commands, guardHeld, tensors,
                        lastUseGen, pool, contents, liveBytes, pooledBytes,
                        peakDeviceBytes, memBudget, gpuError, reply>>

Init ==
    /\ encodeGen = 0 /\ completedGen = 0
    /\ commands = << >> /\ guardHeld = FALSE
    /\ tensors = [h \in Handles |-> Dead]
    /\ lastUseGen = [b \in Buffers |-> 0]
    /\ pool = [k \in Keys |-> << >>]
    /\ contents = [b \in Buffers |-> Zero]
    /\ liveBytes = 0 /\ pooledBytes = 0 /\ peakDeviceBytes = 0
    /\ memBudget = -1
    /\ gpuError = FALSE /\ status = "running" /\ reply = NoReply

-----------------------------------------------------------------------------
(* Reading the state.                                                       *)

Live(s) == {h \in Handles : s.tensors[h].refCount > 0}

Aliases(s, h) == {x \in Live(s) : s.tensors[x].buffer = s.tensors[h].buffer}

Attached(s) == {s.tensors[h].buffer : h \in Live(s)}

Entries(s, k) == {s.pool[k][i] : i \in DOMAIN s.pool[k]}

Pooled(s) == UNION {{e.buffer : e \in Entries(s, k)} : k \in Keys}

Touches(c) == {c.out} \cup {c.ins[i].buffer : i \in DOMAIN c.ins}

InFlight(s) == UNION {Touches(s.commands[i]) : i \in DOMAIN s.commands}

Written(s) == {s.commands[i].out : i \in DOMAIN s.commands}

OperandOf(s, h) == [buffer |-> s.tensors[h].buffer, len |-> s.tensors[h].len]

(* A zero-length tensor has no elements: its placeholder byte is not data.  *)
Contents(mem, o) == IF o.len = 0 THEN Zero ELSE mem[o.buffer]

(* The device runs a command buffer in encoder order.                       *)
Execute(mem, c) ==
    [mem EXCEPT ![c.out] =
        IF c.op = "fill" THEN Zero
        ELSE Compute([i \in DOMAIN c.ins |-> Contents(mem, c.ins[i])])]

(* The contents after each of the commands cs; after[0] is before them all.   *)
After(mem, cs) ==
    LET after[i \in 0..Len(cs)] ==
            IF i = 0 THEN mem ELSE Execute(after[i - 1], cs[i])
    IN  after

Executed(s) == [b \in Buffers |-> After(s.contents, s.commands)[Len(s.commands)][b]]

-----------------------------------------------------------------------------
(* The command buffer.                                                      *)

LockCommandBuffer(s) == [s EXCEPT !.guardHeld = TRUE]
UnlockCommandBuffer(s) == [s EXCEPT !.guardHeld = FALSE]

(* ensure_command_buffer: opening one takes the next generation.            *)
EnsureGen(s) == IF s.commands = << >> THEN s.encodeGen + 1 ELSE s.encodeGen

GpuBarrierBlind(s) ==                     \* mutant: status not looked at
    IF s.guardHeld THEN [s EXCEPT !.status = "deadlocked"]
    ELSE IF s.commands = << >> THEN s
    ELSE [s EXCEPT !.commands = << >>, !.contents = Executed(s),
                   !.completedGen = s.encodeGen]

GpuBarrier(s) ==
    IF s.guardHeld THEN [s EXCEPT !.status = "deadlocked"]
    ELSE IF s.commands = << >> THEN s
    ELSE IF s.gpuError THEN [s EXCEPT !.commands = << >>, !.status = "aborted"]
    ELSE [s EXCEPT !.commands = << >>,
                   !.contents = Executed(s),
                   !.completedGen = s.encodeGen]

FlushIfPending(s, h) ==
    IF s.tensors[h].lastWriteGen > s.completedGen THEN GpuBarrier(s) ELSE s

SyncPointNever(s) == s                    \* mutant: the flush forgotten

SyncPoint(s) == IF SyncDispatch THEN GpuBarrier(s) ELSE s

StampUse(s, used, gen) ==
    [s EXCEPT !.lastUseGen = [b \in Buffers |-> IF b \in used THEN gen ELSE @[b]]]

(* The command as the device sees it: h's buffer is bound as the output.     *)
CommandInto(s, h, op, ins) == [op |-> op, ins |-> ins, out |-> s.tensors[h].buffer]

EncodeOutputOnly(s, h, op, ins) ==        \* mutant: inputs not stamped
    LET gen == EnsureGen(s)
        cmd == CommandInto(s, h, op, ins)
        r   == [s EXCEPT !.encodeGen = gen,
                         !.commands = Append(@, cmd),
                         !.tensors[h].lastWriteGen = gen]
    IN  StampUse(r, {cmd.out}, gen)

(* One command into the shared buffer, and the stamps every encode site     *)
(* owes: the write generation of the output, the use generation of all.     *)
Encode(s, h, op, ins) ==
    LET gen == EnsureGen(s)
        cmd == CommandInto(s, h, op, ins)
        r   == [s EXCEPT !.encodeGen = gen,
                         !.commands = Append(@, cmd),
                         !.tensors[h].lastWriteGen = gen]
    IN  StampUse(r, Touches(cmd), gen)

EncodeAndRelease(s, h, op, ins) ==
    SyncPoint(UnlockCommandBuffer(Encode(LockCommandBuffer(s), h, op, ins)))

-----------------------------------------------------------------------------
(* Allocation and the pool.                                                 *)

ReadyEncoded(s, k) ==                     \* mutant: gated on the wrong counter
    {i \in DOMAIN s.pool[k] : s.pool[k][i].gen <= s.encodeGen}

Ready(s, k) == {i \in DOMAIN s.pool[k] : s.pool[k][i].gen <= s.completedGen}

FirstReady(s, k) == CHOOSE i \in Ready(s, k) : \A j \in Ready(s, k) : i <= j

BudgetBytes(s) == IF s.memBudget >= 0 THEN s.memBudget ELSE DefaultBudget

ValveLiveOnly(s, k) ==                    \* mutant: pooled bytes not counted
    IF Ready(s, k) # {} THEN s
    ELSE LET r == [s EXCEPT !.memBudget = BudgetBytes(s)]
         IN  IF r.liveBytes + k > r.memBudget /\ r.pool[k] # << >>
             THEN GpuBarrier(r) ELSE r

(* The valve, on a pool miss only: reading the budget derives it, and a     *)
(* miss that would exceed it flushes if the bucket holds pending buffers.   *)
Valve(s, k) ==
    IF Ready(s, k) # {} THEN s
    ELSE LET r == [s EXCEPT !.memBudget = BudgetBytes(s)]
         IN  IF /\ r.liveBytes + r.pooledBytes + k > r.memBudget
                /\ r.pool[k] # << >>
             THEN GpuBarrier(r) ELSE r

(* Buffers the device does not own: Metal keeps a buffer alive while a      *)
(* tensor, the pool or an uncommitted command holds it.                     *)
Unowned(s) == Buffers \ (Attached(s) \cup Pooled(s) \cup InFlight(s))

(* The buffers an allocation of size k can get (any one if it panicked).    *)
Draws(s, k) ==
    LET r == Valve(s, k)
    IN  IF r.status # "running" THEN Buffers
        ELSE IF Ready(r, k) # {} THEN {r.pool[k][FirstReady(r, k)].buffer}
        ELSE Unowned(r)

PoolHitNoDebit(s, k) ==                   \* mutant: POOLED_BYTES not debited
    [s EXCEPT !.pool[k] = RemoveAt(@, FirstReady(s, k)), !.liveBytes = @ + k]

(* A pool hit: the bytes move back to the live ledger, the contents stay.   *)
PoolHit(s, k) ==
    [s EXCEPT !.pool[k] = RemoveAt(@, FirstReady(s, k)),
              !.pooledBytes = @ - k,
              !.liveBytes = @ + k]

NewBufferLivePeak(s, k, b) ==             \* mutant: the peak of LIVE_BYTES alone
    [s EXCEPT !.contents[b] = Zero,
              !.liveBytes = @ + k,
              !.peakDeviceBytes = IF s.liveBytes + k > @
                                  THEN s.liveBytes + k ELSE @]

(* A miss: the device makes an OS-zeroed buffer, and the peak may move.     *)
NewBuffer(s, k, b) ==
    [s EXCEPT !.contents[b] = Zero,
              !.liveBytes = @ + k,
              !.peakDeviceBytes = IF s.liveBytes + k + s.pooledBytes > @
                                  THEN s.liveBytes + k + s.pooledBytes ELSE @]

(* A new TensorBuffer of n elements over b, owned once.                     *)
Boxed(n, b) == [buffer |-> b, len |-> n, refCount |-> 1, lastWriteGen |-> 0]

NewTensorBytes(s, h, n, b) ==             \* mutant: len in bytes
    [s EXCEPT !.tensors[h] = Boxed(Key(n), b), !.lastUseGen[b] = 0]

(* It is ready, with a PoolState of its own.                                *)
NewTensor(s, h, n, b) ==
    [s EXCEPT !.tensors[h] = Boxed(n, b), !.lastUseGen[b] = 0]

AllocTensor(s, h, n, b) ==
    LET k == Key(n)
        r == Valve(s, k)
    IN  NewTensor(IF Ready(r, k) # {} THEN PoolHit(r, k) ELSE NewBuffer(r, k, b),
                  h, n, b)

(* The memcpy of the caller's data, at once, whatever the device is doing.  *)
Upload(s, h, v) ==
    IF s.tensors[h].len = 0 THEN s
    ELSE [s EXCEPT !.contents[s.tensors[h].buffer] = v]

AllocData(s, h, n, v, b) == Upload(AllocTensor(s, h, n, b), h, v)

-----------------------------------------------------------------------------
(* Entry points.                                                            *)

Running == status = "running" /\ ~guardHeld

quiet == [state EXCEPT !.reply = NoReply]

MayEncode == encodeGen < MaxGen /\ Len(commands) < MaxCommands

Inputs(k) == [1..k -> Live(state)]

Operands(ins) == [i \in DOMAIN ins |-> OperandOf(state, ins[i])]

TensorAllocGpu(h) ==
    /\ Running /\ h \notin Live(state)
    /\ \E n \in Lens, v \in Data : \E b \in Draws(quiet, Key(n)) :
        Become(AllocData(quiet, h, n, v, b))

AllocZerosUnfilled(s, h, n, b) ==         \* mutant: pooled buffers taken as clean
    AllocTensor(s, h, n, b)

(* A pooled buffer is dirty: it is filled on the device.                    *)
AllocZeros(s, h, n, b) ==
    LET a == AllocTensor(s, h, n, b)
    IN  IF Ready(Valve(s, Key(n)), Key(n)) # {}
        THEN EncodeAndRelease(a, h, "fill", << >>) ELSE a

TensorAllocZerosGpu(h) ==
    /\ Running /\ h \notin Live(state) /\ MayEncode
    /\ \E n \in Lens : \E b \in Draws(quiet, Key(n)) :
        Become(AllocZeros(quiet, h, n, b))

DispatchGuardFirst(s, h, n, b, ins) ==    \* mutant: output allocated under the guard
    LET a == AllocTensor(LockCommandBuffer(s), h, n, b)
    IN  IF n = 0 THEN UnlockCommandBuffer(a)
        ELSE EncodeAndRelease(a, h, "kernel", ins)

(* Output allocated first, then encoded under the guard; an empty output    *)
(* is returned without a dispatch.                                          *)
Dispatch(s, h, n, b, ins) ==
    LET a == AllocTensor(s, h, n, b)
    IN  IF n = 0 THEN a ELSE EncodeAndRelease(a, h, "kernel", ins)

(* The output has the first input's shape.                                  *)
KernelDispatch(h) ==
    /\ Running /\ h \notin Live(state) /\ MayEncode
    /\ \E k \in 1..MaxArity : \E ins \in Inputs(k) :
        LET n == tensors[ins[1]].len
        IN  \E b \in Draws(quiet, Key(n)) :
                Become(Dispatch(quiet, h, n, b, Operands(ins)))

(* The caller gives the output's shape.                                     *)
KernelDispatchV2(h) ==
    /\ Running /\ h \notin Live(state) /\ MayEncode
    /\ \E k \in 0..MaxArity : \E ins \in Inputs(k), n \in Lens :
        \E b \in Draws(quiet, Key(n)) :
            Become(Dispatch(quiet, h, n, b, Operands(ins)))

(* m*k by k*n gives m*n elements.                                           *)
MatmulLens(x, y, n) ==
    \E i, j, l \in 0..3 : x = i * j /\ y = j * l /\ n = i * l

MatmulCpu(s, h, x, y, n, b) ==
    AllocData(FlushIfPending(FlushIfPending(s, x), y), h, n, Zero, b)

(* Any empty dimension goes to the CPU reference, whose result is zeros.    *)
TensorMatmul(h) ==
    /\ Running /\ h \notin Live(state) /\ MayEncode
    /\ \E x, y \in Live(state), n \in Lens :
        /\ MatmulLens(tensors[x].len, tensors[y].len, n)
        /\ IF 0 \in {tensors[x].len, tensors[y].len, n}
           THEN \E b \in Draws(FlushIfPending(FlushIfPending(quiet, x), y), Key(n)) :
                    Become(MatmulCpu(quiet, h, x, y, n, b))
           ELSE \E b \in Draws(quiet, Key(n)) :
                    Become(Dispatch(quiet, h, n, b, Operands(<<x, y>>)))

ReshapeReady(s, h, x) ==                  \* mutant: the alias starts out ready
    [s EXCEPT !.tensors[h] = [s.tensors[x] EXCEPT !.refCount = 1,
                                                  !.lastWriteGen = 0]]

(* A zero-copy alias: the same buffer and PoolState, the source's write     *)
(* generation as it is now.                                                 *)
Reshape(s, h, x) == [s EXCEPT !.tensors[h] = [s.tensors[x] EXCEPT !.refCount = 1]]

TensorReshape(h) ==
    /\ Running /\ h \notin Live(state)
    /\ \E x \in Live(state) : Become(Reshape(quiet, h, x))

TensorRetain(h) ==
    /\ Running /\ h \in Live(state) /\ tensors[h].refCount < MaxRef
    /\ Become([quiet EXCEPT !.tensors[h].refCount = @ + 1])

(* The last alias of a buffer takes it to the pool with its use generation. *)
Recycle(s, h) ==
    LET t == s.tensors[h]
        k == Key(t.len)
    IN  [s EXCEPT !.tensors[h] = Dead,
                  !.liveBytes = @ - k,
                  !.pooledBytes = @ + k,
                  !.pool[k] = Append(@, [gen |-> s.lastUseGen[t.buffer],
                                         buffer |-> t.buffer])]

ReleaseAlias(s, h) ==                     \* mutant: aliases not looked at
    IF s.tensors[h].refCount > 1 THEN [s EXCEPT !.tensors[h].refCount = @ - 1]
    ELSE Recycle(s, h)

Release(s, h) ==
    IF s.tensors[h].refCount > 1 THEN [s EXCEPT !.tensors[h].refCount = @ - 1]
    ELSE IF Aliases(s, h) = {h} THEN Recycle(s, h)
    ELSE [s EXCEPT !.tensors[h] = Dead]

TensorRelease(h) ==
    /\ Running /\ h \in Live(state)
    /\ Become(Release(quiet, h))

(* tensor_print, malus_tensor_get_f32: flush if pending, then read.         *)
ReadContents(s, h) == [s EXCEPT !.reply = Contents(s.contents, OperandOf(s, h))]

HostRead(h) ==
    /\ Running /\ h \in Live(state)
    /\ Become(ReadContents(FlushIfPending(quiet, h), h))

GpuBarrierCall == Running /\ Become(GpuBarrier(quiet))

PoolReset(s) == [s EXCEPT !.pool = [k \in Keys |-> << >>],
                          !.pooledBytes = 0,
                          !.peakDeviceBytes = s.liveBytes]

MalusPoolReset == Running /\ Become(PoolReset(quiet))

MalusSetMemBudget ==
    /\ Running
    /\ \E bytes \in Budgets :
        Become([quiet EXCEPT !.memBudget = IF bytes < -1 THEN -1 ELSE bytes])

(* The device's doing: what is encoded now will fail when it runs.          *)
GpuFault ==
    /\ Running /\ DeviceFaults /\ commands # << >> /\ ~gpuError
    /\ Become([quiet EXCEPT !.gpuError = TRUE])

Stopped == status # "running" /\ UNCHANGED vars

Next ==
    \/ \E h \in Handles :
        \/ TensorAllocGpu(h) \/ TensorAllocZerosGpu(h)
        \/ KernelDispatch(h) \/ KernelDispatchV2(h) \/ TensorMatmul(h)
        \/ TensorReshape(h) \/ TensorRetain(h) \/ TensorRelease(h)
        \/ HostRead(h)
    \/ GpuBarrierCall \/ MalusPoolReset \/ MalusSetMemBudget
    \/ GpuFault \/ Stopped

Spec == Init /\ [][Next]_vars

-----------------------------------------------------------------------------
(* Properties.                                                              *)

(* Every state component has its type; the contents are a function on the   *)
(* buffers (what is in them is the business of StoreSpec).                  *)
TypeOK ==
    /\ encodeGen \in Nat /\ completedGen \in Nat
    /\ commands \in Seq(Command) /\ guardHeld \in BOOLEAN
    /\ tensors \in [Handles -> Tensor]
    /\ lastUseGen \in [Buffers -> Nat]
    /\ pool \in [Keys -> Seq(Entry)]
    /\ DOMAIN contents = Buffers
    /\ liveBytes \in Int /\ pooledBytes \in Int /\ peakDeviceBytes \in Int
    /\ memBudget \in Int
    /\ gpuError \in BOOLEAN
    /\ status \in {"running", "aborted", "deadlocked"}

(* The pair of counters cannot drift: there is an open command buffer       *)
(* exactly when one generation is encoded and not completed, which is what  *)
(* makes "pending iff last_write_gen > COMPLETED_GEN" mean anything.        *)
Windowed(s) == s.encodeGen = s.completedGen + (IF s.commands = << >> THEN 0 ELSE 1)
GenWindow == Windowed(state)

(* ADR-0039: a buffer the pool would hand out is used by no uncommitted     *)
(* command, as output or as input; the memcpy of its next owner would race  *)
(* the device.                                                              *)
RecyclesIdle(s) ==
    \A k \in Keys : \A i \in Ready(s, k) : s.pool[k][i].buffer \notin InFlight(s)
NoRecycleInFlight == RecyclesIdle(state)

(* ADR-0035: tensor_is_pending is exact through every alias: a tensor is    *)
(* pending when and only when an uncommitted command writes its buffer.     *)
PendingIsWritten(s) ==
    \A h \in Live(s) :
        s.tensors[h].lastWriteGen > s.completedGen <=> s.tensors[h].buffer \in Written(s)
PendingExact == PendingIsWritten(state)

(* A buffer has one owner: live tensors that share it are reshape aliases   *)
(* of the same size, a live buffer is in no bucket, and no buffer is twice  *)
(* in the pool.                                                             *)
Exclusive(s) ==
    /\ \A h, x \in Live(s) :
        s.tensors[h].buffer = s.tensors[x].buffer => s.tensors[h].len = s.tensors[x].len
    /\ \A h \in Live(s), k \in Keys : \A i \in DOMAIN s.pool[k] :
        s.pool[k][i].buffer # s.tensors[h].buffer
    /\ \A k, l \in Keys : \A i \in DOMAIN s.pool[k], j \in DOMAIN s.pool[l] :
        s.pool[k][i].buffer = s.pool[l][j].buffer => k = l /\ i = j
BufferExclusive == Exclusive(state)

(* LIVE_BYTES and POOLED_BYTES are the bytes of the distinct buffers tensors *)
(* hold and of the buffers the pool holds, however aliases come and go.     *)
SizeOf(s, b) == Key(s.tensors[CHOOSE h \in Live(s) : s.tensors[h].buffer = b].len)

Balanced(s) ==
    /\ s.liveBytes = SumFunction([b \in Attached(s) |-> SizeOf(s, b)])
    /\ s.pooledBytes = SumFunction([k \in Keys |-> k * Len(s.pool[k])])
LedgerExact == Balanced(state)

(* PEAK_DEVICE_BYTES is never below what the device holds now, although hits *)
(* and releases move bytes without looking at the peak.                     *)
PeakCovers(s) == s.peakDeviceBytes >= s.liveBytes + s.pooledBytes
PeakCoversDevice == PeakCovers(state)

(* The valve: the device total grows past the budget only for a size of     *)
(* which no recycled buffer, ready or pending, is in the pool.              *)
ValveAction ==
    liveBytes' + pooledBytes' > liveBytes + pooledBytes =>
        \/ liveBytes' + pooledBytes' <= memBudget'
        \/ \E k \in Keys : /\ pool[k] = << >>
                           /\ liveBytes' = liveBytes + k
                           /\ pooledBytes' = pooledBytes
ValveBeforeGrowth == [][ValveAction]_vars

(* A device error is never taken for completion: once the open command      *)
(* buffer is doomed, no generation completes, whatever is called next.      *)
FaultNeverCompletes == [][gpuError => completedGen' = completedGen]_vars

(* ADR-0039: nothing allocates while the command buffer is locked, so the   *)
(* barrier inside the valve never waits for its own caller.                 *)
NoSelfDeadlock == status # "deadlocked" /\ ~guardHeld

(* MALUS_SYNC_DISPATCH=1: every entry point returns with nothing encoded and *)
(* not run, so a device error stops the process in the call that caused it. *)
SyncAttributes == SyncDispatch => commands = << >> /\ completedGen = encodeGen

(* What makes the above inductive.  Owners are real; no generation is ahead *)
(* of the counter; and whatever an open command touches carries the open    *)
(* generation, on its PoolState while it is live and on its entry once it   *)
(* is pooled.                                                               *)
OwnersReal(s) ==
    \A h \in Live(s) : s.tensors[h].buffer \in Buffers /\ s.tensors[h].len \in Lens

GensBounded(s) ==
    /\ \A h \in Handles : s.tensors[h].lastWriteGen <= s.encodeGen
    /\ \A b \in Buffers : s.lastUseGen[b] <= s.encodeGen
    /\ \A k \in Keys : \A i \in DOMAIN s.pool[k] : s.pool[k][i].gen <= s.encodeGen

Stamped(s) ==
    \A c \in DOMAIN s.commands : \A b \in Touches(s.commands[c]) :
        /\ \A h \in Live(s) : s.tensors[h].buffer = b => s.lastUseGen[b] = s.encodeGen
        /\ \A k \in Keys : \A i \in DOMAIN s.pool[k] :
            s.pool[k][i].buffer = b => s.pool[k][i].gen = s.encodeGen

Consistent(s) ==
    /\ Windowed(s) /\ OwnersReal(s) /\ GensBounded(s) /\ Stamped(s)
    /\ PendingIsWritten(s) /\ Exclusive(s) /\ PeakCovers(s)

IInv == /\ TypeOK
        /\ ~guardHeld
        /\ status # "deadlocked"
        /\ Consistent(state)

(* What h holds when the contents of the buffers are mem.                   *)
ValueIn(mem, s, h) == IF h \in Live(s) THEN Contents(mem, OperandOf(s, h)) ELSE Zero

(* The runtime implements the store in which operations happen at once: a   *)
(* tensor's value is its buffer's contents once the open command buffer has *)
(* run, and every host read returns it.                                     *)
Store == INSTANCE TensorStore WITH
    MaxArity <- IF MaxArity < 2 THEN 2 ELSE MaxArity,       \* matmul's two
    refs <- [h \in Handles |-> tensors[h].refCount],
    len <- [h \in Handles |-> tensors[h].len],
    value <- LET final == Executed(state)
             IN  [h \in Handles |-> ValueIn(final, state, h)],
    failed <- status = "aborted"
StoreSpec == Store!Spec
=============================================================================
