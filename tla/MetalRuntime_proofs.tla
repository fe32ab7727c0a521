-------------------------- MODULE MetalRuntime_proofs --------------------------
(* Proofs about MetalRuntime, for every value of its constants.              *)
EXTENDS MetalRuntime, Induction, SequenceTheorems, TLAPS

(* The type of a runtime state.  Nothing is said of the contents and of the  *)
(* reply beyond their being there: they are fields with the values they have.*)
IsState(s) ==
    s \in [encodeGen : Nat, completedGen : Nat, commands : Seq(Command),
           guardHeld : BOOLEAN, tensors : [Handles -> Tensor],
           lastUseGen : [Buffers -> Nat], pool : [Keys -> Seq(Entry)],
           contents : {s.contents}, liveBytes : Int, pooledBytes : Int,
           peakDeviceBytes : Int, memBudget : Int, gpuError : BOOLEAN,
           status : {"running", "aborted", "deadlocked"}, reply : {s.reply}]

(* What every step function keeps: a panicked state promises only its type.  *)
Good(s) == /\ IsState(s)
           /\ DOMAIN s.contents = Buffers
           /\ ~s.guardHeld
           /\ s.status # "deadlocked"
           /\ s.status = "running" => Consistent(s)

(* A state with these parts of another one in common has its live tensors,  *)
(* pool and stamps in common too, so it is consistent when that one is.     *)
SameHeap(r, s) ==
    /\ r.encodeGen = s.encodeGen /\ r.completedGen = s.completedGen
    /\ r.commands = s.commands /\ r.tensors = s.tensors
    /\ r.lastUseGen = s.lastUseGen /\ r.pool = s.pool

LEMMA EmptyCommands == << >> \in Seq(Command)
OBVIOUS

LEMMA StateIsState == TypeOK => IsState(state)
BY DEF TypeOK, IsState, state

LEMMA KeyInKeys == ASSUME NEW n \in Lens PROVE Key(n) \in Keys
BY DEF Keys

LEMMA KeysAreNat == Keys \subseteq Nat \ {0}
BY ConstantsAssumption DEF Keys, Key, ElementSize

LEMMA SameHeapConsistent ==
    ASSUME NEW s, NEW r, Consistent(s), SameHeap(r, s), PeakCovers(r)
    PROVE  Consistent(r)
<1>1. Live(r) = Live(s) /\ Written(r) = Written(s)
  BY DEF SameHeap, Live, Written
<1>2. Windowed(r) /\ OwnersReal(r) /\ GensBounded(r)
  BY <1>1 DEF SameHeap, Consistent, Windowed, OwnersReal, GensBounded
<1>3. Stamped(r)
  BY <1>1 DEF SameHeap, Consistent, Stamped
<1>4. PendingIsWritten(r)
  BY <1>1 DEF SameHeap, Consistent, PendingIsWritten
<1>5. Exclusive(r)
  BY <1>1 DEF SameHeap, Consistent, Exclusive
<1>. QED  BY <1>2, <1>3, <1>4, <1>5 DEF Consistent

-------------------------------------------------------------------------------
(* The barrier.                                                              *)

LEMMA BarrierType ==
    ASSUME NEW s, Good(s)
    PROVE  /\ IsState(GpuBarrier(s))
           /\ DOMAIN GpuBarrier(s).contents = Buffers
           /\ ~GpuBarrier(s).guardHeld
           /\ GpuBarrier(s).status # "deadlocked"
BY EmptyCommands DEF IsState, GpuBarrier, Good, Executed

(* A barrier that comes back has run everything there was.                   *)
LEMMA BarrierFields ==
    ASSUME NEW s, Good(s), s.commands # << >>, ~s.gpuError
    PROVE  /\ GpuBarrier(s).commands = << >>
           /\ GpuBarrier(s).completedGen = s.encodeGen
           /\ GpuBarrier(s).encodeGen = s.encodeGen
           /\ GpuBarrier(s).tensors = s.tensors
           /\ GpuBarrier(s).pool = s.pool
           /\ GpuBarrier(s).lastUseGen = s.lastUseGen
           /\ GpuBarrier(s).liveBytes = s.liveBytes
           /\ GpuBarrier(s).pooledBytes = s.pooledBytes
           /\ GpuBarrier(s).peakDeviceBytes = s.peakDeviceBytes
           /\ GpuBarrier(s).memBudget = s.memBudget
           /\ GpuBarrier(s).status = s.status
BY DEF IsState, GpuBarrier, Good

LEMMA BarrierKeepsLedger ==
    ASSUME NEW s, Good(s)
    PROVE  /\ GpuBarrier(s).tensors = s.tensors
           /\ GpuBarrier(s).pool = s.pool
           /\ GpuBarrier(s).lastUseGen = s.lastUseGen
           /\ GpuBarrier(s).liveBytes = s.liveBytes
           /\ GpuBarrier(s).pooledBytes = s.pooledBytes
           /\ GpuBarrier(s).peakDeviceBytes = s.peakDeviceBytes
           /\ GpuBarrier(s).memBudget = s.memBudget
           /\ GpuBarrier(s).encodeGen = s.encodeGen
           /\ GpuBarrier(s).gpuError = s.gpuError
           /\ GpuBarrier(s).reply = s.reply
           /\ GpuBarrier(s).status = "running" =>
                /\ s.status = "running"
                /\ GpuBarrier(s).commands = << >>
BY DEF IsState, GpuBarrier, Good

LEMMA BarrierGood == ASSUME NEW s, Good(s) PROVE Good(GpuBarrier(s))
<1>. DEFINE r == GpuBarrier(s)
<1>1. SUFFICES ASSUME r.status = "running" PROVE Consistent(r)
  BY BarrierType DEF Good
<1>2. CASE s.commands = << >>
  BY <1>1, <1>2 DEF GpuBarrier, Good
<1>3. CASE s.commands # << >> /\ s.gpuError
  BY <1>1, <1>3 DEF GpuBarrier, Good, IsState
<1>4. CASE s.commands # << >> /\ ~s.gpuError
  <2>. HIDE DEF r
  <2>1. /\ r.commands = << >> /\ r.completedGen = s.encodeGen
        /\ r.encodeGen = s.encodeGen /\ r.tensors = s.tensors
        /\ r.pool = s.pool /\ r.lastUseGen = s.lastUseGen
        /\ r.liveBytes = s.liveBytes /\ r.pooledBytes = s.pooledBytes
        /\ r.peakDeviceBytes = s.peakDeviceBytes /\ r.status = s.status
    BY <1>4, BarrierFields DEF r
  <2>2. Consistent(s) /\ Live(r) = Live(s) /\ Written(r) = {}
    BY <1>1, <2>1 DEF Good, Live, Written
  <2>3. Windowed(r)
    BY <2>1 DEF Windowed, Good, IsState
  <2>4. OwnersReal(r) /\ GensBounded(r)
    BY <2>1, <2>2 DEF Consistent, OwnersReal, GensBounded
  <2>5. Stamped(r)
    BY <2>1 DEF Stamped
  <2>6. PendingIsWritten(r)
    <3>1. \A h \in Handles : ~(r.tensors[h].lastWriteGen > r.completedGen)
      BY <2>1, <2>2 DEF Consistent, GensBounded, Good, IsState, Tensor
    <3>. QED  BY <3>1, <2>2 DEF PendingIsWritten, Live
  <2>7. Exclusive(r)
    BY <2>1, <2>2 DEF Consistent, Exclusive
  <2>8. PeakCovers(r)
    BY <2>1, <2>2 DEF Consistent, PeakCovers
  <2>. QED  BY <2>3, <2>4, <2>5, <2>6, <2>7, <2>8 DEF Consistent
<1>. QED  BY <1>2, <1>3, <1>4

LEMMA FlushGood ==
    ASSUME NEW s, Good(s), NEW h PROVE Good(FlushIfPending(s, h))
BY BarrierGood DEF FlushIfPending

LEMMA SyncGood == ASSUME NEW s, Good(s) PROVE Good(SyncPoint(s))
BY BarrierGood DEF SyncPoint

-------------------------------------------------------------------------------
(* The pool.                                                                 *)

LEMMA FirstReadyIsReady ==
    ASSUME NEW s, IsState(s), NEW k \in Keys, Ready(s, k) # {}
    PROVE  /\ FirstReady(s, k) \in DOMAIN s.pool[k]
           /\ s.pool[k][FirstReady(s, k)].gen <= s.completedGen
           /\ s.pool[k][FirstReady(s, k)] \in Entry
<1>1. s.pool[k] \in Seq(Entry)
  BY DEF IsState
<1>2. Ready(s, k) \in SUBSET Nat
  BY <1>1 DEF Ready
<1>3. \E i \in Ready(s, k) : \A j \in Ready(s, k) : i <= j
  BY <1>2, LeastElement
<1>4. FirstReady(s, k) \in Ready(s, k)
  BY <1>3 DEF FirstReady
<1>. QED  BY <1>1, <1>4 DEF Ready

(* RemoveAt keeps the other entries, each from a place of its own.           *)
LEMMA RemoveAtProperties ==
    ASSUME NEW S, NEW q \in Seq(S), NEW i \in DOMAIN q
    PROVE  /\ RemoveAt(q, i) \in Seq(S)
           /\ \A j \in DOMAIN RemoveAt(q, i) :
                LET m == IF j < i THEN j ELSE j + 1
                IN  /\ m \in DOMAIN q /\ m # i
                    /\ RemoveAt(q, i)[j] = q[m]
<1>. DEFINE left == SubSeq(q, 1, i - 1)
            right == SubSeq(q, i + 1, Len(q))
<1>1. i \in 1..Len(q) /\ Len(q) \in Nat /\ DOMAIN q = 1..Len(q)
  OBVIOUS
<1>2. /\ left \in Seq(S) /\ Len(left) = i - 1
      /\ \A j \in 1..(i - 1) : left[j] = q[j]
  <2>1. 1 \in Int /\ i - 1 \in Int /\ \A j \in 1..(i - 1) : q[j] \in S
    BY <1>1
  <2>2. /\ left \in Seq(S) /\ Len(left) = IF 1 <= i - 1 THEN (i - 1) - 1 + 1 ELSE 0
        /\ \A j \in 1..((i - 1) - 1 + 1) : left[j] = q[1 + j - 1]
    BY <2>1, SubSeqProperties
  <2>. HIDE DEF left
  <2>. QED  BY <1>1, <2>2
<1>3. /\ right \in Seq(S) /\ Len(right) = Len(q) - i
      /\ \A j \in 1..(Len(q) - i) : right[j] = q[i + j]
  <2>1. i + 1 \in Int /\ Len(q) \in Int /\ \A j \in (i + 1)..Len(q) : q[j] \in S
    BY <1>1
  <2>2. /\ right \in Seq(S)
        /\ Len(right) = IF i + 1 <= Len(q) THEN Len(q) - (i + 1) + 1 ELSE 0
        /\ \A j \in 1..(Len(q) - (i + 1) + 1) : right[j] = q[(i + 1) + j - 1]
    BY <2>1, SubSeqProperties
  <2>. HIDE DEF right
  <2>3. \A j \in 1..(Len(q) - i) : j \in 1..(Len(q) - (i + 1) + 1) /\ (i + 1) + j - 1 = i + j
    BY <1>1
  <2>4. Len(right) = Len(q) - i
    BY <1>1, <2>2
  <2>5. ASSUME NEW j \in 1..(Len(q) - i) PROVE right[j] = q[i + j]
    BY <2>2, <2>3
  <2>. QED  BY <2>2, <2>4, <2>5
<1>. HIDE DEF left, right
<1>4. /\ left \o right \in Seq(S)
      /\ Len(left \o right) = Len(q) - 1
      /\ \A j \in 1..(Len(q) - 1) :
            (left \o right)[j] = IF j <= i - 1 THEN left[j] ELSE right[j - (i - 1)]
  <2>1. /\ left \o right \in Seq(S)
        /\ Len(left \o right) = Len(left) + Len(right)
        /\ \A j \in 1..(Len(left) + Len(right)) :
            (left \o right)[j] = IF j <= Len(left) THEN left[j] ELSE right[j - Len(left)]
    BY <1>2, <1>3, ConcatProperties
  <2>2. Len(left) + Len(right) = Len(q) - 1
    BY <1>1, <1>2, <1>3
  <2>. QED  BY <1>2, <2>1, <2>2
<1>5. RemoveAt(q, i) = left \o right
  BY DEF RemoveAt, left, right
<1>6. DOMAIN RemoveAt(q, i) = 1..(Len(q) - 1)
  BY <1>4, <1>5
<1>7. ASSUME NEW j \in DOMAIN RemoveAt(q, i)
      PROVE  LET m == IF j < i THEN j ELSE j + 1
             IN  /\ m \in DOMAIN q /\ m # i
                 /\ RemoveAt(q, i)[j] = q[m]
  <2>1. j \in 1..(Len(q) - 1)
    BY <1>6
  <2>2. CASE j < i
    BY <1>1, <1>2, <1>4, <1>5, <2>1, <2>2
  <2>3. CASE ~(j < i)
    <3>1. RemoveAt(q, i)[j] = right[j - (i - 1)]
      <4>1. ~(j <= i - 1)
        BY <1>1, <2>1, <2>3
      <4>. QED  BY <1>4, <1>5, <2>1, <4>1
    <3>2. j - (i - 1) \in 1..(Len(q) - i) /\ i + (j - (i - 1)) = j + 1
      BY <1>1, <2>1, <2>3
    <3>. QED  BY <1>1, <1>3, <2>1, <2>3, <3>1, <3>2
  <2>. QED  BY <2>2, <2>3
<1>. QED  BY <1>4, <1>5, <1>7

-------------------------------------------------------------------------------
(* Allocation.                                                               *)

LEMMA ValveKeeps ==
    ASSUME NEW s, Good(s), NEW k \in Keys
    PROVE  LET r == Valve(s, k)
           IN  /\ Good(r)
               /\ r.tensors = s.tensors /\ r.pool = s.pool
               /\ r.lastUseGen = s.lastUseGen /\ r.encodeGen = s.encodeGen
               /\ r.liveBytes = s.liveBytes /\ r.pooledBytes = s.pooledBytes
               /\ r.peakDeviceBytes = s.peakDeviceBytes
               /\ r.status = "running" => s.status = "running"
<1>. DEFINE m == [s EXCEPT !.memBudget = BudgetBytes(s)]
<1>1. BudgetBytes(s) \in Int
  BY ConstantsAssumption DEF BudgetBytes, IsState, Good
<1>2. /\ IsState(m) /\ SameHeap(m, s)
      /\ m.guardHeld = s.guardHeld /\ m.status = s.status
      /\ m.contents = s.contents
      /\ m.liveBytes = s.liveBytes /\ m.pooledBytes = s.pooledBytes
      /\ m.peakDeviceBytes = s.peakDeviceBytes
  BY <1>1 DEF IsState, Good, SameHeap
<1>. HIDE DEF m
<1>3. Good(m)
  BY <1>2, SameHeapConsistent DEF Good, Consistent, PeakCovers
<1>4. Valve(s, k) \in {s, m, GpuBarrier(m)}
  BY DEF Valve, m
<1>5. CASE Valve(s, k) = s
  BY <1>5
<1>6. CASE Valve(s, k) = m
  BY <1>2, <1>3, <1>6 DEF SameHeap
<1>7. CASE Valve(s, k) = GpuBarrier(m)
  BY <1>2, <1>3, <1>7, BarrierGood, BarrierKeepsLedger DEF SameHeap
<1>. QED  BY <1>4, <1>5, <1>6, <1>7

(* What the pool would hand out, no open command touches.                    *)
LEMMA ReadyIsIdle ==
    ASSUME NEW s, IsState(s), Consistent(s),
           NEW k \in Keys, NEW i \in DOMAIN s.pool[k],
           s.pool[k][i].gen <= s.completedGen
    PROVE  s.pool[k][i].buffer \notin InFlight(s)
<1>1. SUFFICES ASSUME NEW c \in DOMAIN s.commands,
                      s.pool[k][i].buffer \in Touches(s.commands[c])
               PROVE  FALSE
  BY DEF InFlight
<1>2. s.pool[k][i].gen = s.encodeGen
  BY <1>1 DEF Consistent, Stamped
<1>3. s.commands # << >>
  BY <1>1
<1>4. s.encodeGen = s.completedGen + 1
  BY <1>3 DEF Consistent, Windowed
<1>. QED  BY <1>2, <1>4 DEF IsState

LEMMA BoxedFields ==
    ASSUME NEW n \in Lens, NEW b \in Buffers
    PROVE  /\ Boxed(n, b) \in Tensor
           /\ Boxed(n, b).buffer = b /\ Boxed(n, b).len = n
           /\ Boxed(n, b).refCount = 1 /\ Boxed(n, b).lastWriteGen = 0
BY DEF Boxed, Tensor

LEMMA NewTensorFields ==
    ASSUME NEW s, IsState(s), NEW h \in Handles, NEW n \in Lens, NEW b \in Buffers
    PROVE  LET r == NewTensor(s, h, n, b)
           IN  /\ IsState(r)
               /\ r.pool = s.pool /\ r.commands = s.commands
               /\ r.encodeGen = s.encodeGen /\ r.completedGen = s.completedGen
               /\ r.liveBytes = s.liveBytes /\ r.pooledBytes = s.pooledBytes
               /\ r.peakDeviceBytes = s.peakDeviceBytes /\ r.contents = s.contents
               /\ r.memBudget = s.memBudget /\ r.reply = s.reply
               /\ r.status = s.status /\ r.guardHeld = s.guardHeld
<1>1. Boxed(n, b) \in Tensor
  BY BoxedFields
<1>. QED  BY <1>1 DEF NewTensor, IsState

(* A new tensor over a buffer nobody owns and no open command touches.       *)
LEMMA NewTensorGood ==
    ASSUME NEW s, Good(s), s.status = "running",
           NEW h \in Handles, h \notin Live(s), NEW n \in Lens, NEW b \in Buffers,
           \A x \in Live(s) : s.tensors[x].buffer # b,
           \A k \in Keys : \A i \in DOMAIN s.pool[k] : s.pool[k][i].buffer # b,
           b \notin InFlight(s)
    PROVE  Good(NewTensor(s, h, n, b))
<1>. DEFINE r == NewTensor(s, h, n, b)
            t == Boxed(n, b)
<1>1. /\ t \in Tensor /\ t.buffer = b /\ t.len = n
      /\ t.refCount = 1 /\ t.lastWriteGen = 0
  BY BoxedFields
<1>2. /\ IsState(r)
      /\ r.tensors = [s.tensors EXCEPT ![h] = t]
      /\ r.lastUseGen = [s.lastUseGen EXCEPT ![b] = 0]
      /\ r.pool = s.pool /\ r.commands = s.commands
      /\ r.encodeGen = s.encodeGen /\ r.completedGen = s.completedGen
      /\ r.liveBytes = s.liveBytes /\ r.pooledBytes = s.pooledBytes
      /\ r.peakDeviceBytes = s.peakDeviceBytes /\ r.contents = s.contents
      /\ r.status = s.status /\ r.guardHeld = s.guardHeld
  <2>1. IsState(s)
    BY DEF Good
  <2>2. /\ IsState(r)
        /\ r.pool = s.pool /\ r.commands = s.commands
        /\ r.encodeGen = s.encodeGen /\ r.completedGen = s.completedGen
        /\ r.liveBytes = s.liveBytes /\ r.pooledBytes = s.pooledBytes
        /\ r.peakDeviceBytes = s.peakDeviceBytes /\ r.contents = s.contents
        /\ r.status = s.status /\ r.guardHeld = s.guardHeld
    BY <2>1, NewTensorFields
  <2>3. /\ r.tensors = [s.tensors EXCEPT ![h] = t]
        /\ r.lastUseGen = [s.lastUseGen EXCEPT ![b] = 0]
    BY <2>1 DEF NewTensor, IsState
  <2>. HIDE DEF r, t
  <2>. QED  BY <2>2, <2>3
<1>. HIDE DEF r, t
<1>3. /\ IsState(s) /\ Consistent(s)
      /\ s.tensors \in [Handles -> Tensor] /\ s.lastUseGen \in [Buffers -> Nat]
      /\ s.encodeGen \in Nat /\ s.completedGen \in Nat
  BY DEF Good, IsState
<1>4. /\ Live(r) = Live(s) \cup {h}
      /\ r.tensors[h] = t
      /\ \A x \in Live(s) : r.tensors[x] = s.tensors[x]
      /\ Written(r) = Written(s)
  BY <1>1, <1>2, <1>3 DEF Live, Written
<1>5. b \notin Written(s)
  BY DEF InFlight, Written, Touches
<1>6. Windowed(r) /\ PeakCovers(r)
  BY <1>1, <1>2, <1>3 DEF Consistent, Windowed, PeakCovers
<1>7. OwnersReal(r)
  BY <1>1, <1>3, <1>4 DEF Consistent, OwnersReal
<1>8. GensBounded(r)
  <2>1. \A x \in Handles : r.tensors[x].lastWriteGen <= r.encodeGen
    BY <1>1, <1>2, <1>3 DEF Consistent, GensBounded
  <2>2. \A x \in Buffers : r.lastUseGen[x] <= r.encodeGen
    BY <1>1, <1>2, <1>3 DEF Consistent, GensBounded
  <2>. QED  BY <1>2, <1>3, <2>1, <2>2 DEF Consistent, GensBounded
<1>9. Stamped(r)
  <2>1. SUFFICES ASSUME NEW c \in DOMAIN s.commands,
                        NEW d \in Touches(s.commands[c])
                 PROVE  /\ \A x \in Live(r) : r.tensors[x].buffer = d =>
                                r.lastUseGen[d] = r.encodeGen
                        /\ \A k \in Keys : \A i \in DOMAIN r.pool[k] :
                                r.pool[k][i].buffer = d => r.pool[k][i].gen = r.encodeGen
    BY <1>2 DEF Stamped
  <2>2. d # b
    BY DEF InFlight
  <2>3. \A x \in Live(s) : s.tensors[x].buffer = d => s.lastUseGen[d] = s.encodeGen
    BY <1>3 DEF Consistent, Stamped
  <2>4. r.lastUseGen[d] = s.lastUseGen[d]
    BY <1>2, <1>3, <2>2
  <2>5. \A x \in Live(r) : r.tensors[x].buffer = d => r.lastUseGen[d] = r.encodeGen
    BY <1>1, <1>2, <1>4, <2>2, <2>3, <2>4
  <2>6. \A k \in Keys : \A i \in DOMAIN s.pool[k] :
            s.pool[k][i].buffer = d => s.pool[k][i].gen = s.encodeGen
    BY <1>3 DEF Consistent, Stamped
  <2>7. \A k \in Keys : \A i \in DOMAIN r.pool[k] :
            r.pool[k][i].buffer = d => r.pool[k][i].gen = r.encodeGen
    BY <1>2, <2>6
  <2>. QED  BY <2>5, <2>7
<1>10. PendingIsWritten(r)
  BY <1>1, <1>2, <1>3, <1>4, <1>5 DEF Consistent, PendingIsWritten
<1>11. Exclusive(r)
  BY <1>1, <1>2, <1>3, <1>4 DEF Consistent, Exclusive
<1>12. Consistent(r)
  BY <1>6, <1>7, <1>8, <1>9, <1>10, <1>11 DEF Consistent
<1>. QED  BY <1>2, <1>12 DEF Good, r


LEMMA PoolHitFields ==
    ASSUME NEW s, IsState(s), NEW k \in Keys, Ready(s, k) # {}
    PROVE  LET r == PoolHit(s, k)
               q == RemoveAt(s.pool[k], FirstReady(s, k))
           IN  /\ IsState(r)
               /\ q \in Seq(Entry)
               /\ r.pool = [s.pool EXCEPT ![k] = q]
               /\ r.liveBytes = s.liveBytes + k /\ r.pooledBytes = s.pooledBytes - k
               /\ r.tensors = s.tensors /\ r.lastUseGen = s.lastUseGen
               /\ r.commands = s.commands /\ r.encodeGen = s.encodeGen
               /\ r.completedGen = s.completedGen /\ r.memBudget = s.memBudget
               /\ r.peakDeviceBytes = s.peakDeviceBytes /\ r.contents = s.contents
               /\ r.status = s.status /\ r.guardHeld = s.guardHeld
<1>. DEFINE r == PoolHit(s, k)
            q == RemoveAt(s.pool[k], FirstReady(s, k))
            e == [s.pool EXCEPT ![k] = q]
<1>1. /\ s.pool \in [Keys -> Seq(Entry)] /\ s.pool[k] \in Seq(Entry) /\ k \in Int
      /\ s.liveBytes \in Int /\ s.pooledBytes \in Int
  BY KeysAreNat DEF IsState
<1>2. q \in Seq(Entry)
  BY <1>1, FirstReadyIsReady, RemoveAtProperties
<1>. HIDE DEF q
<1>3. e \in [Keys -> Seq(Entry)]
  BY <1>1, <1>2
<1>4. r = [s EXCEPT !.pool = e, !.pooledBytes = s.pooledBytes - k,
                    !.liveBytes = s.liveBytes + k]
  BY <1>1 DEF PoolHit, IsState, q
<1>5. s.pooledBytes - k \in Int /\ s.liveBytes + k \in Int
  BY <1>1
<1>. HIDE DEF e, r
<1>6. IsState(r)
  BY <1>1, <1>3, <1>4, <1>5 DEF IsState
<1>7. r.pool = e
  BY <1>1, <1>4 DEF IsState
<1>8. /\ r.liveBytes = s.liveBytes + k /\ r.pooledBytes = s.pooledBytes - k
      /\ r.tensors = s.tensors /\ r.lastUseGen = s.lastUseGen
      /\ r.commands = s.commands /\ r.encodeGen = s.encodeGen
      /\ r.completedGen = s.completedGen /\ r.memBudget = s.memBudget
      /\ r.peakDeviceBytes = s.peakDeviceBytes /\ r.contents = s.contents
      /\ r.status = s.status /\ r.guardHeld = s.guardHeld
  BY <1>4 DEF IsState
<1>. QED  BY <1>2, <1>6, <1>7, <1>8 DEF e, q, r

(* A pool hit takes out an entry that nobody owns any more.                  *)
LEMMA PoolHitGood ==
    ASSUME NEW s, Good(s), s.status = "running",
           NEW k \in Keys, Ready(s, k) # {}
    PROVE  LET r == PoolHit(s, k)
               b == s.pool[k][FirstReady(s, k)].buffer
           IN  /\ Good(r) /\ r.status = "running"
               /\ r.tensors = s.tensors /\ r.commands = s.commands
               /\ r.liveBytes + r.pooledBytes = s.liveBytes + s.pooledBytes
               /\ b \in Buffers
               /\ b \notin InFlight(s)
               /\ \A x \in Live(s) : s.tensors[x].buffer # b
               /\ \A l \in Keys : \A i \in DOMAIN r.pool[l] : r.pool[l][i].buffer # b
<1>. DEFINE r == PoolHit(s, k)
            f == FirstReady(s, k)
            b == s.pool[k][f].buffer
            q == RemoveAt(s.pool[k], f)
<1>1. /\ IsState(s) /\ Consistent(s) /\ s.pool \in [Keys -> Seq(Entry)]
      /\ s.pool[k] \in Seq(Entry) /\ k \in Int
      /\ s.liveBytes \in Int /\ s.pooledBytes \in Int
  BY KeysAreNat DEF Good, IsState
<1>2. /\ f \in DOMAIN s.pool[k] /\ s.pool[k][f].gen <= s.completedGen
      /\ s.pool[k][f] \in Entry
  BY <1>1, FirstReadyIsReady
<1>3. /\ q \in Seq(Entry)
      /\ \A j \in DOMAIN q : LET m == IF j < f THEN j ELSE j + 1
                             IN  m \in DOMAIN s.pool[k] /\ m # f /\ q[j] = s.pool[k][m]
  BY <1>1, <1>2, RemoveAtProperties
<1>. HIDE DEF q
<1>4. /\ IsState(r)
      /\ r.pool = [s.pool EXCEPT ![k] = q]
      /\ r.liveBytes = s.liveBytes + k /\ r.pooledBytes = s.pooledBytes - k
      /\ r.tensors = s.tensors /\ r.lastUseGen = s.lastUseGen
      /\ r.commands = s.commands /\ r.encodeGen = s.encodeGen
      /\ r.completedGen = s.completedGen
      /\ r.peakDeviceBytes = s.peakDeviceBytes /\ r.contents = s.contents
      /\ r.status = s.status /\ r.guardHeld = s.guardHeld
  BY <1>1, PoolHitFields DEF q
<1>. HIDE DEF r, f
<1>5. b \in Buffers /\ b \notin InFlight(s)
  BY <1>1, <1>2, ReadyIsIdle DEF Entry
<1>6. \A x \in Live(s) : s.tensors[x].buffer # b
  BY <1>1, <1>2 DEF Consistent, Exclusive
(* Every entry left was an entry before, at a place that is not f.           *)
<1>7. ASSUME NEW l \in Keys, NEW i \in DOMAIN r.pool[l]
      PROVE  \E m \in DOMAIN s.pool[l] :
                /\ r.pool[l][i] = s.pool[l][m]
                /\ l = k => m # f /\ m = IF i < f THEN i ELSE i + 1
                /\ l # k => m = i
  <2>1. CASE l = k
    <3>1. r.pool[l] = q
      BY <1>1, <1>4, <2>1
    <3>. QED  BY <1>3, <2>1, <3>1
  <2>2. CASE l # k
    BY <1>1, <1>4, <2>2
  <2>. QED  BY <2>1, <2>2
<1>8. ASSUME NEW l \in Keys, NEW i \in DOMAIN r.pool[l]
      PROVE  r.pool[l][i].buffer # b
  <2>1. PICK m \in DOMAIN s.pool[l] : r.pool[l][i] = s.pool[l][m] /\ (l = k => m # f)
    BY <1>7
  <2>. QED  BY <1>1, <1>2, <2>1 DEF Consistent, Exclusive
<1>9. Live(r) = Live(s) /\ Written(r) = Written(s)
  BY <1>4 DEF Live, Written
<1>10. Windowed(r) /\ OwnersReal(r) /\ PeakCovers(r) /\ PendingIsWritten(r)
  BY <1>1, <1>4, <1>9 DEF Consistent, Windowed, OwnersReal, PeakCovers, PendingIsWritten
<1>11. GensBounded(r)
  <2>1. ASSUME NEW l \in Keys, NEW i \in DOMAIN r.pool[l]
        PROVE  r.pool[l][i].gen <= r.encodeGen
    <3>1. PICK m \in DOMAIN s.pool[l] : r.pool[l][i] = s.pool[l][m]
      BY <1>7
    <3>. QED  BY <1>1, <1>4, <3>1 DEF Consistent, GensBounded
  <2>. QED  BY <1>1, <1>4, <2>1 DEF Consistent, GensBounded
<1>12. Stamped(r)
  <2>1. SUFFICES ASSUME NEW c \in DOMAIN s.commands, NEW d \in Touches(s.commands[c])
                 PROVE  /\ \A x \in Live(s) : s.tensors[x].buffer = d =>
                                s.lastUseGen[d] = s.encodeGen
                        /\ \A l \in Keys : \A i \in DOMAIN r.pool[l] :
                                r.pool[l][i].buffer = d => r.pool[l][i].gen = s.encodeGen
    BY <1>4, <1>9 DEF Stamped
  <2>2. ASSUME NEW l \in Keys, NEW i \in DOMAIN r.pool[l], r.pool[l][i].buffer = d
        PROVE  r.pool[l][i].gen = s.encodeGen
    <3>1. PICK m \in DOMAIN s.pool[l] : r.pool[l][i] = s.pool[l][m]
      BY <1>7
    <3>2. s.pool[l][m].buffer = d => s.pool[l][m].gen = s.encodeGen
      BY <1>1 DEF Consistent, Stamped
    <3>. QED  BY <2>2, <3>1, <3>2
  <2>. QED  BY <1>1, <2>2 DEF Consistent, Stamped
<1>13. Exclusive(r)
  <2>1. ASSUME NEW x \in Live(r), NEW l \in Keys, NEW i \in DOMAIN r.pool[l]
        PROVE  r.pool[l][i].buffer # r.tensors[x].buffer
    <3>1. PICK m \in DOMAIN s.pool[l] : r.pool[l][i] = s.pool[l][m]
      BY <1>7
    <3>. QED  BY <1>1, <1>4, <1>9, <3>1 DEF Consistent, Exclusive
  <2>2. ASSUME NEW l \in Keys, NEW o \in Keys,
               NEW i \in DOMAIN r.pool[l], NEW j \in DOMAIN r.pool[o],
               r.pool[l][i].buffer = r.pool[o][j].buffer
        PROVE  l = o /\ i = j
    <3>1. PICK m \in DOMAIN s.pool[l] :
                /\ r.pool[l][i] = s.pool[l][m]
                /\ l = k => m # f /\ m = IF i < f THEN i ELSE i + 1
                /\ l # k => m = i
      BY <1>7
    <3>2. PICK p \in DOMAIN s.pool[o] :
                /\ r.pool[o][j] = s.pool[o][p]
                /\ o = k => p # f /\ p = IF j < f THEN j ELSE j + 1
                /\ o # k => p = j
      BY <1>7
    <3>3. l = o /\ m = p
      <4>1. s.pool[l][m].buffer = s.pool[o][p].buffer => l = o /\ m = p
        BY <1>1 DEF Consistent, Exclusive
      <4>. QED  BY <2>2, <3>1, <3>2, <4>1
    <3>4. CASE l # k
      BY <3>1, <3>2, <3>3, <3>4
    <3>5. CASE l = k
      <4>1. i \in Int /\ j \in Int /\ f \in Int
        <5>1. s.pool[k] \in Seq(Entry) /\ f \in DOMAIN s.pool[k] /\ r.pool[k] \in Seq(Entry)
          BY <1>1, <1>2, <1>3, <1>4
        <5>2. i \in DOMAIN r.pool[k] /\ j \in DOMAIN r.pool[k]
          BY <3>3, <3>5
        <5>. QED  BY <5>1, <5>2
      <4>. QED  BY <3>1, <3>2, <3>3, <3>5, <4>1
    <3>. QED  BY <3>4, <3>5
  <2>. QED  BY <1>1, <1>4, <1>9, <2>1, <2>2 DEF Consistent, Exclusive
<1>14. Good(r)
  BY <1>4, <1>10, <1>11, <1>12, <1>13 DEF Good, Consistent
<1>. QED  BY <1>1, <1>4, <1>5, <1>6, <1>8, <1>14 DEF r, f


LEMMA NewBufferFields ==
    ASSUME NEW s, IsState(s), NEW k \in Keys, NEW b \in Buffers
    PROVE  LET r == NewBuffer(s, k, b)
           IN  /\ IsState(r) /\ SameHeap(r, s)
               /\ r.liveBytes = s.liveBytes + k /\ r.pooledBytes = s.pooledBytes
               /\ r.peakDeviceBytes >= s.peakDeviceBytes
               /\ r.peakDeviceBytes >= r.liveBytes + r.pooledBytes
               /\ r.contents = [s.contents EXCEPT ![b] = Zero]
               /\ r.memBudget = s.memBudget
               /\ r.status = s.status /\ r.guardHeld = s.guardHeld
<1>1. /\ k \in Int /\ s.liveBytes \in Int /\ s.pooledBytes \in Int
      /\ s.peakDeviceBytes \in Int
  BY KeysAreNat DEF IsState
<1>. DEFINE total == s.liveBytes + k + s.pooledBytes
            peak == IF total > s.peakDeviceBytes THEN total ELSE s.peakDeviceBytes
            mem == [s.contents EXCEPT ![b] = Zero]
            r == [s EXCEPT !.contents = mem, !.liveBytes = s.liveBytes + k,
                           !.peakDeviceBytes = peak]
<1>2. NewBuffer(s, k, b) = r
  BY DEF NewBuffer, IsState
<1>3. peak \in Int /\ peak >= total /\ peak >= s.peakDeviceBytes /\ s.liveBytes + k \in Int
  BY <1>1
<1>. HIDE DEF peak, mem
<1>4. IsState(r)
  BY <1>3 DEF IsState
<1>5. /\ SameHeap(r, s) /\ r.liveBytes = s.liveBytes + k
      /\ r.pooledBytes = s.pooledBytes /\ r.peakDeviceBytes = peak
      /\ r.contents = mem /\ r.memBudget = s.memBudget
      /\ r.status = s.status /\ r.guardHeld = s.guardHeld
  BY DEF IsState, SameHeap
<1>. HIDE DEF r
<1>. QED  BY <1>1, <1>2, <1>3, <1>4, <1>5 DEF mem

LEMMA NewBufferGood ==
    ASSUME NEW s, Good(s), NEW k \in Keys, NEW b \in Buffers
    PROVE  Good(NewBuffer(s, k, b))
<1>1. IsState(s)
  BY DEF Good
<1>. DEFINE r == NewBuffer(s, k, b)
<1>2. /\ IsState(r) /\ SameHeap(r, s)
      /\ r.peakDeviceBytes >= r.liveBytes + r.pooledBytes
      /\ r.contents = [s.contents EXCEPT ![b] = Zero]
      /\ r.status = s.status /\ r.guardHeld = s.guardHeld
  BY <1>1, NewBufferFields
<1>. HIDE DEF r
<1>3. PeakCovers(r)
  BY <1>2 DEF PeakCovers
<1>. QED  BY <1>2, <1>3, SameHeapConsistent DEF Good, r

(* The allocator: the new tensor is the only owner of its buffer, and the    *)
(* other tensors are as they were.                                           *)
LEMMA AllocTensorGood ==
    ASSUME NEW s, Good(s), NEW h \in Handles, h \notin Live(s), NEW n \in Lens,
           NEW b \in Draws(s, Key(n))
    PROVE  LET a == AllocTensor(s, h, n, b)
           IN  /\ Good(a)
               /\ a.tensors[h] = Boxed(n, b)
               /\ \A x \in Handles \ {h} : a.tensors[x] = s.tensors[x]
               /\ b \in Buffers
               /\ a.status = "running" =>
                    /\ s.status = "running"
                    /\ \A x \in Live(s) : s.tensors[x].buffer # b
               /\ a.status = Valve(s, Key(n)).status
<1>. DEFINE k == Key(n)
            r == Valve(s, k)
            p == IF Ready(r, k) # {} THEN PoolHit(r, k) ELSE NewBuffer(r, k, b)
            a == NewTensor(p, h, n, b)
<1>1. a = AllocTensor(s, h, n, b)
  BY DEF AllocTensor
<1>2. k \in Keys
  BY KeyInKeys
<1>3. /\ Good(r) /\ r.tensors = s.tensors /\ r.pool = s.pool
      /\ r.status = "running" => s.status = "running"
  BY <1>2, ValveKeeps
<1>4. Live(r) = Live(s)
  BY <1>3 DEF Live
<1>. HIDE DEF k, r
<1>5. b \in Buffers
  <2>1. CASE r.status # "running"
    BY <2>1 DEF Draws, k, r
  <2>2. CASE r.status = "running" /\ Ready(r, k) # {}
    <3>1. b = r.pool[k][FirstReady(r, k)].buffer
      BY <2>2 DEF Draws, k, r
    <3>. QED  BY <1>2, <1>3, <2>2, <3>1, FirstReadyIsReady DEF Good, Entry
  <2>3. CASE r.status = "running" /\ Ready(r, k) = {}
    BY <2>3 DEF Draws, Unowned, k, r
  <2>. QED  BY <2>1, <2>2, <2>3
<1>6. /\ IsState(p) /\ DOMAIN p.contents = Buffers /\ ~p.guardHeld
      /\ p.status = r.status /\ p.tensors = r.tensors
  <2>0. IsState(r) /\ DOMAIN r.contents = Buffers /\ ~r.guardHeld
    BY <1>3 DEF Good
  <2>1. CASE Ready(r, k) # {}
    <3>1. p = PoolHit(r, k)
      BY <2>1
    <3>2. LET x == PoolHit(r, k)
          IN  /\ IsState(x) /\ x.contents = r.contents /\ x.status = r.status
              /\ x.tensors = r.tensors /\ x.guardHeld = r.guardHeld
      BY <1>2, <2>0, <2>1, PoolHitFields
    <3>. HIDE DEF p
    <3>. QED  BY <2>0, <3>1, <3>2
  <2>2. CASE Ready(r, k) = {}
    <3>1. p = NewBuffer(r, k, b)
      BY <2>2
    <3>2. LET x == NewBuffer(r, k, b)
          IN  /\ IsState(x) /\ x.contents = [r.contents EXCEPT ![b] = Zero]
              /\ x.status = r.status
              /\ x.tensors = r.tensors /\ x.guardHeld = r.guardHeld
      BY <1>2, <1>5, <2>0, NewBufferFields DEF SameHeap
    <3>. HIDE DEF p
    <3>. QED  BY <2>0, <3>1, <3>2
  <2>. QED  BY <2>1, <2>2
<1>7. ASSUME r.status = "running"
      PROVE  /\ Good(p)
             /\ \A x \in Live(p) : p.tensors[x].buffer # b
             /\ \A l \in Keys : \A i \in DOMAIN p.pool[l] : p.pool[l][i].buffer # b
             /\ b \notin InFlight(p)
  <2>1. CASE Ready(r, k) # {}
    <3>1. b = r.pool[k][FirstReady(r, k)].buffer
      BY <1>7, <2>1 DEF Draws, k, r
    <3>2. p = PoolHit(r, k)
      BY <2>1
    <3>3. Live(p) = Live(r) /\ InFlight(p) = InFlight(r)
      BY <1>2, <1>3, <1>7, <2>1, <3>2, PoolHitGood DEF Live, InFlight
    <3>. QED  BY <1>2, <1>3, <1>6, <1>7, <2>1, <3>1, <3>2, <3>3, PoolHitGood
  <2>2. CASE Ready(r, k) = {}
    <3>1. b \in Unowned(r)
      BY <1>7, <2>2 DEF Draws, k, r
    <3>2. p = NewBuffer(r, k, b)
      BY <2>2
    <3>3. p.tensors = r.tensors /\ p.pool = r.pool /\ p.commands = r.commands
      <4>1. IsState(r)
        BY <1>3 DEF Good
      <4>. HIDE DEF p
      <4>. QED  BY <1>2, <1>5, <3>2, <4>1, NewBufferFields DEF SameHeap
    <3>4. Live(p) = Live(r) /\ InFlight(p) = InFlight(r)
      BY <3>3 DEF Live, InFlight
    <3>5. \A x \in Live(p) : p.tensors[x].buffer # b
      BY <3>1, <3>3, <3>4 DEF Unowned, Attached
    <3>6. \A l \in Keys : \A i \in DOMAIN p.pool[l] : p.pool[l][i].buffer # b
      BY <3>1, <3>3 DEF Unowned, Pooled, Entries
    <3>7. b \notin InFlight(p)
      BY <3>1, <3>4 DEF Unowned
    <3>8. Good(p)
      BY <1>2, <1>3, <1>5, <3>2, NewBufferGood
    <3>. QED  BY <3>5, <3>6, <3>7, <3>8
  <2>. QED  BY <2>1, <2>2
<1>. HIDE DEF p
<1>8. Live(p) = Live(s)
  BY <1>4, <1>6 DEF Live
<1>10. /\ IsState(a) /\ a.contents = p.contents /\ a.guardHeld = p.guardHeld
       /\ a.status = r.status
       /\ a.tensors = [s.tensors EXCEPT ![h] = Boxed(n, b)]
  <2>1. /\ IsState(a) /\ a.contents = p.contents /\ a.guardHeld = p.guardHeld
        /\ a.status = p.status /\ a.tensors = [p.tensors EXCEPT ![h] = Boxed(n, b)]
    <3>1. IsState(p)
      BY <1>6
    <3>2. LET x == NewTensor(p, h, n, b)
          IN  /\ IsState(x) /\ x.contents = p.contents /\ x.guardHeld = p.guardHeld
              /\ x.status = p.status
      BY <1>5, <3>1, NewTensorFields
    <3>3. NewTensor(p, h, n, b).tensors = [p.tensors EXCEPT ![h] = Boxed(n, b)]
      BY <3>1 DEF NewTensor, IsState
    <3>. QED  BY <3>2, <3>3
  <2>. HIDE DEF a
  <2>. QED  BY <1>3, <1>6, <2>1
<1>9. Good(a)
  <2>1. CASE r.status = "running"
    BY <1>5, <1>6, <1>7, <1>8, <2>1, NewTensorGood
  <2>2. CASE r.status # "running"
    <3>1. r.status # "deadlocked"
      BY <1>3 DEF Good
    <3>. QED  BY <1>6, <1>10, <2>2, <3>1 DEF Good
  <2>. QED  BY <2>1, <2>2
<1>12. r.status = "running" => \A x \in Live(s) : s.tensors[x].buffer # b
  BY <1>3, <1>6, <1>7, <1>8
<1>. HIDE DEF a
<1>13. /\ a.tensors[h] = Boxed(n, b)
       /\ \A x \in Handles \ {h} : a.tensors[x] = s.tensors[x]
  <2>1. s.tensors \in [Handles -> Tensor]
    BY DEF Good, IsState
  <2>. QED  BY <1>10, <2>1
<1>. QED  BY <1>1, <1>3, <1>5, <1>9, <1>10, <1>12, <1>13 DEF k, r

LEMMA AppendFields ==
    ASSUME NEW S, NEW q \in Seq(S), NEW e \in S
    PROVE  /\ Append(q, e) \in Seq(S)
           /\ DOMAIN Append(q, e) = DOMAIN q \cup {Len(q) + 1}
           /\ \A i \in DOMAIN q : Append(q, e)[i] = q[i]
           /\ Append(q, e)[Len(q) + 1] = e
           /\ Append(q, e) # << >>
OBVIOUS

LEMMA CommandIntoFields ==
    ASSUME NEW s, NEW h, s.tensors[h].buffer \in Buffers,
           NEW op \in {"kernel", "fill"}, NEW ins \in Seq(Operand)
    PROVE  LET cmd == CommandInto(s, h, op, ins)
           IN  /\ cmd \in Command
               /\ cmd.out = s.tensors[h].buffer
               /\ cmd.ins = ins
BY DEF CommandInto, Command

(* What the encoded command, the bumped generation and the stamps leave.     *)
LEMMA EncodeFields ==
    ASSUME NEW s, IsState(s), NEW h \in Handles, s.tensors[h].buffer \in Buffers,
           NEW op \in {"kernel", "fill"}, NEW ins \in Seq(Operand)
    PROVE  LET r == UnlockCommandBuffer(Encode(LockCommandBuffer(s), h, op, ins))
               gen == EnsureGen(s)
               cmd == CommandInto(s, h, op, ins)
           IN  /\ IsState(r)
               /\ r.encodeGen = gen
               /\ r.commands = Append(s.commands, cmd)
               /\ r.tensors[h].lastWriteGen = gen
               /\ \A x \in Handles : /\ r.tensors[x].buffer = s.tensors[x].buffer
                                     /\ r.tensors[x].len = s.tensors[x].len
                                     /\ r.tensors[x].refCount = s.tensors[x].refCount
               /\ \A x \in Handles \ {h} : r.tensors[x] = s.tensors[x]
               /\ \A d \in Buffers : r.lastUseGen[d] =
                        IF d \in Touches(cmd) THEN gen ELSE s.lastUseGen[d]
               /\ r.pool = s.pool /\ r.completedGen = s.completedGen
               /\ r.liveBytes = s.liveBytes /\ r.pooledBytes = s.pooledBytes
               /\ r.peakDeviceBytes = s.peakDeviceBytes /\ r.contents = s.contents
               /\ r.status = s.status /\ ~r.guardHeld
<1>. DEFINE gen == EnsureGen(s)
            cmd == CommandInto(s, h, op, ins)
            q == Append(s.commands, cmd)
            t == [s.tensors EXCEPT ![h] = [s.tensors[h] EXCEPT !.lastWriteGen = gen]]
            used == Touches(cmd)
            u == [d \in Buffers |-> IF d \in used THEN gen ELSE s.lastUseGen[d]]
            r == [s EXCEPT !.encodeGen = gen, !.commands = q, !.tensors = t,
                           !.lastUseGen = u, !.guardHeld = FALSE]
<1>1. gen \in Nat
  BY DEF EnsureGen, IsState
<1>2. cmd \in Command
  BY CommandIntoFields
<1>3. s.tensors \in [Handles -> Tensor]
  BY DEF IsState
<1>4. UnlockCommandBuffer(Encode(LockCommandBuffer(s), h, op, ins)) = r
  <2>1. /\ EnsureGen(LockCommandBuffer(s)) = gen
        /\ CommandInto(LockCommandBuffer(s), h, op, ins) = cmd
    BY DEF EnsureGen, CommandInto, LockCommandBuffer, IsState
  <2>. HIDE DEF gen, cmd
  <2>. QED  BY <2>1 DEF UnlockCommandBuffer, Encode, LockCommandBuffer, StampUse, IsState
<1>. HIDE DEF gen, cmd, used
<1>5. q \in Seq(Command)
  BY <1>2 DEF IsState
<1>6. t \in [Handles -> Tensor]
  <2>1. [s.tensors[h] EXCEPT !.lastWriteGen = gen] \in Tensor
    BY <1>1, <1>3 DEF Tensor
  <2>. QED  BY <1>3, <2>1
<1>7. u \in [Buffers -> Nat]
  BY <1>1 DEF IsState
<1>8. /\ t[h].lastWriteGen = gen
      /\ \A x \in Handles : /\ t[x].buffer = s.tensors[x].buffer
                            /\ t[x].len = s.tensors[x].len
                            /\ t[x].refCount = s.tensors[x].refCount
      /\ \A x \in Handles \ {h} : t[x] = s.tensors[x]
  BY <1>3 DEF Tensor
<1>9. \A d \in Buffers : u[d] = IF d \in used THEN gen ELSE s.lastUseGen[d]
  OBVIOUS
<1>. HIDE DEF q, t, u
<1>10. IsState(r)
  BY <1>1, <1>5, <1>6, <1>7 DEF IsState
<1>11. /\ r.encodeGen = gen /\ r.commands = q /\ r.tensors = t /\ r.lastUseGen = u
       /\ r.pool = s.pool /\ r.completedGen = s.completedGen
       /\ r.liveBytes = s.liveBytes /\ r.pooledBytes = s.pooledBytes
       /\ r.peakDeviceBytes = s.peakDeviceBytes /\ r.contents = s.contents
       /\ r.status = s.status /\ ~r.guardHeld
  BY DEF IsState
<1>. HIDE DEF r
<1>. QED  BY <1>4, <1>8, <1>9, <1>10, <1>11 DEF gen, cmd, q, used

(* A command over live tensors only, into a tensor nobody aliases, keeps     *)
(* every promise: what it touches is stamped with the generation it opens    *)
(* or joins.                                                                 *)
LEMMA EncodeGood ==
    ASSUME NEW s, Good(s), s.status = "running",
           NEW h \in Live(s), \A x \in Live(s) \ {h} :
                s.tensors[x].buffer # s.tensors[h].buffer,
           NEW op \in {"kernel", "fill"}, NEW ins \in Seq(Operand),
           \A i \in DOMAIN ins : ins[i].buffer \in Attached(s)
    PROVE  Good(UnlockCommandBuffer(Encode(LockCommandBuffer(s), h, op, ins)))
<1>. DEFINE r == UnlockCommandBuffer(Encode(LockCommandBuffer(s), h, op, ins))
            gen == EnsureGen(s)
            cmd == CommandInto(s, h, op, ins)
            out == s.tensors[h].buffer
            used == Touches(cmd)
<1>1. /\ IsState(s) /\ Consistent(s) /\ DOMAIN s.contents = Buffers
      /\ s.tensors \in [Handles -> Tensor] /\ s.lastUseGen \in [Buffers -> Nat]
      /\ s.commands \in Seq(Command)
      /\ s.encodeGen \in Nat /\ s.completedGen \in Nat
      /\ s.pool \in [Keys -> Seq(Entry)]
  BY DEF Good, IsState
<1>2. h \in Handles /\ out \in Buffers
  BY <1>1 DEF Live, Consistent, OwnersReal
<1>3. /\ IsState(r) /\ r.encodeGen = gen
      /\ r.commands = Append(s.commands, cmd)
      /\ r.pool = s.pool /\ r.completedGen = s.completedGen
      /\ r.liveBytes = s.liveBytes /\ r.pooledBytes = s.pooledBytes
      /\ r.peakDeviceBytes = s.peakDeviceBytes /\ r.contents = s.contents
      /\ r.status = s.status /\ ~r.guardHeld
      /\ r.tensors[h].lastWriteGen = gen
      /\ \A x \in Handles : /\ r.tensors[x].buffer = s.tensors[x].buffer
                            /\ r.tensors[x].len = s.tensors[x].len
                            /\ r.tensors[x].refCount = s.tensors[x].refCount
      /\ \A x \in Handles \ {h} : r.tensors[x] = s.tensors[x]
      /\ \A d \in Buffers : r.lastUseGen[d] =
                IF d \in used THEN gen ELSE s.lastUseGen[d]
  <2>1. IsState(s) /\ h \in Handles /\ s.tensors[h].buffer \in Buffers
    BY <1>1, <1>2
  <2>. QED  BY <2>1, EncodeFields
<1>4. /\ cmd \in Command /\ cmd.out = out
      /\ used = {out} \cup {ins[i].buffer : i \in DOMAIN ins}
  BY <1>2, CommandIntoFields DEF Touches
<1>. HIDE DEF r, cmd, used
<1>5. used \subseteq Attached(s) /\ out \in used
  BY <1>4 DEF Attached
<1>. HIDE DEF out
<1>6. /\ gen \in Nat /\ gen >= s.encodeGen /\ gen = s.completedGen + 1
      /\ s.commands # << >> => gen = s.encodeGen
  BY <1>1 DEF EnsureGen, Consistent, Windowed
<1>. HIDE DEF gen
<1>7. Live(r) = Live(s)
  BY <1>3 DEF Live
<1>8. /\ DOMAIN r.commands = DOMAIN s.commands \cup {Len(s.commands) + 1}
      /\ \A c \in DOMAIN s.commands : r.commands[c] = s.commands[c]
      /\ r.commands[Len(s.commands) + 1] = cmd
      /\ r.commands # << >>
  <2>. DEFINE q == Append(s.commands, cmd)
  <2>1. /\ DOMAIN q = DOMAIN s.commands \cup {Len(s.commands) + 1}
        /\ \A c \in DOMAIN s.commands : q[c] = s.commands[c]
        /\ q[Len(s.commands) + 1] = cmd
        /\ q # << >>
    BY <1>1, <1>4, AppendFields
  <2>. HIDE DEF q
  <2>. QED  BY <1>3, <2>1 DEF q
<1>9. Windowed(r)
  BY <1>3, <1>6, <1>8 DEF Windowed
<1>10. OwnersReal(r)
  BY <1>1, <1>3, <1>7 DEF Consistent, OwnersReal, Live
<1>11. GensBounded(r)
  <2>1. /\ \A x \in Handles : s.tensors[x].lastWriteGen <= s.encodeGen
        /\ \A d \in Buffers : s.lastUseGen[d] <= s.encodeGen
        /\ \A k \in Keys : \A i \in DOMAIN s.pool[k] : s.pool[k][i].gen <= s.encodeGen
    BY <1>1 DEF Consistent, GensBounded
  <2>2. \A x \in Handles : r.tensors[x].lastWriteGen <= gen
    <3>1. ASSUME NEW x \in Handles, x # h PROVE r.tensors[x].lastWriteGen <= gen
      <4>1. s.tensors[x].lastWriteGen \in Nat /\ s.tensors[x].lastWriteGen <= s.encodeGen
        BY <1>1, <2>1 DEF Tensor
      <4>2. r.tensors[x] = s.tensors[x]
        BY <1>3, <3>1
      <4>. QED  BY <1>1, <1>6, <4>1, <4>2
    <3>2. r.tensors[h].lastWriteGen <= gen
      BY <1>3, <1>6
    <3>. QED  BY <3>1, <3>2
  <2>3. \A d \in Buffers : r.lastUseGen[d] <= gen
    BY <1>1, <1>3, <1>6, <2>1
  <2>4. \A k \in Keys : \A i \in DOMAIN s.pool[k] : s.pool[k][i].gen <= gen
    <3>1. ASSUME NEW k \in Keys, NEW i \in DOMAIN s.pool[k] PROVE s.pool[k][i].gen <= gen
      <4>1. s.pool[k][i] \in Entry
        BY <1>1
      <4>2. s.pool[k][i].gen \in Nat /\ s.pool[k][i].gen <= s.encodeGen
        BY <2>1, <4>1 DEF Entry
      <4>. QED  BY <1>1, <1>6, <4>2
    <3>. QED  BY <3>1
  <2>. QED  BY <1>3, <2>2, <2>3, <2>4 DEF GensBounded
<1>12. Stamped(r)
  <2>1. SUFFICES ASSUME NEW c \in DOMAIN r.commands, NEW d \in Touches(r.commands[c])
                 PROVE  /\ \A x \in Live(s) : s.tensors[x].buffer = d =>
                                r.lastUseGen[d] = gen
                        /\ \A k \in Keys : \A i \in DOMAIN s.pool[k] :
                                s.pool[k][i].buffer = d => s.pool[k][i].gen = gen
    <3>1. \A x \in Live(s) : r.tensors[x].buffer = s.tensors[x].buffer
      BY <1>3 DEF Live
    <3>2. r.pool = s.pool /\ r.encodeGen = gen
      BY <1>3
    <3>. QED  BY <1>7, <2>1, <3>1, <3>2 DEF Stamped
  <2>2. CASE c = Len(s.commands) + 1
    <3>1. d \in used
      BY <1>8, <2>2 DEF used
    <3>2. PICK y \in Live(s) : s.tensors[y].buffer = d
      BY <1>5, <3>1 DEF Attached
    <3>3. d \in Buffers
      BY <1>1, <3>2 DEF Consistent, OwnersReal
    <3>4. r.lastUseGen[d] = gen
      BY <1>3, <3>1, <3>3
    <3>5. \A k \in Keys : \A i \in DOMAIN s.pool[k] : s.pool[k][i].buffer # d
      BY <1>1, <3>2 DEF Consistent, Exclusive
    <3>. QED  BY <3>4, <3>5
  <2>3. CASE c \in DOMAIN s.commands
    <3>1. d \in Touches(s.commands[c])
      BY <1>8, <2>3
    <3>2. gen = s.encodeGen
      BY <1>6, <2>3
    <3>3. /\ \A x \in Live(s) : s.tensors[x].buffer = d => s.lastUseGen[d] = gen
          /\ \A k \in Keys : \A i \in DOMAIN s.pool[k] :
                s.pool[k][i].buffer = d => s.pool[k][i].gen = gen
      BY <1>1, <2>3, <3>1, <3>2 DEF Consistent, Stamped
    <3>4. ASSUME NEW x \in Live(s), s.tensors[x].buffer = d
          PROVE  r.lastUseGen[d] = gen
      <4>1. d \in Buffers
        BY <1>1, <3>4 DEF Consistent, OwnersReal
      <4>. QED  BY <1>3, <3>3, <3>4, <4>1
    <3>. QED  BY <3>3, <3>4
  <2>. QED  BY <1>8, <2>2, <2>3
<1>13. PendingIsWritten(r)
  <2>1. Written(r) = Written(s) \cup {out}
    BY <1>4, <1>8 DEF Written
  <2>2. ASSUME NEW x \in Live(s), x # h
        PROVE  r.tensors[x].lastWriteGen > s.completedGen <=>
                    s.tensors[x].buffer \in Written(s) \cup {out}
    <3>1. r.tensors[x] = s.tensors[x] /\ s.tensors[x].buffer # out
      BY <1>3, <2>2 DEF Live, out
    <3>2. s.tensors[x].lastWriteGen > s.completedGen <=> s.tensors[x].buffer \in Written(s)
      BY <1>1 DEF Consistent, PendingIsWritten
    <3>. QED  BY <3>1, <3>2
  <2>3. /\ r.tensors[h].lastWriteGen > s.completedGen
        /\ r.tensors[h].buffer \in Written(s) \cup {out}
    BY <1>1, <1>2, <1>3, <1>6 DEF out
  <2>4. \A x \in Live(s) : r.tensors[x].buffer = s.tensors[x].buffer
    BY <1>3 DEF Live
  <2>. QED  BY <1>3, <1>7, <2>1, <2>2, <2>3, <2>4 DEF PendingIsWritten
<1>14. Exclusive(r)
  <2>1. \A x \in Live(s) : /\ r.tensors[x].buffer = s.tensors[x].buffer
                           /\ r.tensors[x].len = s.tensors[x].len
    BY <1>3 DEF Live
  <2>. QED  BY <1>1, <1>3, <1>7, <2>1 DEF Consistent, Exclusive
<1>15. PeakCovers(r)
  BY <1>1, <1>3 DEF Consistent, PeakCovers
<1>16. Consistent(r)
  BY <1>9, <1>10, <1>11, <1>12, <1>13, <1>14, <1>15 DEF Consistent
<1>. QED  BY <1>1, <1>3, <1>16 DEF Good, r

(* Encoding and releasing the guard, in a state that may have panicked.      *)
LEMMA EncodeAndReleaseGood ==
    ASSUME NEW s, Good(s), NEW h \in Handles, s.tensors[h].buffer \in Buffers,
           NEW op \in {"kernel", "fill"}, NEW ins \in Seq(Operand),
           s.status = "running" =>
                /\ h \in Live(s)
                /\ \A x \in Live(s) \ {h} : s.tensors[x].buffer # s.tensors[h].buffer
                /\ \A i \in DOMAIN ins : ins[i].buffer \in Attached(s)
    PROVE  Good(EncodeAndRelease(s, h, op, ins))
<1>. DEFINE r == UnlockCommandBuffer(Encode(LockCommandBuffer(s), h, op, ins))
<1>1. Good(r)
  <2>1. CASE s.status = "running"
    BY <2>1, EncodeGood
  <2>2. CASE s.status # "running"
    <3>1. /\ IsState(r) /\ r.contents = s.contents
          /\ r.status = s.status /\ ~r.guardHeld
      BY EncodeFields DEF Good
    <3>. QED  BY <2>2, <3>1 DEF Good
  <2>. QED  BY <2>1, <2>2
<1>. QED  BY <1>1, SyncGood DEF EncodeAndRelease

(* What the allocator gives an encode site, and every allocation's caller.   *)
LEMMA Allocated ==
    ASSUME NEW s, Good(s), NEW h \in Handles, h \notin Live(s), NEW n \in Lens,
           NEW b \in Draws(s, Key(n))
    PROVE  LET a == AllocTensor(s, h, n, b)
           IN  /\ Good(a)
               /\ a.tensors[h].buffer = b /\ b \in Buffers
               /\ a.tensors[h].len = n
               /\ a.status = "running" =>
                    /\ h \in Live(a)
                    /\ \A x \in Live(a) \ {h} : a.tensors[x].buffer # a.tensors[h].buffer
                    /\ Attached(s) \subseteq Attached(a)
<1>. DEFINE a == AllocTensor(s, h, n, b)
            t == Boxed(n, b)
<1>1. /\ Good(a)
      /\ a.tensors[h] = t
      /\ \A x \in Handles \ {h} : a.tensors[x] = s.tensors[x]
      /\ b \in Buffers
      /\ a.status = "running" => \A x \in Live(s) : s.tensors[x].buffer # b
  BY AllocTensorGood
<1>2. t.refCount = 1 /\ t.buffer = b /\ t.len = n
  BY <1>1, BoxedFields
<1>. HIDE DEF a, t
<1>3. Live(a) = Live(s) \cup {h}
  BY <1>1, <1>2 DEF Live
<1>4. \A x \in Live(s) : a.tensors[x] = s.tensors[x]
  BY <1>1 DEF Live
<1>. QED  BY <1>1, <1>2, <1>3, <1>4 DEF a, Attached

LEMMA AllocZerosGood ==
    ASSUME NEW s, Good(s), NEW h \in Handles, h \notin Live(s), NEW n \in Lens,
           NEW b \in Draws(s, Key(n))
    PROVE  Good(AllocZeros(s, h, n, b))
<1>1. << >> \in Seq(Operand) /\ DOMAIN << >> = {}
  OBVIOUS
<1>. DEFINE a == AllocTensor(s, h, n, b)
<1>2. /\ Good(a) /\ a.tensors[h].buffer \in Buffers
      /\ a.status = "running" =>
            /\ h \in Live(a)
            /\ \A x \in Live(a) \ {h} : a.tensors[x].buffer # a.tensors[h].buffer
  BY Allocated
<1>3. AllocZeros(s, h, n, b) \in {a, EncodeAndRelease(a, h, "fill", << >>)}
  BY DEF AllocZeros
<1>. HIDE DEF a
<1>4. Good(EncodeAndRelease(a, h, "fill", << >>))
  BY <1>1, <1>2, EncodeAndReleaseGood
<1>. QED  BY <1>2, <1>3, <1>4

LEMMA DispatchGood ==
    ASSUME NEW s, Good(s), NEW h \in Handles, h \notin Live(s), NEW n \in Lens,
           NEW b \in Draws(s, Key(n)), NEW ins \in Seq(Operand),
           \A i \in DOMAIN ins : ins[i].buffer \in Attached(s)
    PROVE  Good(Dispatch(s, h, n, b, ins))
<1>. DEFINE a == AllocTensor(s, h, n, b)
<1>1. /\ Good(a) /\ a.tensors[h].buffer \in Buffers
      /\ a.status = "running" =>
            /\ h \in Live(a)
            /\ \A x \in Live(a) \ {h} : a.tensors[x].buffer # a.tensors[h].buffer
            /\ Attached(s) \subseteq Attached(a)
  BY Allocated
<1>2. Dispatch(s, h, n, b, ins) \in {a, EncodeAndRelease(a, h, "kernel", ins)}
  BY DEF Dispatch
<1>. HIDE DEF a
<1>3. Good(EncodeAndRelease(a, h, "kernel", ins))
  BY <1>1, EncodeAndReleaseGood
<1>. QED  BY <1>1, <1>2, <1>3

-------------------------------------------------------------------------------
(* Calls that encode nothing.                                                *)

LEMMA UploadGood ==
    ASSUME NEW s, Good(s), NEW h \in Handles, s.tensors[h].buffer \in Buffers, NEW v
    PROVE  Good(Upload(s, h, v))
<1>. DEFINE m == [s.contents EXCEPT ![s.tensors[h].buffer] = v]
            r == [s EXCEPT !.contents = m]
<1>1. DOMAIN m = Buffers
  BY DEF Good
<1>. HIDE DEF m
<1>2. /\ IsState(r) /\ SameHeap(r, s) /\ r.contents = m
      /\ r.status = s.status /\ r.guardHeld = s.guardHeld
      /\ r.liveBytes = s.liveBytes /\ r.pooledBytes = s.pooledBytes
      /\ r.peakDeviceBytes = s.peakDeviceBytes
  BY DEF Good, IsState, SameHeap
<1>3. Upload(s, h, v) \in {s, r}
  BY DEF Upload, Good, IsState, m
<1>. HIDE DEF r
<1>4. Good(r)
  BY <1>1, <1>2, SameHeapConsistent DEF Good, Consistent, PeakCovers
<1>. QED  BY <1>3, <1>4

LEMMA AllocDataGood ==
    ASSUME NEW s, Good(s), NEW h \in Handles, h \notin Live(s), NEW n \in Lens,
           NEW b \in Draws(s, Key(n)), NEW v
    PROVE  Good(AllocData(s, h, n, v, b))
BY Allocated, UploadGood DEF AllocData

LEMMA PoolResetGood == ASSUME NEW s, Good(s) PROVE Good(PoolReset(s))
<1>. DEFINE e == [k \in Keys |-> << >>]
            r == [s EXCEPT !.pool = e, !.pooledBytes = 0,
                           !.peakDeviceBytes = s.liveBytes]
<1>1. << >> \in Seq(Entry) /\ DOMAIN << >> = {}
  OBVIOUS
<1>2. \A k \in Keys : DOMAIN e[k] = {}
  BY <1>1
<1>5. e \in [Keys -> Seq(Entry)]
  BY <1>1
<1>6. PoolReset(s) = r
  BY DEF PoolReset
<1>7. IsState(s)
  BY DEF Good
<1>. HIDE DEF e
<1>8. /\ r.pool = e
      /\ r.encodeGen = s.encodeGen /\ r.completedGen = s.completedGen
      /\ r.commands = s.commands /\ r.tensors = s.tensors
      /\ r.lastUseGen = s.lastUseGen /\ r.liveBytes = s.liveBytes
      /\ r.pooledBytes = 0 /\ r.peakDeviceBytes = s.liveBytes
      /\ r.contents = s.contents /\ r.status = s.status /\ r.guardHeld = s.guardHeld
  BY <1>7 DEF IsState
<1>9. IsState(r)
  <2>1. \A p, l \in Int :
            IsState([s EXCEPT !.pool = e, !.pooledBytes = p, !.peakDeviceBytes = l])
    BY <1>5, <1>7 DEF IsState
  <2>2. 0 \in Int /\ s.liveBytes \in Int
    BY <1>7 DEF IsState
  <2>. QED  BY <2>1, <2>2
<1>. HIDE DEF r
<1>3. /\ IsState(r) /\ r.pool = e
      /\ r.encodeGen = s.encodeGen /\ r.completedGen = s.completedGen
      /\ r.commands = s.commands /\ r.tensors = s.tensors
      /\ r.lastUseGen = s.lastUseGen /\ r.liveBytes = s.liveBytes
      /\ r.pooledBytes = 0 /\ r.peakDeviceBytes = s.liveBytes
      /\ r.contents = s.contents /\ r.status = s.status /\ r.guardHeld = s.guardHeld
  BY <1>8, <1>9
<1>4. ASSUME Consistent(s) PROVE Consistent(r)
  <2>1. Live(r) = Live(s) /\ Written(r) = Written(s)
    BY <1>3 DEF Live, Written
  <2>2. Windowed(r) /\ OwnersReal(r) /\ PendingIsWritten(r)
    BY <1>3, <1>4, <2>1 DEF Consistent, Windowed, OwnersReal, PendingIsWritten
  <2>3. GensBounded(r)
    BY <1>2, <1>3, <1>4 DEF Consistent, GensBounded
  <2>4. Stamped(r)
    BY <1>2, <1>3, <1>4, <2>1 DEF Consistent, Stamped
  <2>5. Exclusive(r)
    BY <1>2, <1>3, <1>4, <2>1 DEF Consistent, Exclusive
  <2>6. PeakCovers(r)
    BY <1>3 DEF PeakCovers, Good, IsState
  <2>. QED  BY <2>2, <2>3, <2>4, <2>5, <2>6 DEF Consistent
<1>. QED  BY <1>3, <1>4, <1>6 DEF Good

LEMMA SetBudgetGood ==
    ASSUME NEW s, Good(s), NEW m \in Int
    PROVE  Good([s EXCEPT !.memBudget = m])
<1>. DEFINE r == [s EXCEPT !.memBudget = m]
<1>1. /\ IsState(r) /\ SameHeap(r, s) /\ r.contents = s.contents
      /\ r.status = s.status /\ r.guardHeld = s.guardHeld
      /\ r.liveBytes = s.liveBytes /\ r.pooledBytes = s.pooledBytes
      /\ r.peakDeviceBytes = s.peakDeviceBytes
  BY DEF Good, IsState, SameHeap
<1>. HIDE DEF r
<1>2. Good(r)
  BY <1>1, SameHeapConsistent DEF Good, Consistent, PeakCovers
<1>. QED  BY <1>2 DEF r

LEMMA FaultGood == ASSUME NEW s, Good(s) PROVE Good([s EXCEPT !.gpuError = TRUE])
<1>. DEFINE r == [s EXCEPT !.gpuError = TRUE]
<1>1. /\ IsState(r) /\ SameHeap(r, s) /\ r.contents = s.contents
      /\ r.status = s.status /\ r.guardHeld = s.guardHeld
      /\ r.liveBytes = s.liveBytes /\ r.pooledBytes = s.pooledBytes
      /\ r.peakDeviceBytes = s.peakDeviceBytes
  BY DEF Good, IsState, SameHeap
<1>. HIDE DEF r
<1>2. Good(r)
  BY <1>1, SameHeapConsistent DEF Good, Consistent, PeakCovers
<1>. QED  BY <1>2 DEF r

(* Nothing depends on what the last call answered.                           *)
LEMMA ReplyGood == ASSUME NEW s, Good(s), NEW v PROVE Good([s EXCEPT !.reply = v])
<1>. DEFINE r == [s EXCEPT !.reply = v]
<1>1. /\ IsState(r) /\ SameHeap(r, s) /\ r.contents = s.contents
      /\ r.status = s.status /\ r.guardHeld = s.guardHeld
      /\ r.liveBytes = s.liveBytes /\ r.pooledBytes = s.pooledBytes
      /\ r.peakDeviceBytes = s.peakDeviceBytes
  BY DEF Good, IsState, SameHeap
<1>. HIDE DEF r
<1>2. Good(r)
  BY <1>1, SameHeapConsistent DEF Good, Consistent, PeakCovers
<1>. QED  BY <1>2 DEF r

LEMMA ReadGood == ASSUME NEW s, Good(s), NEW h PROVE Good(ReadContents(FlushIfPending(s, h), h))
BY FlushGood, ReplyGood DEF ReadContents

-------------------------------------------------------------------------------
(* References.                                                               *)

(* Only the references of a tensor that stays live change.                   *)
LEMMA CountGood ==
    ASSUME NEW s, Good(s), s.status = "running", NEW h \in Live(s), NEW n \in Nat, n > 0
    PROVE  Good([s EXCEPT !.tensors[h].refCount = n])
<1>. DEFINE t == [s.tensors EXCEPT ![h] = [s.tensors[h] EXCEPT !.refCount = n]]
            r == [s EXCEPT !.tensors = t]
<1>1. /\ IsState(s) /\ Consistent(s) /\ s.tensors \in [Handles -> Tensor] /\ h \in Handles
      /\ s.tensors[h].refCount > 0
  BY DEF Good, IsState, Live
<1>2. [s EXCEPT !.tensors[h].refCount = n] = r
  BY <1>1
<1>3. t \in [Handles -> Tensor]
  <2>1. [s.tensors[h] EXCEPT !.refCount = n] \in Tensor
    BY <1>1 DEF Tensor
  <2>. QED  BY <1>1, <2>1
<1>4. \A x \in Handles : /\ t[x].buffer = s.tensors[x].buffer
                         /\ t[x].len = s.tensors[x].len
                         /\ t[x].lastWriteGen = s.tensors[x].lastWriteGen
                         /\ t[x].refCount > 0 <=> s.tensors[x].refCount > 0
  BY <1>1 DEF Tensor
<1>. HIDE DEF t
<1>5. /\ IsState(r) /\ r.tensors = t /\ r.pool = s.pool
      /\ r.encodeGen = s.encodeGen /\ r.completedGen = s.completedGen
      /\ r.commands = s.commands /\ r.lastUseGen = s.lastUseGen
      /\ r.liveBytes = s.liveBytes /\ r.pooledBytes = s.pooledBytes
      /\ r.peakDeviceBytes = s.peakDeviceBytes
      /\ r.contents = s.contents /\ r.status = s.status /\ r.guardHeld = s.guardHeld
  BY <1>1, <1>3 DEF IsState
<1>. HIDE DEF r
<1>6. /\ Live(r) = Live(s) /\ Written(r) = Written(s)
      /\ \A x \in Live(s) : /\ r.tensors[x].buffer = s.tensors[x].buffer
                            /\ r.tensors[x].len = s.tensors[x].len
                            /\ r.tensors[x].lastWriteGen = s.tensors[x].lastWriteGen
  BY <1>4, <1>5 DEF Live, Written
<1>7. Windowed(r) /\ OwnersReal(r) /\ PendingIsWritten(r) /\ PeakCovers(r)
  BY <1>1, <1>5, <1>6 DEF Consistent, Windowed, OwnersReal, PendingIsWritten, PeakCovers
<1>8. GensBounded(r)
  BY <1>1, <1>4, <1>5 DEF Consistent, GensBounded
<1>9. Stamped(r)
  BY <1>1, <1>5, <1>6 DEF Consistent, Stamped
<1>10. Exclusive(r)
  BY <1>1, <1>5, <1>6 DEF Consistent, Exclusive
<1>11. Consistent(r)
  BY <1>7, <1>8, <1>9, <1>10 DEF Consistent
<1>. QED  BY <1>2, <1>5, <1>11 DEF Good

(* A reshape alias shares its source's buffer, stamps and write generation.  *)
LEMMA ReshapeGood ==
    ASSUME NEW s, Good(s), s.status = "running",
           NEW h \in Handles, h \notin Live(s), NEW x \in Live(s)
    PROVE  Good(Reshape(s, h, x))
<1>. DEFINE o == [s.tensors[x] EXCEPT !.refCount = 1]
            t == [s.tensors EXCEPT ![h] = o]
            r == [s EXCEPT !.tensors = t]
<1>1. /\ IsState(s) /\ Consistent(s) /\ s.tensors \in [Handles -> Tensor]
      /\ x \in Handles /\ x # h
  BY DEF Good, IsState, Live
<1>2. Reshape(s, h, x) = r
  BY DEF Reshape
<1>3. /\ o \in Tensor /\ o.buffer = s.tensors[x].buffer /\ o.len = s.tensors[x].len
      /\ o.refCount = 1 /\ o.lastWriteGen = s.tensors[x].lastWriteGen
  BY <1>1 DEF Tensor
<1>. HIDE DEF o
<1>4. /\ t \in [Handles -> Tensor] /\ t[h] = o
      /\ \A y \in Handles \ {h} : t[y] = s.tensors[y]
  BY <1>1, <1>3
<1>. HIDE DEF t
<1>5. /\ IsState(r) /\ r.tensors = t /\ r.pool = s.pool
      /\ r.encodeGen = s.encodeGen /\ r.completedGen = s.completedGen
      /\ r.commands = s.commands /\ r.lastUseGen = s.lastUseGen
      /\ r.liveBytes = s.liveBytes /\ r.pooledBytes = s.pooledBytes
      /\ r.peakDeviceBytes = s.peakDeviceBytes
      /\ r.contents = s.contents /\ r.status = s.status /\ r.guardHeld = s.guardHeld
  BY <1>1, <1>4 DEF IsState
<1>. HIDE DEF r
(* Every live tensor of r is, in what matters, a live tensor of s.           *)
<1>6. /\ Written(r) = Written(s)
      /\ \A y \in Live(r) : \E z \in Live(s) :
            /\ r.tensors[y].buffer = s.tensors[z].buffer
            /\ r.tensors[y].len = s.tensors[z].len
            /\ r.tensors[y].lastWriteGen = s.tensors[z].lastWriteGen
  <2>1. Live(r) = Live(s) \cup {h}
    BY <1>3, <1>4, <1>5 DEF Live
  <2>2. \A y \in Live(s) : r.tensors[y] = s.tensors[y]
    BY <1>4, <1>5 DEF Live
  <2>3. r.tensors[h] = o
    BY <1>4, <1>5
  <2>4. Written(r) = Written(s)
    BY <1>5 DEF Written
  <2>. QED  BY <1>3, <2>1, <2>2, <2>3, <2>4
<1>7. Windowed(r) /\ OwnersReal(r) /\ PendingIsWritten(r) /\ PeakCovers(r)
  BY <1>1, <1>5, <1>6 DEF Consistent, Windowed, OwnersReal, PendingIsWritten, PeakCovers
<1>8. GensBounded(r)
  BY <1>1, <1>3, <1>4, <1>5 DEF Consistent, GensBounded
<1>9. Stamped(r)
  BY <1>1, <1>5, <1>6 DEF Consistent, Stamped
<1>10. Exclusive(r)
  BY <1>1, <1>5, <1>6 DEF Consistent, Exclusive
<1>11. Consistent(r)
  BY <1>7, <1>8, <1>9, <1>10 DEF Consistent
<1>. QED  BY <1>2, <1>5, <1>11 DEF Good

LEMMA DeadFields ==
    Dead \in Tensor /\ Dead.refCount = 0 /\ Dead.lastWriteGen = 0
BY DEF Dead, Tensor

(* The release of a tensor whose buffer another alias keeps.                 *)
LEMMA DropGood ==
    ASSUME NEW s, Good(s), s.status = "running", NEW h \in Live(s)
    PROVE  Good([s EXCEPT !.tensors[h] = Dead])
<1>. DEFINE t == [s.tensors EXCEPT ![h] = Dead]
            r == [s EXCEPT !.tensors = t]
<1>1. /\ IsState(s) /\ Consistent(s) /\ s.tensors \in [Handles -> Tensor]
      /\ h \in Handles /\ s.encodeGen \in Nat
  BY DEF Good, IsState, Live
<1>2. [s EXCEPT !.tensors[h] = Dead] = r
  OBVIOUS
<1>3. /\ t \in [Handles -> Tensor] /\ t[h] = Dead
      /\ \A y \in Handles \ {h} : t[y] = s.tensors[y]
  BY <1>1, DeadFields
<1>. HIDE DEF t
<1>4. /\ IsState(r) /\ r.tensors = t /\ r.pool = s.pool
      /\ r.encodeGen = s.encodeGen /\ r.completedGen = s.completedGen
      /\ r.commands = s.commands /\ r.lastUseGen = s.lastUseGen
      /\ r.liveBytes = s.liveBytes /\ r.pooledBytes = s.pooledBytes
      /\ r.peakDeviceBytes = s.peakDeviceBytes
      /\ r.contents = s.contents /\ r.status = s.status /\ r.guardHeld = s.guardHeld
  BY <1>1, <1>3 DEF IsState
<1>. HIDE DEF r
<1>5. /\ Live(r) = Live(s) \ {h} /\ Written(r) = Written(s)
      /\ \A y \in Live(r) : r.tensors[y] = s.tensors[y]
  BY <1>3, <1>4, DeadFields DEF Live, Written
<1>6. Windowed(r) /\ OwnersReal(r) /\ PendingIsWritten(r) /\ PeakCovers(r)
  BY <1>1, <1>4, <1>5 DEF Consistent, Windowed, OwnersReal, PendingIsWritten, PeakCovers
<1>7. GensBounded(r)
  BY <1>1, <1>3, <1>4, DeadFields DEF Consistent, GensBounded
<1>8. Stamped(r)
  BY <1>1, <1>4, <1>5 DEF Consistent, Stamped
<1>9. Exclusive(r)
  BY <1>1, <1>4, <1>5 DEF Consistent, Exclusive
<1>10. Consistent(r)
  BY <1>6, <1>7, <1>8, <1>9 DEF Consistent
<1>. QED  BY <1>2, <1>4, <1>10 DEF Good

LEMMA RecycleFields ==
    ASSUME NEW s, IsState(s), NEW h \in Handles,
           s.tensors[h].buffer \in Buffers, s.tensors[h].len \in Lens
    PROVE  LET r == Recycle(s, h)
               k == Key(s.tensors[h].len)
               q == s.pool[k]
               g == s.lastUseGen[s.tensors[h].buffer]
           IN  /\ IsState(r)
               /\ r.tensors[h] = Dead
               /\ \A y \in Handles \ {h} : r.tensors[y] = s.tensors[y]
               /\ DOMAIN r.pool[k] = DOMAIN q \cup {Len(q) + 1}
               /\ \A i \in DOMAIN q : r.pool[k][i] = q[i]
               /\ r.pool[k][Len(q) + 1].gen = g
               /\ r.pool[k][Len(q) + 1].buffer = s.tensors[h].buffer
               /\ \A l \in Keys \ {k} : r.pool[l] = s.pool[l]
               /\ r.liveBytes + r.pooledBytes = s.liveBytes + s.pooledBytes
               /\ r.encodeGen = s.encodeGen /\ r.completedGen = s.completedGen
               /\ r.commands = s.commands /\ r.lastUseGen = s.lastUseGen
               /\ r.peakDeviceBytes = s.peakDeviceBytes
               /\ r.contents = s.contents /\ r.status = s.status
               /\ r.guardHeld = s.guardHeld
<1>. DEFINE k == Key(s.tensors[h].len)
            b == s.tensors[h].buffer
            e == [gen |-> s.lastUseGen[b], buffer |-> b]
            q == Append(s.pool[k], e)
            t == [s.tensors EXCEPT ![h] = Dead]
            d == [s.pool EXCEPT ![k] = q]
            r == [s EXCEPT !.tensors = t, !.liveBytes = s.liveBytes - k,
                           !.pooledBytes = s.pooledBytes + k, !.pool = d]
<1>1. /\ s.tensors \in [Handles -> Tensor] /\ s.pool \in [Keys -> Seq(Entry)]
      /\ s.lastUseGen \in [Buffers -> Nat]
      /\ s.liveBytes \in Int /\ s.pooledBytes \in Int
  BY DEF IsState
<1>2. k \in Keys /\ k \in Int /\ s.pool[k] \in Seq(Entry)
  <2>1. k \in Keys
    BY KeyInKeys
  <2>. HIDE DEF k
  <2>. QED  BY <1>1, <2>1, KeysAreNat
<1>3. e \in Entry /\ e.gen = s.lastUseGen[b] /\ e.buffer = b
  BY <1>1 DEF Entry
<1>4. Recycle(s, h) = r
  BY DEF Recycle, IsState
<1>. HIDE DEF e
<1>5. /\ q \in Seq(Entry)
      /\ DOMAIN q = DOMAIN s.pool[k] \cup {Len(s.pool[k]) + 1}
      /\ \A i \in DOMAIN s.pool[k] : q[i] = s.pool[k][i]
      /\ q[Len(s.pool[k]) + 1] = e
  <2>. DEFINE z == s.pool[k]
  <2>1. z \in Seq(Entry) /\ e \in Entry /\ q = Append(z, e)
    BY <1>2, <1>3
  <2>. HIDE DEF z, q
  <2>2. /\ q \in Seq(Entry) /\ DOMAIN q = DOMAIN z \cup {Len(z) + 1}
        /\ \A i \in DOMAIN z : q[i] = z[i]
        /\ q[Len(z) + 1] = e
    BY <2>1, AppendFields
  <2>. QED  BY <2>2 DEF z
<1>. HIDE DEF q, k, b
<1>6. /\ d \in [Keys -> Seq(Entry)] /\ d[k] = q
      /\ \A l \in Keys \ {k} : d[l] = s.pool[l]
  BY <1>1, <1>2, <1>5
<1>7. /\ t \in [Handles -> Tensor] /\ t[h] = Dead
      /\ \A y \in Handles \ {h} : t[y] = s.tensors[y]
  BY <1>1, DeadFields
<1>8. s.liveBytes - k \in Int /\ s.pooledBytes + k \in Int
  BY <1>1, <1>2
<1>. HIDE DEF d, t
<1>9. IsState(r)
  BY <1>6, <1>7, <1>8 DEF IsState
<1>10. /\ r.tensors = t /\ r.pool = d
       /\ r.liveBytes = s.liveBytes - k /\ r.pooledBytes = s.pooledBytes + k
       /\ r.encodeGen = s.encodeGen /\ r.completedGen = s.completedGen
       /\ r.commands = s.commands /\ r.lastUseGen = s.lastUseGen
       /\ r.peakDeviceBytes = s.peakDeviceBytes
       /\ r.contents = s.contents /\ r.status = s.status
       /\ r.guardHeld = s.guardHeld
  BY DEF IsState
<1>. HIDE DEF r
<1>11. r.liveBytes + r.pooledBytes = s.liveBytes + s.pooledBytes
  BY <1>1, <1>2, <1>10
<1>. QED  BY <1>3, <1>4, <1>5, <1>6, <1>7, <1>9, <1>10, <1>11 DEF k, b

(* The last owner of a buffer hands it, with its use generation, to the pool. *)
LEMMA RecycleGood ==
    ASSUME NEW s, Good(s), s.status = "running", NEW h \in Live(s), Aliases(s, h) = {h}
    PROVE  Good(Recycle(s, h))
<1>. DEFINE r == Recycle(s, h)
            k == Key(s.tensors[h].len)
            b == s.tensors[h].buffer
            q == s.pool[k]
            m == Len(q) + 1
<1>1. /\ IsState(s) /\ Consistent(s) /\ DOMAIN s.contents = Buffers /\ ~s.guardHeld
      /\ s.tensors \in [Handles -> Tensor] /\ s.pool \in [Keys -> Seq(Entry)]
      /\ s.lastUseGen \in [Buffers -> Nat] /\ s.commands \in Seq(Command)
      /\ h \in Handles /\ s.encodeGen \in Nat
  BY DEF Good, IsState, Live
<1>2. b \in Buffers /\ s.tensors[h].len \in Lens
  BY <1>1 DEF Consistent, OwnersReal
<1>3. k \in Keys
  BY <1>2, KeyInKeys
<1>4. /\ IsState(r)
      /\ r.tensors[h] = Dead
      /\ \A y \in Handles \ {h} : r.tensors[y] = s.tensors[y]
      /\ DOMAIN r.pool[k] = DOMAIN q \cup {m}
      /\ \A i \in DOMAIN q : r.pool[k][i] = q[i]
      /\ r.pool[k][m].gen = s.lastUseGen[b]
      /\ r.pool[k][m].buffer = b
      /\ \A l \in Keys \ {k} : r.pool[l] = s.pool[l]
      /\ r.liveBytes + r.pooledBytes = s.liveBytes + s.pooledBytes
      /\ r.encodeGen = s.encodeGen /\ r.completedGen = s.completedGen
      /\ r.commands = s.commands /\ r.lastUseGen = s.lastUseGen
      /\ r.peakDeviceBytes = s.peakDeviceBytes
      /\ r.contents = s.contents /\ r.status = s.status
      /\ r.guardHeld = s.guardHeld
  BY <1>1, <1>2, RecycleFields
<1>. HIDE DEF r, k
<1>5. /\ q \in Seq(Entry) /\ m \notin DOMAIN q
  BY <1>1, <1>3
<1>. HIDE DEF m
<1>6. /\ Live(r) = Live(s) \ {h} /\ Written(r) = Written(s)
      /\ \A y \in Live(r) : r.tensors[y] = s.tensors[y]
  BY <1>4, DeadFields DEF Live, Written
(* No live tensor, and no entry of the old pool, has the buffer.             *)
<1>7. \A y \in Live(r) : s.tensors[y].buffer # b
  BY <1>6 DEF Aliases
<1>8. \A l \in Keys : \A i \in DOMAIN s.pool[l] : s.pool[l][i].buffer # b
  BY <1>1 DEF Consistent, Exclusive
<1>. HIDE DEF b
(* An entry of the new pool is one of the old pool, or the new one.          *)
<1>9. ASSUME NEW l \in Keys, NEW i \in DOMAIN r.pool[l]
      PROVE  \/ i \in DOMAIN s.pool[l] /\ r.pool[l][i] = s.pool[l][i]
             \/ /\ l = k /\ i = m
                /\ r.pool[l][i].buffer = b /\ r.pool[l][i].gen = s.lastUseGen[b]
  <2>1. CASE l = k
    BY <1>4, <1>9, <2>1
  <2>2. CASE l # k
    BY <1>4, <1>9, <2>2
  <2>. QED  BY <2>1, <2>2
<1>10. Windowed(r) /\ OwnersReal(r) /\ PendingIsWritten(r) /\ PeakCovers(r)
  BY <1>1, <1>4, <1>6 DEF Consistent, Windowed, OwnersReal, PendingIsWritten, PeakCovers
<1>11. GensBounded(r)
  <2>1. \A x \in Handles : r.tensors[x].lastWriteGen <= r.encodeGen
    BY <1>1, <1>4, DeadFields DEF Consistent, GensBounded
  <2>2. \A d \in Buffers : r.lastUseGen[d] <= r.encodeGen
    BY <1>1, <1>4 DEF Consistent, GensBounded
  <2>3. ASSUME NEW l \in Keys, NEW i \in DOMAIN r.pool[l]
        PROVE  r.pool[l][i].gen <= r.encodeGen
    <3>1. \A j \in DOMAIN s.pool[l] : s.pool[l][j].gen <= s.encodeGen
      BY <1>1 DEF Consistent, GensBounded
    <3>. QED  BY <1>2, <1>4, <1>9, <2>2, <3>1
  <2>. QED  BY <2>1, <2>2, <2>3 DEF GensBounded
<1>12. Stamped(r)
  <2>1. SUFFICES ASSUME NEW c \in DOMAIN s.commands, NEW d \in Touches(s.commands[c])
                 PROVE  /\ \A x \in Live(r) : s.tensors[x].buffer = d =>
                                s.lastUseGen[d] = s.encodeGen
                        /\ \A l \in Keys : \A i \in DOMAIN r.pool[l] :
                                r.pool[l][i].buffer = d => r.pool[l][i].gen = s.encodeGen
    <3>1. /\ r.commands = s.commands /\ r.lastUseGen = s.lastUseGen
          /\ r.encodeGen = s.encodeGen
          /\ \A x \in Live(r) : r.tensors[x] = s.tensors[x]
      BY <1>4, <1>6
    <3>. QED  BY <2>1, <3>1 DEF Stamped
  <2>2. /\ \A x \in Live(s) : s.tensors[x].buffer = d => s.lastUseGen[d] = s.encodeGen
        /\ \A l \in Keys : \A i \in DOMAIN s.pool[l] :
                s.pool[l][i].buffer = d => s.pool[l][i].gen = s.encodeGen
    BY <1>1 DEF Consistent, Stamped
  <2>3. \A x \in Live(r) : s.tensors[x].buffer = d => s.lastUseGen[d] = s.encodeGen
    BY <1>6, <2>2
  <2>4. ASSUME NEW l \in Keys, NEW i \in DOMAIN r.pool[l], r.pool[l][i].buffer = d
        PROVE  r.pool[l][i].gen = s.encodeGen
    <3>1. CASE i \in DOMAIN s.pool[l] /\ r.pool[l][i] = s.pool[l][i]
      BY <2>2, <2>4, <3>1
    <3>2. CASE r.pool[l][i].buffer = b /\ r.pool[l][i].gen = s.lastUseGen[b]
      <4>1. s.lastUseGen[b] = s.encodeGen
        BY <2>2, <2>4, <3>2 DEF b
      <4>. QED  BY <3>2, <4>1
    <3>. QED  BY <1>9, <3>1, <3>2
  <2>. QED  BY <2>3, <2>4
<1>13. Exclusive(r)
  <2>1. \A x, y \in Live(r) :
            r.tensors[x].buffer = r.tensors[y].buffer => r.tensors[x].len = r.tensors[y].len
    BY <1>1, <1>6 DEF Consistent, Exclusive
  <2>2. ASSUME NEW x \in Live(r), NEW l \in Keys, NEW i \in DOMAIN r.pool[l]
        PROVE  r.pool[l][i].buffer # r.tensors[x].buffer
    <3>1. \A j \in DOMAIN s.pool[l] : s.pool[l][j].buffer # s.tensors[x].buffer
      BY <1>1, <1>6 DEF Consistent, Exclusive
    <3>. QED  BY <1>6, <1>7, <1>9, <3>1
  <2>3. ASSUME NEW l \in Keys, NEW o \in Keys,
               NEW i \in DOMAIN r.pool[l], NEW j \in DOMAIN r.pool[o],
               r.pool[l][i].buffer = r.pool[o][j].buffer
        PROVE  l = o /\ i = j
    <3>1. CASE r.pool[l][i].buffer = b
      <4>1. l = k /\ i = m
        BY <1>8, <1>9, <3>1
      <4>2. o = k /\ j = m
        <5>1. r.pool[o][j].buffer = b
          BY <2>3, <3>1
        <5>2. j \in DOMAIN s.pool[o] => r.pool[o][j] # s.pool[o][j]
          BY <1>8, <5>1
        <5>. QED  BY <1>9, <5>2
      <4>. QED  BY <4>1, <4>2
    <3>2. CASE r.pool[l][i].buffer # b
      <4>1. i \in DOMAIN s.pool[l] /\ r.pool[l][i] = s.pool[l][i]
        BY <1>9, <3>2
      <4>2. j \in DOMAIN s.pool[o] /\ r.pool[o][j] = s.pool[o][j]
        BY <1>9, <2>3, <3>2
      <4>3. s.pool[l][i].buffer = s.pool[o][j].buffer => l = o /\ i = j
        BY <1>1, <4>1, <4>2 DEF Consistent, Exclusive
      <4>. QED  BY <2>3, <4>1, <4>2, <4>3
    <3>. QED  BY <3>1, <3>2
  <2>. QED  BY <2>1, <2>2, <2>3 DEF Exclusive
<1>14. Consistent(r)
  BY <1>10, <1>11, <1>12, <1>13 DEF Consistent
<1>15. r.status # "deadlocked"
  BY <1>4
<1>. QED  BY <1>1, <1>4, <1>14, <1>15 DEF Good, r

LEMMA ReleaseGood ==
    ASSUME NEW s, Good(s), s.status = "running", NEW h \in Live(s)
    PROVE  Good(Release(s, h))
<1>. DEFINE n == s.tensors[h].refCount
<1>1. n \in Nat
  BY DEF Good, IsState, Live, Tensor
<1>2. CASE n > 1
  <2>1. Release(s, h) = [s EXCEPT !.tensors[h].refCount = n - 1]
    BY <1>2 DEF Release
  <2>2. n - 1 \in Nat /\ n - 1 > 0
    BY <1>1, <1>2
  <2>. HIDE DEF n
  <2>. QED  BY <2>1, <2>2, CountGood
<1>3. CASE ~(n > 1) /\ Aliases(s, h) = {h}
  BY <1>3, RecycleGood DEF Release
<1>4. CASE ~(n > 1) /\ Aliases(s, h) # {h}
  BY <1>4, DropGood DEF Release
<1>. QED  BY <1>2, <1>3, <1>4

-------------------------------------------------------------------------------
(* The invariant.                                                            *)

LEMMA InvIsGood ==
    ASSUME IInv, Running
    PROVE  Good(quiet) /\ quiet.status = "running" /\ Live(quiet) = Live(state)
           /\ Attached(quiet) = Attached(state)
<1>1. IsState(state)
  BY StateIsState DEF IInv
<1>2. Good(state)
  BY <1>1 DEF IInv, TypeOK, Good, state
<1>3. Good(quiet)
  BY <1>2, ReplyGood DEF quiet
<1>4. quiet.tensors = state.tensors /\ quiet.status = "running"
  BY DEF quiet, state, Running
<1>. QED  BY <1>3, <1>4 DEF Live, Attached

(* A step function's result re-establishes the invariant.                    *)
LEMMA BecomeKeepsIInv ==
    ASSUME NEW s, Good(s), Become(s), IInv
    PROVE  IInv'
<1>1. CASE s.status = "running"
  <2>1. state' = [encodeGen |-> s.encodeGen, completedGen |-> s.completedGen,
                  commands |-> s.commands, guardHeld |-> s.guardHeld,
                  tensors |-> s.tensors, lastUseGen |-> s.lastUseGen,
                  pool |-> s.pool, contents |-> s.contents,
                  liveBytes |-> s.liveBytes, pooledBytes |-> s.pooledBytes,
                  peakDeviceBytes |-> s.peakDeviceBytes, memBudget |-> s.memBudget,
                  gpuError |-> s.gpuError, status |-> s.status, reply |-> s.reply]
    BY <1>1 DEF Become, state
  <2>2. state' = s
    BY <2>1 DEF Good, IsState
  <2>3. Consistent(state')
    BY <1>1, <2>2 DEF Good
  <2>4. TypeOK'
    BY <1>1 DEF TypeOK, Become, Good, IsState
  <2>5. ~guardHeld' /\ status' # "deadlocked"
    BY <1>1 DEF Become, Good
  <2>. QED  BY <2>3, <2>4, <2>5 DEF IInv
<1>2. CASE s.status # "running"
  <2>1. /\ UNCHANGED <<encodeGen, completedGen, commands, guardHeld, tensors,
                       lastUseGen, pool, contents, liveBytes, pooledBytes,
                       peakDeviceBytes, memBudget, gpuError, reply>>
        /\ status' = s.status
    BY <1>2 DEF Become
  <2>2. status' \in {"running", "aborted"}
    BY <2>1 DEF Good, IsState
  <2>3. TypeOK' /\ ~guardHeld' /\ status' # "deadlocked"
    BY <2>1, <2>2 DEF IInv, TypeOK
  <2>4. SameHeap(state', state) /\ PeakCovers(state')
    BY <2>1 DEF SameHeap, IInv, Consistent, PeakCovers, state
  <2>5. Consistent(state')
    BY <2>4, SameHeapConsistent DEF IInv
  <2>. QED  BY <2>3, <2>5 DEF IInv
<1>. QED  BY <1>1, <1>2

LEMMA InitEstablishesIInv == Init => IInv
<1>. SUFFICES ASSUME Init PROVE IInv
  OBVIOUS
<1>1. << >> \in Seq(Entry) /\ DOMAIN << >> = {} /\ << >> \in Seq(Command)
  OBVIOUS
<1>2. TypeOK
  <2>1. tensors \in [Handles -> Tensor]
    BY DeadFields DEF Init
  <2>2. pool \in [Keys -> Seq(Entry)] /\ lastUseGen \in [Buffers -> Nat]
    BY <1>1 DEF Init
  <2>3. DOMAIN contents = Buffers /\ commands \in Seq(Command)
    BY <1>1 DEF Init
  <2>4. /\ encodeGen \in Nat /\ completedGen \in Nat
        /\ liveBytes \in Int /\ pooledBytes \in Int /\ peakDeviceBytes \in Int
        /\ memBudget \in Int
        /\ status \in {"running", "aborted", "deadlocked"}
    BY DEF Init
  <2>5. guardHeld \in BOOLEAN /\ gpuError \in BOOLEAN
    BY DEF Init
  <2>. QED  BY <2>1, <2>2, <2>3, <2>4, <2>5 DEF TypeOK
<1>3. Live(state) = {} /\ Written(state) = {}
  BY <1>1, DeadFields DEF Init, Live, Written, state
<1>4. GensBounded(state)
  BY <1>1, DeadFields DEF Init, GensBounded, state
<1>5. Stamped(state)
  BY <1>1 DEF Init, Stamped, state
<1>6. Exclusive(state)
  BY <1>1, <1>3 DEF Init, Exclusive, state
<1>7. Windowed(state) /\ OwnersReal(state) /\ PendingIsWritten(state) /\ PeakCovers(state)
  BY <1>3 DEF Init, Windowed, OwnersReal, PendingIsWritten, PeakCovers, state
<1>. QED  BY <1>2, <1>4, <1>5, <1>6, <1>7 DEF IInv, Consistent, Init

LEMMA OperandsOfLive ==
    ASSUME IInv, NEW k \in Nat, NEW ins \in Inputs(k)
    PROVE  /\ Operands(ins) \in Seq(Operand)
           /\ \A i \in DOMAIN Operands(ins) : Operands(ins)[i].buffer \in Attached(state)
<1>1. /\ ins \in [1..k -> Live(state)] /\ DOMAIN ins = 1..k
  BY DEF Inputs
<1>2. ASSUME NEW i \in 1..k
      PROVE  /\ OperandOf(state, ins[i]) \in Operand
             /\ OperandOf(state, ins[i]).buffer \in Attached(state)
  <2>1. ins[i] \in Live(state)
    BY <1>1
  <2>2. state.tensors[ins[i]].buffer \in Buffers /\ state.tensors[ins[i]].len \in Lens
    BY <2>1 DEF IInv, Consistent, OwnersReal
  <2>. QED  BY <2>1, <2>2 DEF OperandOf, Operand, Attached
<1>3. Operands(ins) = [i \in 1..k |-> OperandOf(state, ins[i])]
  BY <1>1 DEF Operands
<1>. QED  BY <1>2, <1>3

LEMMA FlushKeepsTensors ==
    ASSUME NEW s, Good(s), NEW x
    PROVE  FlushIfPending(s, x).tensors = s.tensors
BY BarrierKeepsLedger DEF FlushIfPending

LEMMA MatmulKeepsIInv ==
    ASSUME IInv, NEW h \in Handles, TensorMatmul(h)
    PROVE  IInv'
<1>1. /\ Good(quiet) /\ h \notin Live(quiet) /\ Attached(quiet) = Attached(state)
      /\ Live(quiet) = Live(state)
  BY InvIsGood DEF TensorMatmul
<1>2. PICK x \in Live(state), y \in Live(state), n \in Lens :
        IF 0 \in {tensors[x].len, tensors[y].len, n}
        THEN \E b \in Draws(FlushIfPending(FlushIfPending(quiet, x), y), Key(n)) :
                Become(MatmulCpu(quiet, h, x, y, n, b))
        ELSE \E b \in Draws(quiet, Key(n)) :
                Become(Dispatch(quiet, h, n, b, Operands(<<x, y>>)))
  BY DEF TensorMatmul
<1>3. CASE 0 \in {tensors[x].len, tensors[y].len, n}
  <2>. DEFINE f == FlushIfPending(FlushIfPending(quiet, x), y)
  <2>1. Good(f) /\ f.tensors = quiet.tensors
    BY <1>1, FlushGood, FlushKeepsTensors
  <2>2. h \notin Live(f)
    BY <1>1, <2>1 DEF Live
  <2>3. PICK b \in Draws(f, Key(n)) : Become(AllocData(f, h, n, Zero, b))
    BY <1>2, <1>3 DEF MatmulCpu
  <2>. HIDE DEF f
  <2>4. Good(AllocData(f, h, n, Zero, b))
    BY <2>1, <2>2, AllocDataGood
  <2>. QED  BY <2>3, <2>4, BecomeKeepsIInv
<1>4. CASE 0 \notin {tensors[x].len, tensors[y].len, n}
  <2>1. PICK b \in Draws(quiet, Key(n)) :
            Become(Dispatch(quiet, h, n, b, Operands(<<x, y>>)))
    BY <1>2, <1>4
  <2>2. <<x, y>> \in Inputs(2)
    BY DEF Inputs
  <2>3. /\ Operands(<<x, y>>) \in Seq(Operand)
        /\ \A i \in DOMAIN Operands(<<x, y>>) :
                Operands(<<x, y>>)[i].buffer \in Attached(quiet)
    BY <1>1, <2>2, OperandsOfLive
  <2>4. Good(Dispatch(quiet, h, n, b, Operands(<<x, y>>)))
    BY <1>1, <2>3, DispatchGood
  <2>. QED  BY <2>1, <2>4, BecomeKeepsIInv
<1>. QED  BY <1>3, <1>4

LEMMA DispatchKeepsIInv ==
    ASSUME IInv, Running, NEW h \in Handles, h \notin Live(state),
           NEW k \in Nat, NEW ins \in Inputs(k), NEW n \in Lens,
           NEW b \in Draws(quiet, Key(n)),
           Become(Dispatch(quiet, h, n, b, Operands(ins)))
    PROVE  IInv'
<1>1. /\ Good(quiet) /\ h \notin Live(quiet) /\ Attached(quiet) = Attached(state)
  BY InvIsGood
<1>2. /\ Operands(ins) \in Seq(Operand)
      /\ \A i \in DOMAIN Operands(ins) : Operands(ins)[i].buffer \in Attached(quiet)
  BY <1>1, OperandsOfLive
<1>3. Good(Dispatch(quiet, h, n, b, Operands(ins)))
  BY <1>1, <1>2, DispatchGood
<1>. QED  BY <1>3, BecomeKeepsIInv

(* Every step of the runtime keeps the invariant.                            *)
LEMMA NextKeepsIInv == IInv /\ [Next]_vars => IInv'
<1>. SUFFICES ASSUME IInv, [Next]_vars PROVE IInv'
  OBVIOUS
<1>0. /\ MaxArity \in Nat /\ 0..MaxArity \subseteq Nat /\ 1..MaxArity \subseteq Nat
      /\ Budgets \subseteq Int
  BY ConstantsAssumption
<1>1. ASSUME NEW h \in Handles, TensorAllocGpu(h) PROVE IInv'
  <2>1. Good(quiet) /\ h \notin Live(quiet)
    BY <1>1, InvIsGood DEF TensorAllocGpu
  <2>2. PICK n \in Lens, v \in Data : \E b \in Draws(quiet, Key(n)) :
            Become(AllocData(quiet, h, n, v, b))
    BY <1>1 DEF TensorAllocGpu
  <2>3. \A b \in Draws(quiet, Key(n)) : Good(AllocData(quiet, h, n, v, b))
    BY <2>1, AllocDataGood
  <2>. QED  BY <2>2, <2>3, BecomeKeepsIInv
<1>2. ASSUME NEW h \in Handles, TensorAllocZerosGpu(h) PROVE IInv'
  <2>1. Good(quiet) /\ h \notin Live(quiet)
    BY <1>2, InvIsGood DEF TensorAllocZerosGpu
  <2>2. PICK n \in Lens : \E b \in Draws(quiet, Key(n)) :
            Become(AllocZeros(quiet, h, n, b))
    BY <1>2 DEF TensorAllocZerosGpu
  <2>3. \A b \in Draws(quiet, Key(n)) : Good(AllocZeros(quiet, h, n, b))
    BY <2>1, AllocZerosGood
  <2>. QED  BY <2>2, <2>3, BecomeKeepsIInv
<1>3. ASSUME NEW h \in Handles, KernelDispatch(h) PROVE IInv'
  <2>1. Running /\ h \notin Live(state)
    BY <1>3 DEF KernelDispatch
  <2>2. PICK k \in 1..MaxArity : \E ins \in Inputs(k) :
            \E b \in Draws(quiet, Key(tensors[ins[1]].len)) :
                Become(Dispatch(quiet, h, tensors[ins[1]].len, b, Operands(ins)))
    BY <1>3 DEF KernelDispatch
  <2>3. \A ins \in Inputs(k) : tensors[ins[1]].len \in Lens
    <3>1. \A ins \in Inputs(k) : ins[1] \in Live(state)
      BY <1>0 DEF Inputs
    <3>. QED  BY <3>1 DEF IInv, Consistent, OwnersReal, state
  <2>. QED  BY <1>0, <2>1, <2>2, <2>3, DispatchKeepsIInv
<1>4. ASSUME NEW h \in Handles, KernelDispatchV2(h) PROVE IInv'
  <2>1. Running /\ h \notin Live(state)
    BY <1>4 DEF KernelDispatchV2
  <2>2. PICK k \in 0..MaxArity : \E ins \in Inputs(k), n \in Lens :
            \E b \in Draws(quiet, Key(n)) : Become(Dispatch(quiet, h, n, b, Operands(ins)))
    BY <1>4 DEF KernelDispatchV2
  <2>. QED  BY <1>0, <2>1, <2>2, DispatchKeepsIInv
<1>5. ASSUME NEW h \in Handles, TensorMatmul(h) PROVE IInv'
  BY <1>5, MatmulKeepsIInv
<1>6. ASSUME NEW h \in Handles, TensorReshape(h) PROVE IInv'
  <2>1. PICK x \in Live(state) : Become(Reshape(quiet, h, x))
    BY <1>6 DEF TensorReshape
  <2>2. Good(Reshape(quiet, h, x))
    BY <1>6, InvIsGood, ReshapeGood DEF TensorReshape
  <2>. QED  BY <2>1, <2>2, BecomeKeepsIInv
<1>7. ASSUME NEW h \in Handles, TensorRetain(h) PROVE IInv'
  <2>. DEFINE n == quiet.tensors[h].refCount
  <2>1. /\ Good(quiet) /\ quiet.status = "running" /\ h \in Live(quiet)
    BY <1>7, InvIsGood DEF TensorRetain
  <2>2. n + 1 \in Nat /\ n + 1 > 0
    BY <2>1 DEF Good, IsState, Live, Tensor
  <2>3. Become([quiet EXCEPT !.tensors[h].refCount = n + 1])
    BY <1>7 DEF TensorRetain
  <2>. HIDE DEF n
  <2>4. Good([quiet EXCEPT !.tensors[h].refCount = n + 1])
    BY <2>1, <2>2, CountGood
  <2>. QED  BY <2>3, <2>4, BecomeKeepsIInv
<1>8. ASSUME NEW h \in Handles, TensorRelease(h) PROVE IInv'
  BY <1>8, InvIsGood, ReleaseGood, BecomeKeepsIInv DEF TensorRelease
<1>9. ASSUME NEW h \in Handles, HostRead(h) PROVE IInv'
  BY <1>9, InvIsGood, ReadGood, BecomeKeepsIInv DEF HostRead
<1>10. CASE GpuBarrierCall
  BY <1>10, InvIsGood, BarrierGood, BecomeKeepsIInv DEF GpuBarrierCall
<1>11. CASE MalusPoolReset
  BY <1>11, InvIsGood, PoolResetGood, BecomeKeepsIInv DEF MalusPoolReset
<1>12. CASE MalusSetMemBudget
  <2>1. PICK bytes \in Budgets :
            Become([quiet EXCEPT !.memBudget = IF bytes < -1 THEN -1 ELSE bytes])
    BY <1>12 DEF MalusSetMemBudget
  <2>2. (IF bytes < -1 THEN -1 ELSE bytes) \in Int
    BY <1>0
  <2>3. Good([quiet EXCEPT !.memBudget = IF bytes < -1 THEN -1 ELSE bytes])
    BY <1>12, <2>2, InvIsGood, SetBudgetGood DEF MalusSetMemBudget
  <2>. QED  BY <2>1, <2>3, BecomeKeepsIInv
<1>13. CASE GpuFault
  BY <1>13, InvIsGood, FaultGood, BecomeKeepsIInv DEF GpuFault
<1>14. CASE UNCHANGED vars
  BY <1>14 DEF IInv, TypeOK, vars, state
<1>15. CASE Stopped
  BY <1>14, <1>15 DEF Stopped
<1>. QED  BY <1>1, <1>2, <1>3, <1>4, <1>5, <1>6, <1>7, <1>8, <1>9, <1>10, <1>11,
             <1>12, <1>13, <1>14, <1>15 DEF Next

(* IInv is an invariant: the inductive strengthening of all that follows.    *)
THEOREM IInvHolds == Spec => []IInv
BY InitEstablishesIInv, NextKeepsIInv, PTL DEF Spec

(* Every variable of metal.rs's state keeps its type.                        *)
THEOREM TypeCorrect == Spec => []TypeOK
<1>1. IInv => TypeOK
  BY DEF IInv
<1>. QED  BY <1>1, IInvHolds, PTL

(* ADR-0039's recycling rule: no bucket of the pool would hand out a buffer  *)
(* that a command not yet committed reads or writes, for any number of       *)
(* tensors, buffers and generations.                                         *)
THEOREM NeverRecycledInFlight == Spec => []NoRecycleInFlight
<1>1. IInv => NoRecycleInFlight
  <2>. SUFFICES ASSUME IInv PROVE RecyclesIdle(state)
    BY DEF NoRecycleInFlight
  <2>1. IsState(state) /\ Consistent(state)
    BY StateIsState DEF IInv
  <2>. QED  BY <2>1, ReadyIsIdle DEF RecyclesIdle, Ready
<1>. QED  BY <1>1, IInvHolds, PTL

(* ADR-0035: flush_if_pending neither misses a pending tensor nor flushes    *)
(* for one whose data has arrived, through any reshape aliases.              *)
THEOREM PendingIsExact == Spec => []PendingExact
<1>1. IInv => PendingExact
  BY DEF IInv, Consistent, PendingExact
<1>. QED  BY <1>1, IInvHolds, PTL

(* A buffer belongs to one group of aliases or to one place in the pool.     *)
THEOREM BuffersExclusive == Spec => []BufferExclusive
<1>1. IInv => BufferExclusive
  BY DEF IInv, Consistent, BufferExclusive
<1>. QED  BY <1>1, IInvHolds, PTL

(* The two generation counters stay in step with the command buffer, which   *)
(* is what gpu_barrier and ensure_command_buffer rely on.                    *)
THEOREM GenerationsInStep == Spec => []GenWindow
<1>1. IInv => GenWindow
  BY DEF IInv, Consistent, GenWindow
<1>. QED  BY <1>1, IInvHolds, PTL

(* PEAK_DEVICE_BYTES never under-reports what the device holds.              *)
THEOREM PeakIsAnUpperBound == Spec => []PeakCoversDevice
<1>1. IInv => PeakCoversDevice
  BY DEF IInv, Consistent, PeakCoversDevice
<1>. QED  BY <1>1, IInvHolds, PTL

(* No entry point waits for the command-buffer mutex it holds itself, and    *)
(* none returns holding it.                                                  *)
THEOREM NeverSelfDeadlocked == Spec => []NoSelfDeadlock
<1>1. IInv => NoSelfDeadlock
  BY DEF IInv, NoSelfDeadlock
<1>. QED  BY <1>1, IInvHolds, PTL

-------------------------------------------------------------------------------
(* The byte ledgers, and what no step does: relations between the state a    *)
(* step function is given and the one it returns.                            *)

(* The ledgers and all they are about are as they were.                      *)
SameLedger(s, r) ==
    /\ r.liveBytes = s.liveBytes /\ r.pooledBytes = s.pooledBytes
    /\ r.pool = s.pool /\ r.memBudget = s.memBudget
    /\ \A h \in Handles : /\ r.tensors[h].buffer = s.tensors[h].buffer
                          /\ r.tensors[h].len = s.tensors[h].len
                          /\ r.tensors[h].refCount = s.tensors[h].refCount

(* A device error stays one, completes nothing, and nothing stays encoded    *)
(* when every dispatch is flushed.                                           *)
Faithful(s, r) ==
    /\ r.status = "running" => s.status = "running"
    /\ r.gpuError = s.gpuError
    /\ r.status = "running" /\ s.gpuError => r.completedGen = s.completedGen
    /\ r.status = "running" /\ SyncDispatch /\ s.commands = << >> => r.commands = << >>

(* ValveAction, for step functions.                                          *)
GrowsInBudget(s, r) ==
    r.liveBytes + r.pooledBytes > s.liveBytes + s.pooledBytes =>
        \/ r.liveBytes + r.pooledBytes <= r.memBudget
        \/ \E k \in Keys : /\ s.pool[k] = << >>
                           /\ r.liveBytes = s.liveBytes + k
                           /\ r.pooledBytes = s.pooledBytes

(* What every entry point does to the runtime.                               *)
Honest(s, r) ==
    /\ Faithful(s, r)
    /\ r.status = "running" /\ Balanced(s) => Balanced(r) /\ GrowsInBudget(s, r)

-------------------------------------------------------------------------------
(* The ledgers.                                                              *)

Sizes(s) == [b \in Attached(s) |-> SizeOf(s, b)]

PoolSizes(s) == [k \in Keys |-> k * Len(s.pool[k])]

(* Aliases have one length, so it does not matter which of them is asked.    *)
LEMMA SizeIs ==
    ASSUME NEW s, Exclusive(s), NEW h \in Live(s)
    PROVE  /\ s.tensors[h].buffer \in Attached(s)
           /\ SizeOf(s, s.tensors[h].buffer) = Key(s.tensors[h].len)
<1>. DEFINE b == s.tensors[h].buffer
            x == CHOOSE x \in Live(s) : s.tensors[x].buffer = b
<1>1. x \in Live(s) /\ s.tensors[x].buffer = b
  OBVIOUS
<1>2. s.tensors[x].len = s.tensors[h].len
  BY <1>1 DEF Exclusive
<1>. QED  BY <1>2 DEF SizeOf, Attached

LEMMA AttachedFinite ==
    ASSUME NEW s
    PROVE  IsFiniteSet(Live(s)) /\ IsFiniteSet(Attached(s))
<1>1. IsFiniteSet(Live(s))
  <2>1. Live(s) \in SUBSET Handles
    BY DEF Live
  <2>. QED  BY <2>1, FS_Subset, ConstantsAssumption
<1>2. [h \in Live(s) |-> s.tensors[h].buffer] \in Surjection(Live(s), Attached(s))
  BY DEF Surjection, Attached
<1>. QED  BY <1>1, <1>2, FS_Surjection

LEMMA SizesType ==
    ASSUME NEW s, Consistent(s)
    PROVE  /\ IsFiniteSet(DOMAIN Sizes(s))
           /\ \A b \in DOMAIN Sizes(s) : Sizes(s)[b] \in Nat
<1>1. DOMAIN Sizes(s) = Attached(s)
  BY DEF Sizes
<1>2. ASSUME NEW b \in Attached(s) PROVE Sizes(s)[b] \in Nat
  <2>1. PICK h \in Live(s) : s.tensors[h].buffer = b
    BY DEF Attached
  <2>2. Sizes(s)[b] = Key(s.tensors[h].len)
    BY <2>1, SizeIs DEF Sizes, Consistent
  <2>3. s.tensors[h].len \in Lens
    BY DEF Consistent, OwnersReal
  <2>. QED  BY <2>2, <2>3, KeyInKeys, KeysAreNat
<1>. QED  BY <1>1, <1>2, AttachedFinite

LEMMA KeysFinite == IsFiniteSet(Keys)
<1>1. [n \in Lens |-> Key(n)] \in Surjection(Lens, Keys)
  BY DEF Surjection, Keys
<1>. QED  BY <1>1, FS_Surjection, ConstantsAssumption

LEMMA PoolSizesType ==
    ASSUME NEW s, IsState(s)
    PROVE  /\ IsFiniteSet(DOMAIN PoolSizes(s)) /\ DOMAIN PoolSizes(s) = Keys
           /\ \A k \in Keys : PoolSizes(s)[k] \in Nat /\ PoolSizes(s)[k] = k * Len(s.pool[k])
<1>1. DOMAIN PoolSizes(s) = Keys
  BY DEF PoolSizes
<1>2. ASSUME NEW k \in Keys
      PROVE  PoolSizes(s)[k] \in Nat /\ PoolSizes(s)[k] = k * Len(s.pool[k])
  <2>1. s.pool[k] \in Seq(Entry) /\ k \in Nat
    BY KeysAreNat DEF IsState
  <2>2. Len(s.pool[k]) \in Nat
    BY <2>1
  <2>3. k * Len(s.pool[k]) \in Nat
    BY <2>1, <2>2
  <2>. QED  BY <2>3 DEF PoolSizes
<1>. QED  BY <1>1, <1>2, KeysFinite

(* What is recorded of each live buffer carries over to the same tensors.    *)
LEMMA SameSizes ==
    ASSUME NEW s, NEW r, Consistent(s), Consistent(r), Live(r) = Live(s),
           \A h \in Live(s) : /\ r.tensors[h].buffer = s.tensors[h].buffer
                              /\ r.tensors[h].len = s.tensors[h].len
    PROVE  Sizes(r) = Sizes(s)
<1>1. Attached(r) = Attached(s)
  BY DEF Attached
<1>2. ASSUME NEW b \in Attached(s) PROVE SizeOf(r, b) = SizeOf(s, b)
  <2>1. PICK h \in Live(s) : s.tensors[h].buffer = b
    BY DEF Attached
  <2>2. SizeOf(s, b) = Key(s.tensors[h].len)
    BY <2>1, SizeIs DEF Consistent
  <2>3. SizeOf(r, b) = Key(r.tensors[h].len)
    BY <2>1, SizeIs DEF Consistent
  <2>. QED  BY <2>2, <2>3
<1>. QED  BY <1>1, <1>2 DEF Sizes

LEMMA SameLedgerBalanced ==
    ASSUME NEW s, NEW r, Consistent(s), Consistent(r), SameLedger(s, r), Balanced(s)
    PROVE  Balanced(r)
<1>1. Live(r) = Live(s)
  BY DEF SameLedger, Live
<1>2. Live(r) \subseteq Handles
  BY DEF Live
<1>3. Sizes(r) = Sizes(s)
  BY <1>1, <1>2, SameSizes DEF SameLedger
<1>. QED  BY <1>3 DEF Balanced, SameLedger, Sizes

(* A step that keeps the ledgers adds nothing to what came before it.        *)
LEMMA ThenSame ==
    ASSUME NEW s, NEW a, NEW r, Honest(s, a), Faithful(a, r), SameLedger(a, r),
           Good(a), Good(r)
    PROVE  Honest(s, r)
<1>1. Faithful(s, r)
  BY DEF Honest, Faithful
<1>2. ASSUME r.status = "running", Balanced(s) PROVE Balanced(r) /\ GrowsInBudget(s, r)
  <2>1. a.status = "running" /\ Balanced(a) /\ GrowsInBudget(s, a)
    BY <1>2 DEF Honest, Faithful
  <2>2. Balanced(r)
    BY <1>2, <2>1, SameLedgerBalanced DEF Good
  <2>. QED  BY <2>1, <2>2 DEF GrowsInBudget, SameLedger
<1>. QED  BY <1>1, <1>2 DEF Honest

LEMMA HonestSame ==
    ASSUME NEW s, NEW r, Faithful(s, r), SameLedger(s, r), Good(s), Good(r)
    PROVE  Honest(s, r)
<1>1. ASSUME r.status = "running", Balanced(s) PROVE Balanced(r) /\ GrowsInBudget(s, r)
  <2>1. s.status = "running"
    BY <1>1 DEF Faithful
  <2>2. Balanced(r)
    BY <1>1, <2>1, SameLedgerBalanced DEF Good
  <2>3. s.liveBytes \in Int /\ s.pooledBytes \in Int
    BY DEF Good, IsState
  <2>. QED  BY <2>2, <2>3 DEF GrowsInBudget, SameLedger
<1>. QED  BY <1>1 DEF Honest

-------------------------------------------------------------------------------
(* The barrier and the encoder keep the ledgers.                             *)

LEMMA SelfFaithful ==
    ASSUME NEW s PROVE Faithful(s, s) /\ SameLedger(s, s)
BY DEF Faithful, SameLedger

LEMMA BarrierFaithful ==
    ASSUME NEW s, Good(s)
    PROVE  Faithful(s, GpuBarrier(s)) /\ SameLedger(s, GpuBarrier(s))
<1>1. s.gpuError /\ GpuBarrier(s).status = "running" =>
        GpuBarrier(s).completedGen = s.completedGen
  BY DEF GpuBarrier, Good, IsState
<1>. QED  BY <1>1, BarrierKeepsLedger DEF Faithful, SameLedger

LEMMA FlushFaithful ==
    ASSUME NEW s, Good(s), NEW h
    PROVE  /\ Faithful(s, FlushIfPending(s, h)) /\ SameLedger(s, FlushIfPending(s, h))
           /\ Good(FlushIfPending(s, h))
BY SelfFaithful, BarrierFaithful, FlushGood DEF FlushIfPending

LEMMA EncodeFaithful ==
    ASSUME NEW s, Good(s), NEW h \in Handles, s.tensors[h].buffer \in Buffers,
           NEW op \in {"kernel", "fill"}, NEW ins \in Seq(Operand),
           s.status = "running" =>
                /\ h \in Live(s)
                /\ \A x \in Live(s) \ {h} : s.tensors[x].buffer # s.tensors[h].buffer
                /\ \A i \in DOMAIN ins : ins[i].buffer \in Attached(s)
    PROVE  LET r == EncodeAndRelease(s, h, op, ins)
           IN  Faithful(s, r) /\ SameLedger(s, r)
<1>. DEFINE e == UnlockCommandBuffer(Encode(LockCommandBuffer(s), h, op, ins))
<1>1. /\ e.gpuError = s.gpuError /\ e.memBudget = s.memBudget
  BY DEF UnlockCommandBuffer, Encode, LockCommandBuffer, StampUse, CommandInto, Good, IsState
<1>2. /\ \A x \in Handles : /\ e.tensors[x].buffer = s.tensors[x].buffer
                            /\ e.tensors[x].len = s.tensors[x].len
                            /\ e.tensors[x].refCount = s.tensors[x].refCount
      /\ e.pool = s.pool /\ e.completedGen = s.completedGen
      /\ e.liveBytes = s.liveBytes /\ e.pooledBytes = s.pooledBytes
      /\ e.status = s.status
  BY EncodeFields DEF Good
<1>3. EncodeAndRelease(s, h, op, ins) = IF SyncDispatch THEN GpuBarrier(e) ELSE e
  BY DEF EncodeAndRelease, SyncPoint
<1>4. s.status = "running" => Good(e)
  BY EncodeGood
<1>. HIDE DEF e
<1>5. SameLedger(s, e)
  BY <1>1, <1>2 DEF SameLedger
<1>6. CASE ~SyncDispatch
  BY <1>1, <1>2, <1>3, <1>5, <1>6 DEF Faithful
<1>7. CASE SyncDispatch
  <2>. DEFINE r == GpuBarrier(e)
  <2>1. IsState(e) /\ ~e.guardHeld
    BY EncodeFields DEF Good, e
  <2>2. /\ r.gpuError = e.gpuError
        /\ r.status = "running" => e.status = "running" /\ r.commands = << >>
        /\ r.status = "running" /\ e.gpuError => r.completedGen = e.completedGen
        /\ r.liveBytes = e.liveBytes /\ r.pooledBytes = e.pooledBytes
        /\ r.pool = e.pool /\ r.memBudget = e.memBudget /\ r.tensors = e.tensors
    BY <2>1 DEF GpuBarrier, IsState
  <2>. HIDE DEF r
  <2>3. Faithful(s, r) /\ SameLedger(s, r)
    BY <1>1, <1>2, <1>5, <2>2 DEF Faithful, SameLedger
  <2>. QED  BY <1>3, <1>7, <2>3 DEF r
<1>. QED  BY <1>6, <1>7

-------------------------------------------------------------------------------
(* Allocation.                                                               *)

LEMMA RemoveAtLen ==
    ASSUME NEW S, NEW q \in Seq(S), NEW i \in DOMAIN q
    PROVE  Len(RemoveAt(q, i)) = Len(q) - 1
<1>. DEFINE left == SubSeq(q, 1, i - 1)
            right == SubSeq(q, i + 1, Len(q))
<1>1. i \in 1..Len(q) /\ Len(q) \in Nat /\ DOMAIN q = 1..Len(q)
  OBVIOUS
<1>2. left \in Seq(S) /\ Len(left) = i - 1
  <2>1. \A j \in 1..(i - 1) : q[j] \in S
    BY <1>1
  <2>. QED  BY <1>1, <2>1, SubSeqProperties, Z3
<1>3. right \in Seq(S) /\ Len(right) = Len(q) - i
  <2>1. \A j \in (i + 1)..Len(q) : q[j] \in S
    BY <1>1
  <2>. QED  BY <1>1, <2>1, SubSeqProperties, Z3
<1>. HIDE DEF left, right
<1>4. Len(left \o right) = Len(left) + Len(right)
  BY <1>2, <1>3, ConcatProperties
<1>5. RemoveAt(q, i) = left \o right
  BY DEF RemoveAt, left, right
<1>6. Len(left) + Len(right) = Len(q) - 1
  BY <1>1, <1>2, <1>3
<1>. QED  BY <1>4, <1>5, <1>6

(* The valve's only reasons to let a miss happen.                            *)
LEMMA ValveFaithful ==
    ASSUME NEW s, Good(s), NEW k \in Keys
    PROVE  LET r == Valve(s, k)
           IN  /\ Faithful(s, r)
               /\ r.reply = s.reply
               /\ r.status = "running" /\ Ready(r, k) = {} =>
                    \/ s.liveBytes + s.pooledBytes + k <= r.memBudget
                    \/ s.pool[k] = << >>
<1>. DEFINE m == [s EXCEPT !.memBudget = BudgetBytes(s)]
            r == Valve(s, k)
            over == s.liveBytes + s.pooledBytes + k > m.memBudget /\ s.pool[k] # << >>
<1>1. BudgetBytes(s) \in Int /\ k \in Int
  BY ConstantsAssumption, KeysAreNat DEF BudgetBytes, IsState, Good
<1>2. /\ IsState(m) /\ SameHeap(m, s)
      /\ m.guardHeld = s.guardHeld /\ m.status = s.status
      /\ m.contents = s.contents /\ m.gpuError = s.gpuError /\ m.reply = s.reply
      /\ m.liveBytes = s.liveBytes /\ m.pooledBytes = s.pooledBytes
      /\ m.peakDeviceBytes = s.peakDeviceBytes /\ m.memBudget \in Int
  BY <1>1 DEF IsState, Good, SameHeap
<1>3. /\ Ready(s, k) # {} => r = s
      /\ Ready(s, k) = {} => r = IF over THEN GpuBarrier(m) ELSE m
  <2>1. m.liveBytes = s.liveBytes /\ m.pooledBytes = s.pooledBytes /\ m.pool = s.pool
    BY <1>2 DEF SameHeap
  <2>2. Valve(s, k) = IF Ready(s, k) # {} THEN s
                      ELSE IF /\ m.liveBytes + m.pooledBytes + k > m.memBudget
                              /\ m.pool[k] # << >>
                           THEN GpuBarrier(m) ELSE m
    BY DEF Valve
  <2>. HIDE DEF m
  <2>. QED  BY <2>1, <2>2
<1>. HIDE DEF m, r
<1>4. Good(m)
  BY <1>2, SameHeapConsistent DEF Good, Consistent, PeakCovers
<1>5. CASE Ready(s, k) # {}
  BY <1>3, <1>5, SelfFaithful DEF r
<1>6. CASE Ready(s, k) = {} /\ ~over
  <2>1. r = m
    BY <1>3, <1>6
  <2>2. Faithful(s, m)
    BY <1>2 DEF Faithful, SameHeap
  <2>3. s.liveBytes + s.pooledBytes + k <= m.memBudget \/ s.pool[k] = << >>
    <3>1. s.liveBytes \in Int /\ s.pooledBytes \in Int
      BY DEF Good, IsState
    <3>. QED  BY <1>1, <1>2, <1>6, <3>1
  <2>. QED  BY <1>2, <2>1, <2>2, <2>3 DEF r
<1>7. CASE Ready(s, k) = {} /\ over
  <2>1. r = GpuBarrier(m)
    BY <1>3, <1>7
  <2>2. /\ Faithful(m, r) /\ r.reply = m.reply /\ r.pool = m.pool
        /\ r.encodeGen = m.encodeGen /\ Good(r)
        /\ r.status = "running" => r.commands = << >>
    BY <1>4, <2>1, BarrierFaithful, BarrierKeepsLedger, BarrierGood
  <2>3. Faithful(s, r)
    BY <1>2, <2>2 DEF Faithful, SameHeap
  <2>4. ASSUME r.status = "running" PROVE Ready(r, k) # {}
    <3>1. r.completedGen = r.encodeGen
      <4>1. r.commands = << >> /\ Windowed(r) /\ r.completedGen \in Nat /\ r.encodeGen \in Nat
        BY <2>2, <2>4 DEF Good, Consistent, IsState
      <4>. HIDE DEF r
      <4>. QED  BY <4>1 DEF Windowed
    <3>2. r.pool[k] = s.pool[k] /\ s.pool[k] # << >> /\ s.pool[k] \in Seq(Entry)
      BY <1>2, <1>7, <2>2 DEF SameHeap, Good, IsState
    <3>3. 1 \in DOMAIN r.pool[k]
      BY <3>2
    <3>4. r.pool[k][1].gen <= r.encodeGen
      BY <2>2, <2>4, <3>3 DEF Good, Consistent, GensBounded
    <3>. QED  BY <3>1, <3>3, <3>4 DEF Ready
  <2>. QED  BY <1>2, <2>2, <2>3, <2>4 DEF r
<1>. QED  BY <1>5, <1>6, <1>7

(* What an allocation, after the valve left r, makes of the state s.         *)
Allocates(s, r, a, k, b) ==
    /\ a.gpuError = r.gpuError /\ a.reply = r.reply /\ a.status = r.status
    /\ a.commands = r.commands /\ a.completedGen = r.completedGen
    /\ a.encodeGen = r.encodeGen /\ a.memBudget = r.memBudget
    /\ a.liveBytes = s.liveBytes + k
    /\ Ready(r, k) # {} =>
        /\ a.pooledBytes = s.pooledBytes - k
        /\ FirstReady(r, k) \in DOMAIN s.pool[k]
        /\ a.pool = [s.pool EXCEPT ![k] = RemoveAt(s.pool[k], FirstReady(r, k))]
        /\ a.contents = r.contents
    /\ Ready(r, k) = {} =>
        /\ a.pooledBytes = s.pooledBytes
        /\ a.pool = s.pool
        /\ a.contents = [r.contents EXCEPT ![b] = Zero]

LEMMA AllocFrame ==
    ASSUME NEW s, Good(s), NEW h \in Handles, h \notin Live(s), NEW n \in Lens,
           NEW b \in Draws(s, Key(n))
    PROVE  Allocates(s, Valve(s, Key(n)), AllocTensor(s, h, n, b), Key(n), b)
<1>. DEFINE k == Key(n)
            r == Valve(s, k)
            p == IF Ready(r, k) # {} THEN PoolHit(r, k) ELSE NewBuffer(r, k, b)
            a == NewTensor(p, h, n, b)
<1>1. a = AllocTensor(s, h, n, b)
  BY DEF AllocTensor
<1>2. k \in Keys /\ b \in Buffers
  BY KeyInKeys, AllocTensorGood
<1>3. /\ Good(r) /\ IsState(r) /\ r.pool = s.pool
      /\ r.liveBytes = s.liveBytes /\ r.pooledBytes = s.pooledBytes
  BY <1>2, ValveKeeps DEF Good
<1>. HIDE DEF k, r
<1>4. CASE Ready(r, k) # {}
  <2>1. p = PoolHit(r, k)
    BY <1>4
  <2>2. /\ IsState(p) /\ p.pool = [r.pool EXCEPT ![k] = RemoveAt(r.pool[k], FirstReady(r, k))]
        /\ p.liveBytes = r.liveBytes + k /\ p.pooledBytes = r.pooledBytes - k
        /\ p.commands = r.commands /\ p.encodeGen = r.encodeGen
        /\ p.completedGen = r.completedGen /\ p.memBudget = r.memBudget
        /\ p.contents = r.contents /\ p.status = r.status
    <3>1. k \in Keys /\ IsState(r)
      BY <1>2, <1>3
    <3>. DEFINE w == PoolHit(r, k)
    <3>2. /\ IsState(w)
          /\ w.pool = [r.pool EXCEPT ![k] = RemoveAt(r.pool[k], FirstReady(r, k))]
          /\ w.liveBytes = r.liveBytes + k /\ w.pooledBytes = r.pooledBytes - k
          /\ w.commands = r.commands /\ w.encodeGen = r.encodeGen
          /\ w.completedGen = r.completedGen /\ w.memBudget = r.memBudget
          /\ w.contents = r.contents /\ w.status = r.status
      BY <1>4, <3>1, PoolHitFields
    <3>. HIDE DEF p, w
    <3>3. p = w
      BY <2>1 DEF w
    <3>. QED  BY <3>2, <3>3
  <2>3. p.gpuError = r.gpuError /\ p.reply = r.reply
    BY <1>3, <2>1 DEF PoolHit, IsState
  <2>4. FirstReady(r, k) \in DOMAIN r.pool[k]
    BY <1>2, <1>3, <1>4, FirstReadyIsReady
  <2>. HIDE DEF p
  <2>5. /\ a.pool = p.pool /\ a.commands = p.commands /\ a.encodeGen = p.encodeGen
        /\ a.completedGen = p.completedGen /\ a.liveBytes = p.liveBytes
        /\ a.pooledBytes = p.pooledBytes /\ a.contents = p.contents
        /\ a.memBudget = p.memBudget /\ a.reply = p.reply /\ a.status = p.status
        /\ a.gpuError = p.gpuError
    BY <1>2, <2>2, NewTensorFields DEF NewTensor, IsState
  <2>. HIDE DEF a
  <2>6. Allocates(s, r, a, k, b)
    BY <1>3, <1>4, <2>2, <2>3, <2>4, <2>5 DEF Allocates
  <2>. QED  BY <1>1, <2>6 DEF k, r
<1>5. CASE Ready(r, k) = {}
  <2>1. p = NewBuffer(r, k, b)
    BY <1>5
  <2>2. /\ IsState(p) /\ p.pool = r.pool
        /\ p.liveBytes = r.liveBytes + k /\ p.pooledBytes = r.pooledBytes
        /\ p.commands = r.commands /\ p.encodeGen = r.encodeGen
        /\ p.completedGen = r.completedGen /\ p.memBudget = r.memBudget
        /\ p.contents = [r.contents EXCEPT ![b] = Zero] /\ p.status = r.status
    BY <1>2, <1>3, <2>1, NewBufferFields DEF SameHeap
  <2>3. p.gpuError = r.gpuError /\ p.reply = r.reply
    BY <1>3, <2>1 DEF NewBuffer, IsState
  <2>. HIDE DEF p
  <2>5. /\ a.pool = p.pool /\ a.commands = p.commands /\ a.encodeGen = p.encodeGen
        /\ a.completedGen = p.completedGen /\ a.liveBytes = p.liveBytes
        /\ a.pooledBytes = p.pooledBytes /\ a.contents = p.contents
        /\ a.memBudget = p.memBudget /\ a.reply = p.reply /\ a.status = p.status
        /\ a.gpuError = p.gpuError
    BY <1>2, <2>2, NewTensorFields DEF NewTensor, IsState
  <2>. HIDE DEF a
  <2>6. Allocates(s, r, a, k, b)
    BY <1>3, <1>5, <2>2, <2>3, <2>5 DEF Allocates
  <2>. QED  BY <1>1, <2>6 DEF k, r
<1>. QED  BY <1>4, <1>5

LEMMA AllocBalanced ==
    ASSUME NEW s, Good(s), NEW h \in Handles, h \notin Live(s), NEW n \in Lens,
           NEW b \in Draws(s, Key(n)), Balanced(s),
           AllocTensor(s, h, n, b).status = "running"
    PROVE  Balanced(AllocTensor(s, h, n, b))
<1>. DEFINE a == AllocTensor(s, h, n, b)
            k == Key(n)
            r == Valve(s, k)
            f == FirstReady(r, k)
<1>0. Allocates(s, r, a, k, b)
  BY AllocFrame
<1>1. /\ Good(a) /\ a.tensors[h] = Boxed(n, b)
      /\ \A x \in Handles \ {h} : a.tensors[x] = s.tensors[x]
      /\ b \in Buffers /\ a.status = "running" /\ s.status = "running"
      /\ \A x \in Live(s) : s.tensors[x].buffer # b
  BY AllocTensorGood
<1>. HIDE DEF a, k, r
<1>2. /\ Boxed(n, b).buffer = b /\ Boxed(n, b).len = n /\ Boxed(n, b).refCount = 1
  BY <1>1, BoxedFields
<1>3. /\ a.liveBytes = s.liveBytes + k
      /\ Ready(r, k) # {} => /\ a.pooledBytes = s.pooledBytes - k
                             /\ f \in DOMAIN s.pool[k]
                             /\ a.pool = [s.pool EXCEPT ![k] = RemoveAt(s.pool[k], f)]
      /\ Ready(r, k) = {} => a.pooledBytes = s.pooledBytes /\ a.pool = s.pool
  BY <1>0 DEF Allocates
<1>4. k \in Keys /\ k \in Nat
  BY KeyInKeys, KeysAreNat DEF k
<1>. HIDE DEF f
<1>5. Live(a) = Live(s) \cup {h} /\ Attached(a) = Attached(s) \cup {b} /\ b \notin Attached(s)
  <2>1. Live(a) = Live(s) \cup {h} /\ \A x \in Live(s) : a.tensors[x] = s.tensors[x]
    BY <1>1, <1>2 DEF Live
  <2>. QED  BY <1>1, <1>2, <2>1 DEF Attached
<1>6. Consistent(a) /\ Consistent(s) /\ IsState(a) /\ IsState(s)
  BY <1>1 DEF Good
<1>7. a.liveBytes = SumFunction(Sizes(a))
  <2>1. Sizes(a)[b] = k
    BY <1>1, <1>2, <1>5, <1>6, SizeIs DEF Sizes, Consistent, k
  <2>2. ASSUME NEW d \in Attached(s) PROVE Sizes(a)[d] = Sizes(s)[d]
    <3>1. PICK x \in Live(s) : s.tensors[x].buffer = d
      BY DEF Attached
    <3>2. a.tensors[x] = s.tensors[x] /\ x \in Live(a)
      BY <1>1, <1>5 DEF Live
    <3>3. SizeOf(a, d) = Key(s.tensors[x].len) /\ SizeOf(s, d) = Key(s.tensors[x].len)
      BY <1>6, <3>1, <3>2, SizeIs DEF Consistent
    <3>. QED  BY <1>5, <3>3 DEF Sizes
  <2>3. DOMAIN Sizes(a) = DOMAIN Sizes(s) \cup {b} /\ b \notin DOMAIN Sizes(s)
    BY <1>5 DEF Sizes
  <2>4. IsFiniteSet(DOMAIN Sizes(s)) /\ \A d \in DOMAIN Sizes(s) : Sizes(s)[d] \in Int
    BY <1>6, SizesType
  <2>5. /\ Sizes(a) = [d \in DOMAIN Sizes(a) |-> Sizes(a)[d]]
        /\ Sizes(s) = [d \in DOMAIN Sizes(s) |-> Sizes(s)[d]]
        /\ \A d \in DOMAIN Sizes(s) : Sizes(a)[d] = Sizes(s)[d]
    BY <2>2 DEF Sizes
  <2>6. SumFunction(Sizes(a)) = SumFunction(Sizes(s)) + Sizes(a)[b]
    BY <1>4, <2>1, <2>3, <2>4, <2>5, SumGains
  <2>7. s.liveBytes = SumFunction(Sizes(s))
    BY DEF Balanced, Sizes
  <2>. QED  BY <1>3, <2>1, <2>6, <2>7
<1>8. a.pooledBytes = SumFunction(PoolSizes(a))
  <2>1. s.pooledBytes = SumFunction(PoolSizes(s))
    BY DEF Balanced, PoolSizes
  <2>2. CASE Ready(r, k) = {}
    BY <1>3, <2>1, <2>2 DEF PoolSizes
  <2>3. CASE Ready(r, k) # {}
    <3>1. /\ s.pool \in [Keys -> Seq(Entry)] /\ s.pool[k] \in Seq(Entry)
          /\ s.pooledBytes \in Int
      BY <1>4, <1>6 DEF IsState
    <3>2. /\ a.pool[k] = RemoveAt(s.pool[k], f)
          /\ \A l \in Keys \ {k} : a.pool[l] = s.pool[l]
      BY <1>3, <1>4, <2>3, <3>1
    <3>3. Len(a.pool[k]) = Len(s.pool[k]) - 1 /\ Len(s.pool[k]) \in Nat
      BY <1>3, <2>3, <3>1, <3>2, RemoveAtLen
    <3>4. /\ IsFiniteSet(DOMAIN PoolSizes(s)) /\ DOMAIN PoolSizes(s) = Keys
          /\ DOMAIN PoolSizes(a) = Keys
          /\ \A l \in Keys : PoolSizes(s)[l] \in Int /\ PoolSizes(a)[l] \in Int
      BY <1>6, PoolSizesType
    <3>5. \A l \in Keys \ {k} : PoolSizes(a)[l] = PoolSizes(s)[l]
      BY <3>2 DEF PoolSizes
    <3>6. SumFunction(PoolSizes(a)) =
            SumFunction(PoolSizes(s)) - PoolSizes(s)[k] + PoolSizes(a)[k]
      BY <1>4, <3>4, <3>5, SumChanges
    <3>7. PoolSizes(a)[k] = PoolSizes(s)[k] - k /\ PoolSizes(s)[k] \in Int
      <4>1. /\ PoolSizes(s)[k] = k * Len(s.pool[k]) /\ PoolSizes(a)[k] = k * Len(a.pool[k])
        BY <1>4 DEF PoolSizes
      <4>2. k * (Len(s.pool[k]) - 1) = k * Len(s.pool[k]) - k
        BY <1>4, <3>3
      <4>. QED  BY <1>4, <3>3, <3>4, <4>1, <4>2
    <3>. DEFINE old == PoolSizes(s)[k]
    <3>8. SumFunction(PoolSizes(a)) = s.pooledBytes - old + (old - k) /\ old \in Int
      BY <2>1, <3>6, <3>7
    <3>. HIDE DEF old
    <3>. QED  BY <1>3, <1>4, <2>3, <3>1, <3>8
  <2>. QED  BY <2>2, <2>3
<1>. QED  BY <1>7, <1>8 DEF Balanced, Sizes, PoolSizes, a

LEMMA AllocHonest ==
    ASSUME NEW s, Good(s), NEW h \in Handles, h \notin Live(s), NEW n \in Lens,
           NEW b \in Draws(s, Key(n))
    PROVE  Honest(s, AllocTensor(s, h, n, b))
<1>. DEFINE a == AllocTensor(s, h, n, b)
            k == Key(n)
            r == Valve(s, k)
<1>0. Allocates(s, r, a, k, b)
  BY AllocFrame
<1>. HIDE DEF a, k, r
<1>1. k \in Keys /\ k \in Nat
  BY KeyInKeys, KeysAreNat DEF k
<1>2. /\ a.gpuError = r.gpuError /\ a.status = r.status /\ a.commands = r.commands
      /\ a.completedGen = r.completedGen /\ a.memBudget = r.memBudget
      /\ a.liveBytes = s.liveBytes + k
      /\ Ready(r, k) # {} => a.pooledBytes = s.pooledBytes - k
      /\ Ready(r, k) = {} => a.pooledBytes = s.pooledBytes
  BY <1>0 DEF Allocates
<1>3. /\ Faithful(s, r)
      /\ r.status = "running" /\ Ready(r, k) = {} =>
            \/ s.liveBytes + s.pooledBytes + k <= r.memBudget
            \/ s.pool[k] = << >>
  BY <1>1, ValveFaithful DEF r
<1>4. s.liveBytes \in Int /\ s.pooledBytes \in Int
  BY DEF Good, IsState
<1>5. a.status = "running" /\ Balanced(s) => Balanced(a)
  BY AllocBalanced DEF a
<1>6. Faithful(s, a)
  BY <1>2, <1>3 DEF Faithful
<1>7. ASSUME a.status = "running" PROVE GrowsInBudget(s, a)
  <2>1. CASE Ready(r, k) # {}
    <3>1. a.liveBytes + a.pooledBytes = s.liveBytes + s.pooledBytes
      BY <1>1, <1>2, <1>4, <2>1
    <3>. QED  BY <1>4, <3>1 DEF GrowsInBudget
  <2>2. CASE Ready(r, k) = {} /\ s.pool[k] = << >>
    BY <1>1, <1>2, <2>2 DEF GrowsInBudget
  <2>3. CASE Ready(r, k) = {} /\ s.liveBytes + s.pooledBytes + k <= r.memBudget
    <3>1. a.liveBytes + a.pooledBytes = s.liveBytes + s.pooledBytes + k
      BY <1>1, <1>2, <1>4, <2>3
    <3>. QED  BY <1>2, <2>3, <3>1 DEF GrowsInBudget
  <2>. QED  BY <1>2, <1>3, <1>7, <2>1, <2>2, <2>3
<1>. QED  BY <1>5, <1>6, <1>7 DEF Honest, a

LEMMA EncodedHonest ==
    ASSUME NEW s, Good(s), NEW h \in Handles, h \notin Live(s), NEW n \in Lens,
           NEW b \in Draws(s, Key(n)), NEW op \in {"kernel", "fill"},
           NEW ins \in Seq(Operand), \A i \in DOMAIN ins : ins[i].buffer \in Attached(s)
    PROVE  Honest(s, EncodeAndRelease(AllocTensor(s, h, n, b), h, op, ins))
<1>. DEFINE a == AllocTensor(s, h, n, b)
            r == EncodeAndRelease(a, h, op, ins)
<1>1. /\ Good(a) /\ a.tensors[h].buffer \in Buffers
      /\ a.status = "running" =>
            /\ h \in Live(a)
            /\ \A x \in Live(a) \ {h} : a.tensors[x].buffer # a.tensors[h].buffer
            /\ \A i \in DOMAIN ins : ins[i].buffer \in Attached(a)
  BY Allocated
<1>2. Honest(s, a)
  BY AllocHonest
<1>. HIDE DEF a
<1>3. Good(r)
  BY <1>1, EncodeAndReleaseGood
<1>4. Faithful(a, r) /\ SameLedger(a, r)
  BY <1>1, EncodeFaithful
<1>. HIDE DEF r
<1>5. Honest(s, r)
  BY <1>1, <1>2, <1>3, <1>4, ThenSame
<1>. QED  BY <1>5 DEF a, r

LEMMA AllocZerosHonest ==
    ASSUME NEW s, Good(s), NEW h \in Handles, h \notin Live(s), NEW n \in Lens,
           NEW b \in Draws(s, Key(n))
    PROVE  Honest(s, AllocZeros(s, h, n, b))
<1>1. << >> \in Seq(Operand) /\ DOMAIN << >> = {}
  OBVIOUS
<1>2. Honest(s, EncodeAndRelease(AllocTensor(s, h, n, b), h, "fill", << >>))
  BY <1>1, EncodedHonest
<1>. QED  BY <1>2, AllocHonest DEF AllocZeros

LEMMA DispatchHonest ==
    ASSUME NEW s, Good(s), NEW h \in Handles, h \notin Live(s), NEW n \in Lens,
           NEW b \in Draws(s, Key(n)), NEW ins \in Seq(Operand),
           \A i \in DOMAIN ins : ins[i].buffer \in Attached(s)
    PROVE  Honest(s, Dispatch(s, h, n, b, ins))
BY AllocHonest, EncodedHonest DEF Dispatch

LEMMA AllocDataHonest ==
    ASSUME NEW s, Good(s), NEW h \in Handles, h \notin Live(s), NEW n \in Lens,
           NEW b \in Draws(s, Key(n)), NEW v
    PROVE  Honest(s, AllocData(s, h, n, v, b))
<1>. DEFINE a == AllocTensor(s, h, n, b)
            r == Upload(a, h, v)
<1>1. Good(a) /\ a.tensors[h].buffer \in Buffers
  BY Allocated
<1>2. Honest(s, a)
  BY AllocHonest
<1>. HIDE DEF a
<1>3. Good(r)
  BY <1>1, UploadGood
<1>4. Faithful(a, r) /\ SameLedger(a, r)
  BY <1>1 DEF Upload, Good, IsState, Faithful, SameLedger
<1>. HIDE DEF r
<1>5. Honest(s, r)
  BY <1>1, <1>2, <1>3, <1>4, ThenSame
<1>. QED  BY <1>5 DEF a, r, AllocData

-------------------------------------------------------------------------------
(* References.                                                               *)

(* The step changes nothing but tensor h and, it may be, the ledgers.        *)
OnlyTensor(s, r, h) ==
    /\ \A y \in Handles \ {h} : r.tensors[y] = s.tensors[y]
    /\ r.commands = s.commands /\ r.contents = s.contents
    /\ r.encodeGen = s.encodeGen /\ r.completedGen = s.completedGen
    /\ r.gpuError = s.gpuError /\ r.status = s.status /\ r.reply = s.reply

SameBytes(s, r) ==
    r.liveBytes = s.liveBytes /\ r.pooledBytes = s.pooledBytes /\ r.pool = s.pool

LEMMA CountFrame ==
    ASSUME NEW s, Good(s), NEW h \in Live(s), NEW n \in Nat
    PROVE  LET r == [s EXCEPT !.tensors[h].refCount = n]
           IN  /\ OnlyTensor(s, r, h) /\ SameBytes(s, r)
               /\ r.tensors[h].buffer = s.tensors[h].buffer
               /\ r.tensors[h].len = s.tensors[h].len
               /\ r.tensors[h].refCount = n
<1>1. IsState(s) /\ s.tensors \in [Handles -> Tensor] /\ h \in Handles
  BY DEF Good, IsState, Live
<1>. QED  BY <1>1 DEF IsState, OnlyTensor, SameBytes, Tensor

LEMMA ReshapeFrame ==
    ASSUME NEW s, Good(s), NEW h \in Handles, NEW x \in Live(s)
    PROVE  LET r == Reshape(s, h, x)
           IN  /\ OnlyTensor(s, r, h) /\ SameBytes(s, r)
               /\ r.tensors[h].buffer = s.tensors[x].buffer
               /\ r.tensors[h].len = s.tensors[x].len
               /\ r.tensors[h].refCount = 1
<1>1. IsState(s) /\ s.tensors \in [Handles -> Tensor] /\ x \in Handles
  BY DEF Good, IsState, Live
<1>. QED  BY <1>1 DEF IsState, OnlyTensor, SameBytes, Tensor, Reshape

LEMMA DropFrame ==
    ASSUME NEW s, Good(s), NEW h \in Handles
    PROVE  LET r == [s EXCEPT !.tensors[h] = Dead]
           IN  OnlyTensor(s, r, h) /\ SameBytes(s, r) /\ r.tensors[h] = Dead
<1>1. IsState(s) /\ s.tensors \in [Handles -> Tensor]
  BY DEF Good, IsState
<1>. QED  BY <1>1 DEF IsState, OnlyTensor, SameBytes

LEMMA RecycleFrame ==
    ASSUME NEW s, Good(s), NEW h \in Handles, s.tensors[h].len \in Lens
    PROVE  LET r == Recycle(s, h)
               k == Key(s.tensors[h].len)
           IN  /\ OnlyTensor(s, r, h) /\ r.tensors[h] = Dead
               /\ r.liveBytes = s.liveBytes - k /\ r.pooledBytes = s.pooledBytes + k
               /\ \A l \in Keys \ {k} : r.pool[l] = s.pool[l]
               /\ Len(r.pool[k]) = Len(s.pool[k]) + 1
<1>. DEFINE r == Recycle(s, h)
            k == Key(s.tensors[h].len)
            b == s.tensors[h].buffer
            e == [gen |-> s.lastUseGen[b], buffer |-> b]
<1>1. /\ IsState(s) /\ s.tensors \in [Handles -> Tensor]
      /\ s.pool \in [Keys -> Seq(Entry)] /\ k \in Keys
  BY KeyInKeys DEF Good, IsState
<1>2. /\ OnlyTensor(s, r, h) /\ r.tensors[h] = Dead
      /\ r.liveBytes = s.liveBytes - k /\ r.pooledBytes = s.pooledBytes + k
  BY <1>1 DEF IsState, OnlyTensor, Recycle
<1>3. r.pool = [s.pool EXCEPT ![k] = Append(s.pool[k], e)]
  BY <1>1 DEF IsState, Recycle
<1>. HIDE DEF r, k, e
<1>4. /\ r.pool[k] = Append(s.pool[k], e)
      /\ \A l \in Keys \ {k} : r.pool[l] = s.pool[l]
  BY <1>1, <1>3
<1>5. Len(Append(s.pool[k], e)) = Len(s.pool[k]) + 1
  <2>1. s.pool[k] \in Seq(Entry)
    BY <1>1
  <2>. HIDE DEF b
  <2>. QED  BY <2>1
<1>. QED  BY <1>2, <1>4, <1>5 DEF r, k

(* A buffer that two states' tensors of one length own has one size in both. *)
LEMMA SizesAgree ==
    ASSUME NEW s, NEW r, Consistent(s), Consistent(r), NEW B,
           \A b \in B : \E x \in Live(s), y \in Live(r) :
                /\ s.tensors[x].buffer = b /\ r.tensors[y].buffer = b
                /\ r.tensors[y].len = s.tensors[x].len
    PROVE  \A b \in B : b \in Attached(s) /\ b \in Attached(r) /\ Sizes(r)[b] = Sizes(s)[b]
<1>. SUFFICES ASSUME NEW b \in B
              PROVE  b \in Attached(s) /\ b \in Attached(r) /\ Sizes(r)[b] = Sizes(s)[b]
  OBVIOUS
<1>1. PICK x \in Live(s), y \in Live(r) :
        /\ s.tensors[x].buffer = b /\ r.tensors[y].buffer = b
        /\ r.tensors[y].len = s.tensors[x].len
  OBVIOUS
<1>2. b \in Attached(s) /\ SizeOf(s, b) = Key(s.tensors[x].len)
  BY <1>1, SizeIs DEF Consistent
<1>3. b \in Attached(r) /\ SizeOf(r, b) = Key(r.tensors[y].len)
  BY <1>1, SizeIs DEF Consistent
<1>. QED  BY <1>1, <1>2, <1>3 DEF Sizes

(* Only the way the buffers are shared changes.                              *)
LEMMA SharingHonest ==
    ASSUME NEW s, NEW r, NEW h, Good(s), Good(r), OnlyTensor(s, r, h), SameBytes(s, r),
           s.status = "running" =>
              /\ \A x \in Live(s) : \E y \in Live(r) :
                    /\ r.tensors[y].buffer = s.tensors[x].buffer
                    /\ r.tensors[y].len = s.tensors[x].len
              /\ \A y \in Live(r) : \E x \in Live(s) :
                    r.tensors[y].buffer = s.tensors[x].buffer
    PROVE  Honest(s, r)
<1>1. Faithful(s, r)
  BY DEF OnlyTensor, Faithful
<1>2. ASSUME r.status = "running", Balanced(s) PROVE Balanced(r) /\ GrowsInBudget(s, r)
  <2>1. s.status = "running" /\ Consistent(s) /\ Consistent(r)
    BY <1>2 DEF OnlyTensor, Good
  <2>2. Attached(r) = Attached(s)
    BY <2>1 DEF Attached
  <2>3. \A b \in Attached(s) : \E x \in Live(s), y \in Live(r) :
                /\ s.tensors[x].buffer = b /\ r.tensors[y].buffer = b
                /\ r.tensors[y].len = s.tensors[x].len
    BY <2>1 DEF Attached
  <2>4. \A b \in Attached(s) : Sizes(r)[b] = Sizes(s)[b]
    BY <2>1, <2>3, SizesAgree
  <2>5. Sizes(r) = Sizes(s)
    BY <2>2, <2>4 DEF Sizes
  <2>6. Balanced(r)
    BY <1>2, <2>5 DEF Balanced, Sizes, SameBytes
  <2>7. s.liveBytes \in Int /\ s.pooledBytes \in Int
    BY DEF Good, IsState
  <2>. QED  BY <2>6, <2>7 DEF GrowsInBudget, SameBytes
<1>. QED  BY <1>1, <1>2 DEF Honest

LEMMA CountHonest ==
    ASSUME NEW s, Good(s), s.status = "running", NEW h \in Live(s), NEW n \in Nat, n > 0
    PROVE  Honest(s, [s EXCEPT !.tensors[h].refCount = n])
<1>. DEFINE r == [s EXCEPT !.tensors[h].refCount = n]
<1>1. /\ OnlyTensor(s, r, h) /\ SameBytes(s, r)
      /\ r.tensors[h].buffer = s.tensors[h].buffer
      /\ r.tensors[h].len = s.tensors[h].len
      /\ r.tensors[h].refCount = n
  BY CountFrame
<1>2. Good(r)
  BY CountGood
<1>. HIDE DEF r
<1>3. Live(r) = Live(s) /\ h \in Handles
  BY <1>1 DEF Live, OnlyTensor
<1>4. \A x \in Live(s) : /\ r.tensors[x].buffer = s.tensors[x].buffer
                         /\ r.tensors[x].len = s.tensors[x].len
  BY <1>1 DEF Live, OnlyTensor
<1>5. Honest(s, r)
  BY <1>1, <1>2, <1>3, <1>4, SharingHonest
<1>. QED  BY <1>5 DEF r

LEMMA ReshapeHonest ==
    ASSUME NEW s, Good(s), s.status = "running",
           NEW h \in Handles, h \notin Live(s), NEW x \in Live(s)
    PROVE  Honest(s, Reshape(s, h, x))
<1>. DEFINE r == Reshape(s, h, x)
<1>1. /\ OnlyTensor(s, r, h) /\ SameBytes(s, r)
      /\ r.tensors[h].buffer = s.tensors[x].buffer
      /\ r.tensors[h].len = s.tensors[x].len
      /\ r.tensors[h].refCount = 1
  BY ReshapeFrame
<1>2. Good(r)
  BY ReshapeGood
<1>. HIDE DEF r
<1>3. Live(r) = Live(s) \cup {h}
  BY <1>1 DEF Live, OnlyTensor
<1>4. \A y \in Live(s) : r.tensors[y] = s.tensors[y]
  BY <1>1 DEF Live, OnlyTensor
<1>5. Honest(s, r)
  BY <1>1, <1>2, <1>3, <1>4, SharingHonest
<1>. QED  BY <1>5 DEF r

LEMMA DropHonest ==
    ASSUME NEW s, Good(s), s.status = "running", NEW h \in Live(s), Aliases(s, h) # {h}
    PROVE  Honest(s, [s EXCEPT !.tensors[h] = Dead])
<1>. DEFINE r == [s EXCEPT !.tensors[h] = Dead]
<1>0. h \in Handles /\ h \in Aliases(s, h)
  BY DEF Live, Aliases
<1>1. OnlyTensor(s, r, h) /\ SameBytes(s, r) /\ r.tensors[h] = Dead
  BY <1>0, DropFrame
<1>2. Good(r)
  BY DropGood
<1>3. PICK z \in Live(s) : z # h /\ s.tensors[z].buffer = s.tensors[h].buffer
  BY <1>0 DEF Aliases
<1>4. s.tensors[z].len = s.tensors[h].len
  BY <1>3 DEF Good, Consistent, Exclusive
<1>. HIDE DEF r
<1>5. Live(r) = Live(s) \ {h} /\ \A y \in Live(r) : r.tensors[y] = s.tensors[y]
  BY <1>1, DeadFields DEF Live, OnlyTensor
<1>6. \A x \in Live(s) : \E y \in Live(r) :
            /\ r.tensors[y].buffer = s.tensors[x].buffer
            /\ r.tensors[y].len = s.tensors[x].len
  <2>1. \A x \in Live(s) \ {h} : x \in Live(r)
    BY <1>5
  <2>2. z \in Live(r) /\ r.tensors[z].buffer = s.tensors[h].buffer
        /\ r.tensors[z].len = s.tensors[h].len
    BY <1>3, <1>4, <1>5
  <2>. QED  BY <1>5, <2>1, <2>2
<1>7. Honest(s, r)
  BY <1>1, <1>2, <1>5, <1>6, SharingHonest
<1>. QED  BY <1>7 DEF r

LEMMA RecycleHonest ==
    ASSUME NEW s, Good(s), s.status = "running", NEW h \in Live(s), Aliases(s, h) = {h}
    PROVE  Honest(s, Recycle(s, h))
<1>. DEFINE r == Recycle(s, h)
            k == Key(s.tensors[h].len)
            b == s.tensors[h].buffer
<1>0. /\ h \in Handles /\ s.tensors[h].len \in Lens /\ IsState(s) /\ Consistent(s)
      /\ k \in Keys /\ k \in Nat
  <2>1. h \in Handles /\ IsState(s) /\ Consistent(s)
    BY DEF Good, Live
  <2>2. s.tensors[h].len \in Lens
    BY <2>1 DEF Consistent, OwnersReal
  <2>. QED  BY <2>1, <2>2, KeyInKeys, KeysAreNat
<1>1. /\ OnlyTensor(s, r, h) /\ r.tensors[h] = Dead
      /\ r.liveBytes = s.liveBytes - k /\ r.pooledBytes = s.pooledBytes + k
      /\ \A l \in Keys \ {k} : r.pool[l] = s.pool[l]
      /\ Len(r.pool[k]) = Len(s.pool[k]) + 1
  BY <1>0, RecycleFrame
<1>2. Good(r)
  BY RecycleGood
<1>. HIDE DEF r
<1>3. IsState(r) /\ Consistent(r)
  BY <1>1, <1>2 DEF Good, OnlyTensor
<1>4. Faithful(s, r)
  BY <1>1 DEF OnlyTensor, Faithful
<1>5. s.liveBytes \in Int /\ s.pooledBytes \in Int
  BY <1>0 DEF IsState
<1>6. /\ Live(r) = Live(s) \ {h} /\ \A y \in Live(r) : r.tensors[y] = s.tensors[y]
      /\ \A y \in Live(r) : s.tensors[y].buffer # b
      /\ h \in Live(s) /\ s.tensors[h].buffer = b
  <2>1. Live(r) = Live(s) \ {h} /\ \A y \in Live(r) : r.tensors[y] = s.tensors[y]
    BY <1>1, DeadFields DEF Live, OnlyTensor
  <2>. QED  BY <2>1 DEF Aliases
<1>7. Attached(s) = Attached(r) \cup {b} /\ b \notin Attached(r)
  <2>. HIDE DEF b
  <2>. QED  BY <1>6 DEF Attached
<1>8. ASSUME Balanced(s) PROVE r.liveBytes = SumFunction(Sizes(r))
  <2>1. s.liveBytes = SumFunction(Sizes(s))
    BY <1>8 DEF Balanced, Sizes
  <2>2. \A d \in Attached(r) : Sizes(r)[d] = Sizes(s)[d]
    <3>1. \A d \in Attached(r) : \E x \in Live(s), y \in Live(r) :
                /\ s.tensors[x].buffer = d /\ r.tensors[y].buffer = d
                /\ r.tensors[y].len = s.tensors[x].len
      BY <1>6 DEF Attached
    <3>. QED  BY <1>0, <1>3, <3>1, SizesAgree
  <2>3. Sizes(s)[b] = k
    BY <1>0, <1>7, SizeIs DEF Sizes, Consistent
  <2>4. /\ IsFiniteSet(DOMAIN Sizes(r)) /\ \A d \in DOMAIN Sizes(r) : Sizes(r)[d] \in Nat
    BY <1>3, SizesType
  <2>5. /\ DOMAIN Sizes(s) = DOMAIN Sizes(r) \cup {b} /\ b \notin DOMAIN Sizes(r)
        /\ Sizes(s) = [d \in DOMAIN Sizes(s) |-> Sizes(s)[d]]
        /\ Sizes(r) = [d \in DOMAIN Sizes(r) |-> Sizes(r)[d]]
        /\ \A d \in DOMAIN Sizes(r) : Sizes(s)[d] = Sizes(r)[d]
    BY <1>7, <2>2 DEF Sizes
  <2>. HIDE DEF k, b
  <2>6. SumFunction(Sizes(s)) = SumFunction(Sizes(r)) + Sizes(s)[b]
    BY <1>0, <2>3, <2>4, <2>5, SumGains
  <2>7. SumFunction(Sizes(r)) \in Int
    BY <2>4, SumType
  <2>. QED  BY <1>0, <1>1, <1>5, <2>1, <2>3, <2>6, <2>7
<1>9. ASSUME Balanced(s) PROVE r.pooledBytes = SumFunction(PoolSizes(r))
  <2>1. s.pooledBytes = SumFunction(PoolSizes(s))
    BY <1>9 DEF Balanced, PoolSizes
  <2>2. /\ IsFiniteSet(DOMAIN PoolSizes(s)) /\ DOMAIN PoolSizes(s) = Keys
        /\ DOMAIN PoolSizes(r) = Keys
        /\ \A l \in Keys : PoolSizes(s)[l] \in Int /\ PoolSizes(r)[l] \in Int
    BY <1>0, <1>3, PoolSizesType
  <2>3. \A l \in Keys \ {k} : PoolSizes(r)[l] = PoolSizes(s)[l]
    BY <1>1 DEF PoolSizes
  <2>. HIDE DEF k
  <2>4. SumFunction(PoolSizes(r)) = SumFunction(PoolSizes(s)) - PoolSizes(s)[k] + PoolSizes(r)[k]
    BY <1>0, <2>2, <2>3, SumChanges
  <2>5. PoolSizes(r)[k] = PoolSizes(s)[k] + k
    <3>1. PoolSizes(s)[k] = k * Len(s.pool[k]) /\ PoolSizes(r)[k] = k * Len(r.pool[k])
      BY <1>0 DEF PoolSizes
    <3>2. Len(s.pool[k]) \in Nat
      <4>1. s.pool[k] \in Seq(Entry)
        BY <1>0 DEF IsState
      <4>. QED  BY <4>1
    <3>3. k * (Len(s.pool[k]) + 1) = k * Len(s.pool[k]) + k
      BY <1>0, <3>2
    <3>. QED  BY <1>1, <3>1, <3>3
  <2>. DEFINE old == PoolSizes(s)[k]
  <2>6. SumFunction(PoolSizes(r)) = s.pooledBytes - old + (old + k) /\ old \in Int
    BY <1>0, <2>1, <2>2, <2>4, <2>5
  <2>. HIDE DEF old
  <2>. QED  BY <1>0, <1>1, <1>5, <2>6
<1>10. GrowsInBudget(s, r)
  <2>1. r.liveBytes + r.pooledBytes = s.liveBytes + s.pooledBytes
    <3>. HIDE DEF k
    <3>. QED  BY <1>0, <1>1, <1>5
  <2>. QED  BY <1>5, <2>1 DEF GrowsInBudget
<1>11. Honest(s, r)
  BY <1>4, <1>8, <1>9, <1>10 DEF Honest, Balanced, Sizes, PoolSizes
<1>. QED  BY <1>11 DEF r

LEMMA ReleaseHonest ==
    ASSUME NEW s, Good(s), s.status = "running", NEW h \in Live(s)
    PROVE  Honest(s, Release(s, h))
<1>. DEFINE n == s.tensors[h].refCount
<1>1. n \in Nat
  BY DEF Good, IsState, Live, Tensor
<1>2. CASE n > 1
  <2>1. Release(s, h) = [s EXCEPT !.tensors[h].refCount = n - 1]
    BY <1>2 DEF Release
  <2>2. n - 1 \in Nat /\ n - 1 > 0
    BY <1>1, <1>2
  <2>. HIDE DEF n
  <2>. QED  BY <2>1, <2>2, CountHonest
<1>3. CASE ~(n > 1) /\ Aliases(s, h) = {h}
  BY <1>3, RecycleHonest DEF Release
<1>4. CASE ~(n > 1) /\ Aliases(s, h) # {h}
  BY <1>4, DropHonest DEF Release
<1>. QED  BY <1>2, <1>3, <1>4

-------------------------------------------------------------------------------
(* The calls about the pool, the budget and the reply.                       *)

LEMMA PooledIsNat ==
    ASSUME NEW s, IsState(s), Balanced(s)
    PROVE  s.pooledBytes \in Nat
<1>1. s.pooledBytes = SumFunction(PoolSizes(s))
  BY DEF Balanced, PoolSizes
<1>2. /\ IsFiniteSet(DOMAIN PoolSizes(s)) /\ DOMAIN PoolSizes(s) = Keys
      /\ \A k \in Keys : PoolSizes(s)[k] \in Nat
  BY PoolSizesType
<1>. QED  BY <1>1, <1>2, SumType

LEMMA PoolResetHonest ==
    ASSUME NEW s, Good(s), s.status = "running"
    PROVE  Honest(s, PoolReset(s))
<1>. DEFINE r == PoolReset(s)
<1>1. /\ r.pool = [k \in Keys |-> << >>] /\ r.pooledBytes = 0
      /\ r.liveBytes = s.liveBytes /\ r.tensors = s.tensors
      /\ r.commands = s.commands /\ r.completedGen = s.completedGen
      /\ r.gpuError = s.gpuError /\ r.status = s.status
  BY DEF PoolReset, Good, IsState
<1>2. Good(r)
  BY PoolResetGood
<1>. HIDE DEF r
<1>3. Faithful(s, r) /\ Consistent(s) /\ Consistent(r) /\ IsState(r) /\ IsState(s)
  BY <1>1, <1>2 DEF Faithful, Good
<1>4. ASSUME Balanced(s) PROVE Balanced(r) /\ GrowsInBudget(s, r)
  <2>1. Sizes(r) = Sizes(s)
    BY <1>1, <1>3, SameSizes DEF Live
  <2>2. SumFunction(PoolSizes(r)) = 0
    <3>1. \A k \in Keys : r.pool[k] = << >> /\ Len(r.pool[k]) = 0 /\ k * 0 = 0
      BY <1>1, KeysAreNat
    <3>2. /\ IsFiniteSet(DOMAIN PoolSizes(r)) /\ DOMAIN PoolSizes(r) = Keys
          /\ \A k \in Keys : PoolSizes(r)[k] = k * Len(r.pool[k])
      BY <1>3, PoolSizesType
    <3>. QED  BY <3>1, <3>2, SumZero
  <2>3. Balanced(r)
    BY <1>1, <1>4, <2>1, <2>2 DEF Balanced, Sizes, PoolSizes
  <2>4. s.pooledBytes \in Nat /\ s.liveBytes \in Int
    BY <1>3, <1>4, PooledIsNat DEF IsState
  <2>. QED  BY <1>1, <2>3, <2>4 DEF GrowsInBudget
<1>5. Honest(s, r)
  BY <1>3, <1>4 DEF Honest
<1>. QED  BY <1>5 DEF r

LEMMA SetBudgetHonest ==
    ASSUME NEW s, Good(s), NEW m \in Int
    PROVE  Honest(s, [s EXCEPT !.memBudget = m])
<1>. DEFINE r == [s EXCEPT !.memBudget = m]
<1>1. /\ r.liveBytes = s.liveBytes /\ r.pooledBytes = s.pooledBytes
      /\ r.pool = s.pool /\ r.tensors = s.tensors
      /\ r.commands = s.commands /\ r.completedGen = s.completedGen
      /\ r.gpuError = s.gpuError /\ r.status = s.status
  BY DEF Good, IsState
<1>2. Good(r)
  BY SetBudgetGood
<1>. HIDE DEF r
<1>3. Faithful(s, r)
  BY <1>1 DEF Faithful
<1>4. ASSUME r.status = "running", Balanced(s) PROVE Balanced(r) /\ GrowsInBudget(s, r)
  <2>1. Consistent(s) /\ Consistent(r)
    BY <1>1, <1>2, <1>4 DEF Good
  <2>2. Sizes(r) = Sizes(s)
    BY <1>1, <2>1, SameSizes DEF Live
  <2>3. s.liveBytes \in Int /\ s.pooledBytes \in Int
    BY DEF Good, IsState
  <2>. QED  BY <1>1, <1>4, <2>2, <2>3 DEF Balanced, Sizes, GrowsInBudget
<1>5. Honest(s, r)
  BY <1>3, <1>4 DEF Honest
<1>. QED  BY <1>5 DEF r

LEMMA ReadHonest ==
    ASSUME NEW s, Good(s), NEW h
    PROVE  Honest(s, ReadContents(FlushIfPending(s, h), h))
<1>. DEFINE f == FlushIfPending(s, h)
            r == ReadContents(f, h)
<1>1. Faithful(s, f) /\ SameLedger(s, f) /\ Good(f)
  BY FlushFaithful
<1>2. Good(r)
  BY ReadGood
<1>. HIDE DEF f
<1>3. Faithful(f, r) /\ SameLedger(f, r)
  BY <1>1 DEF ReadContents, Good, IsState, Faithful, SameLedger
<1>. HIDE DEF r
<1>4. Faithful(s, r) /\ SameLedger(s, r)
  BY <1>1, <1>3 DEF Faithful, SameLedger
<1>5. Honest(s, r)
  BY <1>2, <1>4, HonestSame
<1>. QED  BY <1>5 DEF r, f

-------------------------------------------------------------------------------
(* Every step.                                                               *)

(* What is wanted of a step.                                                 *)
Outcome ==
    /\ LedgerExact'
    /\ ValveAction
    /\ gpuError => completedGen' = completedGen
    /\ SyncAttributes => SyncAttributes'

LEMMA BecomeState ==
    ASSUME NEW r, Good(r), Become(r), r.status = "running"
    PROVE  state' = r
<1>1. state' = [encodeGen |-> r.encodeGen, completedGen |-> r.completedGen,
                commands |-> r.commands, guardHeld |-> r.guardHeld,
                tensors |-> r.tensors, lastUseGen |-> r.lastUseGen,
                pool |-> r.pool, contents |-> r.contents,
                liveBytes |-> r.liveBytes, pooledBytes |-> r.pooledBytes,
                peakDeviceBytes |-> r.peakDeviceBytes, memBudget |-> r.memBudget,
                gpuError |-> r.gpuError, status |-> r.status, reply |-> r.reply]
  BY DEF Become, state
<1>. QED  BY <1>1 DEF Good, IsState

(* A step that leaves the heap alone has the outcome.                        *)
LEMMA IdleOutcome ==
    ASSUME IInv, LedgerExact,
           UNCHANGED <<encodeGen, completedGen, commands, guardHeld, tensors,
                       lastUseGen, pool, contents, liveBytes, pooledBytes,
                       peakDeviceBytes, memBudget>>,
           IInv'
    PROVE  Outcome
<1>1. Consistent(state) /\ Consistent(state') /\ state'.tensors = state.tensors
      /\ state'.pool = state.pool /\ state'.liveBytes = state.liveBytes
      /\ state'.pooledBytes = state.pooledBytes
  BY DEF IInv, state
<1>2. Live(state') = Live(state)
  BY <1>1 DEF Live
<1>3. Sizes(state') = Sizes(state)
  BY <1>1, <1>2, SameSizes
<1>4. Balanced(state) => Balanced(state')
  BY <1>1, <1>3 DEF Balanced, Sizes
<1>5. LedgerExact'
  BY <1>4 DEF LedgerExact
<1>6. liveBytes \in Int /\ pooledBytes \in Int
  BY DEF IInv, TypeOK
<1>. QED  BY <1>5, <1>6 DEF Outcome, ValveAction, SyncAttributes

LEMMA HonestOutcome ==
    ASSUME IInv, LedgerExact, Running, NEW r, Good(r), Honest(quiet, r), Become(r)
    PROVE  Outcome
<1>0. IInv'
  BY BecomeKeepsIInv
<1>1. /\ quiet.liveBytes = liveBytes /\ quiet.pooledBytes = pooledBytes
      /\ quiet.pool = pool /\ quiet.gpuError = gpuError
      /\ quiet.completedGen = completedGen /\ quiet.commands = commands
      /\ quiet.tensors = state.tensors /\ quiet.status = "running"
  BY DEF quiet, state, Running
<1>2. Good(quiet) /\ Live(quiet) = Live(state) /\ Attached(quiet) = Attached(state)
  BY InvIsGood
<1>3. Balanced(quiet)
  <2>1. Consistent(quiet) /\ Consistent(state)
    BY <1>1, <1>2 DEF Good, IInv
  <2>2. Sizes(quiet) = Sizes(state)
    BY <1>1, <1>2, <2>1, SameSizes
  <2>3. Balanced(state) /\ state.liveBytes = liveBytes /\ state.pooledBytes = pooledBytes
        /\ state.pool = pool
    BY DEF LedgerExact, state
  <2>. QED  BY <1>1, <2>2, <2>3 DEF Balanced, Sizes
<1>4. CASE r.status = "running"
  <2>1. state' = r
    BY <1>4, BecomeState
  <2>2. /\ Balanced(r) /\ GrowsInBudget(quiet, r)
        /\ gpuError => r.completedGen = completedGen
        /\ SyncDispatch /\ commands = << >> => r.commands = << >>
    BY <1>1, <1>3, <1>4 DEF Honest, Faithful
  <2>3. LedgerExact'
    BY <2>1, <2>2 DEF LedgerExact
  <2>4. /\ liveBytes' = r.liveBytes /\ pooledBytes' = r.pooledBytes /\ memBudget' = r.memBudget
        /\ completedGen' = r.completedGen /\ commands' = r.commands
    BY <1>4 DEF Become
  <2>5. ValveAction
    BY <1>1, <2>2, <2>4 DEF ValveAction, GrowsInBudget
  <2>6. SyncAttributes => SyncAttributes'
    <3>1. Windowed(state')
      BY <1>0 DEF IInv, Consistent
    <3>2. commands' = << >> => completedGen' = encodeGen'
      BY <1>0, <3>1 DEF Windowed, state, IInv, TypeOK
    <3>. QED  BY <2>2, <2>4, <3>2 DEF SyncAttributes
  <2>. QED  BY <2>2, <2>3, <2>4, <2>5, <2>6 DEF Outcome
<1>5. CASE r.status # "running"
  BY <1>0, <1>5, IdleOutcome DEF Become
<1>. QED  BY <1>4, <1>5

LEMMA DispatchOutcome ==
    ASSUME IInv, LedgerExact, Running, NEW h \in Handles, h \notin Live(state),
           NEW k \in Nat, NEW ins \in Inputs(k), NEW n \in Lens,
           NEW b \in Draws(quiet, Key(n)),
           Become(Dispatch(quiet, h, n, b, Operands(ins)))
    PROVE  Outcome
<1>1. /\ Good(quiet) /\ h \notin Live(quiet) /\ Attached(quiet) = Attached(state)
  BY InvIsGood
<1>2. /\ Operands(ins) \in Seq(Operand)
      /\ \A i \in DOMAIN Operands(ins) : Operands(ins)[i].buffer \in Attached(quiet)
  BY <1>1, OperandsOfLive
<1>3. LET r == Dispatch(quiet, h, n, b, Operands(ins)) IN Good(r) /\ Honest(quiet, r)
  BY <1>1, <1>2, DispatchGood, DispatchHonest
<1>. QED  BY <1>3, HonestOutcome

LEMMA MatmulOutcome ==
    ASSUME IInv, LedgerExact, NEW h \in Handles, TensorMatmul(h)
    PROVE  Outcome
<1>1. /\ Good(quiet) /\ h \notin Live(quiet) /\ Running /\ h \notin Live(state)
  BY InvIsGood DEF TensorMatmul
<1>2. PICK x \in Live(state), y \in Live(state), n \in Lens :
        IF 0 \in {tensors[x].len, tensors[y].len, n}
        THEN \E b \in Draws(FlushIfPending(FlushIfPending(quiet, x), y), Key(n)) :
                Become(MatmulCpu(quiet, h, x, y, n, b))
        ELSE \E b \in Draws(quiet, Key(n)) :
                Become(Dispatch(quiet, h, n, b, Operands(<<x, y>>)))
  BY DEF TensorMatmul
<1>3. CASE 0 \in {tensors[x].len, tensors[y].len, n}
  <2>. DEFINE e == FlushIfPending(quiet, x)
              f == FlushIfPending(e, y)
  <2>1. /\ Good(e) /\ Faithful(quiet, e) /\ SameLedger(quiet, e)
        /\ e.tensors = quiet.tensors
    BY <1>1, FlushFaithful, FlushKeepsTensors
  <2>. HIDE DEF e
  <2>2. /\ Good(f) /\ Faithful(e, f) /\ SameLedger(e, f) /\ f.tensors = e.tensors
    BY <2>1, FlushFaithful, FlushKeepsTensors
  <2>3. PICK b \in Draws(f, Key(n)) : Become(AllocData(f, h, n, Zero, b))
    BY <1>2, <1>3 DEF MatmulCpu, e
  <2>. HIDE DEF f
  <2>. DEFINE r == AllocData(f, h, n, Zero, b)
  <2>4. h \notin Live(f)
    BY <1>1, <2>1, <2>2 DEF Live
  <2>5. Good(r) /\ Honest(f, r)
    BY <2>2, <2>4, AllocDataGood, AllocDataHonest
  <2>. HIDE DEF r
  <2>6. Faithful(quiet, f) /\ SameLedger(quiet, f)
    BY <2>1, <2>2 DEF Faithful, SameLedger
  <2>7. Honest(quiet, r)
    <3>1. Faithful(quiet, r)
      BY <2>5, <2>6 DEF Honest, Faithful
    <3>2. ASSUME r.status = "running", Balanced(quiet)
          PROVE  Balanced(r) /\ GrowsInBudget(quiet, r)
      <4>1. f.status = "running" /\ quiet.status = "running"
        BY <2>5, <2>6, <3>2 DEF Honest, Faithful
      <4>2. Balanced(f)
        BY <1>1, <2>2, <2>6, <3>2, <4>1, SameLedgerBalanced DEF Good
      <4>3. Balanced(r) /\ GrowsInBudget(f, r)
        BY <2>5, <3>2, <4>2 DEF Honest
      <4>. QED  BY <2>6, <4>3 DEF GrowsInBudget, SameLedger
    <3>. QED  BY <3>1, <3>2 DEF Honest
  <2>. QED  BY <1>1, <2>3, <2>5, <2>7, HonestOutcome DEF r
<1>4. CASE 0 \notin {tensors[x].len, tensors[y].len, n}
  <2>1. PICK b \in Draws(quiet, Key(n)) :
            Become(Dispatch(quiet, h, n, b, Operands(<<x, y>>)))
    BY <1>2, <1>4
  <2>2. <<x, y>> \in Inputs(2)
    BY DEF Inputs
  <2>. QED  BY <1>1, <2>1, <2>2, DispatchOutcome
<1>. QED  BY <1>3, <1>4

LEMMA NextOutcome == IInv /\ LedgerExact /\ [Next]_vars => Outcome
<1>. SUFFICES ASSUME IInv, LedgerExact, [Next]_vars PROVE Outcome
  OBVIOUS
<1>0. /\ MaxArity \in Nat /\ 0..MaxArity \subseteq Nat /\ 1..MaxArity \subseteq Nat
      /\ Budgets \subseteq Int
  BY ConstantsAssumption
<1>1. ASSUME NEW h \in Handles, TensorAllocGpu(h) PROVE Outcome
  <2>1. Good(quiet) /\ h \notin Live(quiet) /\ Running
    BY <1>1, InvIsGood DEF TensorAllocGpu
  <2>2. PICK n \in Lens, v \in Data : \E b \in Draws(quiet, Key(n)) :
            Become(AllocData(quiet, h, n, v, b))
    BY <1>1 DEF TensorAllocGpu
  <2>3. \A b \in Draws(quiet, Key(n)) : /\ Good(AllocData(quiet, h, n, v, b))
                                       /\ Honest(quiet, AllocData(quiet, h, n, v, b))
    BY <2>1, AllocDataGood, AllocDataHonest
  <2>. QED  BY <2>1, <2>2, <2>3, HonestOutcome
<1>2. ASSUME NEW h \in Handles, TensorAllocZerosGpu(h) PROVE Outcome
  <2>1. Good(quiet) /\ h \notin Live(quiet) /\ Running
    BY <1>2, InvIsGood DEF TensorAllocZerosGpu
  <2>2. PICK n \in Lens : \E b \in Draws(quiet, Key(n)) :
            Become(AllocZeros(quiet, h, n, b))
    BY <1>2 DEF TensorAllocZerosGpu
  <2>3. \A b \in Draws(quiet, Key(n)) : /\ Good(AllocZeros(quiet, h, n, b))
                                       /\ Honest(quiet, AllocZeros(quiet, h, n, b))
    BY <2>1, AllocZerosGood, AllocZerosHonest
  <2>. QED  BY <2>1, <2>2, <2>3, HonestOutcome
<1>3. ASSUME NEW h \in Handles, KernelDispatch(h) PROVE Outcome
  <2>1. Running /\ h \notin Live(state)
    BY <1>3 DEF KernelDispatch
  <2>2. PICK k \in 1..MaxArity : \E ins \in Inputs(k) :
            \E b \in Draws(quiet, Key(tensors[ins[1]].len)) :
                Become(Dispatch(quiet, h, tensors[ins[1]].len, b, Operands(ins)))
    BY <1>3 DEF KernelDispatch
  <2>3. \A ins \in Inputs(k) : tensors[ins[1]].len \in Lens
    <3>1. \A ins \in Inputs(k) : ins[1] \in Live(state)
      BY <1>0 DEF Inputs
    <3>. QED  BY <3>1 DEF IInv, Consistent, OwnersReal, state
  <2>. QED  BY <1>0, <2>1, <2>2, <2>3, DispatchOutcome
<1>4. ASSUME NEW h \in Handles, KernelDispatchV2(h) PROVE Outcome
  <2>1. Running /\ h \notin Live(state)
    BY <1>4 DEF KernelDispatchV2
  <2>2. PICK k \in 0..MaxArity : \E ins \in Inputs(k), n \in Lens :
            \E b \in Draws(quiet, Key(n)) : Become(Dispatch(quiet, h, n, b, Operands(ins)))
    BY <1>4 DEF KernelDispatchV2
  <2>. QED  BY <1>0, <2>1, <2>2, DispatchOutcome
<1>5. ASSUME NEW h \in Handles, TensorMatmul(h) PROVE Outcome
  BY <1>5, MatmulOutcome
<1>6. ASSUME NEW h \in Handles, TensorReshape(h) PROVE Outcome
  <2>1. PICK x \in Live(state) : Become(Reshape(quiet, h, x))
    BY <1>6 DEF TensorReshape
  <2>2. Good(Reshape(quiet, h, x)) /\ Honest(quiet, Reshape(quiet, h, x)) /\ Running
    BY <1>6, InvIsGood, ReshapeGood, ReshapeHonest DEF TensorReshape
  <2>. QED  BY <2>1, <2>2, HonestOutcome
<1>7. ASSUME NEW h \in Handles, TensorRetain(h) PROVE Outcome
  <2>. DEFINE n == quiet.tensors[h].refCount
  <2>1. /\ Good(quiet) /\ quiet.status = "running" /\ h \in Live(quiet) /\ Running
    BY <1>7, InvIsGood DEF TensorRetain
  <2>2. n + 1 \in Nat /\ n + 1 > 0
    BY <2>1 DEF Good, IsState, Live, Tensor
  <2>3. Become([quiet EXCEPT !.tensors[h].refCount = n + 1])
    BY <1>7 DEF TensorRetain
  <2>. HIDE DEF n
  <2>4. LET r == [quiet EXCEPT !.tensors[h].refCount = n + 1] IN Good(r) /\ Honest(quiet, r)
    BY <2>1, <2>2, CountGood, CountHonest
  <2>. QED  BY <2>1, <2>3, <2>4, HonestOutcome
<1>8. ASSUME NEW h \in Handles, TensorRelease(h) PROVE Outcome
  <2>1. Good(Release(quiet, h)) /\ Honest(quiet, Release(quiet, h)) /\ Running
    BY <1>8, InvIsGood, ReleaseGood, ReleaseHonest DEF TensorRelease
  <2>. QED  BY <1>8, <2>1, HonestOutcome DEF TensorRelease
<1>9. ASSUME NEW h \in Handles, HostRead(h) PROVE Outcome
  <2>1. LET r == ReadContents(FlushIfPending(quiet, h), h)
        IN  Good(r) /\ Honest(quiet, r) /\ Running
    BY <1>9, InvIsGood, ReadGood, ReadHonest DEF HostRead
  <2>. QED  BY <1>9, <2>1, HonestOutcome DEF HostRead
<1>10. CASE GpuBarrierCall
  <2>1. Good(GpuBarrier(quiet)) /\ Honest(quiet, GpuBarrier(quiet)) /\ Running
    BY <1>10, InvIsGood, BarrierGood, BarrierFaithful, HonestSame DEF GpuBarrierCall
  <2>. QED  BY <1>10, <2>1, HonestOutcome DEF GpuBarrierCall
<1>11. CASE MalusPoolReset
  <2>1. Good(PoolReset(quiet)) /\ Honest(quiet, PoolReset(quiet)) /\ Running
    BY <1>11, InvIsGood, PoolResetGood, PoolResetHonest DEF MalusPoolReset
  <2>. QED  BY <1>11, <2>1, HonestOutcome DEF MalusPoolReset
<1>12. CASE MalusSetMemBudget
  <2>1. PICK bytes \in Budgets :
            Become([quiet EXCEPT !.memBudget = IF bytes < -1 THEN -1 ELSE bytes])
    BY <1>12 DEF MalusSetMemBudget
  <2>2. (IF bytes < -1 THEN -1 ELSE bytes) \in Int
    BY <1>0
  <2>3. LET r == [quiet EXCEPT !.memBudget = IF bytes < -1 THEN -1 ELSE bytes]
        IN  Good(r) /\ Honest(quiet, r) /\ Running
    BY <1>12, <2>2, InvIsGood, SetBudgetGood, SetBudgetHonest DEF MalusSetMemBudget
  <2>. QED  BY <2>1, <2>3, HonestOutcome
<1>13. CASE GpuFault
  <2>1. /\ Become([quiet EXCEPT !.gpuError = TRUE]) /\ Running
        /\ Good([quiet EXCEPT !.gpuError = TRUE]) /\ quiet.status = "running"
    BY <1>13, InvIsGood, FaultGood DEF GpuFault
  <2>2. IInv'
    BY <2>1, BecomeKeepsIInv
  <2>3. UNCHANGED <<encodeGen, completedGen, commands, guardHeld, tensors,
                    lastUseGen, pool, contents, liveBytes, pooledBytes,
                    peakDeviceBytes, memBudget>>
    BY <2>1 DEF Become, quiet, state
  <2>. QED  BY <2>2, <2>3, IdleOutcome
<1>14. CASE UNCHANGED vars
  <2>1. IInv'
    BY <1>14, NextKeepsIInv
  <2>. QED  BY <1>14, <2>1, IdleOutcome DEF vars
<1>15. CASE Stopped
  BY <1>14, <1>15 DEF Stopped
<1>. QED  BY <1>1, <1>2, <1>3, <1>4, <1>5, <1>6, <1>7, <1>8, <1>9, <1>10, <1>11,
             <1>12, <1>13, <1>14, <1>15 DEF Next

LEMMA InitBalanced == Init => LedgerExact /\ SyncAttributes
<1>. SUFFICES ASSUME Init PROVE LedgerExact /\ SyncAttributes
  OBVIOUS
<1>1. Live(state) = {}
  BY DeadFields DEF Init, Live, state
<1>2. DOMAIN Sizes(state) = {}
  BY <1>1 DEF Sizes, Attached
<1>3. SumFunction(Sizes(state)) = 0
  BY <1>2, SumZero, FS_EmptySet
<1>4. SumFunction(PoolSizes(state)) = 0
  <2>1. \A k \in Keys : state.pool[k] = << >> /\ Len(state.pool[k]) = 0 /\ k * 0 = 0
    BY KeysAreNat DEF Init, state
  <2>2. DOMAIN PoolSizes(state) = Keys /\ \A k \in Keys : PoolSizes(state)[k] = 0
    BY <2>1 DEF PoolSizes
  <2>. QED  BY <2>2, KeysFinite, SumZero
<1>5. state.liveBytes = 0 /\ state.pooledBytes = 0
  BY DEF Init, state
<1>. QED  BY <1>3, <1>4, <1>5 DEF LedgerExact, Balanced, Sizes, PoolSizes, SyncAttributes, Init

(* LIVE_BYTES and POOLED_BYTES are exactly the bytes of the buffers tensors  *)
(* hold and of those in the pool, through any allocations, aliases, releases *)
(* and resets: what the budget valve and the memory report go by is true.    *)
THEOREM LedgersAreExact == Spec => []LedgerExact
<1>1. IInv /\ LedgerExact /\ [Next]_vars => LedgerExact'
  BY NextOutcome DEF Outcome
<1>. QED  BY <1>1, InitBalanced, IInvHolds, PTL DEF Spec

(* The budget valve: a step takes the device total past the budget only for  *)
(* a size of which the pool had no buffer at all, ready or pending.          *)
THEOREM ValveActsBeforeGrowth == Spec => ValveBeforeGrowth
<1>1. IInv /\ LedgerExact /\ [Next]_vars => [ValveAction]_vars
  BY NextOutcome DEF Outcome
<1>. QED  BY <1>1, IInvHolds, LedgersAreExact, PTL DEF Spec, ValveBeforeGrowth

(* Once the open command buffer is doomed, gpu_barrier never reports its     *)
(* generation as completed: the process stops instead.                       *)
THEOREM FaultsNeverComplete == Spec => FaultNeverCompletes
<1>1. IInv /\ LedgerExact /\ [Next]_vars => [gpuError => completedGen' = completedGen]_vars
  BY NextOutcome DEF Outcome
<1>. QED  BY <1>1, IInvHolds, LedgersAreExact, PTL DEF Spec, FaultNeverCompletes

(* MALUS_SYNC_DISPATCH=1: no entry point returns with work encoded and not   *)
(* run, not even those whose last command is followed by an allocation.      *)
THEOREM SyncDispatchAttributes == Spec => []SyncAttributes
<1>1. IInv /\ LedgerExact /\ SyncAttributes /\ [Next]_vars => SyncAttributes'
  BY NextOutcome DEF Outcome
<1>. QED  BY <1>1, InitBalanced, IInvHolds, LedgersAreExact, PTL DEF Spec

===============================================================================
