------------------------ MODULE MetalRuntime_refinement ------------------------
(***************************************************************************)
(* MetalRuntime implements TensorStore: behind the command buffer, the     *)
(* generations, the aliases and the pool, every operation is as good as    *)
(* done when it returns.                                                   *)
(***************************************************************************)
EXTENDS MetalRuntime_proofs

-------------------------------------------------------------------------------
(* Running a command buffer.                                                 *)

(* after[0..n] is what the first n commands of cs make of mem.               *)
RunsTo(after, mem, cs, n) ==
    /\ after[0] = mem
    /\ \A i \in 1..n : after[i] = Execute(after[i - 1], cs[i])

LEMMA AfterRuns ==
    ASSUME NEW mem, NEW cs, Len(cs) \in Nat
    PROVE  RunsTo(After(mem, cs), mem, cs, Len(cs))
<1>. DEFINE next(F) == [i \in 0..Len(cs) |->
                            IF i = 0 THEN mem ELSE Execute(F[i - 1], cs[i])]
            T == {n \in Nat : n <= Len(cs) => \E F : RunsTo(F, mem, cs, n)}
<1>1. 0 \in T
  <2>1. RunsTo([i \in {0} |-> mem], mem, cs, 0)
    BY DEF RunsTo
  <2>. QED  BY <2>1
<1>2. ASSUME NEW n \in Nat, n \in T PROVE n + 1 \in T
  <2>1. SUFFICES ASSUME n + 1 <= Len(cs) PROVE \E F : RunsTo(F, mem, cs, n + 1)
    OBVIOUS
  <2>2. PICK F : RunsTo(F, mem, cs, n)
    BY <1>2, <2>1
  <2>3. \A i \in 0..n : next(F)[i] = F[i]
    BY <2>1, <2>2 DEF RunsTo
  <2>4. \A i \in 1..(n + 1) : /\ next(F)[i] = Execute(F[i - 1], cs[i])
                              /\ next(F)[i - 1] = F[i - 1]
    <3>1. SUFFICES ASSUME NEW i \in 1..(n + 1)
                   PROVE  next(F)[i] = Execute(F[i - 1], cs[i]) /\ next(F)[i - 1] = F[i - 1]
      OBVIOUS
    <3>2. i \in 0..Len(cs) /\ i # 0 /\ i - 1 \in 0..n
      BY <2>1
    <3>3. next(F)[i] = Execute(F[i - 1], cs[i])
      BY <3>2
    <3>. QED  BY <2>3, <3>2, <3>3
  <2>5. next(F)[0] = mem
    OBVIOUS
  <2>. HIDE DEF next
  <2>6. RunsTo(next(F), mem, cs, n + 1)
    BY <2>4, <2>5 DEF RunsTo
  <2>. QED  BY <2>6
<1>3. \A n \in Nat : n \in T
  <2>. HIDE DEF T
  <2>. QED  BY <1>1, <1>2, NatInduct
<1>4. PICK F : RunsTo(F, mem, cs, Len(cs))
  BY <1>3
<1>. DEFINE G == [i \in 0..Len(cs) |-> F[i]]
<1>5. G = next(G)
  BY <1>4 DEF RunsTo
<1>. DEFINE A == After(mem, cs)
<1>6. A = next(A)
  BY <1>5 DEF After
<1>. HIDE DEF A
<1>7. RunsTo(A, mem, cs, Len(cs))
  BY <1>6 DEF RunsTo
<1>. QED  BY <1>7 DEF A

(* Where the open command buffer will end.                                   *)
LEMMA ExecutedIs ==
    ASSUME NEW s, IsState(s)
    PROVE  /\ Len(s.commands) \in Nat
           /\ RunsTo(After(s.contents, s.commands), s.contents, s.commands, Len(s.commands))
           /\ \A b \in Buffers : Executed(s)[b] =
                    After(s.contents, s.commands)[Len(s.commands)][b]
           /\ Executed(s) = [b \in Buffers |-> Executed(s)[b]]
BY AfterRuns DEF IsState, Executed

(* A command writes one buffer, and reads those it touches.                  *)
LEMMA ExecuteWrites ==
    ASSUME NEW mem, DOMAIN mem = Buffers, NEW c \in Command
    PROVE  /\ DOMAIN Execute(mem, c) = Buffers
           /\ \A b \in Buffers : b # c.out => Execute(mem, c)[b] = mem[b]
           /\ Execute(mem, c)[c.out] =
                IF c.op = "fill" THEN Zero
                ELSE Compute([i \in DOMAIN c.ins |-> Contents(mem, c.ins[i])])
BY DEF Execute, Command

LEMMA ExecuteReads ==
    ASSUME NEW mem, NEW m, DOMAIN mem = Buffers, DOMAIN m = Buffers, NEW c \in Command,
           NEW D, \A b \in D : m[b] = mem[b], Touches(c) \subseteq D
    PROVE  \A b \in D : b \in Buffers => Execute(m, c)[b] = Execute(mem, c)[b]
<1>1. \A i \in DOMAIN c.ins : Contents(m, c.ins[i]) = Contents(mem, c.ins[i])
  BY DEF Touches, Contents
<1>. DEFINE f == [i \in DOMAIN c.ins |-> Contents(m, c.ins[i])]
            g == [i \in DOMAIN c.ins |-> Contents(mem, c.ins[i])]
<1>2. f = g
  BY <1>1
<1>3. Execute(m, c)[c.out] = Execute(mem, c)[c.out]
  <2>1. Execute(m, c)[c.out] = IF c.op = "fill" THEN Zero ELSE Compute(f)
    BY ExecuteWrites
  <2>2. Execute(mem, c)[c.out] = IF c.op = "fill" THEN Zero ELSE Compute(g)
    BY ExecuteWrites
  <2>. HIDE DEF f, g
  <2>. QED  BY <1>2, <2>1, <2>2
<1>. QED  BY <1>3, ExecuteWrites

LEMMA CommandsTouchBuffers ==
    ASSUME NEW c \in Command PROVE Touches(c) \subseteq Buffers
<1>1. c.out \in Buffers /\ c.ins \in Seq(Operand)
  BY DEF Command
<1>2. \A i \in DOMAIN c.ins : c.ins[i].buffer \in Buffers
  <2>1. \A i \in DOMAIN c.ins : c.ins[i] \in Operand
    BY <1>1
  <2>. QED  BY <2>1 DEF Operand
<1>. QED  BY <1>1, <1>2 DEF Touches

(* Two runs of the same commands, from contents that agree on every buffer   *)
(* the commands touch.                                                       *)
LEMMA RunsAgree ==
    ASSUME NEW cs \in Seq(Command), NEW mem, NEW m, NEW D,
           DOMAIN mem = Buffers, DOMAIN m = Buffers,
           \A b \in D : m[b] = mem[b],
           \A i \in DOMAIN cs : Touches(cs[i]) \subseteq D,
           NEW F, NEW G, RunsTo(F, mem, cs, Len(cs)), RunsTo(G, m, cs, Len(cs))
    PROVE  /\ DOMAIN F[Len(cs)] = Buffers /\ DOMAIN G[Len(cs)] = Buffers
           /\ \A b \in D : b \in Buffers => G[Len(cs)][b] = F[Len(cs)][b]
<1>. DEFINE Agree(f, g) == /\ DOMAIN f = Buffers /\ DOMAIN g = Buffers
                           /\ \A b \in D : b \in Buffers => g[b] = f[b]
            T == {n \in Nat : n <= Len(cs) => Agree(F[n], G[n])}
<1>1. 0 \in T
  BY DEF RunsTo
<1>2. ASSUME NEW n \in Nat, n \in T PROVE n + 1 \in T
  <2>1. SUFFICES ASSUME n + 1 <= Len(cs) PROVE Agree(F[n + 1], G[n + 1])
    OBVIOUS
  <2>2. Agree(F[n], G[n]) /\ n + 1 \in DOMAIN cs /\ cs[n + 1] \in Command
        /\ n + 1 \in 1..Len(cs)
    BY <1>2, <2>1
  <2>. DEFINE c == cs[n + 1]
              f == F[n]
              g == G[n]
              B == D \cap Buffers
  <2>3. F[n + 1] = Execute(f, c) /\ G[n + 1] = Execute(g, c)
    BY <2>2 DEF RunsTo
  <2>4. Touches(c) \subseteq B /\ c \in Command /\ \A b \in B : g[b] = f[b]
    BY <2>2, CommandsTouchBuffers
  <2>5. DOMAIN f = Buffers /\ DOMAIN g = Buffers
    BY <2>2
  <2>. HIDE DEF c, f, g, B
  <2>6. \A b \in B : b \in Buffers => Execute(g, c)[b] = Execute(f, c)[b]
    BY <2>4, <2>5, ExecuteReads
  <2>7. DOMAIN Execute(f, c) = Buffers /\ DOMAIN Execute(g, c) = Buffers
    BY <2>4, <2>5, ExecuteWrites
  <2>. QED  BY <2>3, <2>6, <2>7 DEF B
<1>3. \A n \in Nat : n \in T
  <2>. HIDE DEF T
  <2>. QED  BY <1>1, <1>2, NatInduct
<1>. QED  BY <1>3

(* A buffer no command writes keeps its contents.                            *)
LEMMA RunKeeps ==
    ASSUME NEW cs \in Seq(Command), NEW mem, DOMAIN mem = Buffers, NEW b \in Buffers,
           \A i \in DOMAIN cs : cs[i].out # b,
           NEW F, RunsTo(F, mem, cs, Len(cs))
    PROVE  F[Len(cs)][b] = mem[b]
<1>. DEFINE T == {n \in Nat : n <= Len(cs) => DOMAIN F[n] = Buffers /\ F[n][b] = mem[b]}
<1>1. 0 \in T
  BY DEF RunsTo
<1>2. ASSUME NEW n \in Nat, n \in T PROVE n + 1 \in T
  <2>1. SUFFICES ASSUME n + 1 <= Len(cs)
                 PROVE  DOMAIN F[n + 1] = Buffers /\ F[n + 1][b] = mem[b]
    OBVIOUS
  <2>2. DOMAIN F[n] = Buffers /\ F[n][b] = mem[b] /\ n + 1 \in DOMAIN cs
        /\ cs[n + 1] \in Command /\ n + 1 \in 1..Len(cs)
    BY <1>2, <2>1
  <2>3. F[n + 1] = Execute(F[n], cs[n + 1])
    BY <2>2 DEF RunsTo
  <2>4. cs[n + 1].out # b
    BY <2>2
  <2>. DEFINE c == cs[n + 1]
              f == F[n]
  <2>5. F[n + 1] = Execute(f, c) /\ c \in Command /\ c.out # b
        /\ DOMAIN f = Buffers /\ f[b] = mem[b]
    BY <2>2, <2>3, <2>4
  <2>. HIDE DEF c, f
  <2>6. DOMAIN Execute(f, c) = Buffers /\ Execute(f, c)[b] = f[b]
    BY <2>5, ExecuteWrites
  <2>. QED  BY <2>5, <2>6
<1>3. \A n \in Nat : n \in T
  <2>. HIDE DEF T
  <2>. QED  BY <1>1, <1>2, NatInduct
<1>. QED  BY <1>3

(* One more command runs after the others.                                   *)
LEMMA RunAppend ==
    ASSUME NEW cs \in Seq(Command), NEW c \in Command, NEW mem, NEW F, NEW G,
           RunsTo(F, mem, cs, Len(cs)),
           RunsTo(G, mem, Append(cs, c), Len(Append(cs, c)))
    PROVE  G[Len(Append(cs, c))] = Execute(F[Len(cs)], c)
<1>. DEFINE q == Append(cs, c)
            T == {n \in Nat : n <= Len(cs) => G[n] = F[n]}
<1>1. Len(q) = Len(cs) + 1 /\ q[Len(cs) + 1] = c /\ \A i \in 1..Len(cs) : q[i] = cs[i]
  OBVIOUS
<1>2. /\ G[0] = F[0]
      /\ \A i \in 1..Len(cs) : G[i] = Execute(G[i - 1], cs[i])
      /\ G[Len(cs) + 1] = Execute(G[Len(cs)], c)
  <2>. HIDE DEF q
  <2>. QED  BY <1>1 DEF RunsTo, q
<1>3. 0 \in T
  BY <1>2
<1>4. ASSUME NEW n \in Nat, n \in T PROVE n + 1 \in T
  <2>1. SUFFICES ASSUME n + 1 <= Len(cs) PROVE G[n + 1] = F[n + 1]
    OBVIOUS
  <2>2. G[n] = F[n] /\ n + 1 \in 1..Len(cs)
    BY <1>4, <2>1
  <2>3. G[n + 1] = Execute(G[n], cs[n + 1])
    BY <1>2, <2>2
  <2>4. F[n + 1] = Execute(F[n], cs[n + 1])
    BY <2>2 DEF RunsTo
  <2>. QED  BY <2>2, <2>3, <2>4
<1>5. \A n \in Nat : n \in T
  <2>. HIDE DEF T
  <2>. QED  BY <1>3, <1>4, NatInduct
<1>6. G[Len(cs)] = F[Len(cs)]
  BY <1>5
<1>. QED  BY <1>1, <1>2, <1>6

-------------------------------------------------------------------------------
(* What the open command buffer will leave in the buffers.                   *)

LEMMA NothingOpen ==
    ASSUME NEW s, IsState(s), s.commands = << >>
    PROVE  \A b \in Buffers : Executed(s)[b] = s.contents[b]
BY ExecutedIs DEF RunsTo

LEMMA ExecutedUnwritten ==
    ASSUME NEW s, Good(s), NEW b \in Buffers, b \notin Written(s)
    PROVE  Executed(s)[b] = s.contents[b]
<1>1. IsState(s) /\ s.commands \in Seq(Command) /\ DOMAIN s.contents = Buffers
  BY DEF Good, IsState
<1>2. \A i \in DOMAIN s.commands : s.commands[i].out # b
  BY DEF Written
<1>. QED  BY <1>1, <1>2, ExecutedIs, RunKeeps

(* New contents in a buffer no open command touches stay there, and disturb  *)
(* nothing else.                                                             *)
LEMMA ExecutedElsewhere ==
    ASSUME NEW s, NEW r, Good(s), Good(r), r.commands = s.commands,
           NEW b, b \notin InFlight(s),
           \A d \in Buffers : d # b => r.contents[d] = s.contents[d]
    PROVE  /\ \A d \in Buffers : d # b => Executed(r)[d] = Executed(s)[d]
           /\ b \in Buffers => Executed(r)[b] = r.contents[b]
<1>. DEFINE cs == s.commands
            D == Buffers \ {b}
            F == After(s.contents, cs)
            G == After(r.contents, cs)
<1>1. /\ cs \in Seq(Command) /\ DOMAIN s.contents = Buffers /\ DOMAIN r.contents = Buffers
      /\ IsState(s) /\ IsState(r)
  BY DEF Good, IsState
<1>2. RunsTo(F, s.contents, cs, Len(cs)) /\ RunsTo(G, r.contents, cs, Len(cs))
  BY <1>1, ExecutedIs
<1>3. \A d \in Buffers : Executed(s)[d] = F[Len(cs)][d] /\ Executed(r)[d] = G[Len(cs)][d]
  BY <1>1, ExecutedIs
<1>4. \A i \in DOMAIN cs : Touches(cs[i]) \subseteq D
  BY <1>1, CommandsTouchBuffers DEF InFlight
<1>5. \A d \in D : r.contents[d] = s.contents[d]
  OBVIOUS
<1>. HIDE DEF F, G, cs
<1>6. \A d \in D : d \in Buffers => G[Len(cs)][d] = F[Len(cs)][d]
  <2>. HIDE DEF D
  <2>. QED  BY <1>1, <1>2, <1>4, <1>5, RunsAgree
<1>7. b \in Buffers => b \notin Written(r)
  BY DEF Written, InFlight, Touches
<1>. QED  BY <1>3, <1>6, <1>7, ExecutedUnwritten

LEMMA ExecutedAppend ==
    ASSUME NEW s, NEW r, Good(s), Good(r), NEW c \in Command,
           r.commands = Append(s.commands, c), r.contents = s.contents
    PROVE  \A b \in Buffers : Executed(r)[b] = Execute(Executed(s), c)[b]
<1>. DEFINE cs == s.commands
            F == After(s.contents, cs)
            G == After(s.contents, Append(cs, c))
            m == F[Len(cs)]
<1>1. cs \in Seq(Command) /\ DOMAIN s.contents = Buffers /\ IsState(s) /\ IsState(r)
  BY DEF Good, IsState
<1>2. /\ RunsTo(F, s.contents, cs, Len(cs))
      /\ RunsTo(G, s.contents, Append(cs, c), Len(Append(cs, c)))
  BY <1>1, ExecutedIs
<1>3. \A b \in Buffers : /\ Executed(s)[b] = m[b]
                         /\ Executed(r)[b] = G[Len(Append(cs, c))][b]
  <2>1. \A b \in Buffers : Executed(s)[b] = m[b]
    BY <1>1, ExecutedIs
  <2>2. After(r.contents, r.commands) = G /\ Len(r.commands) = Len(Append(cs, c))
    OBVIOUS
  <2>. HIDE DEF G
  <2>3. \A b \in Buffers :
            Executed(r)[b] = After(r.contents, r.commands)[Len(r.commands)][b]
    BY <1>1, ExecutedIs
  <2>. QED  BY <2>1, <2>2, <2>3
<1>4. DOMAIN Executed(s) = Buffers
  BY DEF Executed
<1>. HIDE DEF F, G
<1>5. G[Len(Append(cs, c))] = Execute(m, c)
  BY <1>1, <1>2, RunAppend
<1>6. DOMAIN m = Buffers
  <2>1. \A i \in DOMAIN cs : Touches(cs[i]) \subseteq Buffers
    BY <1>1, CommandsTouchBuffers
  <2>. QED  BY <1>1, <1>2, <2>1, RunsAgree
<1>. HIDE DEF m
<1>7. \A b \in Buffers : Execute(Executed(s), c)[b] = Execute(m, c)[b]
  BY <1>3, <1>4, <1>6, CommandsTouchBuffers, ExecuteReads
<1>. QED  BY <1>3, <1>5, <1>7

LEMMA BarrierExecutes ==
    ASSUME NEW s, Good(s), GpuBarrier(s).status = "running"
    PROVE  \A b \in Buffers : Executed(GpuBarrier(s))[b] = Executed(s)[b]
<1>. DEFINE r == GpuBarrier(s)
<1>1. CASE s.commands = << >>
  BY <1>1 DEF GpuBarrier, Good
<1>2. CASE s.commands # << >>
  <2>1. r.commands = << >> /\ r.contents = Executed(s)
    BY <1>2 DEF GpuBarrier, Good, IsState
  <2>2. IsState(r)
    BY BarrierType
  <2>. QED  BY <2>1, <2>2, NothingOpen
<1>. QED  BY <1>1, <1>2

-------------------------------------------------------------------------------
(* What the caller sees.  Between two runtime states, s before and r after,  *)
(* that the caller sees nothing happen, or sees a tensor of n elements come. *)

Seen(s, h) == ValueIn(Executed(s), s, h)

SameTensor(s, r, h) ==
    /\ r.tensors[h].refCount = s.tensors[h].refCount
    /\ r.tensors[h].len = s.tensors[h].len
    /\ Seen(r, h) = Seen(s, h)

SameView(s, r) == r.reply = s.reply /\ \A h \in Handles : SameTensor(s, r, h)

Arrives(s, r, h, n, v) ==
    /\ r.reply = s.reply
    /\ r.tensors[h].refCount = 1 /\ r.tensors[h].len = n
    /\ Seen(r, h) = IF n = 0 THEN Zero ELSE v
    /\ \A x \in Handles \ {h} : SameTensor(s, r, x)

LEMMA SeenIs ==
    ASSUME NEW s, NEW h \in Handles
    PROVE  /\ h \notin Live(s) => Seen(s, h) = Zero
           /\ h \in Live(s) =>
                Seen(s, h) = IF s.tensors[h].len = 0 THEN Zero
                             ELSE Executed(s)[s.tensors[h].buffer]
BY DEF Seen, ValueIn, Contents, OperandOf

LEMMA UnchangedTensor ==
    ASSUME NEW s, NEW r, NEW h \in Handles,
           r.tensors[h].refCount = s.tensors[h].refCount,
           r.tensors[h].len = s.tensors[h].len,
           h \in Live(s) =>
                /\ r.tensors[h].buffer = s.tensors[h].buffer
                /\ Executed(r)[s.tensors[h].buffer] = Executed(s)[s.tensors[h].buffer]
    PROVE  SameTensor(s, r, h)
<1>1. h \in Live(r) <=> h \in Live(s)
  BY DEF Live
<1>. QED  BY <1>1, SeenIs DEF SameTensor

LEMMA LiveBuffers ==
    ASSUME NEW s, Good(s), s.status = "running", NEW h \in Live(s)
    PROVE  h \in Handles /\ s.tensors[h].buffer \in Buffers /\ s.tensors[h].len \in Lens
BY DEF Good, Consistent, OwnersReal, Live

(* The heap is the same and every buffer ends with the same contents.        *)
LEMMA UnchangedView ==
    ASSUME NEW s, NEW r, Good(s), s.status = "running", r.reply = s.reply,
           \A h \in Handles : /\ r.tensors[h].refCount = s.tensors[h].refCount
                              /\ r.tensors[h].len = s.tensors[h].len
                              /\ r.tensors[h].buffer = s.tensors[h].buffer,
           \A b \in Buffers : Executed(r)[b] = Executed(s)[b]
    PROVE  SameView(s, r)
BY LiveBuffers, UnchangedTensor DEF SameView

LEMMA ThenSameView ==
    ASSUME NEW s, NEW a, NEW r, NEW h \in Handles, NEW n, NEW v, SameView(a, r)
    PROVE  /\ Arrives(s, a, h, n, v) => Arrives(s, r, h, n, v)
           /\ SameView(s, a) => SameView(s, r)
BY DEF SameView, SameTensor, Arrives

LEMMA AfterSameView ==
    ASSUME NEW s, NEW a, NEW r, NEW h \in Handles, NEW n, NEW v,
           SameView(s, a), Arrives(a, r, h, n, v)
    PROVE  Arrives(s, r, h, n, v)
BY DEF SameView, SameTensor, Arrives

LEMMA SelfView == ASSUME NEW s PROVE SameView(s, s)
BY DEF SameView, SameTensor

(* The same heap, open command buffer and contents.                          *)
LEMMA SameExecuted ==
    ASSUME NEW s, NEW r, r.commands = s.commands, r.contents = s.contents
    PROVE  Executed(r) = Executed(s)
BY DEF Executed

-------------------------------------------------------------------------------
(* Flushing is not seen.                                                     *)

LEMMA BarrierUnseen ==
    ASSUME NEW s, Good(s), GpuBarrier(s).status = "running"
    PROVE  SameView(s, GpuBarrier(s)) /\ s.status = "running"
<1>. DEFINE r == GpuBarrier(s)
<1>1. r.tensors = s.tensors /\ r.reply = s.reply /\ s.status = "running"
  BY BarrierKeepsLedger
<1>2. \A b \in Buffers : Executed(r)[b] = Executed(s)[b]
  BY BarrierExecutes
<1>. HIDE DEF r
<1>3. SameView(s, r)
  BY <1>1, <1>2, UnchangedView
<1>. QED  BY <1>1, <1>3 DEF r

LEMMA FlushUnseen ==
    ASSUME NEW s, Good(s), NEW x, FlushIfPending(s, x).status = "running"
    PROVE  SameView(s, FlushIfPending(s, x)) /\ s.status = "running"
BY BarrierUnseen, SelfView DEF FlushIfPending

LEMMA SyncUnseen ==
    ASSUME NEW s, Good(s), SyncPoint(s).status = "running"
    PROVE  SameView(s, SyncPoint(s)) /\ s.status = "running"
BY BarrierUnseen, SelfView DEF SyncPoint

LEMMA BudgetUnseen ==
    ASSUME NEW s, Good(s), s.status = "running", NEW m
    PROVE  SameView(s, [s EXCEPT !.memBudget = m])
<1>. DEFINE r == [s EXCEPT !.memBudget = m]
<1>1. r.tensors = s.tensors /\ r.reply = s.reply /\ r.commands = s.commands
      /\ r.contents = s.contents
  BY DEF Good, IsState
<1>. HIDE DEF r
<1>2. SameView(s, r)
  BY <1>1, SameExecuted, UnchangedView
<1>. QED  BY <1>2 DEF r

LEMMA ValveUnseen ==
    ASSUME NEW s, Good(s), NEW k \in Keys, Valve(s, k).status = "running"
    PROVE  SameView(s, Valve(s, k)) /\ s.status = "running"
<1>. DEFINE m == [s EXCEPT !.memBudget = BudgetBytes(s)]
            r == Valve(s, k)
<1>0. s.status = "running"
  BY ValveKeeps
<1>1. r = s \/ r = m \/ r = GpuBarrier(m)
  BY DEF Valve
<1>2. BudgetBytes(s) \in Int
  BY ConstantsAssumption DEF BudgetBytes, IsState, Good
<1>3. Good(m) /\ SameView(s, m)
  BY <1>0, <1>2, SetBudgetGood, BudgetUnseen
<1>. HIDE DEF m, r
<1>4. GpuBarrier(m).status = "running" => SameView(m, GpuBarrier(m))
  BY <1>3, BarrierUnseen
<1>5. r.status = "running"
  BY DEF r
<1>6. SameView(s, r)
  BY <1>1, <1>3, <1>4, <1>5, SelfView DEF SameView, SameTensor
<1>. QED  BY <1>0, <1>6 DEF r

-------------------------------------------------------------------------------
(* Allocation.                                                               *)

(* The buffer an allocation draws is touched by no open command.             *)
LEMMA DrawIsIdle ==
    ASSUME NEW s, Good(s), NEW k \in Keys, NEW b \in Draws(s, k),
           Valve(s, k).status = "running"
    PROVE  b \notin InFlight(Valve(s, k))
<1>. DEFINE r == Valve(s, k)
<1>1. Good(r) /\ r.status = "running"
  BY ValveKeeps
<1>2. b \in IF Ready(r, k) # {} THEN {r.pool[k][FirstReady(r, k)].buffer} ELSE Unowned(r)
  BY DEF Draws
<1>. HIDE DEF r
<1>3. CASE Ready(r, k) # {}
  <2>1. IsState(r) /\ Consistent(r)
    BY <1>1 DEF Good
  <2>2. FirstReady(r, k) \in DOMAIN r.pool[k]
        /\ r.pool[k][FirstReady(r, k)].gen <= r.completedGen
    BY <1>3, <2>1, FirstReadyIsReady
  <2>3. r.pool[k][FirstReady(r, k)].buffer \notin InFlight(r)
    BY <2>1, <2>2, ReadyIsIdle
  <2>. QED  BY <1>2, <1>3, <2>3 DEF r
<1>4. CASE Ready(r, k) = {}
  BY <1>2, <1>4 DEF Unowned, r
<1>. QED  BY <1>3, <1>4

(* A new tensor, that has its buffer for itself and finds there what the     *)
(* buffer was left with; nothing else changes.                               *)
LEMMA AllocSeen ==
    ASSUME NEW s, Good(s), NEW h \in Handles, h \notin Live(s), NEW n \in Lens,
           NEW b \in Draws(s, Key(n)), AllocTensor(s, h, n, b).status = "running"
    PROVE  LET a == AllocTensor(s, h, n, b)
           IN  /\ Arrives(s, a, h, n, a.contents[b])
               /\ b \notin InFlight(a)
               /\ Ready(Valve(s, Key(n)), Key(n)) = {} => a.contents[b] = Zero
<1>. DEFINE k == Key(n)
            r == Valve(s, k)
            a == AllocTensor(s, h, n, b)
<1>1. k \in Keys /\ r.status = "running"
  BY KeyInKeys, AllocTensorGood
<1>2. SameView(s, r) /\ Good(r) /\ r.tensors = s.tensors
  BY <1>1, ValveUnseen, ValveKeeps
<1>3. b \notin InFlight(r)
  BY <1>1, DrawIsIdle
<1>4. Allocates(s, r, a, k, b)
  BY AllocFrame
<1>5. /\ Good(a) /\ a.tensors[h] = Boxed(n, b) /\ b \in Buffers
      /\ \A x \in Handles \ {h} : a.tensors[x] = s.tensors[x]
      /\ \A x \in Live(s) : s.tensors[x].buffer # b
      /\ a.status = "running"
  BY AllocTensorGood
<1>. HIDE DEF a, r, k
<1>6. a.commands = r.commands /\ a.reply = r.reply
  BY <1>4 DEF Allocates
<1>7. /\ Ready(r, k) = {} => a.contents = [r.contents EXCEPT ![b] = Zero]
      /\ Ready(r, k) # {} => a.contents = r.contents
  BY <1>4 DEF Allocates
<1>8. DOMAIN r.contents = Buffers
  BY <1>2 DEF Good
<1>9. \A d \in Buffers : d # b => a.contents[d] = r.contents[d]
  BY <1>7, <1>8
<1>10. Ready(r, k) = {} => a.contents[b] = Zero
  BY <1>5, <1>7, <1>8
<1>11. /\ \A d \in Buffers : d # b => Executed(a)[d] = Executed(r)[d]
       /\ Executed(a)[b] = a.contents[b]
  BY <1>2, <1>3, <1>5, <1>6, <1>9, ExecutedElsewhere
<1>12. a.tensors[h].refCount = 1 /\ a.tensors[h].len = n /\ a.tensors[h].buffer = b
  BY <1>5, BoxedFields
<1>13. h \in Live(a)
  BY <1>12 DEF Live
<1>14. Seen(a, h) = IF n = 0 THEN Zero ELSE a.contents[b]
  BY <1>11, <1>12, <1>13, SeenIs
<1>15. ASSUME NEW x \in Handles \ {h} PROVE SameTensor(r, a, x)
  <2>1. a.tensors[x] = r.tensors[x]
    BY <1>2, <1>5
  <2>2. x \in Live(r) => r.tensors[x].buffer # b /\ r.tensors[x].buffer \in Buffers
    <3>1. SUFFICES ASSUME x \in Live(r)
                   PROVE  r.tensors[x].buffer # b /\ r.tensors[x].buffer \in Buffers
      OBVIOUS
    <3>2. x \in Live(s)
      BY <1>2, <3>1 DEF Live
    <3>. QED  BY <1>1, <1>2, <1>5, <3>1, <3>2, LiveBuffers DEF r
  <2>. QED  BY <1>11, <2>1, <2>2, UnchangedTensor
<1>16. Arrives(r, a, h, n, a.contents[b])
  BY <1>6, <1>12, <1>14, <1>15 DEF Arrives
<1>17. Arrives(s, a, h, n, a.contents[b])
  BY <1>2, <1>16, AfterSameView
<1>18. b \notin InFlight(a)
  BY <1>3, <1>6 DEF InFlight
<1>. QED  BY <1>10, <1>17, <1>18 DEF a, r, k

LEMMA AllocDataSeen ==
    ASSUME NEW s, Good(s), NEW h \in Handles, h \notin Live(s), NEW n \in Lens,
           NEW b \in Draws(s, Key(n)), NEW v, AllocData(s, h, n, v, b).status = "running"
    PROVE  Arrives(s, AllocData(s, h, n, v, b), h, n, v)
<1>. DEFINE a == AllocTensor(s, h, n, b)
            r == Upload(a, h, v)
<1>1. Good(a) /\ a.tensors[h].buffer = b /\ b \in Buffers /\ a.tensors[h].len = n
  BY Allocated
<1>2. a.status = "running" =>
        /\ h \in Live(a)
        /\ \A x \in Live(a) \ {h} : a.tensors[x].buffer # b
  BY <1>1, Allocated
<1>3. a.status = "running" => Arrives(s, a, h, n, a.contents[b]) /\ b \notin InFlight(a)
  BY AllocSeen
<1>4. r = AllocData(s, h, n, v, b)
  BY DEF AllocData
<1>. HIDE DEF a
<1>5. CASE n = 0
  <2>1. r = a
    BY <1>1, <1>5 DEF Upload
  <2>2. Arrives(s, r, h, n, v)
    BY <1>3, <1>4, <1>5, <2>1 DEF Arrives
  <2>. QED  BY <1>4, <2>2
<1>6. CASE n # 0
  <2>1. r = [a EXCEPT !.contents[b] = v]
    BY <1>1, <1>6 DEF Upload
  <2>2. Good(r)
    BY <1>1, UploadGood
  <2>3. /\ r.contents = [a.contents EXCEPT ![b] = v] /\ r.tensors = a.tensors
        /\ r.commands = a.commands /\ r.reply = a.reply /\ r.status = a.status
    BY <1>1, <2>1 DEF Good, IsState
  <2>4. a.status = "running"
    BY <1>4, <2>3
  <2>. HIDE DEF r
  <2>5. DOMAIN a.contents = Buffers
    BY <1>1 DEF Good
  <2>6. r.contents[b] = v /\ \A d \in Buffers : d # b => r.contents[d] = a.contents[d]
    BY <1>1, <2>3, <2>5
  <2>7. Executed(r)[b] = v /\ \A d \in Buffers : d # b => Executed(r)[d] = Executed(a)[d]
    <3>1. Good(a) /\ Good(r) /\ b \in Buffers /\ b \notin InFlight(a)
          /\ r.commands = a.commands
      BY <1>1, <1>3, <2>2, <2>3, <2>4
    <3>2. /\ \A d \in Buffers : d # b => Executed(r)[d] = Executed(a)[d]
          /\ Executed(r)[b] = r.contents[b]
      BY <2>6, <3>1, ExecutedElsewhere
    <3>. QED  BY <2>6, <3>2
  <2>8. Live(r) = Live(a)
    BY <2>3 DEF Live
  <2>9. Seen(r, h) = IF n = 0 THEN Zero ELSE v
    BY <1>1, <1>2, <2>3, <2>4, <2>7, <2>8, SeenIs
  <2>10. ASSUME NEW x \in Handles \ {h} PROVE SameTensor(a, r, x)
    <3>1. x \in Live(a) => a.tensors[x].buffer # b /\ a.tensors[x].buffer \in Buffers
      BY <1>1, <1>2, <2>4, LiveBuffers
    <3>. QED  BY <2>3, <2>7, <3>1, UnchangedTensor
  <2>11. Arrives(s, r, h, n, v)
    BY <1>3, <2>3, <2>4, <2>9, <2>10 DEF Arrives, SameTensor
  <2>. QED  BY <1>4, <2>11
<1>. QED  BY <1>5, <1>6

-------------------------------------------------------------------------------
(* Encoding.                                                                 *)

(* What a command writes, from what the buffers will hold when it runs.      *)
Output(s, op, ins) ==
    IF op = "fill" THEN Zero
    ELSE Compute([i \in DOMAIN ins |-> Contents(Executed(s), ins[i])])

LEMMA EncodeSeen ==
    ASSUME NEW s, Good(s), s.status = "running", NEW h \in Live(s),
           \A x \in Live(s) \ {h} : s.tensors[x].buffer # s.tensors[h].buffer,
           NEW op \in {"kernel", "fill"}, NEW ins \in Seq(Operand),
           \A i \in DOMAIN ins : ins[i].buffer \in Attached(s)
    PROVE  LET r == UnlockCommandBuffer(Encode(LockCommandBuffer(s), h, op, ins))
           IN  /\ Good(r) /\ r.status = "running" /\ r.reply = s.reply
               /\ r.tensors[h].refCount = s.tensors[h].refCount
               /\ r.tensors[h].len = s.tensors[h].len
               /\ Seen(r, h) = IF s.tensors[h].len = 0 THEN Zero ELSE Output(s, op, ins)
               /\ \A x \in Handles \ {h} : SameTensor(s, r, x)
<1>. DEFINE r == UnlockCommandBuffer(Encode(LockCommandBuffer(s), h, op, ins))
            c == CommandInto(s, h, op, ins)
            b == s.tensors[h].buffer
<1>1. h \in Handles /\ b \in Buffers /\ IsState(s)
  BY LiveBuffers DEF Good
<1>2. c \in Command /\ c.out = b /\ c.ins = ins /\ c.op = op
  <2>1. c.op = op
    BY DEF CommandInto
  <2>. QED  BY <1>1, <2>1, CommandIntoFields
<1>3. Good(r)
  BY EncodeGood
<1>4. r.reply = s.reply
  BY <1>1 DEF UnlockCommandBuffer, Encode, LockCommandBuffer, StampUse, CommandInto, IsState
<1>5. /\ r.commands = Append(s.commands, c) /\ r.contents = s.contents
      /\ \A x \in Handles : /\ r.tensors[x].buffer = s.tensors[x].buffer
                            /\ r.tensors[x].len = s.tensors[x].len
                            /\ r.tensors[x].refCount = s.tensors[x].refCount
      /\ r.status = s.status
  BY <1>1, EncodeFields
<1>. HIDE DEF r
<1>6. DOMAIN Executed(s) = Buffers
  BY DEF Executed
<1>. DEFINE out == Output(s, op, ins)
<1>. HIDE DEF c
<1>7. Execute(Executed(s), c)[b] = out
  <2>1. Execute(Executed(s), c)[c.out] =
            IF c.op = "fill" THEN Zero
            ELSE Compute([i \in DOMAIN c.ins |-> Contents(Executed(s), c.ins[i])])
    BY <1>2, <1>6, ExecuteWrites
  <2>. QED  BY <1>2, <2>1 DEF Output
<1>8. \A d \in Buffers : d # b => Execute(Executed(s), c)[d] = Executed(s)[d]
  BY <1>2, <1>6, ExecuteWrites
<1>9. \A d \in Buffers : Executed(r)[d] = Execute(Executed(s), c)[d]
  BY <1>2, <1>3, <1>5, ExecutedAppend
<1>. HIDE DEF out
<1>10. Executed(r)[b] = out /\ \A d \in Buffers : d # b => Executed(r)[d] = Executed(s)[d]
  BY <1>1, <1>7, <1>8, <1>9
<1>11. Live(r) = Live(s)
  BY <1>5 DEF Live
<1>12. Seen(r, h) = IF s.tensors[h].len = 0 THEN Zero ELSE out
  BY <1>1, <1>5, <1>10, <1>11, SeenIs
<1>13. ASSUME NEW x \in Handles \ {h} PROVE SameTensor(s, r, x)
  <2>1. x \in Live(s) => s.tensors[x].buffer # b /\ s.tensors[x].buffer \in Buffers
    BY LiveBuffers
  <2>. QED  BY <1>5, <1>10, <2>1, UnchangedTensor
<1>. QED  BY <1>1, <1>3, <1>4, <1>5, <1>12, <1>13 DEF r, out

LEMMA OperandSeen ==
    ASSUME NEW s, NEW x \in Live(s)
    PROVE  Contents(Executed(s), OperandOf(s, x)) = Seen(s, x)
BY DEF Seen, ValueIn

(* The command reads its inputs as they were before the allocation.          *)
LEMMA EncodedSeen ==
    ASSUME NEW s, Good(s), NEW h \in Handles, h \notin Live(s), NEW n \in Lens,
           NEW b \in Draws(s, Key(n)), NEW op \in {"kernel", "fill"},
           NEW ins \in Seq(Operand),
           \A i \in DOMAIN ins : \E x \in Live(s) : ins[i] = OperandOf(s, x),
           EncodeAndRelease(AllocTensor(s, h, n, b), h, op, ins).status = "running"
    PROVE  Arrives(s, EncodeAndRelease(AllocTensor(s, h, n, b), h, op, ins),
                   h, n, Output(s, op, ins))
<1>. DEFINE a == AllocTensor(s, h, n, b)
            r == EncodeAndRelease(a, h, op, ins)
            e == UnlockCommandBuffer(Encode(LockCommandBuffer(a), h, op, ins))
<1>1. Good(a) /\ a.tensors[h].buffer \in Buffers /\ a.tensors[h].len = n
      /\ \A x \in Handles \ {h} : a.tensors[x] = s.tensors[x]
  BY Allocated, AllocTensorGood
<1>2. \A i \in DOMAIN ins : ins[i].buffer \in Attached(s)
  BY DEF OperandOf, Attached
<1>3. a.status = "running" =>
        /\ h \in Live(a)
        /\ \A x \in Live(a) \ {h} : a.tensors[x].buffer # a.tensors[h].buffer
        /\ \A i \in DOMAIN ins : ins[i].buffer \in Attached(a)
        /\ Arrives(s, a, h, n, a.contents[b])
  BY <1>2, Allocated, AllocSeen
<1>. HIDE DEF a
<1>4. a.status = "running"
  <2>1. Faithful(a, r)
    BY <1>1, <1>3, EncodeFaithful
  <2>. QED  BY <2>1 DEF Faithful, a
<1>5. \A i \in DOMAIN ins : Contents(Executed(a), ins[i]) = Contents(Executed(s), ins[i])
  <2>1. SUFFICES ASSUME NEW i \in DOMAIN ins
                 PROVE  Contents(Executed(a), ins[i]) = Contents(Executed(s), ins[i])
    OBVIOUS
  <2>2. PICK x \in Live(s) : ins[i] = OperandOf(s, x)
    OBVIOUS
  <2>3. x \in Handles \ {h}
    BY DEF Live
  <2>4. x \in Live(a) /\ OperandOf(a, x) = OperandOf(s, x)
    BY <1>1, <2>3 DEF Live, OperandOf
  <2>5. Seen(a, x) = Seen(s, x)
    BY <1>3, <1>4, <2>3 DEF Arrives, SameTensor
  <2>. QED  BY <2>2, <2>4, <2>5, OperandSeen
<1>6. Output(a, op, ins) = Output(s, op, ins)
  <2>. DEFINE f == [i \in DOMAIN ins |-> Contents(Executed(a), ins[i])]
              g == [i \in DOMAIN ins |-> Contents(Executed(s), ins[i])]
  <2>1. f = g
    BY <1>5
  <2>2. Output(a, op, ins) = IF op = "fill" THEN Zero ELSE Compute(f)
    BY DEF Output
  <2>3. Output(s, op, ins) = IF op = "fill" THEN Zero ELSE Compute(g)
    BY DEF Output
  <2>. HIDE DEF f, g
  <2>. QED  BY <2>1, <2>2, <2>3
<1>. DEFINE v == Output(s, op, ins)
<1>7. /\ Good(e) /\ e.status = "running" /\ e.reply = a.reply
      /\ e.tensors[h].refCount = a.tensors[h].refCount
      /\ e.tensors[h].len = a.tensors[h].len
      /\ Seen(e, h) = IF a.tensors[h].len = 0 THEN Zero ELSE Output(a, op, ins)
      /\ \A x \in Handles \ {h} : SameTensor(a, e, x)
  BY <1>1, <1>3, <1>4, EncodeSeen
<1>8. r = SyncPoint(e)
  BY DEF EncodeAndRelease
<1>. HIDE DEF e, v
<1>9. Arrives(s, e, h, n, v)
  BY <1>1, <1>3, <1>4, <1>6, <1>7 DEF Arrives, SameTensor, v
<1>10. SameView(e, r)
  BY <1>7, <1>8, SyncUnseen DEF a
<1>11. Arrives(s, r, h, n, v)
  BY <1>9, <1>10, ThenSameView
<1>. QED  BY <1>11 DEF a, v

LEMMA AllocZerosSeen ==
    ASSUME NEW s, Good(s), NEW h \in Handles, h \notin Live(s), NEW n \in Lens,
           NEW b \in Draws(s, Key(n)), AllocZeros(s, h, n, b).status = "running"
    PROVE  Arrives(s, AllocZeros(s, h, n, b), h, n, Zero)
<1>1. CASE Ready(Valve(s, Key(n)), Key(n)) # {}
  <2>. DEFINE r == EncodeAndRelease(AllocTensor(s, h, n, b), h, "fill", << >>)
  <2>1. AllocZeros(s, h, n, b) = r
    BY <1>1 DEF AllocZeros
  <2>2. << >> \in Seq(Operand) /\ \A i \in DOMAIN << >> : FALSE
    OBVIOUS
  <2>3. Arrives(s, r, h, n, Output(s, "fill", << >>))
    BY <2>1, <2>2, EncodedSeen
  <2>. QED  BY <2>1, <2>3 DEF Output
<1>2. CASE Ready(Valve(s, Key(n)), Key(n)) = {}
  <2>1. AllocZeros(s, h, n, b) = AllocTensor(s, h, n, b)
    BY <1>2 DEF AllocZeros
  <2>. QED  BY <1>2, <2>1, AllocSeen
<1>. QED  BY <1>1, <1>2

LEMMA DispatchSeen ==
    ASSUME NEW s, Good(s), NEW h \in Handles, h \notin Live(s), NEW n \in Lens,
           NEW b \in Draws(s, Key(n)), NEW ins \in Seq(Operand),
           \A i \in DOMAIN ins : \E x \in Live(s) : ins[i] = OperandOf(s, x),
           Dispatch(s, h, n, b, ins).status = "running"
    PROVE  Arrives(s, Dispatch(s, h, n, b, ins), h, n, Output(s, "kernel", ins))
<1>1. CASE n = 0
  <2>. DEFINE a == AllocTensor(s, h, n, b)
  <2>1. Dispatch(s, h, n, b, ins) = a
    BY <1>1 DEF Dispatch
  <2>2. Arrives(s, a, h, n, a.contents[b])
    BY <2>1, AllocSeen
  <2>. HIDE DEF a
  <2>3. Arrives(s, a, h, n, Output(s, "kernel", ins))
    BY <1>1, <2>2 DEF Arrives
  <2>. QED  BY <2>1, <2>3
<1>2. CASE n # 0
  <2>1. Dispatch(s, h, n, b, ins)
            = EncodeAndRelease(AllocTensor(s, h, n, b), h, "kernel", ins)
    BY <1>2 DEF Dispatch
  <2>. QED  BY <2>1, EncodedSeen
<1>. QED  BY <1>1, <1>2

-------------------------------------------------------------------------------
(* References, and the calls that touch no tensor.                           *)

(* Of a tensor whose step leaves the others, the commands and the contents.  *)
LEMMA OthersUnseen ==
    ASSUME NEW s, NEW r, NEW h, OnlyTensor(s, r, h)
    PROVE  /\ \A x \in Handles \ {h} : SameTensor(s, r, x)
           /\ Executed(r) = Executed(s) /\ r.reply = s.reply
<1>1. Executed(r) = Executed(s)
  BY SameExecuted DEF OnlyTensor
<1>. QED  BY <1>1, UnchangedTensor DEF OnlyTensor

LEMMA ReshapeSeen ==
    ASSUME NEW s, Good(s), NEW h \in Handles, NEW x \in Live(s), h \notin Live(s)
    PROVE  Arrives(s, Reshape(s, h, x), h, s.tensors[x].len, Seen(s, x))
<1>. DEFINE r == Reshape(s, h, x)
<1>1. /\ OnlyTensor(s, r, h)
      /\ r.tensors[h].buffer = s.tensors[x].buffer
      /\ r.tensors[h].len = s.tensors[x].len
      /\ r.tensors[h].refCount = 1
  BY ReshapeFrame
<1>. HIDE DEF r
<1>2. /\ \A y \in Handles \ {h} : SameTensor(s, r, y)
      /\ Executed(r) = Executed(s) /\ r.reply = s.reply
  BY <1>1, OthersUnseen
<1>3. h \in Live(r) /\ x \in Handles
  BY <1>1 DEF Live
<1>4. Seen(r, h) = IF s.tensors[x].len = 0 THEN Zero ELSE Seen(s, x)
  BY <1>1, <1>2, <1>3, SeenIs
<1>5. Arrives(s, r, h, s.tensors[x].len, Seen(s, x))
  BY <1>1, <1>2, <1>4 DEF Arrives
<1>. QED  BY <1>5 DEF r

(* n references more or less to h, that stays.                               *)
LEMMA CountSeen ==
    ASSUME NEW s, Good(s), NEW h \in Live(s), NEW n \in Nat, n > 0
    PROVE  LET r == [s EXCEPT !.tensors[h].refCount = n]
           IN  /\ r.reply = s.reply /\ r.tensors[h].refCount = n
               /\ r.tensors[h].len = s.tensors[h].len /\ Seen(r, h) = Seen(s, h)
               /\ \A x \in Handles \ {h} : SameTensor(s, r, x)
<1>. DEFINE r == [s EXCEPT !.tensors[h].refCount = n]
<1>1. /\ OnlyTensor(s, r, h)
      /\ r.tensors[h].buffer = s.tensors[h].buffer
      /\ r.tensors[h].len = s.tensors[h].len
      /\ r.tensors[h].refCount = n
  BY CountFrame
<1>. HIDE DEF r
<1>2. /\ \A x \in Handles \ {h} : SameTensor(s, r, x)
      /\ Executed(r) = Executed(s) /\ r.reply = s.reply
  BY <1>1, OthersUnseen
<1>3. h \in Live(r) /\ h \in Handles
  BY <1>1 DEF Live
<1>4. Seen(r, h) = Seen(s, h)
  BY <1>1, <1>2, <1>3, SeenIs
<1>. QED  BY <1>1, <1>2, <1>4 DEF r

(* h is gone.                                                                *)
Departs(s, r, h) ==
    /\ r.reply = s.reply
    /\ r.tensors[h].refCount = 0 /\ r.tensors[h].len = 0 /\ Seen(r, h) = Zero
    /\ \A x \in Handles \ {h} : SameTensor(s, r, x)

LEMMA DropSeen ==
    ASSUME NEW s, NEW r, NEW h \in Handles, OnlyTensor(s, r, h), r.tensors[h] = Dead
    PROVE  Departs(s, r, h)
<1>1. r.tensors[h].refCount = 0 /\ r.tensors[h].len = 0
  BY DEF Dead
<1>2. h \notin Live(r)
  BY <1>1 DEF Live
<1>. QED  BY <1>1, <1>2, OthersUnseen, SeenIs DEF Departs

LEMMA ReadSeen ==
    ASSUME NEW s, Good(s), s.status = "running", NEW h \in Live(s),
           ReadContents(FlushIfPending(s, h), h).status = "running"
    PROVE  LET r == ReadContents(FlushIfPending(s, h), h)
           IN  r.reply = Seen(s, h) /\ \A x \in Handles : SameTensor(s, r, x)
<1>. DEFINE f == FlushIfPending(s, h)
            r == ReadContents(f, h)
<1>0. Good(f) /\ f.tensors = s.tensors /\ h \in Handles
  BY FlushGood, FlushKeepsTensors DEF Live
<1>1. r.status = f.status /\ r.tensors = f.tensors /\ r.commands = f.commands
      /\ r.contents = f.contents /\ r.reply = Contents(f.contents, OperandOf(f, h))
  BY <1>0 DEF ReadContents, Good, IsState
<1>2. f.status = "running"
  BY <1>1
<1>3. SameView(s, f)
  BY <1>2, FlushUnseen
<1>4. s.tensors[h].buffer \in Buffers
  BY LiveBuffers
<1>5. f.contents[s.tensors[h].buffer] = Executed(f)[s.tensors[h].buffer]
  <2>1. CASE s.tensors[h].lastWriteGen > s.completedGen
    <3>1. f = GpuBarrier(s)
      BY <2>1 DEF FlushIfPending
    <3>2. f.commands = << >>
      BY <1>2, <3>1, BarrierKeepsLedger
    <3>. QED  BY <1>0, <1>4, <3>2, NothingOpen DEF Good
  <2>2. CASE ~ (s.tensors[h].lastWriteGen > s.completedGen)
    <3>1. f = s
      BY <2>2 DEF FlushIfPending
    <3>2. s.tensors[h].buffer \notin Written(s)
      BY <2>2 DEF Good, Consistent, PendingIsWritten
    <3>. QED  BY <1>0, <1>4, <3>1, <3>2, ExecutedUnwritten
  <2>. QED  BY <2>1, <2>2
<1>. HIDE DEF f
<1>6. Contents(f.contents, OperandOf(f, h)) = Seen(f, h)
  <2>1. h \in Live(f)
    BY <1>0 DEF Live
  <2>. QED  BY <1>0, <1>5, <2>1, SeenIs DEF Contents, OperandOf
<1>7. r.reply = Seen(s, h)
  BY <1>0, <1>1, <1>3, <1>6 DEF SameView, SameTensor
<1>. HIDE DEF r
<1>8. ASSUME NEW x \in Handles PROVE SameTensor(s, r, x)
  <2>1. Executed(r) = Executed(f)
    BY <1>1, SameExecuted
  <2>2. SameTensor(f, r, x)
    BY <1>1, <2>1, UnchangedTensor
  <2>. QED  BY <1>3, <2>2 DEF SameView, SameTensor
<1>. QED  BY <1>7, <1>8 DEF r, f

(* What is not in the tensors, the commands or the contents is not seen.     *)
LEMMA BookkeepingUnseen ==
    ASSUME NEW s, NEW r, Good(s), s.status = "running", r.reply = s.reply,
           r.tensors = s.tensors, r.commands = s.commands, r.contents = s.contents
    PROVE  SameView(s, r)
BY SameExecuted, UnchangedView

-------------------------------------------------------------------------------
(* The steps of the store.                                                   *)

Refs == [h \in Handles |-> tensors[h].refCount]
Lengths == [h \in Handles |-> tensors[h].len]
Values == [h \in Handles |-> Seen(state, h)]

(* The store's variables, as TensorStore is instantiated.                    *)
LEMMA StoreState ==
    /\ Store!vars = <<Refs, Lengths, Values, reply, status = "aborted">>
    /\ Store!Held = Live(state)
<1>1. Store!vars = <<Refs, Lengths, Values, reply, status = "aborted">>
  BY DEF Store!vars, Refs, Lengths, Values, Seen
<1>2. Store!Held = Live(state)
  BY DEF Store!Held, Live, state
<1>. QED  BY <1>1, <1>2

LEMMA QuietSeen ==
    ASSUME IInv, Running
    PROVE  /\ quiet.reply = NoReply /\ quiet.status = "running"
           /\ \A h \in Handles : /\ quiet.tensors[h] = tensors[h]
                                 /\ Seen(quiet, h) = Seen(state, h)
<1>1. /\ quiet.reply = NoReply /\ quiet.status = "running" /\ quiet.tensors = state.tensors
      /\ quiet.commands = state.commands /\ quiet.contents = state.contents
      /\ state.tensors = tensors
  BY DEF quiet, state, Running
<1>2. Executed(quiet) = Executed(state)
  BY <1>1, SameExecuted
<1>3. Live(quiet) = Live(state)
  BY InvIsGood
<1>. QED  BY <1>1, <1>2, <1>3, SeenIs

(* After an entry point that returned, the store is as r shows it.           *)
LEMMA BecomeSeen ==
    ASSUME NEW r, Good(r), Become(r), r.status = "running"
    PROVE  /\ Refs' = [h \in Handles |-> r.tensors[h].refCount]
           /\ Lengths' = [h \in Handles |-> r.tensors[h].len]
           /\ Values' = [h \in Handles |-> Seen(r, h)]
           /\ reply' = r.reply /\ status' = "running"
<1>1. state' = r /\ tensors' = r.tensors /\ reply' = r.reply /\ status' = "running"
  BY BecomeState DEF Become
<1>. QED  BY <1>1 DEF Refs, Lengths, Values

(* What the step of the store is to be, for each step of the runtime.        *)
LEMMA FailStep ==
    ASSUME IInv, Running, NEW r, Good(r), Become(r), r.status # "running"
    PROVE  Store!Next
<1>1. status = "running" /\ status' = "aborted"
  BY DEF Running, Become, Good, IsState
<1>2. UNCHANGED <<commands, tensors, contents, reply>>
  BY DEF Become
<1>3. Refs' = Refs /\ Lengths' = Lengths /\ Values' = Values
  <2>1. state'.tensors = state.tensors /\ state'.commands = state.commands
        /\ state'.contents = state.contents
    BY <1>2 DEF state
  <2>2. Executed(state') = Executed(state) /\ Live(state') = Live(state)
    BY <2>1, SameExecuted DEF Live
  <2>3. \A h \in Handles : Seen(state', h) = Seen(state, h)
    BY <2>1, <2>2, SeenIs
  <2>. QED  BY <1>2, <2>3 DEF Refs, Lengths, Values
<1>4. Store!Fail
  BY <1>1, <1>2, <1>3 DEF Store!Fail, Refs, Lengths, Values, Seen
<1>. QED  BY <1>1, <1>4 DEF Store!Next

LEMMA MakeStep ==
    ASSUME IInv, Running, NEW r, Good(r), Become(r), r.status = "running",
           NEW h \in Handles, h \notin Live(state), NEW n, NEW v, NEW vs, v \in vs,
           Arrives(quiet, r, h, n, v)
    PROVE  Store!Make(h, n, vs)
<1>. DEFINE w == IF n = 0 THEN Zero ELSE v
<1>1. /\ Refs' = [Refs EXCEPT ![h] = 1] /\ Lengths' = [Lengths EXCEPT ![h] = n]
      /\ Values' = [Values EXCEPT ![h] = w]
  <2>1. /\ r.tensors[h].refCount = 1 /\ r.tensors[h].len = n /\ Seen(r, h) = w
        /\ \A x \in Handles \ {h} : /\ r.tensors[x].refCount = tensors[x].refCount
                                    /\ r.tensors[x].len = tensors[x].len
                                    /\ Seen(r, x) = Seen(state, x)
    BY QuietSeen DEF Arrives, SameTensor
  <2>. HIDE DEF w
  <2>2. Refs' = [Refs EXCEPT ![h] = 1]
    <3>. DEFINE f == [x \in Handles |-> r.tensors[x].refCount]
    <3>1. \A x \in Handles : f[x] = IF x = h THEN 1 ELSE Refs[x]
      BY <2>1 DEF Refs
    <3>2. f = [Refs EXCEPT ![h] = 1]
      BY <3>1 DEF Refs
    <3>. QED  BY <3>2, BecomeSeen
  <2>3. Lengths' = [Lengths EXCEPT ![h] = n]
    <3>. DEFINE f == [x \in Handles |-> r.tensors[x].len]
    <3>1. \A x \in Handles : f[x] = IF x = h THEN n ELSE Lengths[x]
      BY <2>1 DEF Lengths
    <3>2. f = [Lengths EXCEPT ![h] = n]
      BY <3>1 DEF Lengths
    <3>. QED  BY <3>2, BecomeSeen
  <2>4. Values' = [Values EXCEPT ![h] = w]
    <3>. DEFINE f == [x \in Handles |-> Seen(r, x)]
    <3>1. \A x \in Handles : f[x] = IF x = h THEN w ELSE Values[x]
      BY <2>1 DEF Values
    <3>2. f = [Values EXCEPT ![h] = w]
      BY <3>1 DEF Values
    <3>. QED  BY <3>2, BecomeSeen
  <2>. QED  BY <2>2, <2>3, <2>4
<1>2. reply' = NoReply /\ status' = "running" /\ status = "running"
  BY QuietSeen, BecomeSeen DEF Arrives, Running
<1>3. h \notin Store!Held
  BY StoreState
<1>4. w \in IF n = 0 THEN {Zero} ELSE vs
  OBVIOUS
<1>. HIDE DEF w
<1>5. \E u \in IF n = 0 THEN {Zero} ELSE vs : Values' = [Values EXCEPT ![h] = u]
  BY <1>1, <1>4
<1>. QED  BY <1>1, <1>2, <1>3, <1>5 DEF Store!Make, Refs, Lengths, Values, Seen

(* The other tensors are as they were, so what has become of h says it all.  *)
LEMMA OthersKept ==
    ASSUME IInv, Running, NEW r, Good(r), Become(r), r.status = "running",
           NEW h \in Handles, \A x \in Handles \ {h} : SameTensor(quiet, r, x)
    PROVE  /\ Refs' = [Refs EXCEPT ![h] = r.tensors[h].refCount]
           /\ Lengths' = [Lengths EXCEPT ![h] = r.tensors[h].len]
           /\ Values' = [Values EXCEPT ![h] = Seen(r, h)]
<1>1. \A x \in Handles \ {h} : /\ r.tensors[x].refCount = tensors[x].refCount
                               /\ r.tensors[x].len = tensors[x].len
                               /\ Seen(r, x) = Seen(state, x)
  BY QuietSeen DEF SameTensor
<1>2. Refs' = [Refs EXCEPT ![h] = r.tensors[h].refCount]
  <2>. DEFINE f == [x \in Handles |-> r.tensors[x].refCount]
  <2>1. f = [Refs EXCEPT ![h] = r.tensors[h].refCount]
    BY <1>1 DEF Refs
  <2>. QED  BY <2>1, BecomeSeen
<1>3. Lengths' = [Lengths EXCEPT ![h] = r.tensors[h].len]
  <2>. DEFINE f == [x \in Handles |-> r.tensors[x].len]
  <2>1. f = [Lengths EXCEPT ![h] = r.tensors[h].len]
    BY <1>1 DEF Lengths
  <2>. QED  BY <2>1, BecomeSeen
<1>4. Values' = [Values EXCEPT ![h] = Seen(r, h)]
  <2>. DEFINE f == [x \in Handles |-> Seen(r, x)]
  <2>1. f = [Values EXCEPT ![h] = Seen(r, h)]
    BY <1>1 DEF Values
  <2>. QED  BY <2>1, BecomeSeen
<1>. QED  BY <1>2, <1>3, <1>4

(* Nothing of the store's state changes, whatever the call says.             *)
LEMMA QuietStep ==
    ASSUME IInv, Running, NEW r, Good(r), Become(r), r.status = "running",
           \A x \in Handles : SameTensor(quiet, r, x)
    PROVE  /\ Refs' = Refs /\ Lengths' = Lengths /\ Values' = Values
           /\ status' = "running" /\ status = "running"
<1>1. \A x \in Handles : /\ r.tensors[x].refCount = tensors[x].refCount
                         /\ r.tensors[x].len = tensors[x].len
                         /\ Seen(r, x) = Seen(state, x)
  BY QuietSeen DEF SameTensor
<1>. QED  BY <1>1, BecomeSeen DEF Refs, Lengths, Values, Running

LEMMA HousekeepingStep ==
    ASSUME IInv, Running, NEW r, Good(r), Become(r), r.status = "running",
           SameView(quiet, r)
    PROVE  Store!Next
<1>1. /\ Refs' = Refs /\ Lengths' = Lengths /\ Values' = Values
      /\ status' = "running" /\ status = "running" /\ reply' = NoReply
  BY QuietStep, QuietSeen, BecomeSeen DEF SameView
<1>2. Store!Housekeeping
  BY <1>1 DEF Store!Housekeeping, Refs, Lengths, Values, Seen
<1>. QED  BY <1>1, <1>2 DEF Store!Next

LEMMA ReadStep ==
    ASSUME IInv, Running, NEW r, Good(r), Become(r), r.status = "running",
           NEW h \in Live(state), r.reply = Seen(quiet, h),
           \A x \in Handles : SameTensor(quiet, r, x)
    PROVE  Store!Next
<1>1. h \in Handles
  BY DEF Live
<1>2. /\ Refs' = Refs /\ Lengths' = Lengths /\ Values' = Values
      /\ status' = "running" /\ status = "running" /\ reply' = Values[h]
  BY <1>1, QuietStep, QuietSeen, BecomeSeen DEF Values
<1>3. h \in Store!Held
  BY StoreState
<1>4. Store!Read(h)
  BY <1>2, <1>3 DEF Store!Read, Refs, Lengths, Values, Seen
<1>. QED  BY <1>1, <1>2, <1>4 DEF Store!Next

LEMMA RetainStep ==
    ASSUME IInv, Running, NEW r, Good(r), Become(r), r.status = "running",
           NEW h \in Live(state), r.reply = NoReply,
           r.tensors[h].refCount = tensors[h].refCount + 1,
           r.tensors[h].len = tensors[h].len, Seen(r, h) = Seen(quiet, h),
           \A x \in Handles \ {h} : SameTensor(quiet, r, x)
    PROVE  Store!Next
<1>1. h \in Handles
  BY DEF Live
<1>2. /\ Refs' = [Refs EXCEPT ![h] = @ + 1] /\ Lengths' = Lengths /\ Values' = Values
  <2>1. Refs[h] = tensors[h].refCount /\ Lengths[h] = tensors[h].len
        /\ Values[h] = Seen(quiet, h)
    BY <1>1, QuietSeen DEF Refs, Lengths, Values
  <2>2. Lengths = [Lengths EXCEPT ![h] = Lengths[h]]
        /\ Values = [Values EXCEPT ![h] = Values[h]]
    BY DEF Lengths, Values
  <2>. QED  BY <1>1, <2>1, <2>2, OthersKept
<1>3. status' = "running" /\ status = "running" /\ reply' = NoReply
  BY BecomeSeen DEF Running
<1>4. h \in Store!Held
  BY StoreState
<1>5. Store!Retain(h)
  BY <1>2, <1>3, <1>4 DEF Store!Retain, Refs, Lengths, Values, Seen
<1>. QED  BY <1>1, <1>3, <1>5 DEF Store!Next

(* One reference fewer; with the last one the tensor goes.                   *)
LEMMA ReleaseStep ==
    ASSUME IInv, Running, NEW r, Good(r), Become(r), r.status = "running",
           NEW h \in Live(state), r.reply = NoReply,
           IF tensors[h].refCount = 1 THEN Departs(quiet, r, h)
           ELSE /\ r.tensors[h].refCount = tensors[h].refCount - 1
                /\ r.tensors[h].len = tensors[h].len /\ Seen(r, h) = Seen(quiet, h)
                /\ \A x \in Handles \ {h} : SameTensor(quiet, r, x)
    PROVE  Store!Next
<1>1. h \in Handles
  BY DEF Live
<1>2. Refs[h] = tensors[h].refCount /\ Lengths[h] = tensors[h].len
      /\ Values[h] = Seen(quiet, h)
  BY <1>1, QuietSeen DEF Refs, Lengths, Values
<1>3. /\ Lengths = [Lengths EXCEPT ![h] = Lengths[h]]
      /\ Values = [Values EXCEPT ![h] = Values[h]]
  BY DEF Lengths, Values
<1>4. \A x \in Handles \ {h} : SameTensor(quiet, r, x)
  BY DEF Departs
<1>5. /\ Refs' = [Refs EXCEPT ![h] = r.tensors[h].refCount]
      /\ Lengths' = [Lengths EXCEPT ![h] = r.tensors[h].len]
      /\ Values' = [Values EXCEPT ![h] = Seen(r, h)]
  BY <1>1, <1>4, OthersKept
<1>6. /\ Refs' = [Refs EXCEPT ![h] = @ - 1]
      /\ Lengths' = IF Refs[h] = 1 THEN [Lengths EXCEPT ![h] = 0] ELSE Lengths
      /\ Values' = IF Refs[h] = 1 THEN [Values EXCEPT ![h] = Zero] ELSE Values
  <2>1. CASE tensors[h].refCount = 1
    <3>1. /\ r.tensors[h].refCount = 0 /\ r.tensors[h].len = 0 /\ Seen(r, h) = Zero
          /\ Refs[h] = 1 /\ Refs[h] - 1 = 0
      BY <1>2, <2>1 DEF Departs
    <3>. QED  BY <1>5, <3>1
  <2>2. CASE tensors[h].refCount # 1
    BY <1>2, <1>3, <1>5, <2>2
  <2>. QED  BY <2>1, <2>2
<1>7. status' = "running" /\ status = "running" /\ reply' = NoReply
  BY BecomeSeen DEF Running
<1>8. h \in Store!Held
  BY StoreState
<1>9. Store!Release(h)
  <2>1. Refs[h] = 1 <=> tensors[h].refCount = 1
    BY <1>2
  <2>. QED  BY <1>6, <1>7, <1>8 DEF Store!Release, Refs, Lengths, Values, Seen
<1>. QED  BY <1>1, <1>7, <1>9 DEF Store!Next

-------------------------------------------------------------------------------
(* The entry points.                                                         *)

(* A tensor arrives whose contents the host gave, or that are all zeros.     *)
LEMMA CreateStep ==
    ASSUME IInv, Running, NEW r, Good(r), Become(r),
           NEW h \in Handles, h \notin Live(state), NEW n \in Lens,
           NEW v \in Data \cup {Zero},
           r.status = "running" => Arrives(quiet, r, h, n, v)
    PROVE  Store!Next
<1>1. CASE r.status = "running"
  <2>1. Store!Make(h, n, Data \cup {Zero})
    BY <1>1, MakeStep
  <2>2. Store!Create(h)
    BY <2>1 DEF Store!Create
  <2>3. status = "running"
    BY DEF Running
  <2>. QED  BY <2>2, <2>3 DEF Store!Next
<1>2. CASE r.status # "running"
  BY <1>2, FailStep
<1>. QED  BY <1>1, <1>2

LEMMA OperandsAre ==
    ASSUME IInv, Running, NEW k \in Nat, NEW ins \in Inputs(k)
    PROVE  /\ Operands(ins) \in Seq(Operand)
           /\ \A i \in DOMAIN Operands(ins) :
                \E x \in Live(quiet) : Operands(ins)[i] = OperandOf(quiet, x)
           /\ Output(quiet, "kernel", Operands(ins)) = Compute([i \in 1..k |-> Values[ins[i]]])
<1>1. Operands(ins) \in Seq(Operand)
  BY OperandsOfLive
<1>2. ins \in [1..k -> Live(state)] /\ DOMAIN Operands(ins) = 1..k
  BY DEF Inputs, Operands
<1>3. quiet.tensors = state.tensors /\ Live(quiet) = Live(state)
  BY InvIsGood DEF quiet, state
<1>4. \A i \in 1..k : /\ ins[i] \in Live(quiet) /\ ins[i] \in Handles
                      /\ Operands(ins)[i] = OperandOf(quiet, ins[i])
  BY <1>2, <1>3 DEF Operands, OperandOf, Live
<1>5. \A i \in 1..k : Contents(Executed(quiet), Operands(ins)[i]) = Values[ins[i]]
  BY <1>4, OperandSeen, QuietSeen DEF Values
<1>. DEFINE f == [i \in DOMAIN Operands(ins) |-> Contents(Executed(quiet), Operands(ins)[i])]
            g == [i \in 1..k |-> Values[ins[i]]]
<1>6. f = g
  BY <1>2, <1>5
<1>7. Output(quiet, "kernel", Operands(ins)) = Compute(f)
  BY DEF Output
<1>. HIDE DEF f
<1>8. Output(quiet, "kernel", Operands(ins)) = Compute(g)
  BY <1>6, <1>7
<1>. QED  BY <1>1, <1>2, <1>4, <1>8

(* A tensor arrives that a kernel made of what the caller saw in its inputs. *)
LEMMA KernelStep ==
    ASSUME IInv, Running, NEW h \in Handles, h \notin Live(state),
           NEW k \in Nat, k <= (IF MaxArity < 2 THEN 2 ELSE MaxArity),
           NEW ins \in Inputs(k), NEW n \in Lens,
           NEW b \in Draws(quiet, Key(n)),
           Become(Dispatch(quiet, h, n, b, Operands(ins)))
    PROVE  Store!Next
<1>. DEFINE r == Dispatch(quiet, h, n, b, Operands(ins))
            v == Compute([i \in 1..k |-> Values[ins[i]]])
<1>1. Good(quiet) /\ h \notin Live(quiet) /\ Attached(quiet) = Attached(state)
  BY InvIsGood
<1>2. /\ Operands(ins) \in Seq(Operand)
      /\ \A i \in DOMAIN Operands(ins) :
            \E x \in Live(quiet) : Operands(ins)[i] = OperandOf(quiet, x)
      /\ Output(quiet, "kernel", Operands(ins)) = v
  BY OperandsAre
<1>3. Good(r)
  BY <1>1, <1>2, OperandsOfLive, DispatchGood
<1>4. r.status = "running" => Arrives(quiet, r, h, n, v)
  <2>1. r.status = "running" =>
            Arrives(quiet, r, h, n, Output(quiet, "kernel", Operands(ins)))
    BY <1>1, <1>2, DispatchSeen
  <2>. HIDE DEF r, v
  <2>. QED  BY <1>2, <2>1
<1>5. Become(r)
  OBVIOUS
<1>. HIDE DEF r
<1>6. CASE r.status = "running"
  <2>. DEFINE S == {Compute(vs) : vs \in Store!Inputs}
  <2>1. v \in S
    <3>1. \A i \in 1..k : ins[i] \in Live(state)
      BY DEF Inputs
    <3>2. [i \in 1..k |-> Values[ins[i]]] \in [1..k -> {Values[x] : x \in Live(state)}]
      BY <3>1
    <3>3. k \in 0..(IF MaxArity < 2 THEN 2 ELSE MaxArity)
      BY ConstantsAssumption
    <3>4. [i \in 1..k |-> Values[ins[i]]] \in Store!Inputs
      BY <3>2, <3>3, StoreState DEF Store!Inputs, Values, Seen
    <3>. QED  BY <3>4
  <2>. HIDE DEF v, S
  <2>2. Store!Make(h, n, S)
    BY <1>3, <1>4, <1>5, <1>6, <2>1, MakeStep DEF Store!Make
  <2>3. Store!Kernel(h)
    BY <2>2 DEF Store!Kernel, S
  <2>4. status = "running"
    BY DEF Running
  <2>. QED  BY <2>3, <2>4 DEF Store!Next
<1>7. CASE r.status # "running"
  BY <1>3, <1>5, <1>7, FailStep
<1>. QED  BY <1>6, <1>7

LEMMA MatmulStep ==
    ASSUME IInv, NEW h \in Handles, TensorMatmul(h)
    PROVE  Store!Next
<1>1. /\ Good(quiet) /\ h \notin Live(quiet) /\ Running /\ h \notin Live(state)
  BY InvIsGood DEF TensorMatmul
<1>2. PICK x \in Live(state), y \in Live(state), n \in Lens :
        IF 0 \in {tensors[x].len, tensors[y].len, n}
        THEN \E b \in Draws(FlushIfPending(FlushIfPending(quiet, x), y), Key(n)) :
                Become(MatmulCpu(quiet, h, x, y, n, b))
        ELSE \E b \in Draws(quiet, Key(n)) :
                Become(Dispatch(quiet, h, n, b, Operands(<<x, y>>)))
  BY DEF TensorMatmul
<1>3. CASE 0 \in {tensors[x].len, tensors[y].len, n}
  <2>. DEFINE e == FlushIfPending(quiet, x)
              f == FlushIfPending(e, y)
  <2>1. Good(e) /\ e.tensors = quiet.tensors /\ (e.status = "running" => SameView(quiet, e))
    BY <1>1, FlushGood, FlushKeepsTensors, FlushUnseen
  <2>. HIDE DEF e
  <2>2. /\ Good(f) /\ f.tensors = e.tensors
        /\ f.status = "running" => SameView(e, f) /\ e.status = "running"
    BY <2>1, FlushGood, FlushKeepsTensors, FlushUnseen
  <2>3. PICK b \in Draws(f, Key(n)) : Become(AllocData(f, h, n, Zero, b))
    BY <1>2, <1>3 DEF MatmulCpu, e
  <2>. HIDE DEF f
  <2>. DEFINE r == AllocData(f, h, n, Zero, b)
  <2>4. h \notin Live(f)
    BY <1>1, <2>1, <2>2 DEF Live
  <2>5. Good(r) /\ (r.status = "running" => Arrives(f, r, h, n, Zero))
    BY <2>2, <2>4, AllocDataGood, AllocDataSeen
  <2>6. r.status = "running" => f.status = "running"
    BY <2>2, <2>4, AllocDataHonest DEF Honest, Faithful
  <2>7. Become(r)
    BY <2>3
  <2>. HIDE DEF r
  <2>8. r.status = "running" => Arrives(quiet, r, h, n, Zero)
    BY <2>1, <2>2, <2>5, <2>6, AfterSameView
  <2>. QED  BY <1>1, <2>5, <2>7, <2>8, CreateStep
<1>4. CASE 0 \notin {tensors[x].len, tensors[y].len, n}
  <2>1. PICK b \in Draws(quiet, Key(n)) :
            Become(Dispatch(quiet, h, n, b, Operands(<<x, y>>)))
    BY <1>2, <1>4
  <2>2. <<x, y>> \in Inputs(2)
    BY DEF Inputs
  <2>3. 2 <= (IF MaxArity < 2 THEN 2 ELSE MaxArity)
    BY ConstantsAssumption
  <2>. QED  BY <1>1, <2>1, <2>2, <2>3, KernelStep
<1>. QED  BY <1>3, <1>4

LEMMA ReshapeStep ==
    ASSUME IInv, NEW h \in Handles, TensorReshape(h)
    PROVE  Store!Next
<1>1. /\ Good(quiet) /\ quiet.status = "running" /\ Live(quiet) = Live(state)
      /\ Running /\ h \notin Live(state)
  BY InvIsGood DEF TensorReshape
<1>2. PICK x \in Live(state) : Become(Reshape(quiet, h, x))
  BY DEF TensorReshape
<1>. DEFINE r == Reshape(quiet, h, x)
<1>3. Good(r) /\ Arrives(quiet, r, h, quiet.tensors[x].len, Seen(quiet, x))
  BY <1>1, ReshapeGood, ReshapeSeen
<1>4. Become(r)
  BY <1>2
<1>. HIDE DEF r
<1>5. x \in Handles /\ quiet.tensors[x].len = Lengths[x] /\ Seen(quiet, x) = Values[x]
  BY <1>1, QuietSeen DEF Lengths, Values, Live
<1>6. CASE r.status = "running"
  <2>1. Store!Make(h, Lengths[x], {Values[x]})
    <3>1. Arrives(quiet, r, h, Lengths[x], Values[x])
      BY <1>3, <1>5
    <3>. QED  BY <1>1, <1>3, <1>4, <1>6, <3>1, MakeStep DEF Store!Make
  <2>2. Store!Alias(h)
    BY <2>1, StoreState DEF Store!Alias, Lengths, Values, Seen
  <2>. QED  BY <1>1, <2>2 DEF Store!Next, Running
<1>7. CASE r.status # "running"
  BY <1>1, <1>3, <1>4, <1>7, FailStep
<1>. QED  BY <1>6, <1>7

LEMMA RetainCallStep ==
    ASSUME IInv, NEW h \in Handles, TensorRetain(h)
    PROVE  Store!Next
<1>. DEFINE n == tensors[h].refCount + 1
            r == [quiet EXCEPT !.tensors[h].refCount = n]
<1>1. /\ Good(quiet) /\ quiet.status = "running" /\ h \in Live(quiet)
      /\ h \in Live(state) /\ Running
  BY InvIsGood DEF TensorRetain
<1>2. quiet.tensors[h] = tensors[h] /\ quiet.reply = NoReply
  BY <1>1, QuietSeen
<1>3. n \in Nat /\ n > 0
  BY <1>1, <1>2 DEF Good, IsState, Tensor, Live
<1>4. Become(r)
  BY <1>2 DEF TensorRetain
<1>. HIDE DEF n
<1>5. Good(r) /\ Honest(quiet, r)
  BY <1>1, <1>3, CountGood, CountHonest
<1>6. /\ r.reply = quiet.reply /\ r.tensors[h].refCount = n
      /\ r.tensors[h].len = quiet.tensors[h].len /\ Seen(r, h) = Seen(quiet, h)
      /\ \A x \in Handles \ {h} : SameTensor(quiet, r, x)
  BY <1>1, <1>3, CountSeen
<1>7. r.status = "running"
  BY <1>1, CountFrame, <1>3 DEF OnlyTensor
<1>. HIDE DEF r
<1>. QED  BY <1>1, <1>2, <1>4, <1>5, <1>6, <1>7, RetainStep DEF n

LEMMA ReleaseCallStep ==
    ASSUME IInv, NEW h \in Handles, TensorRelease(h)
    PROVE  Store!Next
<1>. DEFINE r == Release(quiet, h)
<1>1. /\ Good(quiet) /\ quiet.status = "running" /\ h \in Live(quiet)
      /\ h \in Live(state) /\ Running /\ Become(r)
  BY InvIsGood DEF TensorRelease
<1>2. quiet.tensors[h] = tensors[h] /\ quiet.reply = NoReply
  BY <1>1, QuietSeen
<1>3. Good(r)
  BY <1>1, ReleaseGood
<1>4. tensors[h].refCount \in Nat /\ tensors[h].refCount > 0 /\ quiet.tensors[h].len \in Lens
  BY <1>1, <1>2, LiveBuffers DEF Good, IsState, Tensor, Live
<1>5. CASE tensors[h].refCount > 1
  <2>. DEFINE n == tensors[h].refCount - 1
  <2>1. r = [quiet EXCEPT !.tensors[h].refCount = n]
    BY <1>2, <1>5 DEF Release
  <2>2. n \in Nat /\ n > 0 /\ tensors[h].refCount # 1
    BY <1>4, <1>5
  <2>. HIDE DEF n, r
  <2>3. /\ r.reply = quiet.reply /\ r.tensors[h].refCount = n
        /\ r.tensors[h].len = quiet.tensors[h].len /\ Seen(r, h) = Seen(quiet, h)
        /\ \A x \in Handles \ {h} : SameTensor(quiet, r, x)
    BY <1>1, <2>1, <2>2, CountSeen
  <2>4. r.status = "running"
    BY <1>1, <2>1, <2>2, CountFrame DEF OnlyTensor
  <2>. QED  BY <1>1, <1>2, <1>3, <2>2, <2>3, <2>4, ReleaseStep DEF n
<1>6. CASE tensors[h].refCount = 1
  <2>1. r = Recycle(quiet, h) \/ r = [quiet EXCEPT !.tensors[h] = Dead]
    BY <1>2, <1>6 DEF Release
  <2>. HIDE DEF r
  <2>2. OnlyTensor(quiet, r, h) /\ r.tensors[h] = Dead
    <3>1. h \in Handles
      BY <1>1 DEF Live
    <3>2. OnlyTensor(quiet, Recycle(quiet, h), h) /\ Recycle(quiet, h).tensors[h] = Dead
      BY <1>1, <1>4, <3>1, RecycleFrame
    <3>3. LET d == [quiet EXCEPT !.tensors[h] = Dead]
          IN  OnlyTensor(quiet, d, h) /\ d.tensors[h] = Dead
      BY <1>1, <3>1, DropFrame
    <3>. QED  BY <2>1, <3>2, <3>3
  <2>3. Departs(quiet, r, h) /\ r.status = "running" /\ r.reply = NoReply
    BY <1>1, <1>2, <2>2, DropSeen DEF OnlyTensor, Departs
  <2>. QED  BY <1>1, <1>3, <1>6, <2>3, ReleaseStep
<1>. QED  BY <1>4, <1>5, <1>6

(* A call that is not seen, or that the device error stops.                  *)
LEMMA UnseenStep ==
    ASSUME IInv, Running, NEW r, Good(r), Become(r),
           r.status = "running" => SameView(quiet, r)
    PROVE  Store!Next
BY HousekeepingStep, FailStep

LEMMA ReadCallStep ==
    ASSUME IInv, NEW h \in Handles, HostRead(h)
    PROVE  Store!Next
<1>. DEFINE r == ReadContents(FlushIfPending(quiet, h), h)
<1>1. /\ Good(quiet) /\ quiet.status = "running" /\ h \in Live(quiet)
      /\ h \in Live(state) /\ Running /\ Become(r)
  BY InvIsGood DEF HostRead
<1>2. Good(r)
  BY <1>1, ReadGood
<1>3. r.status = "running" =>
        r.reply = Seen(quiet, h) /\ \A x \in Handles : SameTensor(quiet, r, x)
  BY <1>1, ReadSeen
<1>. HIDE DEF r
<1>. QED  BY <1>1, <1>2, <1>3, ReadStep, FailStep

LEMMA NextRefines == IInv /\ [Next]_vars => [Store!Next]_Store!vars
<1>. SUFFICES ASSUME IInv, [Next]_vars PROVE Store!Next \/ UNCHANGED Store!vars
  OBVIOUS
<1>0. /\ MaxArity \in Nat /\ 0..MaxArity \subseteq Nat /\ 1..MaxArity \subseteq Nat
      /\ \A k \in 0..MaxArity : k <= (IF MaxArity < 2 THEN 2 ELSE MaxArity)
      /\ \A k \in 1..MaxArity : k <= (IF MaxArity < 2 THEN 2 ELSE MaxArity)
      /\ Budgets \subseteq Int
  BY ConstantsAssumption
<1>1. ASSUME NEW h \in Handles, TensorAllocGpu(h) PROVE Store!Next
  <2>1. Good(quiet) /\ h \notin Live(quiet) /\ Running /\ h \notin Live(state)
    BY <1>1, InvIsGood DEF TensorAllocGpu
  <2>2. PICK n \in Lens, v \in Data : \E b \in Draws(quiet, Key(n)) :
            Become(AllocData(quiet, h, n, v, b))
    BY <1>1 DEF TensorAllocGpu
  <2>3. \A b \in Draws(quiet, Key(n)) :
            LET r == AllocData(quiet, h, n, v, b)
            IN  Good(r) /\ (r.status = "running" => Arrives(quiet, r, h, n, v))
    BY <2>1, AllocDataGood, AllocDataSeen
  <2>. QED  BY <2>1, <2>2, <2>3, CreateStep
<1>2. ASSUME NEW h \in Handles, TensorAllocZerosGpu(h) PROVE Store!Next
  <2>1. Good(quiet) /\ h \notin Live(quiet) /\ Running /\ h \notin Live(state)
    BY <1>2, InvIsGood DEF TensorAllocZerosGpu
  <2>2. PICK n \in Lens : \E b \in Draws(quiet, Key(n)) :
            Become(AllocZeros(quiet, h, n, b))
    BY <1>2 DEF TensorAllocZerosGpu
  <2>3. \A b \in Draws(quiet, Key(n)) :
            LET r == AllocZeros(quiet, h, n, b)
            IN  Good(r) /\ (r.status = "running" => Arrives(quiet, r, h, n, Zero))
    BY <2>1, AllocZerosGood, AllocZerosSeen
  <2>. QED  BY <2>1, <2>2, <2>3, CreateStep
<1>3. ASSUME NEW h \in Handles, KernelDispatch(h) PROVE Store!Next
  <2>1. Running /\ h \notin Live(state)
    BY <1>3 DEF KernelDispatch
  <2>2. PICK k \in 1..MaxArity : \E ins \in Inputs(k) :
            \E b \in Draws(quiet, Key(tensors[ins[1]].len)) :
                Become(Dispatch(quiet, h, tensors[ins[1]].len, b, Operands(ins)))
    BY <1>3 DEF KernelDispatch
  <2>3. \A ins \in Inputs(k) : tensors[ins[1]].len \in Lens
    <3>1. \A ins \in Inputs(k) : ins[1] \in Live(state)
      BY <1>0 DEF Inputs
    <3>. QED  BY <3>1 DEF IInv, Consistent, OwnersReal, state
  <2>. QED  BY <1>0, <2>1, <2>2, <2>3, KernelStep
<1>4. ASSUME NEW h \in Handles, KernelDispatchV2(h) PROVE Store!Next
  <2>1. Running /\ h \notin Live(state)
    BY <1>4 DEF KernelDispatchV2
  <2>2. PICK k \in 0..MaxArity : \E ins \in Inputs(k), n \in Lens :
            \E b \in Draws(quiet, Key(n)) : Become(Dispatch(quiet, h, n, b, Operands(ins)))
    BY <1>4 DEF KernelDispatchV2
  <2>. QED  BY <1>0, <2>1, <2>2, KernelStep
<1>5. CASE GpuBarrierCall
  <2>1. Good(quiet) /\ Good(GpuBarrier(quiet)) /\ Running /\ Become(GpuBarrier(quiet))
    BY <1>5, InvIsGood, BarrierGood DEF GpuBarrierCall
  <2>2. GpuBarrier(quiet).status = "running" => SameView(quiet, GpuBarrier(quiet))
    BY <2>1, BarrierUnseen
  <2>. QED  BY <2>1, <2>2, UnseenStep
<1>6. CASE MalusPoolReset
  <2>. DEFINE r == PoolReset(quiet)
  <2>1. Good(quiet) /\ quiet.status = "running" /\ Good(r) /\ Running /\ Become(r)
    BY <1>6, InvIsGood, PoolResetGood DEF MalusPoolReset
  <2>2. /\ r.reply = quiet.reply /\ r.tensors = quiet.tensors
        /\ r.commands = quiet.commands /\ r.contents = quiet.contents
    BY <2>1 DEF PoolReset, Good, IsState
  <2>. HIDE DEF r
  <2>. QED  BY <2>1, <2>2, BookkeepingUnseen, UnseenStep
<1>7. CASE MalusSetMemBudget
  <2>1. PICK bytes \in Budgets :
            Become([quiet EXCEPT !.memBudget = IF bytes < -1 THEN -1 ELSE bytes])
    BY <1>7 DEF MalusSetMemBudget
  <2>. DEFINE m == IF bytes < -1 THEN -1 ELSE bytes
              r == [quiet EXCEPT !.memBudget = m]
  <2>2. m \in Int
    BY <1>0
  <2>3. Become(r)
    BY <2>1
  <2>. HIDE DEF m
  <2>4. Good(quiet) /\ quiet.status = "running" /\ Good(r) /\ Running
    BY <1>7, <2>2, InvIsGood, SetBudgetGood DEF MalusSetMemBudget
  <2>5. SameView(quiet, r)
    BY <2>4, BudgetUnseen
  <2>. HIDE DEF r
  <2>. QED  BY <2>3, <2>4, <2>5, UnseenStep
<1>8. CASE GpuFault
  <2>. DEFINE r == [quiet EXCEPT !.gpuError = TRUE]
  <2>1. Good(quiet) /\ quiet.status = "running" /\ Good(r) /\ Running /\ Become(r)
    BY <1>8, InvIsGood, FaultGood DEF GpuFault
  <2>2. /\ r.reply = quiet.reply /\ r.tensors = quiet.tensors
        /\ r.commands = quiet.commands /\ r.contents = quiet.contents
    BY <2>1 DEF Good, IsState
  <2>. HIDE DEF r
  <2>. QED  BY <2>1, <2>2, BookkeepingUnseen, UnseenStep
<1>9. CASE UNCHANGED vars
  <2>1. state' = state /\ UNCHANGED <<tensors, reply, status>>
    BY <1>9 DEF vars, state
  <2>. QED  BY <2>1 DEF Store!vars
<1>10. CASE Stopped
  BY <1>9, <1>10 DEF Stopped
<1>. QED  BY <1>1, <1>2, <1>3, <1>4, <1>5, <1>6, <1>7, <1>8, <1>9, <1>10,
             MatmulStep, ReshapeStep, RetainCallStep, ReleaseCallStep, ReadCallStep DEF Next

LEMMA InitRefines == Init => Store!Init
<1>. SUFFICES ASSUME Init PROVE Store!Init
  OBVIOUS
<1>1. Live(state) = {}
  BY DeadFields DEF Init, Live, state
<1>. QED  BY <1>1 DEF Init, Store!Init, ValueIn, Dead

(* Whatever is encoded and not run, shared by aliases or waiting in the pool, *)
(* the callers of metal.rs work with a store of immutable values in which    *)
(* every call takes effect at once, until a device error ends the process.   *)
THEOREM ImplementsStore == Spec => StoreSpec
<1>. QED  BY InitRefines, NextRefines, IInvHolds, PTL DEF Spec, StoreSpec, Store!Spec

===============================================================================
