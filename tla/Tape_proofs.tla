------------------------------ MODULE Tape_proofs ------------------------------
(* Proofs about Tape, for every set of addresses, every allocator and every  *)
(* set of operations.                                                        *)
EXTENDS Tape, Induction, SequenceTheorems, FiniteSetTheorems, FunctionTheorems, TLAPS

-------------------------------------------------------------------------------
(* How often a handle occurs in a sequence.                                  *)

LEMMA TimesType ==
    ASSUME NEW f, IsFiniteSet(DOMAIN f), NEW h
    PROVE  /\ IsFiniteSet({x \in DOMAIN f : f[x] = h})
           /\ Times(h, f) \in Nat
<1>1. {x \in DOMAIN f : f[x] = h} \in SUBSET DOMAIN f
  OBVIOUS
<1>2. IsFiniteSet({x \in DOMAIN f : f[x] = h})
  BY <1>1, FS_Subset
<1>. QED  BY <1>2, FS_CardinalityType DEF Times

LEMMA TimesSeqType ==
    ASSUME NEW S, NEW s \in Seq(S), NEW h
    PROVE  /\ IsFiniteSet({i \in DOMAIN s : s[i] = h})
           /\ Times(h, s) \in Nat
<1>1. DOMAIN s = 1..Len(s) /\ Len(s) \in Nat
  BY LenProperties
<1>2. IsFiniteSet(DOMAIN s)
  BY <1>1, FS_Interval
<1>. QED  BY <1>2, TimesType

LEMMA TimesPositive ==
    ASSUME NEW f, IsFiniteSet(DOMAIN f), NEW x \in DOMAIN f
    PROVE  Times(f[x], f) > 0
<1>. DEFINE A == {y \in DOMAIN f : f[y] = f[x]}
<1>1. IsFiniteSet(A) /\ Cardinality(A) \in Nat
  BY TimesType DEF Times
<1>2. A # {}
  OBVIOUS
<1>3. Cardinality(A) # 0
  BY <1>1, <1>2, FS_EmptySet
<1>. QED  BY <1>1, <1>3 DEF Times

LEMMA TimesNone ==
    ASSUME NEW f, NEW h, \A x \in DOMAIN f : f[x] # h
    PROVE  Times(h, f) = 0
<1>1. {x \in DOMAIN f : f[x] = h} = {}
  OBVIOUS
<1>. QED  BY <1>1, FS_EmptySet DEF Times

LEMMA TimesEmpty ==
    ASSUME NEW h
    PROVE  Times(h, << >>) = 0
BY TimesNone

(* A handle that occurs at one place only occurs once.                       *)
LEMMA TimesOnce ==
    ASSUME NEW f, NEW x \in DOMAIN f, \A y \in DOMAIN f : f[y] = f[x] => y = x
    PROVE  Times(f[x], f) = 1
<1>1. {y \in DOMAIN f : f[y] = f[x]} = {x}
  OBVIOUS
<1>. QED  BY <1>1, FS_Singleton DEF Times

LEMMA TimesOne ==
    ASSUME NEW a, NEW h
    PROVE  Times(h, <<a>>) = IF a = h THEN 1 ELSE 0
<1>1. DOMAIN <<a>> = {1} /\ <<a>>[1] = a
  OBVIOUS
<1>2. CASE a = h
  BY <1>1, <1>2, TimesOnce
<1>3. CASE a # h
  BY <1>1, <1>3, TimesNone
<1>. QED  BY <1>2, <1>3

LEMMA TimesConcat ==
    ASSUME NEW S, NEW s \in Seq(S), NEW t \in Seq(S), NEW h
    PROVE  Times(h, s \o t) = Times(h, s) + Times(h, t)
<1>. DEFINE A == {i \in DOMAIN s : s[i] = h}
            B == {i \in DOMAIN t : t[i] = h}
            C == {i \in DOMAIN (s \o t) : (s \o t)[i] = h}
            D == {i \in (Len(s) + 1)..(Len(s) + Len(t)) : t[i - Len(s)] = h}
<1>1. /\ Len(s) \in Nat /\ DOMAIN s = 1..Len(s)
      /\ Len(t) \in Nat /\ DOMAIN t = 1..Len(t)
  BY LenProperties
<1>2. /\ DOMAIN (s \o t) = 1..(Len(s) + Len(t))
      /\ \A i \in 1..(Len(s) + Len(t)) :
            (s \o t)[i] = IF i <= Len(s) THEN s[i] ELSE t[i - Len(s)]
  BY ConcatProperties, LenProperties
<1>3. C = A \cup D
  <2>1. ASSUME NEW i \in C PROVE i \in A \cup D
    BY <1>1, <1>2
  <2>2. ASSUME NEW i \in A PROVE i \in C
    BY <1>1, <1>2
  <2>3. ASSUME NEW i \in D PROVE i \in C
    BY <1>1, <1>2
  <2>. QED  BY <2>1, <2>2, <2>3
<1>4. A \cap D = {}
  BY <1>1
<1>5. IsFiniteSet(A) /\ IsFiniteSet(B) /\ Cardinality(A) \in Nat /\ Cardinality(B) \in Nat
  BY TimesSeqType DEF Times
<1>6. IsFiniteSet(D) /\ Cardinality(D) = Cardinality(B)
  <2>. DEFINE shift == [i \in B |-> i + Len(s)]
  <2>1. shift \in [B -> D]
    BY <1>1
  <2>2. \A i, j \in B : shift[i] = shift[j] => i = j
    BY <1>1
  <2>3. ASSUME NEW j \in D PROVE \E i \in B : shift[i] = j
    <3>1. j - Len(s) \in B /\ shift[j - Len(s)] = j
      BY <1>1
    <3>. QED  BY <3>1
  <2>. HIDE DEF shift, B, D
  <2>4. shift \in Bijection(B, D)
    BY <2>1, <2>2, <2>3 DEF Bijection, Injection, Surjection, IsInjective
  <2>. QED  BY <2>4, <1>5, FS_Bijection DEF ExistsBijection
<1>. HIDE DEF A, B, C, D
<1>7. Cardinality(C) = Cardinality(A) + Cardinality(B)
  <2>1. Cardinality(A \cap D) = 0
    BY <1>4, FS_EmptySet
  <2>2. Cardinality(A \cup D) = Cardinality(A) + Cardinality(D) - Cardinality(A \cap D)
    BY <1>5, <1>6, FS_Union
  <2>. QED  BY <1>3, <1>5, <1>6, <2>1, <2>2
<1>. QED  BY <1>7 DEF Times, A, B, C

LEMMA TimesHeadTail ==
    ASSUME NEW S, NEW s \in Seq(S), s # << >>, NEW h
    PROVE  Times(h, s) = (IF Head(s) = h THEN 1 ELSE 0) + Times(h, Tail(s))
<1>1. /\ Head(s) \in S /\ Tail(s) \in Seq(S)
  BY HeadTailProperties
<1>2. <<Head(s)>> \in Seq(S) /\ s = <<Head(s)>> \o Tail(s)
  BY <1>1
<1>3. Times(h, <<Head(s)>> \o Tail(s)) = Times(h, <<Head(s)>>) + Times(h, Tail(s))
  BY <1>1, <1>2, TimesConcat
<1>. QED  BY <1>2, <1>3, TimesOne

LEMMA TimesTwo ==
    ASSUME NEW a, NEW b, NEW h
    PROVE  Times(h, <<a, b>>) = (IF a = h THEN 1 ELSE 0) + (IF b = h THEN 1 ELSE 0)
<1>1. <<a, b>> \in Seq({a, b}) /\ <<a, b>> # << >>
      /\ Head(<<a, b>>) = a /\ Tail(<<a, b>>) = <<b>>
  OBVIOUS
<1>2. Times(h, <<a, b>>) = (IF a = h THEN 1 ELSE 0) + Times(h, <<b>>)
  BY <1>1, TimesHeadTail
<1>. QED  BY <1>2, TimesOne

-------------------------------------------------------------------------------
(* How often a handle is a gradient of a map.                                *)

LEMMA WithKey ==
    ASSUME NEW f, NEW k, NEW g
    PROVE  /\ DOMAIN With(f, k, g) = {k} \cup DOMAIN f
           /\ \A x \in {k} \cup DOMAIN f :
                 With(f, k, g)[x] = IF x = k THEN g ELSE f[x]
BY DEF With

LEMMA WithoutKey ==
    ASSUME NEW f, NEW k
    PROVE  /\ DOMAIN Without(f, k) = DOMAIN f \ {k}
           /\ \A x \in DOMAIN f \ {k} : Without(f, k)[x] = f[x]
BY DEF Without, Restrict

LEMMA HoldingType ==
    ASSUME NEW f, IsFiniteSet(DOMAIN f), NEW h
    PROVE  /\ IsFiniteSet({x \in DOMAIN f : f[x].grad = h})
           /\ Holding(h, f) \in Nat
<1>1. {x \in DOMAIN f : f[x].grad = h} \in SUBSET DOMAIN f
  OBVIOUS
<1>2. IsFiniteSet({x \in DOMAIN f : f[x].grad = h})
  BY <1>1, FS_Subset
<1>. QED  BY <1>2, FS_CardinalityType DEF Holding

LEMMA HoldingPositive ==
    ASSUME NEW f, IsFiniteSet(DOMAIN f), NEW x \in DOMAIN f
    PROVE  Holding(f[x].grad, f) > 0
<1>. DEFINE A == {y \in DOMAIN f : f[y].grad = f[x].grad}
<1>1. IsFiniteSet(A) /\ Cardinality(A) \in Nat
  BY HoldingType DEF Holding
<1>2. A # {}
  OBVIOUS
<1>3. Cardinality(A) # 0
  BY <1>1, <1>2, FS_EmptySet
<1>. QED  BY <1>1, <1>3 DEF Holding

LEMMA HoldingEmpty ==
    ASSUME NEW f, DOMAIN f = {}, NEW h
    PROVE  Holding(h, f) = 0
<1>1. {x \in DOMAIN f : f[x].grad = h} = {}
  OBVIOUS
<1>. QED  BY <1>1, FS_EmptySet DEF Holding

LEMMA HoldingWith ==
    ASSUME NEW f, IsFiniteSet(DOMAIN f), NEW k, k \notin DOMAIN f, NEW g, NEW h
    PROVE  Holding(h, With(f, k, g)) = Holding(h, f) + (IF g.grad = h THEN 1 ELSE 0)
<1>. DEFINE A == {x \in DOMAIN f : f[x].grad = h}
            with == With(f, k, g)
            B == {x \in DOMAIN with : with[x].grad = h}
<1>1. IsFiniteSet(A) /\ Cardinality(A) \in Nat /\ k \notin A
  BY HoldingType DEF Holding
<1>2. DOMAIN with = {k} \cup DOMAIN f /\ \A x \in {k} \cup DOMAIN f : with[x] = IF x = k THEN g ELSE f[x]
  BY DEF With
<1>. HIDE DEF with
<1>3. B = IF g.grad = h THEN A \cup {k} ELSE A
  BY <1>2
<1>. HIDE DEF A, B
<1>4. Cardinality(B) = Cardinality(A) + (IF g.grad = h THEN 1 ELSE 0)
  <2>1. Cardinality(A \cup {k}) = Cardinality(A) + 1
    BY <1>1, FS_AddElement
  <2>. QED  BY <1>1, <1>3, <2>1
<1>. QED  BY <1>4 DEF Holding, A, B, with

LEMMA HoldingWithout ==
    ASSUME NEW f, IsFiniteSet(DOMAIN f), NEW k \in DOMAIN f, NEW h
    PROVE  Holding(h, f) = Holding(h, Without(f, k)) + (IF f[k].grad = h THEN 1 ELSE 0)
<1>. DEFINE A == {x \in DOMAIN f : f[x].grad = h}
            without == Without(f, k)
            B == {x \in DOMAIN without : without[x].grad = h}
<1>1. IsFiniteSet(A) /\ Cardinality(A) \in Nat
  BY HoldingType DEF Holding
<1>2. DOMAIN without = DOMAIN f \ {k} /\ \A x \in DOMAIN f \ {k} : without[x] = f[x]
  BY WithoutKey
<1>. HIDE DEF without
<1>3. B = A \ {k} /\ (k \in A <=> f[k].grad = h)
  BY <1>2
<1>. HIDE DEF A, B
<1>4. Cardinality(A) = Cardinality(B) + (IF f[k].grad = h THEN 1 ELSE 0)
  <2>1. Cardinality(A \ {k}) = IF k \in A THEN Cardinality(A) - 1 ELSE Cardinality(A)
    BY <1>1, FS_RemoveElement
  <2>. QED  BY <1>1, <1>3, <2>1
<1>. QED  BY <1>4 DEF Holding, A, B, without

(* Giving a key of a map another gradient.                                   *)
LEMMA HoldingReplace ==
    ASSUME NEW f, IsFiniteSet(DOMAIN f), NEW k \in DOMAIN f, NEW g, NEW h
    PROVE  Holding(h, f) + (IF g.grad = h THEN 1 ELSE 0)
               = Holding(h, With(f, k, g)) + (IF f[k].grad = h THEN 1 ELSE 0)
<1>. DEFINE without == Without(f, k)
            with == With(f, k, g)
            back == With(without, k, g)
<1>1. DOMAIN without = DOMAIN f \ {k} /\ \A x \in DOMAIN f \ {k} : without[x] = f[x]
  BY WithoutKey
<1>2. DOMAIN with = {k} \cup DOMAIN f /\ \A x \in {k} \cup DOMAIN f : with[x] = IF x = k THEN g ELSE f[x]
  BY DEF With
<1>3. DOMAIN back = {k} \cup DOMAIN without
      /\ \A x \in {k} \cup DOMAIN without : back[x] = IF x = k THEN g ELSE without[x]
  BY DEF With
<1>4. Holding(h, f) = Holding(h, without) + (IF f[k].grad = h THEN 1 ELSE 0)
  BY HoldingWithout
<1>5. IsFiniteSet(DOMAIN without) /\ k \notin DOMAIN without
  BY <1>1, FS_RemoveElement
<1>6. Holding(h, back) = Holding(h, without) + (IF g.grad = h THEN 1 ELSE 0)
  BY <1>5, HoldingWith
<1>7. Holding(h, with) = Holding(h, back)
  <2>. HIDE DEF without, with, back
  <2>1. DOMAIN with = DOMAIN back /\ \A x \in DOMAIN with : with[x] = back[x]
    BY <1>1, <1>2, <1>3
  <2>2. {x \in DOMAIN with : with[x].grad = h} = {x \in DOMAIN back : back[x].grad = h}
    BY <2>1
  <2>. QED  BY <2>2 DEF Holding
<1>8. Holding(h, without) \in Nat
  BY <1>5, HoldingType
<1>. HIDE DEF without, with, back
<1>9. Holding(h, f) + (IF g.grad = h THEN 1 ELSE 0) = Holding(h, with) + (IF f[k].grad = h THEN 1 ELSE 0)
  BY <1>4, <1>6, <1>7, <1>8
<1>. QED  BY <1>9 DEF with

LEMMA HoldingSplit ==
    ASSUME NEW f, IsFiniteSet(DOMAIN f), NEW S, NEW h
    PROVE  Holding(h, f) = Holding(h, Restrict(f, DOMAIN f \ S))
                           + Holding(h, Restrict(f, DOMAIN f \cap S))
<1>. DEFINE A == {x \in DOMAIN f : f[x].grad = h}
            B == {x \in DOMAIN Restrict(f, DOMAIN f \ S) : Restrict(f, DOMAIN f \ S)[x].grad = h}
            C == {x \in DOMAIN Restrict(f, DOMAIN f \cap S) : Restrict(f, DOMAIN f \cap S)[x].grad = h}
<1>1. IsFiniteSet(A)
  BY HoldingType
<1>2. A = B \cup C /\ B \cap C = {} /\ B \in SUBSET A /\ C \in SUBSET A
  BY DEF Restrict
<1>. HIDE DEF A, B, C
<1>3. /\ IsFiniteSet(B) /\ Cardinality(B) \in Nat
      /\ IsFiniteSet(C) /\ Cardinality(C) \in Nat
  BY <1>1, <1>2, FS_Subset, FS_CardinalityType
<1>4. Cardinality(B \cup C) = Cardinality(B) + Cardinality(C) - Cardinality(B \cap C)
  BY <1>3, FS_Union
<1>5. Cardinality(B \cap C) = 0
  BY <1>2, FS_EmptySet
<1>6. Cardinality(A) = Cardinality(B) + Cardinality(C)
  BY <1>2, <1>3, <1>4, <1>5
<1>. QED  BY <1>6 DEF Holding, A, B, C

(* GradsOf lists the gradients of a map, each as often as the map has it.    *)
LEMMA GradsOfCounts ==
    ASSUME NEW f, IsFiniteSet(DOMAIN f), NEW S, \A x \in DOMAIN f : f[x].grad \in S
    PROVE  /\ GradsOf(f) \in Seq(S)
           /\ \A h : Times(h, GradsOf(f)) = Holding(h, f)
<1>. DEFINE n == Cardinality(DOMAIN f)
            order == SetToSeq(DOMAIN f)
            all == [i \in DOMAIN order |-> f[order[i]].grad]
<1>1. n \in Nat
  BY FS_CardinalityType
<1>2. \E s \in [1..n -> DOMAIN f] : IsInjective(s)
  <2>1. PICK s : s \in Bijection(1..n, DOMAIN f)
    BY FS_CardinalityType DEF ExistsBijection
  <2>. QED  BY <2>1 DEF Bijection, Injection
<1>3. order \in [1..n -> DOMAIN f] /\ IsInjective(order)
  BY <1>2 DEF SetToSeq
<1>. HIDE DEF n, order
<1>4. order \in Bijection(1..n, DOMAIN f)
  <2>1. order \in Injection(1..n, DOMAIN f)
    BY <1>3 DEF Injection
  <2>2. IsFiniteSet(1..n) /\ Cardinality(1..n) = n
    BY <1>1, FS_Interval
  <2>3. order \in Surjection(1..n, DOMAIN f)
    BY <2>1, <2>2, FS_Injection DEF n
  <2>. QED  BY <2>1, <2>3 DEF Bijection
<1>5. all \in [1..n -> S] /\ DOMAIN all = 1..n /\ \A i \in 1..n : all[i] = f[order[i]].grad
  BY <1>3
<1>6. all \in Seq(S)
  BY <1>1, <1>5
<1>7. ASSUME NEW h PROVE Times(h, all) = Holding(h, f)
  <2>. DEFINE A == {i \in DOMAIN all : all[i] = h}
              B == {x \in DOMAIN f : f[x].grad = h}
              m == [i \in A |-> order[i]]
  <2>1. IsFiniteSet(A)
    BY <1>6, TimesSeqType
  <2>2. order \in Injection(1..n, DOMAIN f) /\ order \in Surjection(1..n, DOMAIN f)
    BY <1>4 DEF Bijection
  <2>3. \A i, j \in 1..n : order[i] = order[j] => i = j
    BY <1>3 DEF IsInjective
  <2>4. \A x \in DOMAIN f : \E i \in 1..n : order[i] = x
    BY <2>2 DEF Surjection
  <2>5. m \in [A -> B]
    BY <1>3, <1>5
  <2>6. \A i, j \in A : m[i] = m[j] => i = j
    BY <1>5, <2>3
  <2>7. ASSUME NEW x \in B PROVE \E i \in A : m[i] = x
    BY <1>5, <2>4
  <2>. HIDE DEF A, B, m
  <2>8. m \in Bijection(A, B)
    BY <2>5, <2>6, <2>7 DEF Bijection, Injection, Surjection, IsInjective
  <2>9. Cardinality(B) = Cardinality(A)
    BY <2>1, <2>8, FS_Bijection DEF ExistsBijection
  <2>. QED  BY <2>9 DEF Times, Holding, A, B
<1>8. GradsOf(f) = all
  BY DEF GradsOf, order
<1>. HIDE DEF all
<1>. QED  BY <1>6, <1>7, <1>8

-------------------------------------------------------------------------------
(* What the nodes hold, one after the other.                                 *)

(* What one of the parts has, the whole has.                                 *)
LEMMA FlattenHas ==
    ASSUME NEW S, NEW s \in Seq(Seq(S)), NEW j \in 1..Len(s), NEW h
    PROVE  Times(h, s[j]) <= Times(h, FlattenSeq(s))
<1>. DEFINE n == Len(s)
            T == {i \in Nat : i \in j..n => Times(h, s[j]) <= Times(h, Flat(s, n)[i])}
<1>1. /\ n \in Nat /\ \A i \in 1..n : s[i] \in Seq(S) /\ Flat(s, n)[i] \in Seq(S)
  BY LenProperties, ElementOfSeq, FlatType
<1>2. FlattenSeq(s) = Flat(s, n)[n]
  BY FlattenSeqFlat, LenProperties
<1>3. j \in 1..n
  OBVIOUS
<1>4. \A i \in 1..n : Times(h, s[i]) \in Nat /\ Times(h, Flat(s, n)[i]) \in Nat
  BY <1>1, TimesSeqType
<1>. HIDE DEF n
<1>5. 0 \in T
  BY <1>3
<1>6. ASSUME NEW i \in Nat, i \in T PROVE i + 1 \in T
  <2>1. SUFFICES ASSUME i + 1 \in j..n PROVE Times(h, s[j]) <= Times(h, Flat(s, n)[i + 1])
    OBVIOUS
  <2>2. i + 1 \in 1..n /\ i + 1 - 1 = i
    BY <1>1, <1>3, <2>1
  <2>3. Flat(s, n)[i + 1] = IF i + 1 = 1 THEN s[1] ELSE Flat(s, n)[i] \o s[i + 1]
    <3>1. Flat(s, n)[i + 1] = IF i + 1 = 1 THEN s[1] ELSE Flat(s, n)[i + 1 - 1] \o s[i + 1]
      BY <1>1, <2>2, FlatStep
    <3>. QED  BY <2>2, <3>1
  <2>4. CASE i = 0
    <3>1. j = 1 /\ Flat(s, n)[i + 1] = s[1]
      BY <1>3, <2>1, <2>3, <2>4
    <3>. QED  BY <1>3, <1>4, <3>1
  <2>5. CASE i # 0
    <3>1. i \in 1..n
      BY <1>1, <2>2, <2>5
    <3>2. Flat(s, n)[i + 1] = Flat(s, n)[i] \o s[i + 1]
      <4>1. i + 1 # 1
        BY <2>5
      <4>. QED  BY <2>3, <4>1
    <3>3. Times(h, Flat(s, n)[i] \o s[i + 1]) = Times(h, Flat(s, n)[i]) + Times(h, s[i + 1])
      BY <1>1, <2>2, <3>1, TimesConcat
    <3>4. CASE i + 1 = j
      BY <1>4, <2>2, <3>1, <3>2, <3>3, <3>4
    <3>5. CASE i + 1 # j
      <4>1. Times(h, s[j]) <= Times(h, Flat(s, n)[i])
        BY <1>1, <1>3, <1>6, <2>1, <3>5
      <4>. QED  BY <1>3, <1>4, <2>2, <3>1, <3>2, <3>3, <4>1
    <3>. QED  BY <3>4, <3>5
  <2>. QED  BY <2>4, <2>5
<1>. HIDE DEF T
<1>7. \A i \in Nat : i \in T
  BY <1>5, <1>6, NatInduct
<1>8. n \in j..n
  BY <1>1, <1>3
<1>9. n \in T => (n \in j..n => Times(h, s[j]) <= Times(h, Flat(s, n)[n]))
  BY DEF T
<1>. QED  BY <1>1, <1>2, <1>7, <1>8, <1>9

Parts(ns) == [i \in DOMAIN ns |-> ns[i].saved \o <<ns[i].output>>]

LEMMA PartsType ==
    ASSUME NEW ns \in Seq(Node)
    PROVE  /\ Parts(ns) \in Seq(Seq(Handles)) /\ Len(Parts(ns)) = Len(ns)
           /\ NodeHandles(ns) = FlattenSeq(Parts(ns))
           /\ NodeHandles(ns) \in Seq(Handles)
<1>1. Len(ns) \in Nat /\ DOMAIN ns = 1..Len(ns) /\ \A i \in 1..Len(ns) : ns[i] \in Node
  BY LenProperties, ElementOfSeq
<1>2. ASSUME NEW i \in 1..Len(ns) PROVE ns[i].saved \o <<ns[i].output>> \in Seq(Handles)
  <2>1. ns[i].saved \in Seq(Handles) /\ ns[i].output \in Handles
    BY <1>1 DEF Node
  <2>2. <<ns[i].output>> \in Seq(Handles)
    BY <2>1
  <2>. QED  BY <2>1, <2>2, ConcatProperties
<1>3. Parts(ns) \in [1..Len(ns) -> Seq(Handles)]
  BY <1>1, <1>2 DEF Parts
<1>4. Parts(ns) \in Seq(Seq(Handles)) /\ Len(Parts(ns)) = Len(ns)
  BY <1>1, <1>3
<1>5. NodeHandles(ns) = FlattenSeq(Parts(ns))
  BY DEF NodeHandles, Parts
<1>. QED  BY <1>4, <1>5, FlatType

LEMMA NodeHandlesEmpty == NodeHandles(<< >>) = << >>
<1>1. << >> \in Seq(Node)
  BY EmptySeq
<1>2. Parts(<< >>) \in Seq(Seq(Handles)) /\ Len(Parts(<< >>)) = 0 /\ NodeHandles(<< >>) = FlattenSeq(Parts(<< >>))
  BY <1>1, PartsType, EmptySeq
<1>3. Parts(<< >>) = << >>
  BY <1>2, EmptySeq
<1>. QED  BY <1>2, <1>3 DEF FlattenSeq

(* A node recorded adds what it saves and its output.                        *)
LEMMA NodeHandlesAppend ==
    ASSUME NEW ns \in Seq(Node), NEW node \in Node, NEW h
    PROVE  Times(h, NodeHandles(Append(ns, node))) =
               Times(h, NodeHandles(ns)) + Times(h, node.saved)
               + (IF node.output = h THEN 1 ELSE 0)
<1>. DEFINE e == node.saved \o <<node.output>>
            qs == Append(ns, node)
<1>1. node.saved \in Seq(Handles) /\ <<node.output>> \in Seq(Handles)
  BY DEF Node
<1>2. e \in Seq(Handles) /\ Times(h, e) = Times(h, node.saved) + Times(h, <<node.output>>)
  BY <1>1, ConcatProperties, TimesConcat
<1>3. qs \in Seq(Node)
  OBVIOUS
<1>4. Parts(qs) = Append(Parts(ns), e)
  <2>1. Len(ns) \in Nat /\ DOMAIN ns = 1..Len(ns) /\ DOMAIN qs = 1..(Len(ns) + 1)
        /\ qs[Len(ns) + 1] = node /\ \A i \in 1..Len(ns) : qs[i] = ns[i]
    BY LenProperties
  <2>2. /\ Parts(ns) \in Seq(Seq(Handles)) /\ Len(Parts(ns)) = Len(ns)
        /\ Parts(qs) \in Seq(Seq(Handles)) /\ Len(Parts(qs)) = Len(ns) + 1
    <3>1. Parts(ns) \in Seq(Seq(Handles)) /\ Len(Parts(ns)) = Len(ns)
      BY PartsType
    <3>2. Parts(qs) \in Seq(Seq(Handles)) /\ Len(Parts(qs)) = Len(qs)
      BY <1>3, PartsType
    <3>3. Len(qs) = Len(ns) + 1
      BY <2>1
    <3>. QED  BY <3>1, <3>2, <3>3
  <2>. DEFINE n == Len(ns)
              pn == Parts(ns)
              pq == Parts(qs)
  <2>3. /\ \A i \in 1..n : pn[i] = ns[i].saved \o <<ns[i].output>>
        /\ \A i \in 1..(n + 1) : pq[i] = qs[i].saved \o <<qs[i].output>>
    BY <2>1 DEF Parts
  <2>4. /\ \A i \in 1..n : pq[i] = pn[i]
        /\ pq[n + 1] = e
    <3>1. n + 1 \in 1..(n + 1) /\ \A i \in 1..n : i \in 1..(n + 1)
      BY <2>1
    <3>2. pq[n + 1] = qs[n + 1].saved \o <<qs[n + 1].output>> /\ qs[n + 1] = node
      BY <2>1, <2>3, <3>1
    <3>3. ASSUME NEW i \in 1..n PROVE pq[i] = pn[i]
      <4>1. pq[i] = qs[i].saved \o <<qs[i].output>> /\ qs[i] = ns[i]
        BY <2>1, <2>3, <3>1
      <4>2. pn[i] = ns[i].saved \o <<ns[i].output>>
        BY <2>3
      <4>. HIDE DEF pn, pq, qs
      <4>. QED  BY <4>1, <4>2
    <3>. QED  BY <3>2, <3>3
  <2>5. n \in Nat /\ pn \in Seq(Seq(Handles)) /\ Len(pn) = n /\ pq \in Seq(Seq(Handles)) /\ Len(pq) = n + 1
    BY <2>1, <2>2
  <2>. HIDE DEF n, pn, pq, e
  <2>6. Append(pn, e) \in Seq(Seq(Handles)) /\ Len(Append(pn, e)) = n + 1
        /\ \A i \in 1..(n + 1) : Append(pn, e)[i] = IF i <= n THEN pn[i] ELSE e
    BY <1>2, <2>5
  <2>7. \A i \in 1..(n + 1) : pq[i] = Append(pn, e)[i]
    BY <2>4, <2>5, <2>6
  <2>8. pq = Append(pn, e)
    BY <2>5, <2>6, <2>7, SeqEqual
  <2>. QED  BY <2>8 DEF pn, pq
<1>5. Parts(ns) \in Seq(Seq(Handles)) /\ NodeHandles(ns) = FlattenSeq(Parts(ns)) /\ NodeHandles(ns) \in Seq(Handles)
  BY PartsType
<1>6. NodeHandles(qs) = FlattenSeq(Parts(qs))
  BY <1>3, PartsType
<1>. HIDE DEF e, qs
<1>7. FlattenSeq(Append(Parts(ns), e)) = FlattenSeq(Parts(ns)) \o e
  BY <1>2, <1>5, FlattenAppend
<1>8. Times(h, NodeHandles(ns) \o e) = Times(h, NodeHandles(ns)) + Times(h, e)
  BY <1>2, <1>5, TimesConcat
<1>9. Times(h, NodeHandles(qs)) = Times(h, NodeHandles(ns)) + Times(h, e)
  BY <1>4, <1>5, <1>6, <1>7, <1>8
<1>10. /\ Times(h, <<node.output>>) = IF node.output = h THEN 1 ELSE 0
       /\ Times(h, NodeHandles(ns)) \in Nat /\ Times(h, node.saved) \in Nat
  BY <1>1, <1>5, TimesOne, TimesSeqType
<1>. QED  BY <1>2, <1>9, <1>10 DEF qs

(* What a node saves, and its output, are among the handles of the nodes.    *)
LEMMA NodeHandlesHas ==
    ASSUME NEW ns \in Seq(Node), NEW i \in 1..Len(ns)
    PROVE  /\ Times(ns[i].output, NodeHandles(ns)) > 0
           /\ \A p \in DOMAIN ns[i].saved : Times(ns[i].saved[p], NodeHandles(ns)) > 0
<1>. DEFINE part == ns[i].saved \o <<ns[i].output>>
<1>1. ns[i] \in Node
  BY ElementOfSeq
<1>2. ns[i].saved \in Seq(Handles) /\ ns[i].output \in Handles /\ <<ns[i].output>> \in Seq(Handles)
  BY <1>1 DEF Node
<1>3. /\ Parts(ns) \in Seq(Seq(Handles)) /\ i \in 1..Len(Parts(ns)) /\ Parts(ns)[i] = part
      /\ NodeHandles(ns) = FlattenSeq(Parts(ns)) /\ NodeHandles(ns) \in Seq(Handles)
  BY PartsType, LenProperties DEF Parts
<1>4. ASSUME NEW h PROVE Times(h, part) <= Times(h, NodeHandles(ns)) /\ Times(h, NodeHandles(ns)) \in Nat
  BY <1>3, FlattenHas, TimesSeqType
<1>5. ASSUME NEW h PROVE /\ Times(h, part) = Times(h, ns[i].saved) + (IF ns[i].output = h THEN 1 ELSE 0)
                         /\ Times(h, ns[i].saved) \in Nat
  <2>1. Times(h, part) = Times(h, ns[i].saved) + Times(h, <<ns[i].output>>)
    BY <1>2, TimesConcat
  <2>. QED  BY <1>2, <2>1, TimesOne, TimesSeqType
<1>. HIDE DEF part
<1>6. Times(ns[i].output, NodeHandles(ns)) > 0
  <2>. DEFINE h == ns[i].output
  <2>1. Times(h, part) = Times(h, ns[i].saved) + 1 /\ Times(h, ns[i].saved) \in Nat
    BY <1>5
  <2>2. Times(h, part) <= Times(h, NodeHandles(ns)) /\ Times(h, NodeHandles(ns)) \in Nat
    BY <1>4
  <2>. HIDE DEF h
  <2>3. Times(h, NodeHandles(ns)) > 0
    BY <2>1, <2>2
  <2>. QED  BY <2>3 DEF h
<1>7. ASSUME NEW p \in DOMAIN ns[i].saved PROVE Times(ns[i].saved[p], NodeHandles(ns)) > 0
  <2>. DEFINE q == ns[i].saved
              h == q[p]
  <2>1. q \in Seq(Handles) /\ p \in DOMAIN q
    BY <1>2, <1>7
  <2>2. IsFiniteSet(DOMAIN q)
    <3>. HIDE DEF q
    <3>1. DOMAIN q = 1..Len(q) /\ Len(q) \in Nat
      BY <2>1, LenProperties
    <3>2. 1 \in Int /\ Len(q) \in Int
      BY <3>1
    <3>3. IsFiniteSet(1..Len(q))
      BY <3>2, FS_Interval
    <3>. QED  BY <3>1, <3>3
  <2>3. Times(h, q) > 0
    BY <2>1, <2>2, TimesPositive
  <2>4. Times(h, part) = Times(h, q) + (IF ns[i].output = h THEN 1 ELSE 0) /\ Times(h, q) \in Nat
    BY <1>5
  <2>5. Times(h, part) <= Times(h, NodeHandles(ns)) /\ Times(h, NodeHandles(ns)) \in Nat
    BY <1>4
  <2>. HIDE DEF h
  <2>6. Times(h, NodeHandles(ns)) > 0
    BY <2>3, <2>4, <2>5
  <2>. QED  BY <2>6 DEF h
<1>. QED  BY <1>6, <1>7

-------------------------------------------------------------------------------
(* The pending results.                                                      *)

PendingHolding(h, q) == Cardinality({i \in DOMAIN q : q[i].gradient.grad = h})
PendingGrads(q) == [i \in DOMAIN q |-> q[i].gradient.grad]

LEMMA PendingCounts ==
    ASSUME NEW q \in Seq(Pending), NEW h
    PROVE  /\ PendingGrads(q) \in Seq(Handles) /\ Len(PendingGrads(q)) = Len(q)
           /\ PendingHolding(h, q) = Times(h, PendingGrads(q))
           /\ PendingHolding(h, q) \in Nat
<1>1. Len(q) \in Nat /\ DOMAIN q = 1..Len(q) /\ \A i \in 1..Len(q) : q[i] \in Pending
  BY LenProperties, ElementOfSeq
<1>2. \A i \in 1..Len(q) : q[i].gradient.grad \in Handles
  BY <1>1 DEF Pending, Gradient
<1>3. PendingGrads(q) \in [1..Len(q) -> Handles]
  BY <1>1, <1>2 DEF PendingGrads
<1>4. PendingGrads(q) \in Seq(Handles) /\ Len(PendingGrads(q)) = Len(q)
  BY <1>1, <1>3
<1>5. {i \in DOMAIN q : q[i].gradient.grad = h} = {i \in DOMAIN PendingGrads(q) : PendingGrads(q)[i] = h}
  BY DEF PendingGrads
<1>6. PendingHolding(h, q) = Times(h, PendingGrads(q))
  BY <1>5 DEF PendingHolding, Times
<1>. QED  BY <1>4, <1>6, TimesSeqType

LEMMA PendingEmpty ==
    ASSUME NEW h
    PROVE  PendingHolding(h, << >>) = 0
<1>1. {i \in DOMAIN << >> : << >>[i].gradient.grad = h} = {}
  OBVIOUS
<1>. QED  BY <1>1, FS_EmptySet DEF PendingHolding

LEMMA PendingHeadTail ==
    ASSUME NEW q \in Seq(Pending), q # << >>, NEW h
    PROVE  PendingHolding(h, q) = (IF Head(q).gradient.grad = h THEN 1 ELSE 0)
                                  + PendingHolding(h, Tail(q))
<1>. DEFINE g == PendingGrads(q)
<1>1. Len(q) \in Nat \ {0} /\ DOMAIN q = 1..Len(q)
  BY LenProperties, EmptySeq
<1>2. Tail(q) \in Seq(Pending) /\ Len(Tail(q)) = Len(q) - 1 /\ DOMAIN Tail(q) = 1..(Len(q) - 1)
      /\ \A i \in 1..(Len(q) - 1) : Tail(q)[i] = q[i + 1]
  BY <1>1, HeadTailProperties, LenProperties
<1>3. g \in Seq(Handles) /\ Len(g) = Len(q) /\ g # << >>
  <2>1. g \in Seq(Handles) /\ Len(g) = Len(q)
    BY PendingCounts
  <2>. QED  BY <1>1, <2>1, EmptySeq
<1>4. Head(g) = Head(q).gradient.grad
  BY <1>1, <1>3 DEF PendingGrads
<1>5. Tail(g) = PendingGrads(Tail(q))
  <2>1. Tail(g) \in Seq(Handles) /\ Len(Tail(g)) = Len(q) - 1
        /\ \A i \in 1..(Len(q) - 1) : Tail(g)[i] = g[i + 1]
    BY <1>3, HeadTailProperties
  <2>2. PendingGrads(Tail(q)) \in Seq(Handles) /\ Len(PendingGrads(Tail(q))) = Len(q) - 1
        /\ \A i \in 1..(Len(q) - 1) : PendingGrads(Tail(q))[i] = Tail(q)[i].gradient.grad
    <3>1. PendingGrads(Tail(q)) \in Seq(Handles) /\ Len(PendingGrads(Tail(q))) = Len(Tail(q))
      BY <1>2, PendingCounts
    <3>2. \A i \in DOMAIN Tail(q) : PendingGrads(Tail(q))[i] = Tail(q)[i].gradient.grad
      BY DEF PendingGrads
    <3>. QED  BY <1>2, <3>1, <3>2
  <2>3. \A i \in 1..(Len(q) - 1) : g[i + 1] = q[i + 1].gradient.grad
    BY <1>1 DEF PendingGrads
  <2>4. \A i \in 1..(Len(q) - 1) : Tail(g)[i] = PendingGrads(Tail(q))[i]
    BY <1>2, <2>1, <2>2, <2>3
  <2>. HIDE DEF g
  <2>. QED  BY <2>1, <2>2, <2>4, SeqEqual
<1>6. Times(h, g) = (IF Head(g) = h THEN 1 ELSE 0) + Times(h, Tail(g))
  BY <1>3, TimesHeadTail
<1>. QED  BY <1>2, <1>4, <1>5, <1>6, PendingCounts

-------------------------------------------------------------------------------
(* What an operation saves.                                                  *)

LEMMA PositionsAre ==
    ASSUME NEW op \in Ops
    PROVE  /\ \E n \in 1..3 : Positions(op) = 1..n
           /\ Aids(op) = {} \/ Aids(op) = {2}
           /\ Aids(op) \subseteq Positions(op)
           /\ op \in {"layernorm", "cross_entropy"} <=> Aids(op) # {}
<1>1. op \in {"binop", "unary", "layernorm", "cross_entropy", "embedding"}
  BY ConstantsAssumption DEF Kinds
<1>2. CASE op = "binop"
  BY <1>2 DEF Positions, Factors, Aids
<1>3. CASE op = "unary"
  BY <1>3 DEF Positions, Factors, Aids
<1>4. CASE op = "layernorm"
  BY <1>4 DEF Positions, Factors, Aids
<1>5. CASE op = "cross_entropy"
  BY <1>5 DEF Positions, Factors, Aids
<1>6. CASE op = "embedding"
  BY <1>6 DEF Positions, Factors, Aids
<1>. QED  BY <1>1, <1>2, <1>3, <1>4, <1>5, <1>6

(* The gradients go to positions that are saved.                             *)
LEMMA VjpOrderIs ==
    ASSUME NEW op \in Ops
    PROVE  \E n \in 1..2 : /\ VjpOrder(op) \in [1..n -> Positions(op)]
                           /\ VjpOrder(op) \in Seq(Positions(op)) /\ Len(VjpOrder(op)) = n
                           /\ \A i \in 1..n : Factors(op)[VjpOrder(op)[i]] \in Nat
<1>1. op \in {"binop", "unary", "layernorm", "cross_entropy", "embedding"}
  BY ConstantsAssumption DEF Kinds
<1>2. CASE op = "binop"
  <2>1. Positions(op) = 1..2 /\ VjpOrder(op) = <<1, 2>> /\ Factors(op) = <<1, 2>>
    BY <1>2 DEF Positions, Factors, VjpOrder
  <2>. QED  BY <2>1
<1>3. CASE op # "binop"
  <2>1. VjpOrder(op) = <<1>>
    BY <1>3 DEF VjpOrder
  <2>2. 1 \in Positions(op) /\ Factors(op)[1] \in Nat
    BY <1>1, <1>3 DEF Positions, Factors
  <2>3. <<1>> \in [1..1 -> Positions(op)] /\ <<1>> \in Seq(Positions(op)) /\ Len(<<1>>) = 1
    BY <2>2
  <2>. QED  BY <2>1, <2>2, <2>3
<1>. QED  BY <1>2, <1>3

HasAid(op, saved, h) == Aids(op) # {} /\ saved[2] = h

LEMMA SavedSeq ==
    ASSUME NEW op \in Ops, NEW S, NEW saved \in [Positions(op) -> S]
    PROVE  saved \in Seq(S) /\ DOMAIN saved = Positions(op)
<1>1. PICK n \in 1..3 : Positions(op) = 1..n
  BY PositionsAre
<1>2. n \in Nat /\ saved \in [1..n -> S]
  BY <1>1
<1>. QED  BY <1>1, <1>2

(* A record call retains all a node holds but the aid.                       *)
LEMMA RetainsCount ==
    ASSUME NEW op \in Ops, NEW saved \in [Positions(op) -> Handles], NEW out, NEW h
    PROVE  /\ Retains(op, saved, out, h) \in Nat
           /\ Times(h, saved) \in Nat
           /\ Times(h, saved) + (IF out = h THEN 1 ELSE 0) =
                  Retains(op, saved, out, h) + (IF HasAid(op, saved, h) THEN 1 ELSE 0)
<1>. DEFINE A == {p \in Positions(op) \ Aids(op) : saved[p] = h}
            B == {p \in Aids(op) : saved[p] = h}
            C == {p \in DOMAIN saved : saved[p] = h}
<1>1. saved \in Seq(Handles) /\ DOMAIN saved = Positions(op)
  BY SavedSeq
<1>2. IsFiniteSet(C) /\ Cardinality(C) \in Nat
  BY <1>1, TimesSeqType DEF Times
<1>3. (Aids(op) = {} \/ Aids(op) = {2}) /\ Aids(op) \subseteq Positions(op)
  BY PositionsAre
<1>4. C = A \cup B /\ A \cap B = {} /\ A \in SUBSET C /\ B \in SUBSET C
  BY <1>1, <1>3
<1>5. B = IF HasAid(op, saved, h) THEN {2} ELSE {}
  BY <1>3 DEF HasAid
<1>6. Retains(op, saved, out, h) = Cardinality(A) + (IF h = out THEN 1 ELSE 0)
  BY DEF Retains
<1>. HIDE DEF A, B
<1>7. IsFiniteSet(A) /\ Cardinality(A) \in Nat /\ IsFiniteSet(B) /\ Cardinality(B) \in Nat
  <2>. HIDE DEF C
  <2>. QED  BY <1>2, <1>4, FS_Subset, FS_CardinalityType
<1>8. Cardinality(B) = IF HasAid(op, saved, h) THEN 1 ELSE 0
  BY <1>5, FS_EmptySet, FS_Singleton
<1>9. Cardinality(C) = Cardinality(A) + Cardinality(B)
  <2>. HIDE DEF C
  <2>1. Cardinality(A \cup B) = Cardinality(A) + Cardinality(B) - Cardinality(A \cap B)
    BY <1>7, FS_Union
  <2>2. Cardinality(A \cap B) = 0
    BY <1>4, FS_EmptySet
  <2>. QED  BY <1>4, <1>7, <2>1, <2>2
<1>10. Times(h, saved) = Cardinality(C)
  BY DEF Times
<1>. HIDE DEF C
<1>. QED  BY <1>2, <1>6, <1>7, <1>8, <1>9, <1>10
-------------------------------------------------------------------------------

-------------------------------------------------------------------------------
(* The inductive invariant.                                                  *)

Phases == {"host", "walk", "fold", "discard"}

TypeOK ==
    /\ refs \in [Handles -> Nat] /\ held \in [Handles -> Nat] /\ abandoned \subseteq Handles
    /\ recording \in BOOLEAN /\ depth \in Nat
    /\ nodes \in Seq(Node)
    /\ \A i \in DOMAIN nodes : DOMAIN nodes[i].saved = Positions(nodes[i].op)
    /\ leaves \subseteq Handles
    /\ DOMAIN leafGrad \subseteq Handles /\ leafGrad \in [DOMAIN leafGrad -> Gradient]
    /\ phase \in Phases /\ at \in 0..Len(nodes)
    /\ DOMAIN grads \subseteq Handles /\ grads \in [DOMAIN grads -> Gradient]
    /\ todo \in Seq(Pending)
    /\ toRelease \in Seq(Handles) /\ releasing \in Seq(Handles)
    /\ status \in {"running", "panicked"}

(* What backward uses is empty outside the phase that uses it, and the fold  *)
(* releases nothing.                                                         *)
Quiet ==
    /\ phase = "host" => DOMAIN grads = {}
    /\ phase # "walk" => todo = << >> /\ at = 0
    /\ phase # "fold" => toRelease = << >>
    /\ phase = "fold" => releasing = << >>

(* Every key of backward's map and every target of a pending result is a     *)
(* tensor that the host or a node owns: the walk can free neither.           *)
KeysOwned ==
    \A k \in DOMAIN grads \cup {todo[i].to : i \in DOMAIN todo} :
        held[k] > 0 \/ Times(k, NodeHandles(nodes)) > 0

IInv == TypeOK /\ Quiet /\ KeysOwned /\ RegistryAlive /\ RefsExact /\ NeverPanics

-------------------------------------------------------------------------------
(* What the invariant says of one state.                                     *)

(* The maps are finite: their keys are addresses.                            *)
LEMMA MapsFinite ==
    ASSUME TypeOK
    PROVE  IsFiniteSet(DOMAIN leafGrad) /\ IsFiniteSet(DOMAIN grads)
BY ConstantsAssumption, FS_Subset DEF TypeOK

(* The terms of the sum: a count, a lost tensor, and the counts of Tape.     *)
CountAt(f, h) == f[h]
Lost(h, hs) == IF h \in hs THEN 1 ELSE 0

(* Each term is a number, and they add up to the reference count.            *)
LEMMA Counted ==
    ASSUME TypeOK, RefsExact, NEW h \in Handles
    PROVE  /\ CountAt(refs, h) \in Nat /\ CountAt(held, h) \in Nat /\ Lost(h, abandoned) \in Nat
           /\ Times(h, NodeHandles(nodes)) \in Nat
           /\ Times(h, toRelease) \in Nat /\ Times(h, releasing) \in Nat
           /\ Holding(h, leafGrad) \in Nat /\ Holding(h, grads) \in Nat
           /\ PendingHolding(h, todo) \in Nat
           /\ CountAt(refs, h) =
                  CountAt(held, h) + Lost(h, abandoned)
                  + Times(h, NodeHandles(nodes)) + Times(h, toRelease) + Times(h, releasing)
                  + Holding(h, leafGrad) + Holding(h, grads) + PendingHolding(h, todo)
<1>1. Holding(h, leafGrad) \in Nat /\ Holding(h, grads) \in Nat
  BY MapsFinite, HoldingType
<1>2. Times(h, toRelease) \in Nat /\ Times(h, releasing) \in Nat
  BY TimesSeqType DEF TypeOK
<1>3. Times(h, NodeHandles(nodes)) \in Nat
  BY PartsType, TimesSeqType DEF TypeOK
<1>4. PendingHolding(h, todo) \in Nat
  BY PendingCounts DEF TypeOK
<1>5. CountAt(refs, h) \in Nat /\ CountAt(held, h) \in Nat /\ Lost(h, abandoned) \in Nat
  BY DEF TypeOK, CountAt, Lost
<1>6. CountAt(refs, h) = Owners(h)
  BY DEF RefsExact, CountAt
<1>7. Owners(h) = CountAt(held, h) + Lost(h, abandoned)
                  + Times(h, NodeHandles(nodes)) + Times(h, toRelease) + Times(h, releasing)
                  + Holding(h, leafGrad) + Holding(h, grads) + PendingHolding(h, todo)
  BY DEF Owners, PendingHolding, CountAt, Lost
<1>. QED  BY <1>1, <1>2, <1>3, <1>4, <1>5, <1>6, <1>7

LEMMA CountedNext ==
    ASSUME NEW h
    PROVE  Owners(h)' =
               CountAt(held', h) + Lost(h, abandoned')
               + Times(h, NodeHandles(nodes')) + Times(h, toRelease') + Times(h, releasing')
               + Holding(h, leafGrad') + Holding(h, grads') + PendingHolding(h, todo')
BY DEF Owners, PendingHolding, CountAt, Lost

(* Nobody owns a free address.                                               *)
LEMMA FreeUnowned ==
    ASSUME TypeOK, RefsExact, NEW h \in Handles, CountAt(refs, h) = 0
    PROVE  /\ CountAt(held, h) = 0 /\ Lost(h, abandoned) = 0
           /\ Times(h, NodeHandles(nodes)) = 0 /\ Times(h, toRelease) = 0 /\ Times(h, releasing) = 0
           /\ Holding(h, leafGrad) = 0 /\ Holding(h, grads) = 0 /\ PendingHolding(h, todo) = 0
<1>. DEFINE a == CountAt(held, h)
            b == Lost(h, abandoned)
            c == Times(h, NodeHandles(nodes))
            d == Times(h, toRelease)
            e == Times(h, releasing)
            f == Holding(h, leafGrad)
            g == Holding(h, grads)
            p == PendingHolding(h, todo)
<1>1. /\ a \in Nat /\ b \in Nat /\ c \in Nat /\ d \in Nat /\ e \in Nat /\ f \in Nat /\ g \in Nat /\ p \in Nat
      /\ a + b + c + d + e + f + g + p = 0
  BY Counted
<1>. HIDE DEF a, b, c, d, e, f, g, p
<1>2. a = 0 /\ b = 0 /\ c = 0 /\ d = 0 /\ e = 0 /\ f = 0 /\ g = 0 /\ p = 0
  BY <1>1
<1>. QED  BY <1>2 DEF a, b, c, d, e, f, g, p

(* What the allocator returns is free.                                       *)
LEMMA FreeButFree ==
    ASSUME TypeOK, NEW taken, NEW h \in FreeBut(taken)
    PROVE  h \in Handles /\ CountAt(refs, h) = 0 /\ h \notin Live /\ h \notin taken
<1>1. NewAt(Handles \ (Live \cup taken)) \subseteq Handles \ (Live \cup taken)
  BY ConstantsAssumption
<1>2. h \in Handles \ (Live \cup taken)
  BY <1>1 DEF FreeBut
<1>. QED  BY <1>2 DEF Live, TypeOK, CountAt

-------------------------------------------------------------------------------
(* The host.                                                                 *)

LEMMA InitIInv ==
    ASSUME Init
    PROVE  IInv
<1>1. TypeOK
  BY EmptySeq DEF Init, TypeOK, Phases
<1>2. RefsExact
  <2>1. SUFFICES ASSUME NEW h \in Handles PROVE refs[h] = Owners(h)
    BY DEF RefsExact
  <2>2. /\ Times(h, NodeHandles(nodes)) = 0 /\ Times(h, toRelease) = 0 /\ Times(h, releasing) = 0
        /\ Holding(h, leafGrad) = 0 /\ Holding(h, grads) = 0 /\ PendingHolding(h, todo) = 0
    BY NodeHandlesEmpty, TimesEmpty, HoldingEmpty, PendingEmpty DEF Init
  <2>. QED  BY <2>2 DEF Owners, PendingHolding, Init
<1>. QED  BY <1>1, <1>2 DEF IInv, Quiet, KeysOwned, RegistryAlive, NeverPanics, Init

(* A host operation runs while backward's map is empty.                      *)
LEMMA IdleEmpty ==
    ASSUME Quiet, Idle
    PROVE  /\ DOMAIN grads = {} /\ todo = << >> /\ toRelease = << >> /\ releasing = << >>
           /\ at = 0 /\ phase = "host" /\ status = "running"
BY DEF Quiet, Idle

LEMMA AllocStep ==
    ASSUME IInv, NEW h \in Handles, Alloc(h)
    PROVE  IInv'
<1>1. TypeOK /\ Quiet /\ KeysOwned /\ RegistryAlive /\ RefsExact /\ NeverPanics
  BY DEF IInv
<1>2. /\ Idle /\ h \in FreeBut({})
      /\ refs' = [refs EXCEPT ![h] = 1] /\ held' = [held EXCEPT ![h] = 1]
  BY DEF Alloc, Free
<1>3. /\ abandoned' = abandoned /\ recording' = recording /\ depth' = depth
      /\ nodes' = nodes /\ leaves' = leaves /\ leafGrad' = leafGrad /\ phase' = phase
      /\ at' = at /\ grads' = grads /\ todo' = todo /\ toRelease' = toRelease
      /\ releasing' = releasing /\ status' = status
  BY DEF Alloc, tape, registry, walk, memory
<1>4. CountAt(refs, h) = 0 /\ DOMAIN grads = {} /\ todo = << >>
  BY <1>1, <1>2, FreeButFree, IdleEmpty
<1>5. TypeOK'
  BY <1>1, <1>2, <1>3 DEF TypeOK
<1>6. Quiet' /\ NeverPanics'
  BY <1>1, <1>3, <1>4 DEF Quiet, NeverPanics
<1>7. KeysOwned'
  BY <1>3, <1>4 DEF KeysOwned
<1>8. RegistryAlive'
  BY <1>1, <1>2, <1>3 DEF RegistryAlive, Live, TypeOK
<1>9. RefsExact'
  <2>1. SUFFICES ASSUME NEW x \in Handles PROVE CountAt(refs', x) = Owners(x)'
    BY DEF RefsExact, CountAt
  <2>2. /\ CountAt(refs', x) = IF x = h THEN 1 ELSE CountAt(refs, x)
        /\ CountAt(held', x) = IF x = h THEN 1 ELSE CountAt(held, x)
    BY <1>1, <1>2 DEF TypeOK, CountAt
  <2>3. x = h => CountAt(held, x) = 0 /\ CountAt(refs, x) = 0
    BY <1>1, <1>4, FreeUnowned
  <2>. QED  BY <1>1, <1>3, <2>2, <2>3, Counted, CountedNext
<1>. QED  BY <1>5, <1>6, <1>7, <1>8, <1>9 DEF IInv

LEMMA HostRetainStep ==
    ASSUME IInv, NEW h \in Handles, HostRetain(h)
    PROVE  IInv'
<1>1. TypeOK /\ Quiet /\ KeysOwned /\ RegistryAlive /\ RefsExact /\ NeverPanics
  BY DEF IInv
<1>2. /\ Idle
      /\ refs' = [refs EXCEPT ![h] = @ + 1] /\ held' = [held EXCEPT ![h] = @ + 1]
  BY DEF HostRetain
<1>3. /\ abandoned' = abandoned /\ recording' = recording /\ depth' = depth
      /\ nodes' = nodes /\ leaves' = leaves /\ leafGrad' = leafGrad /\ phase' = phase
      /\ at' = at /\ grads' = grads /\ todo' = todo /\ toRelease' = toRelease
      /\ releasing' = releasing /\ status' = status
  BY DEF HostRetain, tape, registry, walk, memory
<1>4. DOMAIN grads = {} /\ todo = << >> /\ releasing = << >> /\ phase = "host"
  BY <1>1, <1>2, IdleEmpty
<1>5. TypeOK'
  <2>1. refs' \in [Handles -> Nat] /\ held' \in [Handles -> Nat]
    BY <1>1, <1>2 DEF TypeOK
  <2>. QED  BY <1>1, <1>3, <2>1 DEF TypeOK
<1>6. Quiet' /\ NeverPanics'
  BY <1>1, <1>3, <1>4 DEF Quiet, NeverPanics
<1>7. KeysOwned'
  BY <1>3, <1>4 DEF KeysOwned
<1>8. RegistryAlive'
  BY <1>1, <1>2, <1>3 DEF RegistryAlive, Live, TypeOK
<1>9. RefsExact'
  <2>1. SUFFICES ASSUME NEW x \in Handles PROVE CountAt(refs', x) = Owners(x)'
    BY DEF RefsExact, CountAt
  <2>2. /\ CountAt(refs', x) = IF x = h THEN CountAt(refs, x) + 1 ELSE CountAt(refs, x)
        /\ CountAt(held', x) = IF x = h THEN CountAt(held, x) + 1 ELSE CountAt(held, x)
    BY <1>1, <1>2 DEF TypeOK, CountAt
  <2>. QED  BY <1>1, <1>3, <2>2, Counted, CountedNext
<1>. QED  BY <1>5, <1>6, <1>7, <1>8, <1>9 DEF IInv

LEMMA VariableStep ==
    ASSUME IInv, NEW h \in Handles, Variable(h)
    PROVE  IInv'
<1>1. TypeOK /\ Quiet /\ KeysOwned /\ RegistryAlive /\ RefsExact /\ NeverPanics
  BY DEF IInv
<1>2. /\ Idle /\ leaves' = leaves \cup {h}
      /\ refs' = [refs EXCEPT ![h] = @ + 1] /\ held' = [held EXCEPT ![h] = @ + 1]
  BY DEF Variable
<1>3. /\ abandoned' = abandoned /\ recording' = recording /\ depth' = depth
      /\ nodes' = nodes /\ leafGrad' = leafGrad /\ phase' = phase /\ at' = at
      /\ grads' = grads /\ todo' = todo /\ toRelease' = toRelease
      /\ releasing' = releasing /\ status' = status
  BY DEF Variable, tape, registry, walk, memory
<1>4. DOMAIN grads = {} /\ todo = << >> /\ releasing = << >> /\ phase = "host"
  BY <1>1, <1>2, IdleEmpty
<1>5. TypeOK'
  <2>1. refs' \in [Handles -> Nat] /\ held' \in [Handles -> Nat] /\ leaves' \subseteq Handles
    BY <1>1, <1>2 DEF TypeOK
  <2>. QED  BY <1>1, <1>3, <2>1 DEF TypeOK
<1>6. Quiet' /\ NeverPanics'
  BY <1>1, <1>3, <1>4 DEF Quiet, NeverPanics
<1>7. KeysOwned'
  BY <1>3, <1>4 DEF KeysOwned
<1>8. RegistryAlive'
  BY <1>1, <1>2, <1>3 DEF RegistryAlive, Live, TypeOK
<1>9. RefsExact'
  <2>1. SUFFICES ASSUME NEW x \in Handles PROVE CountAt(refs', x) = Owners(x)'
    BY DEF RefsExact, CountAt
  <2>2. /\ CountAt(refs', x) = IF x = h THEN CountAt(refs, x) + 1 ELSE CountAt(refs, x)
        /\ CountAt(held', x) = IF x = h THEN CountAt(held, x) + 1 ELSE CountAt(held, x)
    BY <1>1, <1>2 DEF TypeOK, CountAt
  <2>. QED  BY <1>1, <1>3, <2>2, Counted, CountedNext
<1>. QED  BY <1>5, <1>6, <1>7, <1>8, <1>9 DEF IInv

LEMMA HostReleaseStep ==
    ASSUME IInv, NEW h \in Handles, HostRelease(h)
    PROVE  IInv'
<1>1. TypeOK /\ Quiet /\ KeysOwned /\ RegistryAlive /\ RefsExact /\ NeverPanics
  BY DEF IInv
<1>2. /\ Idle /\ held[h] > 0
      /\ held' = [held EXCEPT ![h] = @ - 1] /\ releasing' = <<h>>
  BY DEF HostRelease, Held
<1>3. /\ refs' = refs /\ abandoned' = abandoned /\ recording' = recording
      /\ depth' = depth /\ nodes' = nodes /\ leaves' = leaves /\ leafGrad' = leafGrad
      /\ phase' = phase /\ at' = at /\ grads' = grads /\ todo' = todo
      /\ toRelease' = toRelease /\ status' = status
  BY DEF HostRelease, tape, registry, walk, memory
<1>4. DOMAIN grads = {} /\ todo = << >> /\ releasing = << >> /\ phase = "host"
  BY <1>1, <1>2, IdleEmpty
<1>5. TypeOK'
  <2>1. held' \in [Handles -> Nat]
    BY <1>1, <1>2 DEF TypeOK
  <2>. QED  BY <1>1, <1>2, <1>3, <2>1 DEF TypeOK
<1>6. Quiet' /\ NeverPanics'
  BY <1>1, <1>3, <1>4 DEF Quiet, NeverPanics
<1>7. KeysOwned'
  BY <1>3, <1>4 DEF KeysOwned
<1>8. RegistryAlive'
  BY <1>1, <1>2, <1>3 DEF RegistryAlive, Live, TypeOK
<1>9. RefsExact'
  <2>1. SUFFICES ASSUME NEW x \in Handles PROVE CountAt(refs', x) = Owners(x)'
    BY DEF RefsExact, CountAt
  <2>2. CountAt(held, x) = CountAt(held', x) + (IF h = x THEN 1 ELSE 0)
        /\ CountAt(held', x) \in Nat
    <3>1. held'[x] = IF x = h THEN held[x] - 1 ELSE held[x]
      BY <1>1, <1>2 DEF TypeOK
    <3>2. held[x] \in Nat /\ held'[x] \in Nat
      BY <1>1, <1>5 DEF TypeOK
    <3>. QED  BY <3>1, <3>2 DEF CountAt
  <2>3. Times(x, releasing) = 0 /\ Times(x, releasing') = IF h = x THEN 1 ELSE 0
    BY <1>2, <1>4, TimesEmpty, TimesOne
  <2>. QED  BY <1>1, <1>3, <2>2, <2>3, Counted, CountedNext
<1>. QED  BY <1>5, <1>6, <1>7, <1>8, <1>9 DEF IInv

LEMMA EnterNoGradStep ==
    ASSUME IInv, EnterNoGrad
    PROVE  IInv'
<1>1. TypeOK /\ Quiet /\ KeysOwned /\ RegistryAlive /\ RefsExact /\ NeverPanics
  BY DEF IInv
<1>2. recording' = FALSE /\ depth' = depth + 1
  BY DEF EnterNoGrad
<1>3. /\ refs' = refs /\ held' = held /\ abandoned' = abandoned /\ nodes' = nodes
      /\ leaves' = leaves /\ leafGrad' = leafGrad /\ phase' = phase /\ at' = at
      /\ grads' = grads /\ todo' = todo /\ toRelease' = toRelease
      /\ releasing' = releasing /\ status' = status
  BY DEF EnterNoGrad, tape, registry, walk, memory
<1>5. TypeOK'
  <2>1. recording' \in BOOLEAN
    BY <1>1, <1>2, <1>3 DEF TypeOK
  <2>2. depth' \in Nat
    BY <1>1, <1>2 DEF TypeOK
  <2>. QED  BY <1>1, <1>3, <2>1, <2>2 DEF TypeOK
<1>6. Quiet' /\ NeverPanics'
  BY <1>1, <1>3 DEF Quiet, NeverPanics
<1>7. KeysOwned'
  BY <1>1, <1>3 DEF KeysOwned
<1>8. RegistryAlive'
  BY <1>1, <1>3 DEF RegistryAlive, Live
<1>9. RefsExact'
  <2>1. SUFFICES ASSUME NEW x \in Handles PROVE CountAt(refs', x) = Owners(x)'
    BY DEF RefsExact, CountAt
  <2>. QED  BY <1>1, <1>3, Counted, CountedNext
<1>. QED  BY <1>5, <1>6, <1>7, <1>8, <1>9 DEF IInv

LEMMA LeaveNoGradStep ==
    ASSUME IInv, LeaveNoGrad
    PROVE  IInv'
<1>1. TypeOK /\ Quiet /\ KeysOwned /\ RegistryAlive /\ RefsExact /\ NeverPanics
  BY DEF IInv
<1>2. recording' = TRUE /\ depth > 0 /\ depth' = depth - 1
  BY DEF LeaveNoGrad
<1>3. /\ refs' = refs /\ held' = held /\ abandoned' = abandoned /\ nodes' = nodes
      /\ leaves' = leaves /\ leafGrad' = leafGrad /\ phase' = phase /\ at' = at
      /\ grads' = grads /\ todo' = todo /\ toRelease' = toRelease
      /\ releasing' = releasing /\ status' = status
  BY DEF LeaveNoGrad, tape, registry, walk, memory
<1>5. TypeOK'
  <2>1. recording' \in BOOLEAN
    BY <1>1, <1>2, <1>3 DEF TypeOK
  <2>2. depth' \in Nat
    BY <1>1, <1>2 DEF TypeOK
  <2>. QED  BY <1>1, <1>3, <2>1, <2>2 DEF TypeOK
<1>6. Quiet' /\ NeverPanics'
  BY <1>1, <1>3 DEF Quiet, NeverPanics
<1>7. KeysOwned'
  BY <1>1, <1>3 DEF KeysOwned
<1>8. RegistryAlive'
  BY <1>1, <1>3 DEF RegistryAlive, Live
<1>9. RefsExact'
  <2>1. SUFFICES ASSUME NEW x \in Handles PROVE CountAt(refs', x) = Owners(x)'
    BY DEF RefsExact, CountAt
  <2>. QED  BY <1>1, <1>3, Counted, CountedNext
<1>. QED  BY <1>5, <1>6, <1>7, <1>8, <1>9 DEF IInv

LEMMA BreakOutOfNoGradStep ==
    ASSUME IInv, BreakOutOfNoGrad
    PROVE  IInv'
<1>1. TypeOK /\ Quiet /\ KeysOwned /\ RegistryAlive /\ RefsExact /\ NeverPanics
  BY DEF IInv
<1>2. depth > 0 /\ depth' = depth - 1
  BY DEF BreakOutOfNoGrad
<1>3. /\ refs' = refs /\ held' = held /\ abandoned' = abandoned /\ recording' = recording
      /\ nodes' = nodes /\ leaves' = leaves /\ leafGrad' = leafGrad /\ phase' = phase
      /\ at' = at /\ grads' = grads /\ todo' = todo /\ toRelease' = toRelease
      /\ releasing' = releasing /\ status' = status
  BY DEF BreakOutOfNoGrad, tape, registry, walk, memory
<1>5. TypeOK'
  <2>1. recording' \in BOOLEAN
    BY <1>1, <1>2, <1>3 DEF TypeOK
  <2>2. depth' \in Nat
    BY <1>1, <1>2 DEF TypeOK
  <2>. QED  BY <1>1, <1>3, <2>1, <2>2 DEF TypeOK
<1>6. Quiet' /\ NeverPanics'
  BY <1>1, <1>3 DEF Quiet, NeverPanics
<1>7. KeysOwned'
  BY <1>1, <1>3 DEF KeysOwned
<1>8. RegistryAlive'
  BY <1>1, <1>3 DEF RegistryAlive, Live
<1>9. RefsExact'
  <2>1. SUFFICES ASSUME NEW x \in Handles PROVE CountAt(refs', x) = Owners(x)'
    BY DEF RefsExact, CountAt
  <2>. QED  BY <1>1, <1>3, Counted, CountedNext
<1>. QED  BY <1>5, <1>6, <1>7, <1>8, <1>9 DEF IInv

(* What a forward operation reads is held, what it makes is new.              *)
LEMMA ForwardFacts ==
    ASSUME TypeOK, NEW op \in Ops, NEW out \in Free, NEW saved \in Operands(op, out),
           Forward(op, saved, out)
    PROVE  /\ saved \in [Positions(op) -> Handles]
           /\ out \in Handles /\ CountAt(refs, out) = 0 /\ ~HasAid(op, saved, out)
           /\ Aids(op) # {} => saved[2] \in Handles
           /\ \A x : HasAid(op, saved, x) => x \in Handles /\ CountAt(refs, x) = 0
           /\ \A x \in Handles : CountAt(AfterForward(op, saved, out), x) =
                  IF x = out \/ HasAid(op, saved, x) THEN 1 ELSE CountAt(refs, x)
           /\ \A x \in Handles : CountAt(held', x) = IF x = out THEN 1 ELSE CountAt(held, x)
           /\ held' \in [Handles -> Nat]
           /\ AfterForward(op, saved, out) \in [Handles -> Nat]
<1>1. out \in Handles /\ CountAt(refs, out) = 0
  BY FreeButFree DEF Free
<1>2. saved \in [Positions(op) -> Handles]
  <2>1. Held \subseteq Handles /\ FreeBut({out}) \subseteq Handles
    BY FreeButFree DEF Held
  <2>. QED  BY <2>1 DEF Operands
<1>3. ASSUME Aids(op) # {} PROVE saved[2] \in Handles /\ CountAt(refs, saved[2]) = 0 /\ saved[2] # out
  <2>1. 2 \in Aids(op) /\ 2 \in Positions(op)
    BY <1>3, PositionsAre
  <2>2. saved[2] \in FreeBut({out})
    BY <2>1 DEF Forward
  <2>. QED  BY <2>2, FreeButFree
<1>4. ASSUME NEW x \in Handles
      PROVE  CountAt(AfterForward(op, saved, out), x) =
                 IF x = out \/ HasAid(op, saved, x) THEN 1 ELSE CountAt(refs, x)
  <2>1. x \in {saved[p] : p \in Aids(op)} <=> HasAid(op, saved, x)
    BY PositionsAre DEF HasAid
  <2>. QED  BY <2>1 DEF AfterForward, Allocated, CountAt
<1>5. held' = [held EXCEPT ![out] = 1]
  BY DEF Forward
<1>6. held' \in [Handles -> Nat]
  BY <1>1, <1>5 DEF TypeOK
<1>7. \A x \in Handles : CountAt(held', x) = IF x = out THEN 1 ELSE CountAt(held, x)
  BY <1>1, <1>5 DEF TypeOK, CountAt
<1>8. AfterForward(op, saved, out) \in [Handles -> Nat]
  BY DEF AfterForward, Allocated, TypeOK
<1>9. ~HasAid(op, saved, out) /\ \A x : HasAid(op, saved, x) => x \in Handles /\ CountAt(refs, x) = 0
  BY <1>3 DEF HasAid
<1>. QED  BY <1>1, <1>2, <1>3, <1>4, <1>6, <1>7, <1>8, <1>9

(* A step that lowers no count to zero keeps the registry alive.             *)
LEMMA StaysAlive ==
    ASSUME RegistryAlive, leaves' = leaves, leafGrad' = leafGrad,
           \A x \in Handles : CountAt(refs, x) > 0 => CountAt(refs', x) > 0
    PROVE  RegistryAlive'
BY DEF RegistryAlive, Live, CountAt

LEMMA RecordStep ==
    ASSUME IInv, NEW op \in Ops, Record(op)
    PROVE  IInv'
<1>1. TypeOK /\ Quiet /\ KeysOwned /\ RegistryAlive /\ RefsExact /\ NeverPanics
  BY DEF IInv
<1>0. PICK out \in Free : \E saved \in Operands(op, out) :
          /\ Forward(op, saved, out)
          /\ refs' = [h \in Handles |-> AfterForward(op, saved, out)[h] + Retains(op, saved, out, h)]
          /\ nodes' = Append(nodes, [op |-> op, saved |-> saved, output |-> out])
  BY DEF Record
<1>2. PICK saved \in Operands(op, out) :
          /\ Forward(op, saved, out)
          /\ refs' = [h \in Handles |-> AfterForward(op, saved, out)[h] + Retains(op, saved, out, h)]
          /\ nodes' = Append(nodes, [op |-> op, saved |-> saved, output |-> out])
  BY <1>0
<1>3. /\ abandoned' = abandoned /\ recording' = recording /\ depth' = depth
      /\ leaves' = leaves /\ leafGrad' = leafGrad /\ phase' = phase /\ at' = at
      /\ grads' = grads /\ todo' = todo /\ toRelease' = toRelease
      /\ releasing' = releasing /\ status' = status
  BY DEF Record, tape, registry, walk
<1>4. Idle /\ DOMAIN grads = {} /\ todo = << >> /\ at = 0
  BY <1>1, IdleEmpty DEF Record
<1>. DEFINE after == AfterForward(op, saved, out)
<1>F. /\ saved \in [Positions(op) -> Handles]
      /\ out \in Handles /\ CountAt(refs, out) = 0 /\ ~HasAid(op, saved, out)
      /\ Aids(op) # {} => saved[2] \in Handles
      /\ \A x : HasAid(op, saved, x) => x \in Handles /\ CountAt(refs, x) = 0
      /\ \A x \in Handles : CountAt(after, x) =
             IF x = out \/ HasAid(op, saved, x) THEN 1 ELSE CountAt(refs, x)
      /\ \A x \in Handles : CountAt(held', x) = IF x = out THEN 1 ELSE CountAt(held, x)
      /\ held' \in [Handles -> Nat] /\ after \in [Handles -> Nat]
  BY <1>1, <1>2, ForwardFacts
<1>. HIDE DEF after
<1>. DEFINE node == [op |-> op, saved |-> saved, output |-> out]
<1>10. node \in Node /\ node.saved = saved /\ node.output = out /\ node.op = op
  BY <1>F, SavedSeq DEF Node
<1>11. \A x : /\ Retains(op, saved, out, x) \in Nat /\ Times(x, saved) \in Nat
              /\ Times(x, saved) + (IF out = x THEN 1 ELSE 0) =
                     Retains(op, saved, out, x) + (IF HasAid(op, saved, x) THEN 1 ELSE 0)
  <2>1. saved \in [Positions(op) -> Handles]
    BY <1>F
  <2>. QED  BY <2>1, RetainsCount
<1>12. refs' = [h \in Handles |-> after[h] + Retains(op, saved, out, h)] /\ nodes' = Append(nodes, node)
  BY <1>2 DEF after
<1>13. \A x \in Handles : CountAt(refs', x) = CountAt(after, x) + Retains(op, saved, out, x)
  BY <1>12 DEF CountAt
<1>5. TypeOK'
  <2>1. refs' \in [Handles -> Nat]
    <3>1. \A x \in Handles : after[x] \in Nat
      BY <1>F
    <3>2. \A x \in Handles : after[x] + Retains(op, saved, out, x) \in Nat
      BY <3>1, <1>11
    <3>. QED  BY <3>2, <1>12
  <2>2. nodes' \in Seq(Node) /\ Len(nodes') \in Nat
    BY <1>1, <1>10, <1>12 DEF TypeOK
  <2>3. ASSUME NEW i \in DOMAIN nodes' PROVE DOMAIN nodes'[i].saved = Positions(nodes'[i].op)
    <3>1. DOMAIN node.saved = Positions(node.op)
      BY <1>F, <1>10, SavedSeq
    <3>2. Len(nodes) \in Nat /\ DOMAIN nodes = 1..Len(nodes) /\ DOMAIN nodes' = 1..(Len(nodes) + 1)
          /\ nodes'[Len(nodes) + 1] = node /\ \A j \in 1..Len(nodes) : nodes'[j] = nodes[j]
      BY <1>1, <1>10, <1>12 DEF TypeOK
    <3>. HIDE DEF node
    <3>3. CASE i = Len(nodes) + 1
      BY <3>1, <3>2, <3>3
    <3>4. CASE i # Len(nodes) + 1
      <4>1. i \in DOMAIN nodes /\ nodes'[i] = nodes[i]
        BY <3>2, <3>4
      <4>2. DOMAIN nodes[i].saved = Positions(nodes[i].op)
        BY <1>1, <4>1 DEF TypeOK
      <4>. QED  BY <4>1, <4>2
    <3>. QED  BY <3>3, <3>4
  <2>4. at' \in 0..Len(nodes')
    BY <1>3, <1>4, <2>2
  <2>. QED  BY <1>1, <1>3, <1>F, <2>1, <2>2, <2>3, <2>4 DEF TypeOK
<1>6. Quiet' /\ NeverPanics'
  BY <1>1, <1>3 DEF Quiet, NeverPanics
<1>7. KeysOwned'
  BY <1>3, <1>4 DEF KeysOwned
<1>8. RegistryAlive'
  <2>1. ASSUME NEW x \in Handles, CountAt(refs, x) > 0 PROVE CountAt(refs', x) > 0
    <3>1. CountAt(refs, x) \in Nat /\ CountAt(after, x) > 0
      BY <1>1, <1>F, <2>1, Counted
    <3>2. CountAt(after, x) \in Nat
      BY <1>F DEF CountAt
    <3>. QED  BY <1>11, <1>13, <3>1, <3>2
  <2>. QED  BY <1>1, <1>3, <2>1, StaysAlive
<1>9. RefsExact'
  <2>1. SUFFICES ASSUME NEW x \in Handles PROVE CountAt(refs', x) = Owners(x)'
    BY DEF RefsExact, CountAt
  <2>2. Times(x, NodeHandles(nodes')) = Times(x, NodeHandles(nodes)) + Times(x, saved)
                                        + (IF out = x THEN 1 ELSE 0)
    BY <1>1, <1>10, <1>12, NodeHandlesAppend DEF TypeOK
  <2>3. CountAt(refs', x) = (IF x = out \/ HasAid(op, saved, x) THEN 1 ELSE CountAt(refs, x))
                            + Retains(op, saved, out, x)
        /\ CountAt(held', x) = IF x = out THEN 1 ELSE CountAt(held, x)
    BY <1>F, <1>13
  <2>4. /\ Retains(op, saved, out, x) \in Nat /\ Times(x, saved) \in Nat
        /\ Times(x, saved) + (IF out = x THEN 1 ELSE 0) =
               Retains(op, saved, out, x) + (IF HasAid(op, saved, x) THEN 1 ELSE 0)
    BY <1>11
  <2>5. x = out \/ HasAid(op, saved, x) => CountAt(refs, x) = 0 /\ CountAt(held, x) = 0
    BY <1>1, <1>F, FreeUnowned
  <2>6. x = out => ~HasAid(op, saved, x)
    BY <1>F
  <2>. QED  BY <1>1, <1>3, <2>2, <2>3, <2>4, <2>5, <2>6, Counted, CountedNext
<1>. QED  BY <1>5, <1>6, <1>7, <1>8, <1>9 DEF IInv

(* The aid to release, if there is one.                                      *)
LEMMA AidToReleaseIs ==
    ASSUME NEW op \in Ops, NEW saved, Aids(op) # {} => saved[2] \in Handles
    PROVE  /\ AidToRelease(op, saved) \in Seq(Handles)
           /\ \A h : Times(h, AidToRelease(op, saved)) = IF HasAid(op, saved, h) THEN 1 ELSE 0
<1>1. CASE Aids(op) = {}
  BY <1>1, EmptySeq, TimesEmpty DEF AidToRelease, HasAid
<1>2. CASE Aids(op) # {}
  BY <1>2, TimesOne DEF AidToRelease, HasAid
<1>. QED  BY <1>1, <1>2

LEMMA RecordPausedStep ==
    ASSUME IInv, NEW op \in Ops, RecordPaused(op)
    PROVE  IInv'
<1>1. TypeOK /\ Quiet /\ KeysOwned /\ RegistryAlive /\ RefsExact /\ NeverPanics
  BY DEF IInv
<1>0. PICK out \in Free : \E saved \in Operands(op, out) :
          /\ Forward(op, saved, out)
          /\ refs' = AfterForward(op, saved, out)
          /\ releasing' = AidToRelease(op, saved)
  BY DEF RecordPaused
<1>2. PICK saved \in Operands(op, out) :
          /\ Forward(op, saved, out)
          /\ refs' = AfterForward(op, saved, out)
          /\ releasing' = AidToRelease(op, saved)
  BY <1>0
<1>3. /\ abandoned' = abandoned /\ recording' = recording /\ depth' = depth
      /\ nodes' = nodes /\ leaves' = leaves /\ leafGrad' = leafGrad /\ phase' = phase
      /\ at' = at /\ grads' = grads /\ todo' = todo /\ toRelease' = toRelease
      /\ status' = status
  BY DEF RecordPaused, tape, registry, walk
<1>4. DOMAIN grads = {} /\ todo = << >> /\ releasing = << >> /\ phase = "host"
  BY <1>1, IdleEmpty DEF RecordPaused
<1>. DEFINE after == AfterForward(op, saved, out)
<1>F. /\ saved \in [Positions(op) -> Handles]
      /\ out \in Handles /\ CountAt(refs, out) = 0 /\ ~HasAid(op, saved, out)
      /\ Aids(op) # {} => saved[2] \in Handles
      /\ \A x : HasAid(op, saved, x) => x \in Handles /\ CountAt(refs, x) = 0
      /\ \A x \in Handles : CountAt(after, x) =
             IF x = out \/ HasAid(op, saved, x) THEN 1 ELSE CountAt(refs, x)
      /\ \A x \in Handles : CountAt(held', x) = IF x = out THEN 1 ELSE CountAt(held, x)
      /\ held' \in [Handles -> Nat] /\ after \in [Handles -> Nat]
  BY <1>1, <1>2, ForwardFacts
<1>. HIDE DEF after
<1>10. /\ releasing' \in Seq(Handles)
       /\ \A x : Times(x, releasing') = IF HasAid(op, saved, x) THEN 1 ELSE 0
  BY <1>2, <1>F, AidToReleaseIs
<1>5. TypeOK'
  BY <1>1, <1>2, <1>3, <1>F, <1>10 DEF TypeOK, after
<1>6. Quiet' /\ NeverPanics'
  BY <1>1, <1>3, <1>4 DEF Quiet, NeverPanics
<1>7. KeysOwned'
  BY <1>3, <1>4 DEF KeysOwned
<1>8. RegistryAlive'
  <2>1. ASSUME NEW x \in Handles, CountAt(refs, x) > 0 PROVE CountAt(refs', x) > 0
    BY <1>F, <1>2, <2>1 DEF after
  <2>. QED  BY <1>1, <1>3, <2>1, StaysAlive
<1>9. RefsExact'
  <2>1. SUFFICES ASSUME NEW x \in Handles PROVE CountAt(refs', x) = Owners(x)'
    BY DEF RefsExact, CountAt
  <2>2. /\ CountAt(refs', x) = IF x = out \/ HasAid(op, saved, x) THEN 1 ELSE CountAt(refs, x)
        /\ CountAt(held', x) = IF x = out THEN 1 ELSE CountAt(held, x)
    BY <1>2, <1>F DEF after
  <2>3. Times(x, releasing) = 0 /\ Times(x, releasing') = IF HasAid(op, saved, x) THEN 1 ELSE 0
    BY <1>4, <1>10, TimesEmpty
  <2>4. x = out \/ HasAid(op, saved, x) => CountAt(refs, x) = 0 /\ CountAt(held, x) = 0
    BY <1>1, <1>F, FreeUnowned
  <2>5. x = out => ~HasAid(op, saved, x)
    BY <1>F
  <2>6. CASE x = out
    BY <1>1, <1>3, <2>2, <2>3, <2>4, <2>5, <2>6, Counted, CountedNext
  <2>7. CASE HasAid(op, saved, x)
    BY <1>1, <1>3, <2>2, <2>3, <2>4, <2>5, <2>7, Counted, CountedNext
  <2>8. CASE x # out /\ ~HasAid(op, saved, x)
    BY <1>1, <1>3, <2>2, <2>3, <2>8, Counted, CountedNext
  <2>. QED  BY <2>6, <2>7, <2>8
<1>. QED  BY <1>5, <1>6, <1>7, <1>8, <1>9 DEF IInv

LEMMA UntrackedStep ==
    ASSUME IInv, NEW op \in Ops, Untracked(op)
    PROVE  IInv'
<1>1. TypeOK /\ Quiet /\ KeysOwned /\ RegistryAlive /\ RefsExact /\ NeverPanics
  BY DEF IInv
<1>0. PICK out \in Free : \E saved \in Operands(op, out) :
          /\ Forward(op, saved, out)
          /\ refs' = AfterForward(op, saved, out)
          /\ abandoned' = IF op = "layernorm" THEN abandoned \cup {saved[2]} ELSE abandoned
          /\ releasing' = IF op = "layernorm" THEN << >> ELSE AidToRelease(op, saved)
  BY DEF Untracked
<1>2. PICK saved \in Operands(op, out) :
          /\ Forward(op, saved, out)
          /\ refs' = AfterForward(op, saved, out)
          /\ abandoned' = IF op = "layernorm" THEN abandoned \cup {saved[2]} ELSE abandoned
          /\ releasing' = IF op = "layernorm" THEN << >> ELSE AidToRelease(op, saved)
  BY <1>0
<1>3. /\ recording' = recording /\ depth' = depth /\ nodes' = nodes /\ leaves' = leaves
      /\ leafGrad' = leafGrad /\ phase' = phase /\ at' = at /\ grads' = grads
      /\ todo' = todo /\ toRelease' = toRelease /\ status' = status
  BY DEF Untracked, tape, registry, walk
<1>4. DOMAIN grads = {} /\ todo = << >> /\ releasing = << >> /\ phase = "host"
  BY <1>1, IdleEmpty DEF Untracked
<1>. DEFINE after == AfterForward(op, saved, out)
<1>F. /\ saved \in [Positions(op) -> Handles]
      /\ out \in Handles /\ CountAt(refs, out) = 0 /\ ~HasAid(op, saved, out)
      /\ Aids(op) # {} => saved[2] \in Handles
      /\ \A x : HasAid(op, saved, x) => x \in Handles /\ CountAt(refs, x) = 0
      /\ \A x \in Handles : CountAt(after, x) =
             IF x = out \/ HasAid(op, saved, x) THEN 1 ELSE CountAt(refs, x)
      /\ \A x \in Handles : CountAt(held', x) = IF x = out THEN 1 ELSE CountAt(held, x)
      /\ held' \in [Handles -> Nat] /\ after \in [Handles -> Nat]
  BY <1>1, <1>2, ForwardFacts
<1>. HIDE DEF after
<1>10. op = "layernorm" => Aids(op) # {}
  BY DEF Aids
<1>11. /\ releasing' \in Seq(Handles) /\ abandoned' \subseteq Handles
       /\ \A x : op # "layernorm" => Times(x, releasing') = IF HasAid(op, saved, x) THEN 1 ELSE 0
       /\ \A x : op = "layernorm" => Times(x, releasing') = 0
  <2>1. CASE op = "layernorm"
    BY <1>1, <1>2, <1>F, <1>10, <2>1, EmptySeq, TimesEmpty DEF TypeOK
  <2>2. CASE op # "layernorm"
    BY <1>1, <1>2, <1>F, <2>2, AidToReleaseIs DEF TypeOK
  <2>. QED  BY <2>1, <2>2
<1>12. \A x : /\ op = "layernorm" /\ HasAid(op, saved, x) => Lost(x, abandoned') = 1
              /\ op # "layernorm" \/ ~HasAid(op, saved, x) => Lost(x, abandoned') = Lost(x, abandoned)
  BY <1>2, <1>10 DEF Lost, HasAid
<1>5. TypeOK'
  BY <1>1, <1>2, <1>3, <1>F, <1>11 DEF TypeOK, after
<1>6. Quiet' /\ NeverPanics'
  BY <1>1, <1>3, <1>4 DEF Quiet, NeverPanics
<1>7. KeysOwned'
  BY <1>3, <1>4 DEF KeysOwned
<1>8. RegistryAlive'
  <2>1. ASSUME NEW x \in Handles, CountAt(refs, x) > 0 PROVE CountAt(refs', x) > 0
    BY <1>F, <1>2, <2>1 DEF after
  <2>. QED  BY <1>1, <1>3, <2>1, StaysAlive
<1>9. RefsExact'
  <2>1. SUFFICES ASSUME NEW x \in Handles PROVE CountAt(refs', x) = Owners(x)'
    BY DEF RefsExact, CountAt
  <2>2. /\ CountAt(refs', x) = IF x = out \/ HasAid(op, saved, x) THEN 1 ELSE CountAt(refs, x)
        /\ CountAt(held', x) = IF x = out THEN 1 ELSE CountAt(held, x)
    BY <1>2, <1>F DEF after
  <2>3. /\ Times(x, releasing) = 0
        /\ op # "layernorm" => Times(x, releasing') = IF HasAid(op, saved, x) THEN 1 ELSE 0
        /\ op = "layernorm" => Times(x, releasing') = 0
    BY <1>4, <1>11, TimesEmpty
  <2>4. x = out \/ HasAid(op, saved, x) => CountAt(refs, x) = 0 /\ CountAt(held, x) = 0 /\ Lost(x, abandoned) = 0
    BY <1>1, <1>F, FreeUnowned
  <2>5. x = out => ~HasAid(op, saved, x)
    BY <1>F
  <2>6. /\ op = "layernorm" /\ HasAid(op, saved, x) => Lost(x, abandoned') = 1
        /\ op # "layernorm" \/ ~HasAid(op, saved, x) => Lost(x, abandoned') = Lost(x, abandoned)
    BY <1>12
  <2>. QED  BY <1>1, <1>3, <2>2, <2>3, <2>4, <2>5, <2>6, Counted, CountedNext
<1>. QED  BY <1>5, <1>6, <1>7, <1>8, <1>9 DEF IInv

(* A gradient a map has, and the map without its entry.                      *)
LEMMA GradientOf ==
    ASSUME NEW f, f \in [DOMAIN f -> Gradient], NEW k \in DOMAIN f
    PROVE  f[k] \in Gradient /\ f[k].grad \in Handles /\ f[k].factor \in Nat
BY ConstantsAssumption DEF Gradient

LEMMA GetGradStep ==
    ASSUME IInv, NEW h \in Handles, GetGrad(h)
    PROVE  IInv'
<1>1. TypeOK /\ Quiet /\ KeysOwned /\ RegistryAlive /\ RefsExact /\ NeverPanics
  BY DEF IInv
<1>3. /\ abandoned' = abandoned /\ recording' = recording /\ depth' = depth
      /\ nodes' = nodes /\ leaves' = leaves /\ leafGrad' = leafGrad /\ phase' = phase
      /\ at' = at /\ grads' = grads /\ todo' = todo /\ toRelease' = toRelease
      /\ releasing' = releasing /\ status' = status
  BY DEF GetGrad, tape, registry, walk
<1>4. DOMAIN grads = {} /\ todo = << >> /\ releasing = << >> /\ phase = "host"
  BY <1>1, IdleEmpty DEF GetGrad
<1>6. Quiet' /\ NeverPanics'
  BY <1>1, <1>3, <1>4 DEF Quiet, NeverPanics
<1>7. KeysOwned'
  BY <1>3, <1>4 DEF KeysOwned
<1>10. PICK g \in Handles :
          \/ /\ refs' = [refs EXCEPT ![g] = @ + 1] /\ held' = [held EXCEPT ![g] = @ + 1]
          \/ /\ CountAt(refs, g) = 0
             /\ refs' = [refs EXCEPT ![g] = 1] /\ held' = [held EXCEPT ![g] = 1]
  <2>1. CASE h \in DOMAIN leafGrad
    <3>1. leafGrad[h].grad \in Handles
      BY <1>1, <2>1, GradientOf DEF TypeOK
    <3>. QED  BY <2>1, <3>1 DEF GetGrad
  <2>2. CASE h \notin DOMAIN leafGrad
    <3>1. PICK z \in Free : refs' = [refs EXCEPT ![z] = 1] /\ held' = [held EXCEPT ![z] = 1]
      BY <2>2 DEF GetGrad
    <3>2. z \in Handles /\ CountAt(refs, z) = 0
      BY <1>1, FreeButFree DEF Free
    <3>. QED  BY <3>1, <3>2
  <2>. QED  BY <2>1, <2>2
<1>11. /\ refs' \in [Handles -> Nat] /\ held' \in [Handles -> Nat]
       /\ \A x \in Handles : CountAt(refs, x) > 0 => CountAt(refs', x) > 0
  <2>1. CASE refs' = [refs EXCEPT ![g] = @ + 1] /\ held' = [held EXCEPT ![g] = @ + 1]
    <3>1. refs \in [Handles -> Nat] /\ held \in [Handles -> Nat]
      BY <1>1 DEF TypeOK
    <3>. QED  BY <2>1, <3>1 DEF CountAt
  <2>2. CASE refs' = [refs EXCEPT ![g] = 1] /\ held' = [held EXCEPT ![g] = 1]
    <3>1. refs \in [Handles -> Nat] /\ held \in [Handles -> Nat]
      BY <1>1 DEF TypeOK
    <3>. QED  BY <2>2, <3>1 DEF CountAt
  <2>. QED  BY <1>10, <2>1, <2>2
<1>5. TypeOK'
  BY <1>1, <1>3, <1>11 DEF TypeOK
<1>8. RegistryAlive'
  BY <1>1, <1>3, <1>11, StaysAlive
<1>9. RefsExact'
  <2>1. SUFFICES ASSUME NEW x \in Handles PROVE CountAt(refs', x) = Owners(x)'
    BY DEF RefsExact, CountAt
  <2>2. \/ /\ CountAt(refs', x) = IF x = g THEN CountAt(refs, x) + 1 ELSE CountAt(refs, x)
           /\ CountAt(held', x) = IF x = g THEN CountAt(held, x) + 1 ELSE CountAt(held, x)
        \/ /\ CountAt(refs, g) = 0
           /\ CountAt(refs', x) = IF x = g THEN 1 ELSE CountAt(refs, x)
           /\ CountAt(held', x) = IF x = g THEN 1 ELSE CountAt(held, x)
    BY <1>1, <1>10 DEF TypeOK, CountAt
  <2>3. CountAt(refs, g) = 0 => CountAt(held, g) = 0
    BY <1>1, FreeUnowned
  <2>. QED  BY <1>1, <1>3, <2>2, <2>3, Counted, CountedNext
<1>. QED  BY <1>5, <1>6, <1>7, <1>8, <1>9 DEF IInv

LEMMA RestrictMap ==
    ASSUME NEW f, f \in [DOMAIN f -> Gradient], DOMAIN f \subseteq Handles, NEW S
    PROVE  LET g == Restrict(f, DOMAIN f \ S)
               d == Restrict(f, DOMAIN f \cap S)
           IN  /\ DOMAIN g = DOMAIN f \ S /\ g \in [DOMAIN g -> Gradient]
               /\ DOMAIN d = DOMAIN f \cap S /\ d \in [DOMAIN d -> Gradient]
BY DEF Restrict

LEMMA GradsOfGradients ==
    ASSUME NEW f, f \in [DOMAIN f -> Gradient], DOMAIN f \subseteq Handles
    PROVE  /\ GradsOf(f) \in Seq(Handles)
           /\ \A h : Times(h, GradsOf(f)) = Holding(h, f)
<1>1. IsFiniteSet(DOMAIN f)
  BY ConstantsAssumption, FS_Subset
<1>2. \A x \in DOMAIN f : f[x].grad \in Handles
  BY GradientOf
<1>. QED  BY <1>1, <1>2, GradsOfCounts

LEMMA TapeZeroGradStep ==
    ASSUME IInv, NEW hs \in SUBSET Held, TapeZeroGrad(hs)
    PROVE  IInv'
<1>1. TypeOK /\ Quiet /\ KeysOwned /\ RegistryAlive /\ RefsExact /\ NeverPanics
  BY DEF IInv
<1>2. /\ leafGrad' = Restrict(leafGrad, DOMAIN leafGrad \ hs)
      /\ releasing' = GradsOf(Restrict(leafGrad, DOMAIN leafGrad \cap hs))
  BY DEF TapeZeroGrad
<1>3. /\ refs' = refs /\ held' = held /\ abandoned' = abandoned /\ recording' = recording
      /\ depth' = depth /\ nodes' = nodes /\ leaves' = leaves /\ phase' = phase
      /\ at' = at /\ grads' = grads /\ todo' = todo /\ toRelease' = toRelease
      /\ status' = status
  BY DEF TapeZeroGrad, memory, tape, walk
<1>4. DOMAIN grads = {} /\ todo = << >> /\ releasing = << >> /\ phase = "host"
  BY <1>1, IdleEmpty DEF TapeZeroGrad
<1>. DEFINE dropped == Restrict(leafGrad, DOMAIN leafGrad \cap hs)
<1>10. leafGrad \in [DOMAIN leafGrad -> Gradient] /\ DOMAIN leafGrad \subseteq Handles
  BY <1>1 DEF TypeOK
<1>11. /\ DOMAIN leafGrad' = DOMAIN leafGrad \ hs /\ leafGrad' \in [DOMAIN leafGrad' -> Gradient]
       /\ DOMAIN dropped = DOMAIN leafGrad \cap hs /\ dropped \in [DOMAIN dropped -> Gradient]
  BY <1>2, <1>10, RestrictMap
<1>12. \A x : Holding(x, leafGrad) = Holding(x, leafGrad') + Holding(x, dropped)
  BY <1>1, <1>2, HoldingSplit, MapsFinite
<1>. HIDE DEF dropped
<1>13. releasing' = GradsOf(dropped)
  BY <1>2 DEF dropped
<1>14. releasing' \in Seq(Handles) /\ \A x : Times(x, releasing') = Holding(x, dropped)
  BY <1>10, <1>11, <1>13, GradsOfGradients
<1>5. TypeOK'
  BY <1>1, <1>3, <1>10, <1>11, <1>14 DEF TypeOK
<1>6. Quiet' /\ NeverPanics'
  BY <1>1, <1>3, <1>4 DEF Quiet, NeverPanics
<1>7. KeysOwned'
  BY <1>3, <1>4 DEF KeysOwned
<1>8. RegistryAlive'
  BY <1>1, <1>3, <1>11 DEF RegistryAlive, Live
<1>9. RefsExact'
  <2>1. SUFFICES ASSUME NEW x \in Handles PROVE CountAt(refs', x) = Owners(x)'
    BY DEF RefsExact, CountAt
  <2>2. Times(x, releasing) = 0 /\ Times(x, releasing') = Holding(x, dropped)
        /\ Holding(x, leafGrad) = Holding(x, leafGrad') + Holding(x, dropped)
    BY <1>4, <1>12, <1>14, TimesEmpty
  <2>3. Holding(x, leafGrad') \in Nat /\ Holding(x, dropped) \in Nat
    <3>1. IsFiniteSet(DOMAIN leafGrad') /\ IsFiniteSet(DOMAIN dropped)
      BY <1>1, <1>11, MapsFinite, FS_Subset
    <3>. QED  BY <3>1, HoldingType
  <2>4. CountAt(refs', x) = CountAt(refs, x) /\ CountAt(held', x) = CountAt(held, x)
    BY <1>3
  <2>. QED  BY <1>1, <1>3, <2>2, <2>3, <2>4, Counted, CountedNext
<1>. QED  BY <1>5, <1>6, <1>7, <1>8, <1>9 DEF IInv

LEMMA TapeResetStep ==
    ASSUME IInv, TapeReset
    PROVE  IInv'
<1>1. TypeOK /\ Quiet /\ KeysOwned /\ RegistryAlive /\ RefsExact /\ NeverPanics
  BY DEF IInv
<1>2. /\ leaves' = {} /\ leafGrad' = << >> /\ nodes' = << >> /\ recording' = TRUE
      /\ releasing' = GradsOf(leafGrad) \o NodeHandles(nodes)
  BY DEF TapeReset
<1>3. /\ refs' = refs /\ held' = held /\ abandoned' = abandoned /\ depth' = depth
      /\ phase' = phase /\ at' = at /\ grads' = grads /\ todo' = todo
      /\ toRelease' = toRelease /\ status' = status
  BY DEF TapeReset, memory, walk
<1>4. DOMAIN grads = {} /\ todo = << >> /\ releasing = << >> /\ phase = "host" /\ at = 0
  BY <1>1, IdleEmpty DEF TapeReset
<1>10. GradsOf(leafGrad) \in Seq(Handles) /\ \A x : Times(x, GradsOf(leafGrad)) = Holding(x, leafGrad)
  BY <1>1, GradsOfGradients DEF TypeOK
<1>11. NodeHandles(nodes) \in Seq(Handles)
  BY <1>1, PartsType DEF TypeOK
<1>12. /\ releasing' \in Seq(Handles)
       /\ \A x : Times(x, releasing') = Holding(x, leafGrad) + Times(x, NodeHandles(nodes))
  BY <1>2, <1>10, <1>11, ConcatProperties, TimesConcat
<1>13. DOMAIN leafGrad' = {} /\ leafGrad' \in [DOMAIN leafGrad' -> Gradient]
  BY <1>2
<1>5. TypeOK'
  <2>1. nodes' \in Seq(Node) /\ Len(nodes') = 0 /\ DOMAIN nodes' = {}
    BY <1>2, EmptySeq
  <2>2. at' \in 0..Len(nodes')
    BY <1>3, <1>4, <2>1
  <2>3. recording' \in BOOLEAN
    BY <1>2
  <2>. QED  BY <1>1, <1>2, <1>3, <1>12, <1>13, <2>1, <2>2, <2>3 DEF TypeOK
<1>6. Quiet' /\ NeverPanics'
  BY <1>1, <1>3, <1>4 DEF Quiet, NeverPanics
<1>7. KeysOwned'
  BY <1>3, <1>4 DEF KeysOwned
<1>8. RegistryAlive'
  BY <1>2, <1>13 DEF RegistryAlive
<1>9. RefsExact'
  <2>1. SUFFICES ASSUME NEW x \in Handles PROVE CountAt(refs', x) = Owners(x)'
    BY DEF RefsExact, CountAt
  <2>2. Times(x, releasing) = 0 /\ Times(x, releasing') = Holding(x, leafGrad) + Times(x, NodeHandles(nodes))
    BY <1>4, <1>12, TimesEmpty
  <2>3. Holding(x, leafGrad') = 0 /\ Times(x, NodeHandles(nodes')) = 0
    BY <1>2, <1>13, HoldingEmpty, NodeHandlesEmpty, TimesEmpty
  <2>. QED  BY <1>1, <1>3, <2>2, <2>3, Counted, CountedNext
<1>. QED  BY <1>5, <1>6, <1>7, <1>8, <1>9 DEF IInv

-------------------------------------------------------------------------------
(* backward.                                                                 *)

LEMMA ModRange ==
    ASSUME NEW n \in Nat
    PROVE  n % Modulus \in 0..(Modulus - 1)
<1>1. Modulus \in Nat /\ Modulus > 0
  BY ConstantsAssumption
<1>. QED  BY <1>1

LEMMA SumAtType ==
    ASSUME NEW s \in Handles, NEW old \in Gradient, NEW new \in Gradient
    PROVE  SumAt(s, old, new) \in Gradient /\ SumAt(s, old, new).grad = s
<1>1. old.factor \in Nat /\ new.factor \in Nat
  BY ConstantsAssumption DEF Gradient
<1>2. old.factor + new.factor \in Nat
  BY <1>1
<1>3. (old.factor + new.factor) % Modulus \in 0..(Modulus - 1)
  BY <1>2, ModRange
<1>. QED  BY <1>3 DEF SumAt, Gradient

LEMMA WithGradient ==
    ASSUME NEW f, f \in [DOMAIN f -> Gradient], DOMAIN f \subseteq Handles,
           NEW k \in Handles, NEW g \in Gradient
    PROVE  /\ DOMAIN With(f, k, g) = {k} \cup DOMAIN f
           /\ With(f, k, g) \in [DOMAIN With(f, k, g) -> Gradient]
BY DEF With

LEMMA WithoutGradient ==
    ASSUME NEW f, f \in [DOMAIN f -> Gradient], DOMAIN f \subseteq Handles, NEW k
    PROVE  /\ DOMAIN Without(f, k) = DOMAIN f \ {k}
           /\ Without(f, k) \in [DOMAIN Without(f, k) -> Gradient]
BY DEF Without, Restrict

(* A key and a target stay owned while neither the host nor the nodes change. *)
LEMMA StayOwned ==
    ASSUME KeysOwned, held' = held, nodes' = nodes,
           DOMAIN grads' \cup {todo'[i].to : i \in DOMAIN todo'}
               \subseteq DOMAIN grads \cup {todo[i].to : i \in DOMAIN todo}
    PROVE  KeysOwned'
BY DEF KeysOwned

(* An address that was free has its first reference.                         *)
LEMMA OneNew ==
    ASSUME TypeOK, NEW s \in Free, refs' = [refs EXCEPT ![s] = 1]
    PROVE  /\ s \in Handles /\ CountAt(refs, s) = 0
           /\ refs' \in [Handles -> Nat]
           /\ \A x \in Handles : CountAt(refs', x) = CountAt(refs, x) + (IF s = x THEN 1 ELSE 0)
           /\ \A x \in Handles : CountAt(refs, x) > 0 => CountAt(refs', x) > 0
<1>1. s \in Handles /\ CountAt(refs, s) = 0
  BY FreeButFree DEF Free
<1>2. refs' \in [Handles -> Nat]
  BY <1>1 DEF TypeOK
<1>3. \A x \in Handles : CountAt(refs', x) = IF x = s THEN 1 ELSE CountAt(refs, x)
  BY <1>1 DEF TypeOK, CountAt
<1>4. \A x \in Handles : CountAt(refs, x) \in Nat
  BY DEF TypeOK, CountAt
<1>5. ASSUME NEW x \in Handles
      PROVE  /\ CountAt(refs', x) = CountAt(refs, x) + (IF s = x THEN 1 ELSE 0)
             /\ CountAt(refs, x) > 0 => CountAt(refs', x) > 0
  <2>1. CountAt(refs, x) \in Nat
    BY <1>4
  <2>2. CASE s = x
    <3>1. CountAt(refs', x) = 1 /\ CountAt(refs, x) = 0
      BY <1>1, <1>3, <2>2
    <3>. QED  BY <2>2, <3>1
  <2>3. CASE s # x
    <3>1. CountAt(refs', x) = CountAt(refs, x)
      BY <1>3, <2>3
    <3>. QED  BY <2>1, <2>3, <3>1
  <2>. QED  BY <2>2, <2>3
<1>. QED  BY <1>1, <1>2, <1>5

LEMMA BackwardCallStep ==
    ASSUME IInv, NEW loss \in Handles, Backward(loss)
    PROVE  IInv'
<1>1. TypeOK /\ Quiet /\ KeysOwned /\ RegistryAlive /\ RefsExact /\ NeverPanics
  BY DEF IInv
<1>2. PICK seed \in Free : /\ refs' = [refs EXCEPT ![seed] = 1]
                           /\ grads' = With(<< >>, loss, [grad |-> seed, factor |-> 1 % Modulus])
  BY DEF Backward
<1>3. /\ held' = held /\ abandoned' = abandoned /\ recording' = recording
      /\ depth' = depth /\ nodes' = nodes /\ leaves' = leaves /\ leafGrad' = leafGrad
      /\ todo' = todo /\ toRelease' = toRelease /\ releasing' = releasing
      /\ status' = status
      /\ phase' = "walk" /\ at' = Len(nodes) /\ loss \in Held
  BY DEF Backward, tape, registry
<1>4. DOMAIN grads = {} /\ todo = << >> /\ toRelease = << >> /\ releasing = << >> /\ phase = "host"
  BY <1>1, IdleEmpty DEF Backward
<1>. DEFINE g == [grad |-> seed, factor |-> 1 % Modulus]
<1>10. /\ seed \in Handles /\ CountAt(refs, seed) = 0 /\ refs' \in [Handles -> Nat]
       /\ \A x \in Handles : CountAt(refs', x) = CountAt(refs, x) + (IF seed = x THEN 1 ELSE 0)
       /\ \A x \in Handles : CountAt(refs, x) > 0 => CountAt(refs', x) > 0
  BY <1>1, <1>2, OneNew
<1>11. g \in Gradient /\ g.grad = seed
  <2>1. 1 % Modulus \in 0..(Modulus - 1)
    BY ModRange
  <2>. QED  BY <1>10, <2>1 DEF Gradient
<1>. HIDE DEF g
<1>12. DOMAIN grads' = {loss} /\ grads' \in [DOMAIN grads' -> Gradient]
  BY <1>2, <1>11 DEF With, g
<1>5. TypeOK'
  <2>1. at' \in 0..Len(nodes')
    BY <1>1, <1>3, LenProperties DEF TypeOK
  <2>. QED  BY <1>1, <1>3, <1>10, <1>12, <2>1 DEF TypeOK, Phases
<1>6. Quiet' /\ NeverPanics'
  BY <1>1, <1>3, <1>4 DEF Quiet, NeverPanics
<1>7. KeysOwned'
  BY <1>3, <1>4, <1>12 DEF KeysOwned, Held
<1>8. RegistryAlive'
  BY <1>1, <1>3, <1>10, StaysAlive
<1>9. RefsExact'
  <2>1. SUFFICES ASSUME NEW x \in Handles PROVE CountAt(refs', x) = Owners(x)'
    BY DEF RefsExact, CountAt
  <2>2. Holding(x, grads) = 0 /\ Holding(x, grads') = IF seed = x THEN 1 ELSE 0
    <3>1. grads'[loss].grad = seed
      BY <1>2, <1>11 DEF With, g
    <3>2. {k \in DOMAIN grads' : grads'[k].grad = x} = IF seed = x THEN {loss} ELSE {}
      BY <1>12, <3>1
    <3>3. Holding(x, grads') = IF seed = x THEN 1 ELSE 0
      BY <3>2, FS_Singleton, FS_EmptySet DEF Holding
    <3>. QED  BY <1>4, <3>3, HoldingEmpty
  <2>3. CountAt(refs', x) = CountAt(refs, x) + (IF seed = x THEN 1 ELSE 0)
    BY <1>10
  <2>4. CASE seed = x
    <3>1. CountAt(refs', x) = CountAt(refs, x) + 1 /\ Holding(x, grads) = 0 /\ Holding(x, grads') = 1
      BY <2>2, <2>3, <2>4
    <3>2. Owners(x)' = CountAt(held, x) + Lost(x, abandoned)
              + Times(x, NodeHandles(nodes)) + Times(x, toRelease) + Times(x, releasing)
              + Holding(x, leafGrad) + 1 + PendingHolding(x, todo)
      BY <1>3, <3>1, CountedNext
    <3>3. CountAt(refs, x) = CountAt(held, x) + Lost(x, abandoned)
              + Times(x, NodeHandles(nodes)) + Times(x, toRelease) + Times(x, releasing)
              + Holding(x, leafGrad) + 0 + PendingHolding(x, todo)
      BY <1>1, <3>1, Counted
    <3>. QED  BY <1>1, <3>1, <3>2, <3>3, Counted
  <2>5. CASE seed # x
    <3>1. CountAt(refs', x) = CountAt(refs, x) + 0 /\ Holding(x, grads) = 0 /\ Holding(x, grads') = 0
      BY <2>2, <2>3, <2>5
    <3>2. Owners(x)' = CountAt(held, x) + Lost(x, abandoned)
              + Times(x, NodeHandles(nodes)) + Times(x, toRelease) + Times(x, releasing)
              + Holding(x, leafGrad) + 0 + PendingHolding(x, todo)
      BY <1>3, <3>1, CountedNext
    <3>3. /\ CountAt(refs, x) \in Nat
          /\ CountAt(refs, x) = CountAt(held, x) + Lost(x, abandoned)
              + Times(x, NodeHandles(nodes)) + Times(x, toRelease) + Times(x, releasing)
              + Holding(x, leafGrad) + 0 + PendingHolding(x, todo)
      BY <1>1, <3>1, Counted
    <3>. QED  BY <3>1, <3>2, <3>3
  <2>. QED  BY <2>4, <2>5
<1>. QED  BY <1>5, <1>6, <1>7, <1>8, <1>9 DEF IInv

LEMMA SkipNodeStep ==
    ASSUME IInv, SkipNode
    PROVE  IInv'
<1>1. TypeOK /\ Quiet /\ KeysOwned /\ RegistryAlive /\ RefsExact /\ NeverPanics
  BY DEF IInv
<1>3. /\ refs' = refs /\ held' = held /\ abandoned' = abandoned /\ recording' = recording
      /\ depth' = depth /\ nodes' = nodes /\ leaves' = leaves /\ leafGrad' = leafGrad
      /\ phase' = phase /\ grads' = grads /\ todo' = todo /\ toRelease' = toRelease
      /\ releasing' = releasing /\ status' = status
      /\ at' = at - 1 /\ at > 0 /\ phase = "walk"
  BY DEF SkipNode, Stepping, memory, tape, registry
<1>5. TypeOK'
  <2>1. at' \in 0..Len(nodes')
    BY <1>1, <1>3 DEF TypeOK
  <2>. QED  BY <1>1, <1>3, <2>1 DEF TypeOK
<1>6. Quiet' /\ NeverPanics'
  BY <1>1, <1>3 DEF Quiet, NeverPanics
<1>7. KeysOwned'
  BY <1>1, <1>3 DEF KeysOwned
<1>8. RegistryAlive'
  BY <1>1, <1>3 DEF RegistryAlive, Live
<1>9. RefsExact'
  <2>1. SUFFICES ASSUME NEW x \in Handles PROVE CountAt(refs', x) = Owners(x)'
    BY DEF RefsExact, CountAt
  <2>. QED  BY <1>1, <1>3, Counted, CountedNext
<1>. QED  BY <1>5, <1>6, <1>7, <1>8, <1>9 DEF IInv

(* The tensors drawn are new and different.                                  *)
LEMMA DrawnNew ==
    ASSUME TypeOK, NEW n \in Nat, NEW ds \in Drawn(n)
    PROVE  /\ ds \in Seq(Handles) /\ DOMAIN ds = 1..n
           /\ \A i \in 1..n : ds[i] \in Handles /\ CountAt(refs, ds[i]) = 0
           /\ \A x : Times(x, ds) = IF x \in Range(ds) THEN 1 ELSE 0
<1>1. ds \in [1..n -> Handles \ Live]
  BY DEF Drawn
<1>2. ds \in Seq(Handles) /\ DOMAIN ds = 1..n
  BY <1>1
<1>3. \A i \in 1..n : ds[i] \in Handles /\ CountAt(refs, ds[i]) = 0
  BY <1>1 DEF Live, TypeOK, CountAt
<1>4. ASSUME NEW i \in 1..n, NEW j \in 1..n, j < i PROVE ds[i] # ds[j]
  <2>1. ds[i] \in FreeBut({ds[k] : k \in 1..(i - 1)})
    BY DEF Drawn
  <2>2. ds[i] \notin {ds[k] : k \in 1..(i - 1)}
    BY <2>1, FreeButFree
  <2>3. j \in 1..(i - 1)
    BY <1>4
  <2>. QED  BY <2>2, <2>3
<1>5. \A i, j \in 1..n : ds[i] = ds[j] => i = j
  BY <1>4
<1>6. ASSUME NEW x, x \in Range(ds) PROVE Times(x, ds) = 1
  <2>1. PICK i \in DOMAIN ds : x = ds[i]
    BY <1>6 DEF Range
  <2>2. \A j \in DOMAIN ds : ds[j] = ds[i] => j = i
    BY <1>2, <1>5
  <2>. QED  BY <2>1, <2>2, TimesOnce
<1>7. ASSUME NEW x, x \notin Range(ds) PROVE Times(x, ds) = 0
  BY <1>7, TimesNone DEF Range
<1>. QED  BY <1>2, <1>3, <1>6, <1>7

LEMMA WalkNodeStep ==
    ASSUME IInv, WalkNode
    PROVE  IInv'
<1>1. TypeOK /\ Quiet /\ KeysOwned /\ RegistryAlive /\ RefsExact /\ NeverPanics
  BY DEF IInv
<1>. DEFINE node == nodes[at]
            dout == grads[node.output].factor
            ps == VjpOrder(node.op)
            factor(p) == (Factors(node.op)[p] * dout) % Modulus
<1>2. PICK ds \in Drawn(Len(ps)) :
          /\ refs' = Allocated(Range(ds))
          /\ todo' = [i \in DOMAIN ps |-> [to |-> node.saved[ps[i]],
                                           gradient |-> [grad |-> ds[i], factor |-> factor(ps[i])]]]
  BY DEF WalkNode
<1>3. /\ held' = held /\ abandoned' = abandoned /\ recording' = recording
      /\ depth' = depth /\ nodes' = nodes /\ leaves' = leaves /\ leafGrad' = leafGrad
      /\ phase' = phase /\ grads' = grads /\ toRelease' = toRelease
      /\ releasing' = releasing /\ status' = status
      /\ at' = at - 1 /\ at > 0 /\ todo = << >> /\ phase = "walk" /\ node.output \in DOMAIN grads
  BY DEF WalkNode, Stepping, tape, registry
<1>4. /\ at \in 1..Len(nodes) /\ at \in DOMAIN nodes /\ nodes \in Seq(Node) /\ node \in Node
      /\ DOMAIN node.saved = Positions(node.op)
  <2>1. at \in 1..Len(nodes) /\ nodes \in Seq(Node)
    BY <1>1, <1>3 DEF TypeOK
  <2>2. at \in DOMAIN nodes /\ node \in Node
    BY <2>1, LenProperties, ElementOfSeq
  <2>. QED  BY <1>1, <2>1, <2>2 DEF TypeOK
<1>10. node.op \in Ops /\ node.saved \in Seq(Handles) /\ dout \in Nat
  <2>1. node.op \in Ops /\ node.saved \in Seq(Handles)
    BY <1>4 DEF Node
  <2>2. dout \in Nat
    BY <1>1, <1>3, GradientOf DEF TypeOK
  <2>. QED  BY <2>1, <2>2
<1>. HIDE DEF node, dout, ps, factor
<1>11. PICK n \in 1..2 : /\ ps \in [1..n -> Positions(node.op)] /\ Len(ps) = n /\ DOMAIN ps = 1..n
                         /\ \A i \in 1..n : Factors(node.op)[ps[i]] \in Nat
  <2>1. PICK n \in 1..2 : /\ ps \in [1..n -> Positions(node.op)] /\ Len(ps) = n
                          /\ \A i \in 1..n : Factors(node.op)[ps[i]] \in Nat
    BY <1>10, VjpOrderIs DEF ps
  <2>. QED  BY <2>1
<1>12. /\ ds \in Seq(Handles) /\ DOMAIN ds = 1..n
       /\ \A i \in 1..n : ds[i] \in Handles /\ CountAt(refs, ds[i]) = 0
       /\ \A x : Times(x, ds) = IF x \in Range(ds) THEN 1 ELSE 0
  <2>1. n \in Nat /\ ds \in Drawn(n)
    BY <1>2, <1>11
  <2>. QED  BY <1>1, <2>1, DrawnNew
<1>13. \A i \in 1..n : factor(ps[i]) \in 0..(Modulus - 1)
  <2>1. SUFFICES ASSUME NEW i \in 1..n PROVE factor(ps[i]) \in 0..(Modulus - 1)
    OBVIOUS
  <2>. DEFINE c == Factors(node.op)[ps[i]]
  <2>2. c \in Nat
    BY <1>11
  <2>. HIDE DEF c
  <2>3. c * dout \in Nat
    BY <1>10, <2>2
  <2>4. (c * dout) % Modulus \in 0..(Modulus - 1)
    BY <2>3, ModRange
  <2>. QED  BY <2>4 DEF factor, c
<1>14. \A i \in 1..n : node.saved[ps[i]] \in Handles /\ Times(node.saved[ps[i]], NodeHandles(nodes)) > 0
  <2>1. SUFFICES ASSUME NEW i \in 1..n
                 PROVE  node.saved[ps[i]] \in Handles /\ Times(node.saved[ps[i]], NodeHandles(nodes)) > 0
    OBVIOUS
  <2>2. ps[i] \in DOMAIN node.saved
    BY <1>4, <1>11
  <2>3. node.saved[ps[i]] \in Handles
    BY <1>10, <2>2, LenProperties, ElementOfSeq
  <2>4. \A p \in DOMAIN nodes[at].saved : Times(nodes[at].saved[p], NodeHandles(nodes)) > 0
    BY <1>4, NodeHandlesHas
  <2>. QED  BY <2>2, <2>3, <2>4 DEF node
<1>15. /\ todo' \in Seq(Pending) /\ DOMAIN todo' = 1..n
       /\ \A i \in 1..n : todo'[i].to = node.saved[ps[i]] /\ todo'[i].gradient.grad = ds[i]
  <2>1. \A i \in 1..n : [to |-> node.saved[ps[i]],
                         gradient |-> [grad |-> ds[i], factor |-> factor(ps[i])]] \in Pending
    BY <1>12, <1>13, <1>14 DEF Pending, Gradient
  <2>2. todo' \in [1..n -> Pending] /\ n \in Nat
    BY <1>2, <1>11, <2>1
  <2>3. todo' \in Seq(Pending) /\ DOMAIN todo' = 1..n
    BY <2>2
  <2>. QED  BY <1>2, <1>11, <2>3
<1>16. \A x : PendingHolding(x, todo') = IF x \in Range(ds) THEN 1 ELSE 0
  <2>1. PendingGrads(todo') = ds
    BY <1>12, <1>15 DEF PendingGrads
  <2>2. \A x : PendingHolding(x, todo') = Times(x, PendingGrads(todo'))
    BY <1>15, PendingCounts
  <2>. QED  BY <1>12, <2>1, <2>2
<1>17. \A x \in Handles : CountAt(refs', x) = IF x \in Range(ds) THEN 1 ELSE CountAt(refs, x)
  BY <1>2 DEF Allocated, CountAt
<1>18. \A x \in Range(ds) : x \in Handles /\ CountAt(refs, x) = 0
  BY <1>12 DEF Range
<1>5. TypeOK'
  <2>1. at' \in 0..Len(nodes')
    BY <1>1, <1>3 DEF TypeOK
  <2>2. refs' \in [Handles -> Nat]
    BY <1>1, <1>2 DEF TypeOK, Allocated
  <2>. QED  BY <1>1, <1>3, <1>15, <2>1, <2>2 DEF TypeOK
<1>6. Quiet' /\ NeverPanics'
  BY <1>1, <1>3 DEF Quiet, NeverPanics
<1>7. KeysOwned'
  <2>1. \A k \in DOMAIN grads : held[k] > 0 \/ Times(k, NodeHandles(nodes)) > 0
    BY <1>1 DEF KeysOwned
  <2>2. \A i \in DOMAIN todo' : Times(todo'[i].to, NodeHandles(nodes)) > 0
    BY <1>14, <1>15
  <2>. QED  BY <1>3, <2>1, <2>2 DEF KeysOwned
<1>8. RegistryAlive'
  <2>1. ASSUME NEW x \in Handles, CountAt(refs, x) > 0 PROVE CountAt(refs', x) > 0
    BY <1>17, <2>1
  <2>. QED  BY <1>1, <1>3, <2>1, StaysAlive
<1>9. RefsExact'
  <2>1. SUFFICES ASSUME NEW x \in Handles PROVE CountAt(refs', x) = Owners(x)'
    BY DEF RefsExact, CountAt
  <2>2. /\ CountAt(refs', x) = IF x \in Range(ds) THEN 1 ELSE CountAt(refs, x)
        /\ PendingHolding(x, todo') = IF x \in Range(ds) THEN 1 ELSE 0
        /\ PendingHolding(x, todo) = 0
    BY <1>3, <1>16, <1>17, PendingEmpty
  <2>3. x \in Range(ds) => CountAt(refs, x) = 0
    BY <1>18
  <2>4. Owners(x)' = CountAt(held, x) + Lost(x, abandoned)
            + Times(x, NodeHandles(nodes)) + Times(x, toRelease) + Times(x, releasing)
            + Holding(x, leafGrad) + Holding(x, grads) + PendingHolding(x, todo')
    BY <1>3, CountedNext
  <2>5. CASE x \in Range(ds)
    <3>1. /\ CountAt(held, x) = 0 /\ Lost(x, abandoned) = 0
          /\ Times(x, NodeHandles(nodes)) = 0 /\ Times(x, toRelease) = 0
          /\ Times(x, releasing) = 0 /\ Holding(x, leafGrad) = 0 /\ Holding(x, grads) = 0
      BY <1>1, <2>3, <2>5, FreeUnowned
    <3>2. CountAt(refs', x) = 1 /\ PendingHolding(x, todo') = 1
      BY <2>2, <2>5
    <3>. QED  BY <2>4, <3>1, <3>2
  <2>6. CASE x \notin Range(ds)
    <3>1. CountAt(refs', x) = CountAt(refs, x) /\ PendingHolding(x, todo') = PendingHolding(x, todo)
      BY <2>2, <2>6
    <3>. QED  BY <1>1, <2>4, <3>1, Counted
  <2>. QED  BY <2>5, <2>6
<1>. QED  BY <1>5, <1>6, <1>7, <1>8, <1>9 DEF IInv

LEMMA TailTargets ==
    ASSUME NEW q \in Seq(Pending), q # << >>
    PROVE  /\ Head(q) \in Pending /\ Tail(q) \in Seq(Pending)
           /\ Head(q).to \in {q[i].to : i \in DOMAIN q}
           /\ {Tail(q)[i].to : i \in DOMAIN Tail(q)} \subseteq {q[i].to : i \in DOMAIN q}
<1>1. /\ Head(q) \in Pending /\ Tail(q) \in Seq(Pending) /\ Len(Tail(q)) = Len(q) - 1
      /\ \A i \in 1..Len(Tail(q)) : Tail(q)[i] = q[i + 1]
  BY HeadTailProperties
<1>2. Len(q) \in Nat \ {0} /\ DOMAIN q = 1..Len(q) /\ DOMAIN Tail(q) = 1..(Len(q) - 1)
  BY <1>1, LenProperties, EmptySeq
<1>3. Head(q) = q[1] /\ 1 \in DOMAIN q
  BY <1>2
<1>4. \A i \in DOMAIN Tail(q) : i + 1 \in DOMAIN q /\ Tail(q)[i] = q[i + 1]
  BY <1>1, <1>2
<1>. QED  BY <1>1, <1>3, <1>4

LEMMA AccumulateGradStep ==
    ASSUME IInv, AccumulateGrad
    PROVE  IInv'
<1>1. TypeOK /\ Quiet /\ KeysOwned /\ RegistryAlive /\ RefsExact /\ NeverPanics
  BY DEF IInv
<1>3. /\ held' = held /\ abandoned' = abandoned /\ recording' = recording
      /\ depth' = depth /\ nodes' = nodes /\ leaves' = leaves /\ leafGrad' = leafGrad
      /\ phase' = phase /\ at' = at /\ toRelease' = toRelease /\ status' = status
      /\ todo' = Tail(todo) /\ todo # << >> /\ phase = "walk" /\ releasing = << >>
      /\ Accumulate(Head(todo).to, Head(todo).gradient)
  BY DEF AccumulateGrad, Stepping, memory, tape, registry
<1>. DEFINE key == Head(todo).to
            new == Head(todo).gradient
<1>4. todo \in Seq(Pending) /\ grads \in [DOMAIN grads -> Gradient] /\ DOMAIN grads \subseteq Handles
  BY <1>1 DEF TypeOK
<1>10. /\ Head(todo) \in Pending /\ todo' \in Seq(Pending)
       /\ key \in {todo[i].to : i \in DOMAIN todo}
       /\ {todo'[i].to : i \in DOMAIN todo'} \subseteq {todo[i].to : i \in DOMAIN todo}
  BY <1>3, <1>4, TailTargets
<1>11. key \in Handles /\ new \in Gradient /\ new.grad \in Handles
  BY <1>10 DEF Pending, Gradient
<1>12. \A x : PendingHolding(x, todo) = (IF new.grad = x THEN 1 ELSE 0) + PendingHolding(x, todo')
  BY <1>3, <1>4, PendingHeadTail
<1>13. \A x : PendingHolding(x, todo') \in Nat
  BY <1>10, PendingCounts
<1>14. Accumulate(key, new) /\ IsFiniteSet(DOMAIN grads)
  BY <1>1, <1>3, MapsFinite
<1>. HIDE DEF key, new
<1>15. CASE /\ key \notin DOMAIN grads /\ grads' = With(grads, key, new)
            /\ refs' = refs /\ releasing' = releasing
  <2>1. DOMAIN grads' = {key} \cup DOMAIN grads /\ grads' \in [DOMAIN grads' -> Gradient]
    BY <1>4, <1>11, <1>15, WithGradient
  <2>5. TypeOK'
    BY <1>1, <1>3, <1>10, <1>11, <1>15, <2>1 DEF TypeOK
  <2>6. Quiet' /\ NeverPanics'
    BY <1>1, <1>3 DEF Quiet, NeverPanics
  <2>7. KeysOwned'
    BY <1>1, <1>3, <1>10, <2>1, StayOwned
  <2>8. RegistryAlive'
    BY <1>1, <1>3, <1>15 DEF RegistryAlive, Live
  <2>9. RefsExact'
    <3>1. SUFFICES ASSUME NEW x \in Handles PROVE CountAt(refs', x) = Owners(x)'
      BY DEF RefsExact, CountAt
    <3>2. /\ Holding(x, grads') = Holding(x, grads) + (IF new.grad = x THEN 1 ELSE 0)
          /\ PendingHolding(x, todo) = (IF new.grad = x THEN 1 ELSE 0) + PendingHolding(x, todo')
          /\ PendingHolding(x, todo') \in Nat
      BY <1>12, <1>13, <1>14, <1>15, HoldingWith
    <3>3. Owners(x)' = CountAt(held, x) + Lost(x, abandoned)
              + Times(x, NodeHandles(nodes)) + Times(x, toRelease) + Times(x, releasing)
              + Holding(x, leafGrad) + Holding(x, grads') + PendingHolding(x, todo')
      BY <1>3, <1>15, CountedNext
    <3>4. CountAt(refs', x) = CountAt(refs, x)
      BY <1>15
    <3>. QED  BY <1>1, <3>2, <3>3, <3>4, Counted
  <2>. QED  BY <2>5, <2>6, <2>7, <2>8, <2>9 DEF IInv
<1>16. CASE /\ key \in DOMAIN grads
            /\ \E s \in Free : /\ refs' = [refs EXCEPT ![s] = 1]
                               /\ grads' = With(grads, key, SumAt(s, grads[key], new))
            /\ releasing' = <<grads[key].grad, new.grad>>
  <2>0. PICK s \in Free : /\ refs' = [refs EXCEPT ![s] = 1]
                          /\ grads' = With(grads, key, SumAt(s, grads[key], new))
    BY <1>16
  <2>1. /\ s \in Handles /\ CountAt(refs, s) = 0 /\ refs' \in [Handles -> Nat]
        /\ \A x \in Handles : CountAt(refs', x) = CountAt(refs, x) + (IF s = x THEN 1 ELSE 0)
        /\ \A x \in Handles : CountAt(refs, x) > 0 => CountAt(refs', x) > 0
    BY <1>1, <2>0, OneNew
  <2>2. grads[key] \in Gradient /\ grads[key].grad \in Handles
    BY <1>4, <1>16, GradientOf
  <2>. DEFINE sum == SumAt(s, grads[key], new)
  <2>3. sum \in Gradient /\ sum.grad = s
    BY <1>11, <2>1, <2>2, SumAtType
  <2>. HIDE DEF sum
  <2>4. /\ grads' = With(grads, key, sum)
        /\ DOMAIN grads' = {key} \cup DOMAIN grads /\ grads' \in [DOMAIN grads' -> Gradient]
    BY <1>4, <1>11, <2>0, <2>3, WithGradient DEF sum
  <2>5. TypeOK'
    <3>1. releasing' \in Seq(Handles)
      BY <1>11, <1>16, <2>2
    <3>. QED  BY <1>1, <1>3, <1>10, <1>11, <2>1, <2>4, <3>1 DEF TypeOK
  <2>6. Quiet' /\ NeverPanics'
    BY <1>1, <1>3 DEF Quiet, NeverPanics
  <2>7. KeysOwned'
    BY <1>1, <1>3, <1>10, <2>4, StayOwned
  <2>8. RegistryAlive'
    BY <1>1, <1>3, <2>1, StaysAlive
  <2>9. RefsExact'
    <3>1. SUFFICES ASSUME NEW x \in Handles PROVE CountAt(refs', x) = Owners(x)'
      BY DEF RefsExact, CountAt
    <3>. DEFINE isSum == IF s = x THEN 1 ELSE 0
                isOld == IF grads[key].grad = x THEN 1 ELSE 0
                isNew == IF new.grad = x THEN 1 ELSE 0
    <3>2. Holding(x, grads) + isSum = Holding(x, grads') + isOld
      BY <1>14, <1>16, <2>3, <2>4, HoldingReplace
    <3>3. PendingHolding(x, todo) = isNew + PendingHolding(x, todo') /\ PendingHolding(x, todo') \in Nat
      BY <1>12, <1>13
    <3>4. Times(x, releasing) = 0 /\ Times(x, releasing') = isOld + isNew
      BY <1>3, <1>16, TimesEmpty, TimesTwo
    <3>5. CountAt(refs', x) = CountAt(refs, x) + isSum
      BY <2>1
    <3>6. isSum \in Nat /\ isOld \in Nat /\ isNew \in Nat
      OBVIOUS
    <3>. HIDE DEF isSum, isOld, isNew
    <3>7. IsFiniteSet(DOMAIN grads') /\ Holding(x, grads') \in Nat
      <4>1. IsFiniteSet(DOMAIN grads')
        BY <1>14, <2>4, FS_AddElement
      <4>. QED  BY <4>1, HoldingType
    <3>8. Owners(x)' = CountAt(held, x) + Lost(x, abandoned)
              + Times(x, NodeHandles(nodes)) + Times(x, toRelease) + Times(x, releasing')
              + Holding(x, leafGrad) + Holding(x, grads') + PendingHolding(x, todo')
      BY <1>3, CountedNext
    <3>. QED  BY <1>1, <3>2, <3>3, <3>4, <3>5, <3>6, <3>7, <3>8, Counted
  <2>. QED  BY <2>5, <2>6, <2>7, <2>8, <2>9 DEF IInv
<1>. QED  BY <1>14, <1>15, <1>16 DEF Accumulate

LEMMA EndWalkStep ==
    ASSUME IInv, EndWalk
    PROVE  IInv'
<1>1. TypeOK /\ Quiet /\ KeysOwned /\ RegistryAlive /\ RefsExact /\ NeverPanics
  BY DEF IInv
<1>3. /\ refs' = refs /\ held' = held /\ abandoned' = abandoned /\ recording' = recording
      /\ depth' = depth /\ nodes' = nodes /\ leaves' = leaves /\ leafGrad' = leafGrad
      /\ at' = at /\ grads' = grads /\ todo' = todo /\ toRelease' = toRelease
      /\ releasing' = releasing /\ status' = status
      /\ phase' = "fold" /\ phase = "walk" /\ todo = << >> /\ at = 0 /\ releasing = << >>
  BY DEF EndWalk, Stepping, memory, tape, registry
<1>5. TypeOK'
  BY <1>1, <1>3 DEF TypeOK, Phases
<1>6. Quiet' /\ NeverPanics'
  BY <1>1, <1>3 DEF Quiet, NeverPanics
<1>7. KeysOwned'
  BY <1>1, <1>3 DEF KeysOwned
<1>8. RegistryAlive'
  BY <1>1, <1>3 DEF RegistryAlive, Live
<1>9. RefsExact'
  <2>1. SUFFICES ASSUME NEW x \in Handles PROVE CountAt(refs', x) = Owners(x)'
    BY DEF RefsExact, CountAt
  <2>. QED  BY <1>1, <1>3, Counted, CountedNext
<1>. QED  BY <1>5, <1>6, <1>7, <1>8, <1>9 DEF IInv

LEMMA FoldLeafStep ==
    ASSUME IInv, NEW leaf \in Handles, FoldLeaf(leaf)
    PROVE  IInv'
<1>1. TypeOK /\ Quiet /\ KeysOwned /\ RegistryAlive /\ RefsExact /\ NeverPanics
  BY DEF IInv
<1>3. /\ held' = held /\ abandoned' = abandoned /\ recording' = recording
      /\ depth' = depth /\ nodes' = nodes /\ leaves' = leaves /\ phase' = phase
      /\ at' = at /\ todo' = todo /\ releasing' = releasing /\ status' = status
      /\ grads' = Without(grads, leaf) /\ phase = "fold" /\ leaf \in leaves /\ leaf \in DOMAIN grads
      /\ Fold(leaf)
  BY DEF FoldLeaf, Fold, Stepping, memory, tape, registry
<1>4. /\ grads \in [DOMAIN grads -> Gradient] /\ DOMAIN grads \subseteq Handles /\ IsFiniteSet(DOMAIN grads)
      /\ leafGrad \in [DOMAIN leafGrad -> Gradient] /\ DOMAIN leafGrad \subseteq Handles
      /\ IsFiniteSet(DOMAIN leafGrad)
      /\ toRelease \in Seq(Handles)
  BY <1>1, MapsFinite DEF TypeOK
<1>10. grads[leaf] \in Gradient /\ grads[leaf].grad \in Handles
  BY <1>3, <1>4, GradientOf
<1>11. DOMAIN grads' = DOMAIN grads \ {leaf} /\ grads' \in [DOMAIN grads' -> Gradient]
  BY <1>3, <1>4, WithoutGradient
<1>. DEFINE new == grads[leaf]
            isNew(x) == IF new.grad = x THEN 1 ELSE 0
<1>12. \A x : Holding(x, grads) = Holding(x, grads') + isNew(x)
  BY <1>3, <1>4, HoldingWithout
<1>13. \A x : isNew(x) \in Nat
  OBVIOUS
<1>14. \A x : Holding(x, grads') \in Nat
  <2>1. IsFiniteSet(DOMAIN grads')
    BY <1>4, <1>11, FS_RemoveElement
  <2>. QED  BY <2>1, HoldingType
<1>6. Quiet' /\ NeverPanics'
  BY <1>1, <1>3 DEF Quiet, NeverPanics
<1>7. KeysOwned'
  BY <1>1, <1>3, <1>11, StayOwned
<1>15. CASE /\ leaf \notin DOMAIN leafGrad /\ leafGrad' = With(leafGrad, leaf, grads[leaf])
            /\ refs' = refs /\ toRelease' = toRelease
  <2>1. DOMAIN leafGrad' = {leaf} \cup DOMAIN leafGrad /\ leafGrad' \in [DOMAIN leafGrad' -> Gradient]
    BY <1>4, <1>10, <1>15, WithGradient
  <2>5. TypeOK'
    BY <1>1, <1>3, <1>11, <1>15, <2>1 DEF TypeOK
  <2>8. RegistryAlive'
    BY <1>1, <1>3, <1>15, <2>1 DEF RegistryAlive, Live
  <2>9. RefsExact'
    <3>1. SUFFICES ASSUME NEW x \in Handles PROVE CountAt(refs', x) = Owners(x)'
      BY DEF RefsExact, CountAt
    <3>2. Holding(x, leafGrad') = Holding(x, leafGrad) + isNew(x)
      BY <1>4, <1>15, HoldingWith
    <3>3. Owners(x)' = CountAt(held, x) + Lost(x, abandoned)
              + Times(x, NodeHandles(nodes)) + Times(x, toRelease) + Times(x, releasing)
              + Holding(x, leafGrad') + Holding(x, grads') + PendingHolding(x, todo)
      BY <1>3, <1>15, CountedNext
    <3>4. CountAt(refs', x) = CountAt(refs, x) /\ isNew(x) \in Nat
          /\ Holding(x, grads) = Holding(x, grads') + isNew(x) /\ Holding(x, grads') \in Nat
      BY <1>12, <1>13, <1>14, <1>15
    <3>. HIDE DEF isNew
    <3>. QED  BY <1>1, <3>2, <3>3, <3>4, Counted
  <2>. QED  BY <1>6, <1>7, <2>5, <2>8, <2>9 DEF IInv
<1>16. CASE /\ leaf \in DOMAIN leafGrad
            /\ \E s \in Free :
                  /\ refs' = [refs EXCEPT ![s] = 1]
                  /\ leafGrad' = With(leafGrad, leaf, SumAt(s, leafGrad[leaf], grads[leaf]))
            /\ toRelease' = toRelease \o <<leafGrad[leaf].grad, grads[leaf].grad>>
  <2>0. PICK s \in Free : /\ refs' = [refs EXCEPT ![s] = 1]
                          /\ leafGrad' = With(leafGrad, leaf, SumAt(s, leafGrad[leaf], new))
    BY <1>16
  <2>1. /\ s \in Handles /\ CountAt(refs, s) = 0 /\ refs' \in [Handles -> Nat]
        /\ \A x \in Handles : CountAt(refs', x) = CountAt(refs, x) + (IF s = x THEN 1 ELSE 0)
        /\ \A x \in Handles : CountAt(refs, x) > 0 => CountAt(refs', x) > 0
    BY <1>1, <2>0, OneNew
  <2>2. leafGrad[leaf] \in Gradient /\ leafGrad[leaf].grad \in Handles
    BY <1>4, <1>16, GradientOf
  <2>. DEFINE sum == SumAt(s, leafGrad[leaf], new)
  <2>3. sum \in Gradient /\ sum.grad = s
    BY <1>10, <2>1, <2>2, SumAtType
  <2>. HIDE DEF sum
  <2>4. /\ leafGrad' = With(leafGrad, leaf, sum)
        /\ DOMAIN leafGrad' = {leaf} \cup DOMAIN leafGrad
        /\ leafGrad' \in [DOMAIN leafGrad' -> Gradient]
    BY <1>4, <2>0, <2>3, WithGradient DEF sum
  <2>. DEFINE pair == <<leafGrad[leaf].grad, new.grad>>
  <2>10. pair \in Seq(Handles) /\ toRelease' = toRelease \o pair
    BY <1>10, <1>16, <2>2
  <2>11. \A x : Times(x, pair) = (IF leafGrad[leaf].grad = x THEN 1 ELSE 0) + isNew(x)
    BY TimesTwo
  <2>. HIDE DEF pair
  <2>12. /\ toRelease' \in Seq(Handles)
         /\ \A x : Times(x, toRelease') = Times(x, toRelease) + Times(x, pair)
    BY <1>4, <2>10, ConcatProperties, TimesConcat
  <2>5. TypeOK'
    BY <1>1, <1>3, <1>11, <2>1, <2>4, <2>12 DEF TypeOK
  <2>8. RegistryAlive'
    <3>1. DOMAIN leafGrad' \subseteq leaves'
      BY <1>1, <1>3, <2>4 DEF RegistryAlive
    <3>2. leaves \subseteq Live
      BY <1>1 DEF RegistryAlive
    <3>3. Live \subseteq Live'
      BY <2>1 DEF Live, CountAt
    <3>. QED  BY <1>3, <3>1, <3>2, <3>3 DEF RegistryAlive
  <2>9. RefsExact'
    <3>1. SUFFICES ASSUME NEW x \in Handles PROVE CountAt(refs', x) = Owners(x)'
      BY DEF RefsExact, CountAt
    <3>. DEFINE isSum == IF s = x THEN 1 ELSE 0
                isOld == IF leafGrad[leaf].grad = x THEN 1 ELSE 0
    <3>2. Holding(x, leafGrad) + isSum = Holding(x, leafGrad') + isOld
      BY <1>4, <1>16, <2>3, <2>4, HoldingReplace
    <3>3. Holding(x, grads) = Holding(x, grads') + isNew(x) /\ Holding(x, grads') \in Nat
      BY <1>12, <1>14
    <3>4. Times(x, toRelease') = Times(x, toRelease) + (isOld + isNew(x))
      BY <2>11, <2>12
    <3>5. CountAt(refs', x) = CountAt(refs, x) + isSum
      BY <2>1
    <3>6. isSum \in Nat /\ isOld \in Nat /\ isNew(x) \in Nat
      OBVIOUS
    <3>. HIDE DEF isSum, isOld, isNew
    <3>7. IsFiniteSet(DOMAIN leafGrad') /\ Holding(x, leafGrad') \in Nat
      <4>1. IsFiniteSet(DOMAIN leafGrad')
        BY <1>4, <2>4, FS_AddElement
      <4>. QED  BY <4>1, HoldingType
    <3>8. Owners(x)' = CountAt(held, x) + Lost(x, abandoned)
              + Times(x, NodeHandles(nodes)) + Times(x, toRelease') + Times(x, releasing)
              + Holding(x, leafGrad') + Holding(x, grads') + PendingHolding(x, todo)
      BY <1>3, CountedNext
    <3>. QED  BY <1>1, <3>2, <3>3, <3>4, <3>5, <3>6, <3>7, <3>8, Counted
  <2>. QED  BY <1>6, <1>7, <2>5, <2>8, <2>9 DEF IInv
<1>. QED  BY <1>3, <1>15, <1>16 DEF Fold

LEMMA EndFoldStep ==
    ASSUME IInv, EndFold
    PROVE  IInv'
<1>1. TypeOK /\ Quiet /\ KeysOwned /\ RegistryAlive /\ RefsExact /\ NeverPanics
  BY DEF IInv
<1>3. /\ refs' = refs /\ held' = held /\ abandoned' = abandoned /\ recording' = recording
      /\ depth' = depth /\ nodes' = nodes /\ leaves' = leaves /\ leafGrad' = leafGrad
      /\ at' = at /\ grads' = grads /\ todo' = todo /\ status' = status
      /\ phase' = "discard" /\ phase = "fold" /\ releasing = << >>
      /\ releasing' = toRelease /\ toRelease' = << >>
  BY DEF EndFold, Stepping, memory, tape, registry
<1>5. TypeOK'
  BY <1>1, <1>3, EmptySeq DEF TypeOK, Phases
<1>6. Quiet' /\ NeverPanics'
  BY <1>1, <1>3 DEF Quiet, NeverPanics
<1>7. KeysOwned'
  BY <1>1, <1>3 DEF KeysOwned
<1>8. RegistryAlive'
  BY <1>1, <1>3 DEF RegistryAlive, Live
<1>9. RefsExact'
  <2>1. SUFFICES ASSUME NEW x \in Handles PROVE CountAt(refs', x) = Owners(x)'
    BY DEF RefsExact, CountAt
  <2>2. /\ Times(x, releasing) = 0 /\ Times(x, toRelease') = 0
        /\ Times(x, releasing') = Times(x, toRelease)
    BY <1>3, TimesEmpty
  <2>3. CountAt(refs', x) = CountAt(refs, x)
    BY <1>3
  <2>4. Owners(x)' = CountAt(held, x) + Lost(x, abandoned)
              + Times(x, NodeHandles(nodes)) + Times(x, toRelease') + Times(x, releasing')
              + Holding(x, leafGrad) + Holding(x, grads) + PendingHolding(x, todo)
    BY <1>3, CountedNext
  <2>. QED  BY <1>1, <2>2, <2>3, <2>4, Counted
<1>. QED  BY <1>5, <1>6, <1>7, <1>8, <1>9 DEF IInv

LEMMA DiscardGradStep ==
    ASSUME IInv, NEW h \in Handles, DiscardGrad(h)
    PROVE  IInv'
<1>1. TypeOK /\ Quiet /\ KeysOwned /\ RegistryAlive /\ RefsExact /\ NeverPanics
  BY DEF IInv
<1>3. /\ refs' = refs /\ held' = held /\ abandoned' = abandoned /\ recording' = recording
      /\ depth' = depth /\ nodes' = nodes /\ leaves' = leaves /\ leafGrad' = leafGrad
      /\ phase' = phase /\ at' = at /\ todo' = todo /\ toRelease' = toRelease
      /\ status' = status
      /\ phase = "discard" /\ releasing = << >> /\ h \in DOMAIN grads
      /\ grads' = Without(grads, h) /\ releasing' = <<grads[h].grad>>
  BY DEF DiscardGrad, Stepping, memory, tape, registry
<1>4. /\ grads \in [DOMAIN grads -> Gradient] /\ DOMAIN grads \subseteq Handles /\ IsFiniteSet(DOMAIN grads)
  BY <1>1, MapsFinite DEF TypeOK
<1>10. grads[h] \in Gradient /\ grads[h].grad \in Handles
  BY <1>3, <1>4, GradientOf
<1>11. DOMAIN grads' = DOMAIN grads \ {h} /\ grads' \in [DOMAIN grads' -> Gradient]
  BY <1>3, <1>4, WithoutGradient
<1>5. TypeOK'
  <2>1. releasing' \in Seq(Handles)
    BY <1>3, <1>10
  <2>. QED  BY <1>1, <1>3, <1>11, <2>1 DEF TypeOK
<1>6. Quiet' /\ NeverPanics'
  BY <1>1, <1>3 DEF Quiet, NeverPanics
<1>7. KeysOwned'
  BY <1>1, <1>3, <1>11, StayOwned
<1>8. RegistryAlive'
  BY <1>1, <1>3 DEF RegistryAlive, Live
<1>9. RefsExact'
  <2>1. SUFFICES ASSUME NEW x \in Handles PROVE CountAt(refs', x) = Owners(x)'
    BY DEF RefsExact, CountAt
  <2>. DEFINE isIt == IF grads[h].grad = x THEN 1 ELSE 0
  <2>2. /\ Times(x, releasing) = 0 /\ Times(x, releasing') = isIt
        /\ Holding(x, grads) = Holding(x, grads') + isIt
    BY <1>3, <1>4, TimesEmpty, TimesOne, HoldingWithout
  <2>3. CountAt(refs', x) = CountAt(refs, x) /\ isIt \in Nat
    BY <1>3
  <2>5. Holding(x, grads') \in Nat
    <3>1. IsFiniteSet(DOMAIN grads')
      BY <1>4, <1>11, FS_RemoveElement
    <3>. QED  BY <3>1, HoldingType
  <2>. HIDE DEF isIt
  <2>4. Owners(x)' = CountAt(held, x) + Lost(x, abandoned)
              + Times(x, NodeHandles(nodes)) + Times(x, toRelease) + Times(x, releasing')
              + Holding(x, leafGrad) + Holding(x, grads') + PendingHolding(x, todo)
    BY <1>3, CountedNext
  <2>. QED  BY <1>1, <2>2, <2>3, <2>5, <2>4, Counted
<1>. QED  BY <1>5, <1>6, <1>7, <1>8, <1>9 DEF IInv

LEMMA EndBackwardStep ==
    ASSUME IInv, EndBackward
    PROVE  IInv'
<1>1. TypeOK /\ Quiet /\ KeysOwned /\ RegistryAlive /\ RefsExact /\ NeverPanics
  BY DEF IInv
<1>3. /\ refs' = refs /\ held' = held /\ abandoned' = abandoned /\ recording' = recording
      /\ depth' = depth /\ leaves' = leaves /\ leafGrad' = leafGrad /\ at' = at
      /\ grads' = grads /\ todo' = todo /\ toRelease' = toRelease /\ status' = status
      /\ phase' = "host" /\ phase = "discard" /\ releasing = << >> /\ DOMAIN grads = {}
      /\ nodes' = << >> /\ releasing' = NodeHandles(nodes)
  BY DEF EndBackward, Stepping, memory, tape, registry
<1>4. todo = << >> /\ at = 0 /\ toRelease = << >>
  BY <1>1, <1>3 DEF Quiet
<1>5. TypeOK'
  <2>1. nodes' \in Seq(Node) /\ Len(nodes') = 0 /\ DOMAIN nodes' = {}
    BY <1>3, EmptySeq
  <2>2. at' \in 0..Len(nodes')
    BY <1>3, <1>4, <2>1
  <2>3. releasing' \in Seq(Handles)
    BY <1>1, <1>3, PartsType DEF TypeOK
  <2>. QED  BY <1>1, <1>3, <2>1, <2>2, <2>3 DEF TypeOK, Phases
<1>6. Quiet' /\ NeverPanics'
  BY <1>1, <1>3, <1>4 DEF Quiet, NeverPanics
<1>7. KeysOwned'
  BY <1>3, <1>4 DEF KeysOwned
<1>8. RegistryAlive'
  BY <1>1, <1>3 DEF RegistryAlive, Live
<1>9. RefsExact'
  <2>1. SUFFICES ASSUME NEW x \in Handles PROVE CountAt(refs', x) = Owners(x)'
    BY DEF RefsExact, CountAt
  <2>2. /\ Times(x, releasing) = 0 /\ Times(x, NodeHandles(nodes')) = 0
        /\ Times(x, releasing') = Times(x, NodeHandles(nodes))
    BY <1>3, TimesEmpty, NodeHandlesEmpty
  <2>3. CountAt(refs', x) = CountAt(refs, x)
    BY <1>3
  <2>4. Owners(x)' = CountAt(held, x) + Lost(x, abandoned)
              + Times(x, NodeHandles(nodes')) + Times(x, toRelease) + Times(x, releasing')
              + Holding(x, leafGrad) + Holding(x, grads) + PendingHolding(x, todo)
    BY <1>3, CountedNext
  <2>. QED  BY <1>1, <2>2, <2>3, <2>4, Counted
<1>. QED  BY <1>5, <1>6, <1>7, <1>8, <1>9 DEF IInv

-------------------------------------------------------------------------------
(* tensor_release.                                                           *)

LEMMA TensorReleaseStep ==
    ASSUME IInv, TensorRelease
    PROVE  IInv'
<1>1. TypeOK /\ Quiet /\ KeysOwned /\ RegistryAlive /\ RefsExact /\ NeverPanics
  BY DEF IInv
<1>. DEFINE h == Head(releasing)
<1>2. /\ releasing \in Seq(Handles) /\ releasing # << >>
  BY <1>1 DEF TensorRelease, TypeOK
<1>3. /\ abandoned' = abandoned /\ recording' = recording /\ depth' = depth /\ nodes' = nodes
      /\ held' = held /\ phase' = phase /\ at' = at /\ grads' = grads /\ todo' = todo /\ toRelease' = toRelease
  BY DEF TensorRelease, tape, walk
<1>4. h \in Handles /\ Tail(releasing) \in Seq(Handles)
  BY <1>2, HeadTailProperties
<1>10. \A x : /\ Times(x, releasing) = (IF h = x THEN 1 ELSE 0) + Times(x, Tail(releasing))
              /\ Times(x, Tail(releasing)) \in Nat
  BY <1>2, <1>4, TimesHeadTail, TimesSeqType
<1>11. phase # "fold" /\ refs[h] # 0
  <2>1. phase # "fold"
    BY <1>1, <1>2 DEF Quiet
  <2>2. CountAt(refs, h) # 0
    <3>1. Times(h, releasing) = 1 + Times(h, Tail(releasing)) /\ Times(h, Tail(releasing)) \in Nat
      BY <1>10
    <3>2. Times(h, releasing) # 0
      BY <3>1
    <3>. QED  BY <1>1, <1>4, <3>2, FreeUnowned
  <2>. QED  BY <2>1, <2>2 DEF CountAt
<1>12. ~Panics(h)
  BY <1>11 DEF Panics
<1>13. status' = status /\ (ReleaseShared \/ ReleaseLast)
  BY <1>12 DEF TensorRelease
<1>6. Quiet' /\ NeverPanics'
  <2>1. Quiet'
    BY <1>1, <1>3, <1>11 DEF Quiet
  <2>. QED  BY <1>1, <1>13, <2>1 DEF NeverPanics
<1>7. KeysOwned'
  BY <1>1, <1>3 DEF KeysOwned
<1>14. refs \in [Handles -> Nat] /\ leafGrad \in [DOMAIN leafGrad -> Gradient] /\ DOMAIN leafGrad \subseteq Handles
  BY <1>1 DEF TypeOK
<1>15. CASE ReleaseShared
  <2>1. /\ refs[h] > 1 /\ refs' = [refs EXCEPT ![h] = @ - 1] /\ releasing' = Tail(releasing)
        /\ leaves' = leaves /\ leafGrad' = leafGrad
    BY <1>15 DEF ReleaseShared, registry
  <2>2. refs' \in [Handles -> Nat] /\ \A x \in Handles : refs'[x] = IF x = h THEN refs[x] - 1 ELSE refs[x]
    BY <1>4, <1>14, <2>1
  <2>5. TypeOK'
    BY <1>1, <1>3, <1>4, <1>13, <2>1, <2>2 DEF TypeOK
  <2>8. RegistryAlive'
    <3>1. Live \subseteq Live'
      BY <1>14, <2>1, <2>2 DEF Live
    <3>. QED  BY <1>1, <2>1, <3>1 DEF RegistryAlive
  <2>9. RefsExact'
    <3>1. SUFFICES ASSUME NEW x \in Handles PROVE CountAt(refs', x) = Owners(x)'
      BY DEF RefsExact, CountAt
    <3>. DEFINE isIt == IF h = x THEN 1 ELSE 0
    <3>2. CountAt(refs, x) = CountAt(refs', x) + isIt /\ CountAt(refs', x) \in Nat
      <4>1. refs[x] \in Nat /\ refs'[x] \in Nat
        BY <1>14, <2>2
      <4>. QED  BY <2>2, <4>1 DEF CountAt
    <3>3. Times(x, releasing) = isIt + Times(x, releasing') /\ Times(x, releasing') \in Nat
      BY <1>10, <2>1
    <3>4. isIt \in Nat
      OBVIOUS
    <3>. HIDE DEF isIt
    <3>5. Owners(x)' = CountAt(held, x) + Lost(x, abandoned)
              + Times(x, NodeHandles(nodes)) + Times(x, toRelease) + Times(x, releasing')
              + Holding(x, leafGrad) + Holding(x, grads) + PendingHolding(x, todo)
      BY <1>3, <2>1, CountedNext
    <3>. QED  BY <1>1, <3>2, <3>3, <3>4, <3>5, Counted
  <2>. QED  BY <1>6, <1>7, <2>5, <2>8, <2>9 DEF IInv
<1>16. CASE ReleaseLast
  <2>. DEFINE g == IF h \in DOMAIN leafGrad THEN <<leafGrad[h].grad>> ELSE << >>
  <2>1. /\ refs[h] = 1 /\ refs' = [refs EXCEPT ![h] = 0] /\ releasing' = g \o Tail(releasing)
        /\ leaves' = leaves \ {h} /\ leafGrad' = Without(leafGrad, h)
    BY <1>16 DEF ReleaseLast
  <2>2. refs' \in [Handles -> Nat] /\ \A x \in Handles : refs'[x] = IF x = h THEN 0 ELSE refs[x]
    BY <1>4, <1>14, <2>1
  <2>3. DOMAIN leafGrad' = DOMAIN leafGrad \ {h} /\ leafGrad' \in [DOMAIN leafGrad' -> Gradient]
    BY <1>14, <2>1, WithoutGradient
  <2>4. g \in Seq(Handles) /\ \A x : Holding(x, leafGrad) = Holding(x, leafGrad') + Times(x, g)
    <3>1. CASE h \in DOMAIN leafGrad
      <4>1. leafGrad[h].grad \in Handles /\ g = <<leafGrad[h].grad>>
        BY <1>14, <3>1, GradientOf
      <4>2. \A x : Times(x, g) = IF leafGrad[h].grad = x THEN 1 ELSE 0
        BY <4>1, TimesOne
      <4>3. \A x : Holding(x, leafGrad) = Holding(x, leafGrad') + (IF leafGrad[h].grad = x THEN 1 ELSE 0)
        BY <1>1, <2>1, <3>1, MapsFinite, HoldingWithout
      <4>4. g \in Seq(Handles)
        BY <4>1
      <4>. HIDE DEF g
      <4>. QED  BY <4>2, <4>3, <4>4
    <3>2. CASE h \notin DOMAIN leafGrad
      <4>1. g = << >> /\ g \in Seq(Handles)
        BY <3>2, EmptySeq
      <4>2. leafGrad' = leafGrad
        <5>1. DOMAIN leafGrad' = DOMAIN leafGrad /\ \A k \in DOMAIN leafGrad : leafGrad'[k] = leafGrad[k]
          <6>1. DOMAIN leafGrad \ {h} = DOMAIN leafGrad
            BY <3>2
          <6>. QED  BY <2>1, <2>3, <6>1 DEF Without, Restrict
        <5>. QED  BY <1>14, <2>3, <5>1
      <4>3. \A x : Times(x, g) = 0
        BY <4>1, TimesEmpty
      <4>4. \A x : Holding(x, leafGrad) \in Nat
        BY <1>1, MapsFinite, HoldingType
      <4>. HIDE DEF g
      <4>. QED  BY <4>1, <4>2, <4>3, <4>4
    <3>. QED  BY <3>1, <3>2
  <2>. HIDE DEF g
  <2>6. /\ releasing' \in Seq(Handles)
        /\ \A x : Times(x, releasing') = Times(x, g) + Times(x, Tail(releasing))
    BY <1>4, <2>1, <2>4, ConcatProperties, TimesConcat
  <2>5. TypeOK'
    BY <1>1, <1>3, <1>13, <2>1, <2>2, <2>3, <2>6 DEF TypeOK
  <2>8. RegistryAlive'
    <3>1. Live \ {h} \subseteq Live'
      BY <1>14, <2>2 DEF Live
    <3>. QED  BY <1>1, <2>1, <2>3, <3>1 DEF RegistryAlive
  <2>9. RefsExact'
    <3>1. SUFFICES ASSUME NEW x \in Handles PROVE CountAt(refs', x) = Owners(x)'
      BY DEF RefsExact, CountAt
    <3>. DEFINE isIt == IF h = x THEN 1 ELSE 0
    <3>2. CountAt(refs, x) = CountAt(refs', x) + isIt /\ CountAt(refs', x) \in Nat
      <4>1. refs[x] \in Nat /\ refs'[x] \in Nat
        BY <1>14, <2>2
      <4>. QED  BY <2>1, <2>2, <4>1 DEF CountAt
    <3>3. /\ Times(x, releasing) = isIt + Times(x, Tail(releasing)) /\ Times(x, Tail(releasing)) \in Nat
          /\ Times(x, releasing') = Times(x, g) + Times(x, Tail(releasing))
          /\ Holding(x, leafGrad) = Holding(x, leafGrad') + Times(x, g)
      BY <1>10, <2>4, <2>6
    <3>4. isIt \in Nat
      OBVIOUS
    <3>5. Times(x, g) \in Nat
      BY <2>4, TimesSeqType
    <3>6. Holding(x, leafGrad') \in Nat
      <4>1. IsFiniteSet(DOMAIN leafGrad')
        BY <1>1, <2>3, MapsFinite, FS_RemoveElement
      <4>. QED  BY <4>1, HoldingType
    <3>. HIDE DEF isIt
    <3>7. Owners(x)' = CountAt(held, x) + Lost(x, abandoned)
              + Times(x, NodeHandles(nodes)) + Times(x, toRelease) + Times(x, releasing')
              + Holding(x, leafGrad') + Holding(x, grads) + PendingHolding(x, todo)
      BY <1>3, CountedNext
    <3>8. /\ CountAt(held, x) \in Nat /\ Lost(x, abandoned) \in Nat
          /\ Times(x, NodeHandles(nodes)) \in Nat /\ Times(x, toRelease) \in Nat
          /\ Holding(x, grads) \in Nat /\ PendingHolding(x, todo) \in Nat
          /\ CountAt(refs, x) = CountAt(held, x) + Lost(x, abandoned)
               + Times(x, NodeHandles(nodes)) + Times(x, toRelease) + Times(x, releasing)
               + Holding(x, leafGrad) + Holding(x, grads) + PendingHolding(x, todo)
      BY <1>1, Counted
    <3>. DEFINE tg == Times(x, g)
                tr == Times(x, Tail(releasing))
                hl == Holding(x, leafGrad')
    <3>9. /\ Times(x, releasing) = isIt + tr /\ Times(x, releasing') = tg + tr
          /\ Holding(x, leafGrad) = hl + tg /\ tr \in Nat /\ tg \in Nat /\ hl \in Nat
      BY <3>3, <3>5, <3>6
    <3>. HIDE DEF tg, tr, hl
    <3>10. CountAt(refs, x) = CountAt(held, x) + Lost(x, abandoned)
               + Times(x, NodeHandles(nodes)) + Times(x, toRelease) + (isIt + tr)
               + (hl + tg) + Holding(x, grads) + PendingHolding(x, todo)
      BY <3>8, <3>9
    <3>11. Owners(x)' = CountAt(held, x) + Lost(x, abandoned)
              + Times(x, NodeHandles(nodes)) + Times(x, toRelease) + (tg + tr)
              + hl + Holding(x, grads) + PendingHolding(x, todo)
      BY <3>7, <3>9 DEF hl
    <3>. QED  BY <3>2, <3>4, <3>8, <3>9, <3>10, <3>11
  <2>. QED  BY <1>6, <1>7, <2>5, <2>8, <2>9 DEF IInv
<1>. QED  BY <1>13, <1>15, <1>16

-------------------------------------------------------------------------------
(* The theorems.                                                             *)

LEMMA StutterStep ==
    ASSUME IInv, UNCHANGED vars
    PROVE  IInv'
<1>1. /\ refs' = refs /\ held' = held /\ abandoned' = abandoned /\ recording' = recording
      /\ depth' = depth /\ nodes' = nodes /\ leaves' = leaves /\ leafGrad' = leafGrad
      /\ phase' = phase /\ at' = at /\ grads' = grads /\ todo' = todo
      /\ toRelease' = toRelease /\ releasing' = releasing /\ status' = status
  BY DEF vars, memory, tape, registry, walk
<1>2. TypeOK' /\ Quiet' /\ KeysOwned' /\ RegistryAlive' /\ NeverPanics'
  BY <1>1 DEF IInv, TypeOK, Quiet, KeysOwned, RegistryAlive, Live, NeverPanics
<1>3. RefsExact'
  <2>1. SUFFICES ASSUME NEW x \in Handles PROVE CountAt(refs', x) = Owners(x)'
    BY DEF RefsExact, CountAt
  <2>. QED  BY <1>1, Counted, CountedNext DEF IInv
<1>. QED  BY <1>2, <1>3 DEF IInv

LEMMA NextStep ==
    ASSUME IInv, [Next]_vars
    PROVE  IInv'
<1>1. CASE Host
  <2>1. ASSUME NEW h \in Handles,
               \/ Alloc(h) \/ HostRetain(h) \/ HostRelease(h)
               \/ Variable(h) \/ GetGrad(h) \/ Backward(h)
        PROVE  IInv'
    BY <2>1, AllocStep, HostRetainStep, HostReleaseStep, VariableStep, GetGradStep, BackwardCallStep
  <2>2. ASSUME NEW op \in Ops, Record(op) \/ RecordPaused(op) \/ Untracked(op)
        PROVE  IInv'
    BY <2>2, RecordStep, RecordPausedStep, UntrackedStep
  <2>3. ASSUME NEW hs \in SUBSET Held, TapeZeroGrad(hs)
        PROVE  IInv'
    BY <2>3, TapeZeroGradStep
  <2>4. CASE EnterNoGrad \/ LeaveNoGrad \/ BreakOutOfNoGrad \/ TapeReset
    BY <2>4, EnterNoGradStep, LeaveNoGradStep, BreakOutOfNoGradStep, TapeResetStep
  <2>. QED  BY <1>1, <2>1, <2>2, <2>3, <2>4 DEF Host
<1>2. CASE BackwardStep
  <2>1. ASSUME NEW h \in Handles, FoldLeaf(h) \/ DiscardGrad(h)
        PROVE  IInv'
    BY <2>1, FoldLeafStep, DiscardGradStep
  <2>2. CASE SkipNode \/ WalkNode \/ AccumulateGrad \/ EndWalk \/ EndFold \/ EndBackward
    BY <2>2, SkipNodeStep, WalkNodeStep, AccumulateGradStep, EndWalkStep, EndFoldStep, EndBackwardStep
  <2>. QED  BY <1>2, <2>1, <2>2 DEF BackwardStep
<1>3. CASE TensorRelease
  BY <1>3, TensorReleaseStep
<1>4. CASE UNCHANGED vars
  BY <1>4, StutterStep
<1>. QED  BY <1>1, <1>2, <1>3, <1>4 DEF Next

(* The inductive invariant holds in every reachable state.                   *)
THEOREM Invariance == Spec => []IInv
<1>1. Init => IInv
  BY InitIInv
<1>2. IInv /\ [Next]_vars => IInv'
  BY NextStep
<1>. QED  BY <1>1, <1>2, PTL DEF Spec

(* Every count is the number of the tensor's owners, at every step of every  *)
(* call, for any number of addresses and any allocator that returns free ones. *)
THEOREM CountsExact == Spec => []RefsExact
<1>1. IInv => RefsExact
  BY DEF IInv
<1>. QED  BY <1>1, Invariance, PTL

(* A leaf is a live tensor and a gradient kept is a leaf's.                  *)
THEOREM LeavesLive == Spec => []RegistryAlive
<1>1. IInv => RegistryAlive
  BY DEF IInv
<1>. QED  BY <1>1, Invariance, PTL

(* No address the walk uses as a key can be reused while it does.            *)
THEOREM WalkKeysLive == Spec => []KeysAlive
<1>1. IInv => KeysAlive
  <2>. SUFFICES ASSUME IInv PROVE KeysAlive
    OBVIOUS
  <2>1. TypeOK /\ KeysOwned /\ RefsExact
    BY DEF IInv
  <2>2. ASSUME NEW k \in DOMAIN grads \cup {todo[i].to : i \in DOMAIN todo} PROVE k \in Live
    <3>1. k \in Handles
      <4>1. \A i \in DOMAIN todo : todo[i] \in Pending
        BY <2>1, LenProperties, ElementOfSeq DEF TypeOK
      <4>. QED  BY <2>1, <2>2, <4>1 DEF TypeOK, Pending
    <3>2. CountAt(held, k) > 0 \/ Times(k, NodeHandles(nodes)) > 0
      BY <2>1, <2>2 DEF KeysOwned, CountAt
    <3>3. CountAt(refs, k) # 0
      BY <2>1, <3>1, <3>2, FreeUnowned
    <3>4. refs[k] \in Nat /\ refs[k] # 0
      BY <2>1, <3>1, <3>3 DEF TypeOK, CountAt
    <3>. QED  BY <3>1, <3>4 DEF Live
  <2>. QED  BY <2>2 DEF KeysAlive
<1>. QED  BY <1>1, Invariance, PTL

(* No release panics.                                                        *)
THEOREM ReleasesNeverPanic == Spec => []NeverPanics
<1>1. IInv => NeverPanics
  BY DEF IInv
<1>. QED  BY <1>1, Invariance, PTL
===============================================================================
