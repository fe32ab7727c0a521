------------------------------- MODULE Induction -------------------------------
(* Induction over the natural numbers, stated for a set instead of a         *)
(* predicate: to prove P(n) for every n, apply NatInduct to {n \in Nat :     *)
(* P(n)}; and, proved with it, what SumFunction of the community modules     *)
(* adds up to and what FlattenSeq lays end to end.                           *)
EXTENDS Integers, FiniteSets, Functions, SequencesExt, FiniteSetTheorems, SequenceTheorems,
        WellFoundedInduction, TLAPS

LEMMA NatLessWellFounded == IsWellFoundedOn({ss \in Nat \X Nat : ss[1] < ss[2]}, Nat)
BY NatLessThanWellFounded DEF OpToRel

(* A set of natural numbers that is not empty has a least element.           *)
LEMMA LeastElement ==
    ASSUME NEW T \in SUBSET Nat, T # {}
    PROVE  \E n \in T : \A m \in T : n <= m
<1>. DEFINE R == {ss \in Nat \X Nat : ss[1] < ss[2]}
<1>1. PICK n \in T : \A m \in T : ~ (<<m, n>> \in R)
  <2>1. IsWellFoundedOn(R, Nat)
    BY NatLessWellFounded
  <2>. HIDE DEF R
  <2>. QED  BY <2>1, WFMin
<1>2. ASSUME NEW m \in T PROVE n <= m
  <2>1. ~ (m < n)
    BY <1>1
  <2>. QED  BY <2>1
<1>. QED  BY <1>2

(* A set of natural numbers with 0 and with the successor of each of its     *)
(* elements is Nat.                                                          *)
LEMMA NatInduct ==
    ASSUME NEW T, 0 \in T, \A n \in Nat : n \in T => n + 1 \in T
    PROVE  \A n \in Nat : n \in T
<1>. SUFFICES ASSUME Nat \ T # {} PROVE FALSE
  OBVIOUS
<1>1. PICK n \in Nat \ T : \A m \in Nat \ T : n <= m
  BY LeastElement
<1>2. n - 1 \in Nat /\ n - 1 + 1 = n
  BY <1>1
<1>3. n - 1 \in T
  BY <1>1, <1>2
<1>. QED  BY <1>1, <1>2, <1>3

-------------------------------------------------------------------------------
(* Sums.  SumFunctionOnSet is a fold: it takes the elements of the set in an *)
(* order fixed by CHOOSE.  Its partial sums are a function by induction on   *)
(* the size of the subset, and neither the order nor what the function is    *)
(* outside the set matters.                                                  *)

Partial(f, D) ==
    LET iter[s \in SUBSET D] ==
            IF s = {} THEN 0
            ELSE LET x == CHOOSE x \in s : TRUE IN f[x] + iter[s \ {x}]
    IN  iter

LEMMA SumIsPartial ==
    ASSUME NEW f, NEW D
    PROVE  SumFunctionOnSet(f, D) = Partial(f, D)[D]
BY DEF SumFunctionOnSet, FoldFunctionOnSet, MapThenFoldSet, Partial

LEMMA SubsetSize ==
    ASSUME NEW D, IsFiniteSet(D), NEW s \in SUBSET D
    PROVE  /\ IsFiniteSet(s) /\ Cardinality(s) \in Nat
           /\ Cardinality(s) = 0 <=> s = {}
           /\ \A x \in s : Cardinality(s \ {x}) = Cardinality(s) - 1
BY FS_Subset, FS_CardinalityType, FS_EmptySet, FS_RemoveElement

(* The equation of the recursive function, for a map on some subsets of D.   *)
SumsUpTo(f, D, n, F) ==
    \A s \in SUBSET D : Cardinality(s) <= n =>
        F[s] = IF s = {} THEN 0
               ELSE f[CHOOSE x \in s : TRUE] + F[s \ {CHOOSE x \in s : TRUE}]

LEMMA PartialStep ==
    ASSUME NEW f, NEW D, IsFiniteSet(D)
    PROVE  /\ Partial(f, D)[{}] = 0
           /\ \A s \in SUBSET D : s # {} =>
                \E x \in s : /\ x = CHOOSE y \in s : TRUE
                             /\ Partial(f, D)[s] = f[x] + Partial(f, D)[s \ {x}]
<1>. DEFINE first(s) == CHOOSE x \in s : TRUE
            next(F) == [s \in SUBSET D |->
                            IF s = {} THEN 0 ELSE f[first(s)] + F[s \ {first(s)}]]
            T == {n \in Nat : \E F : SumsUpTo(f, D, n, F)}
<1>1. \A s \in SUBSET D : s # {} => first(s) \in s
  OBVIOUS
<1>2. 0 \in T
  <2>1. SumsUpTo(f, D, 0, [s \in SUBSET D |-> 0])
    <3>1. \A s \in SUBSET D : Cardinality(s) <= 0 => s = {}
      BY SubsetSize
    <3>. QED  BY <3>1 DEF SumsUpTo
  <2>. QED  BY <2>1
<1>3. ASSUME NEW n \in Nat, n \in T PROVE n + 1 \in T
  <2>1. PICK F : SumsUpTo(f, D, n, F)
    BY <1>3
  <2>2. ASSUME NEW s \in SUBSET D, Cardinality(s) <= n + 1, s # {}
        PROVE  next(F)[s \ {first(s)}] = F[s \ {first(s)}]
    <3>. DEFINE t == s \ {first(s)}
    <3>1. t \in SUBSET D /\ Cardinality(t) <= n
      BY <1>1, <2>2, SubsetSize
    <3>2. F[t] = IF t = {} THEN 0 ELSE f[first(t)] + F[t \ {first(t)}]
      BY <2>1, <3>1 DEF SumsUpTo
    <3>. QED  BY <3>1, <3>2
  <2>3. SumsUpTo(f, D, n + 1, next(F))
    <3>1. SUFFICES ASSUME NEW s \in SUBSET D, Cardinality(s) <= n + 1
                   PROVE  next(F)[s] = IF s = {} THEN 0
                                       ELSE f[first(s)] + next(F)[s \ {first(s)}]
      BY DEF SumsUpTo
    <3>2. next(F)[s] = IF s = {} THEN 0 ELSE f[first(s)] + F[s \ {first(s)}]
      OBVIOUS
    <3>3. CASE s = {}
      BY <3>2, <3>3
    <3>4. CASE s # {}
      <4>1. next(F)[s \ {first(s)}] = F[s \ {first(s)}]
        BY <2>2, <3>1, <3>4
      <4>2. next(F)[s] = f[first(s)] + F[s \ {first(s)}]
        BY <3>2, <3>4
      <4>. HIDE DEF next
      <4>. QED  BY <3>4, <4>1, <4>2
    <3>. QED  BY <3>3, <3>4
  <2>. QED  BY <2>3
<1>4. Cardinality(D) \in T
  <2>1. \A n \in Nat : n \in T
    <3>. HIDE DEF T
    <3>. QED  BY <1>2, <1>3, NatInduct
  <2>. QED  BY <2>1, FS_CardinalityType
<1>5. PICK F : SumsUpTo(f, D, Cardinality(D), F)
  BY <1>4
<1>6. \A s \in SUBSET D : Cardinality(s) <= Cardinality(D)
  BY FS_Subset
<1>7. \A s \in SUBSET D :
        F[s] = IF s = {} THEN 0 ELSE f[first(s)] + F[s \ {first(s)}]
  BY <1>5, <1>6 DEF SumsUpTo
<1>. DEFINE G == [s \in SUBSET D |-> F[s]]
<1>8. G = next(G)
  BY <1>1, <1>7
<1>. DEFINE P == Partial(f, D)
<1>9. P = next(P)
  BY <1>8 DEF Partial
<1>. HIDE DEF P
<1>10. P[{}] = 0
  BY <1>9
<1>11. ASSUME NEW s \in SUBSET D, s # {}
       PROVE  \E x \in s : x = (CHOOSE y \in s : TRUE) /\ P[s] = f[x] + P[s \ {x}]
  <2>1. first(s) \in s
    BY <1>1, <1>11
  <2>. QED  BY <1>9, <1>11, <2>1
<1>. QED  BY <1>10, <1>11 DEF P

(* Partial sums depend on nothing but the elements summed.                   *)
LEMMA PartialSame ==
    ASSUME NEW f, NEW g, NEW D, IsFiniteSet(D), NEW E, IsFiniteSet(E),
           NEW s, s \subseteq D, s \subseteq E, \A x \in s : f[x] = g[x]
    PROVE  Partial(f, D)[s] = Partial(g, E)[s]
<1>. DEFINE T == {n \in Nat : \A t \in SUBSET s :
                        Cardinality(t) = n => Partial(f, D)[t] = Partial(g, E)[t]}
<1>1. 0 \in T
  <2>1. \A t \in SUBSET s : t \in SUBSET D /\ (Cardinality(t) = 0 => t = {})
    BY SubsetSize
  <2>2. Partial(f, D)[{}] = Partial(g, E)[{}]
    BY PartialStep
  <2>. QED  BY <2>1, <2>2
<1>2. ASSUME NEW n \in Nat, n \in T PROVE n + 1 \in T
  <2>1. SUFFICES ASSUME NEW t \in SUBSET s, Cardinality(t) = n + 1
                 PROVE  Partial(f, D)[t] = Partial(g, E)[t]
    OBVIOUS
  <2>2. t # {} /\ t \in SUBSET D /\ t \in SUBSET E
    BY <2>1, SubsetSize
  <2>3. PICK x \in t : /\ x = CHOOSE y \in t : TRUE
                       /\ Partial(f, D)[t] = f[x] + Partial(f, D)[t \ {x}]
    BY <2>2, PartialStep
  <2>4. Partial(g, E)[t] = g[x] + Partial(g, E)[t \ {x}]
    <3>1. PICK y \in t : /\ y = CHOOSE z \in t : TRUE
                         /\ Partial(g, E)[t] = g[y] + Partial(g, E)[t \ {y}]
      BY <2>2, PartialStep
    <3>. QED  BY <2>3, <3>1
  <2>5. Cardinality(t \ {x}) = n /\ t \ {x} \in SUBSET s
    BY <2>1, <2>2, SubsetSize
  <2>6. Partial(f, D)[t \ {x}] = Partial(g, E)[t \ {x}]
    BY <1>2, <2>5
  <2>. QED  BY <2>3, <2>4, <2>6
<1>3. \A n \in Nat : n \in T
  <2>. HIDE DEF T
  <2>. QED  BY <1>1, <1>2, NatInduct
<1>. QED  BY <1>3, SubsetSize

LEMMA PartialType ==
    ASSUME NEW N \in {Nat, Int}, NEW D, IsFiniteSet(D), NEW f, \A x \in D : f[x] \in N
    PROVE  \A s \in SUBSET D : Partial(f, D)[s] \in N
<1>. DEFINE P == Partial(f, D)
            T == {n \in Nat : \A s \in SUBSET D : Cardinality(s) = n => P[s] \in N}
<1>0. /\ P[{}] = 0
      /\ \A s \in SUBSET D : s # {} =>
            \E x \in s : P[s] = f[x] + P[s \ {x}]
  BY PartialStep
<1>. HIDE DEF P
<1>1. 0 \in T
  <2>1. \A s \in SUBSET D : Cardinality(s) = 0 => s = {}
    BY SubsetSize
  <2>2. 0 \in N
    OBVIOUS
  <2>. QED  BY <1>0, <2>1, <2>2
<1>2. ASSUME NEW n \in Nat, n \in T PROVE n + 1 \in T
  <2>1. SUFFICES ASSUME NEW s \in SUBSET D, Cardinality(s) = n + 1
                 PROVE  P[s] \in N
    OBVIOUS
  <2>2. s # {}
    BY <2>1, SubsetSize
  <2>3. PICK y \in s : P[s] = f[y] + P[s \ {y}]
    BY <1>0, <2>2
  <2>4. s \ {y} \in SUBSET D /\ Cardinality(s \ {y}) = n
    BY <2>1, <2>3, SubsetSize
  <2>5. P[s \ {y}] \in N /\ f[y] \in N
    BY <1>2, <2>4
  <2>6. \A i, j \in N : i + j \in N
    OBVIOUS
  <2>. QED  BY <2>3, <2>5, <2>6
<1>3. \A n \in Nat : n \in T
  <2>. HIDE DEF T
  <2>. QED  BY <1>1, <1>2, NatInduct
<1>. QED  BY <1>3, SubsetSize DEF P

(* Any element of the set can be the one that is taken out first.            *)
LEMMA PartialTake ==
    ASSUME NEW D, IsFiniteSet(D), NEW f, \A x \in D : f[x] \in Int
    PROVE  \A s \in SUBSET D : \A x \in s :
                Partial(f, D)[s] = f[x] + Partial(f, D)[s \ {x}]
<1>. DEFINE P == Partial(f, D)
            T == {n \in Nat : \A s \in SUBSET D : Cardinality(s) = n =>
                    \A x \in s : P[s] = f[x] + P[s \ {x}]}
<1>0. /\ \A s \in SUBSET D : P[s] \in Int
      /\ \A s \in SUBSET D : s # {} =>
            \E x \in s : P[s] = f[x] + P[s \ {x}]
  BY PartialStep, PartialType
<1>. HIDE DEF P
<1>1. 0 \in T
  <2>1. \A s \in SUBSET D : Cardinality(s) = 0 => s = {}
    BY SubsetSize
  <2>. QED  BY <2>1
<1>2. ASSUME NEW n \in Nat, n \in T PROVE n + 1 \in T
  <2>1. SUFFICES ASSUME NEW s \in SUBSET D, Cardinality(s) = n + 1, NEW x \in s
                 PROVE  P[s] = f[x] + P[s \ {x}]
    OBVIOUS
  <2>2. PICK y \in s : P[s] = f[y] + P[s \ {y}]
    BY <1>0
  <2>3. ASSUME NEW z \in s PROVE s \ {z} \in SUBSET D /\ Cardinality(s \ {z}) = n
    <3>1. Cardinality(s \ {z}) = Cardinality(s) - 1
      BY SubsetSize
    <3>. QED  BY <2>1, <3>1
  <2>4. CASE x # y
    <3>1. x \in s \ {y} /\ y \in s \ {x}
      BY <2>4
    <3>2. P[s \ {y}] = f[x] + P[(s \ {y}) \ {x}]
      BY <1>2, <2>3, <3>1
    <3>3. P[s \ {x}] = f[y] + P[(s \ {x}) \ {y}]
      BY <1>2, <2>3, <3>1
    <3>4. (s \ {y}) \ {x} = (s \ {x}) \ {y}
      OBVIOUS
    <3>. DEFINE rest == P[(s \ {x}) \ {y}]
                fx == f[x]
                fy == f[y]
    <3>5. P[s] = fy + (fx + rest) /\ P[s \ {x}] = fy + rest
      BY <2>2, <3>2, <3>3, <3>4
    <3>6. fx \in Int /\ fy \in Int /\ rest \in Int
      BY <1>0
    <3>. HIDE DEF fx, fy, rest
    <3>7. P[s] = fx + P[s \ {x}]
      BY <3>5, <3>6
    <3>. QED  BY <3>7 DEF fx
  <2>. QED  BY <2>2, <2>4
<1>3. \A n \in Nat : n \in T
  <2>. HIDE DEF T
  <2>. QED  BY <1>1, <1>2, NatInduct
<1>. QED  BY <1>3, SubsetSize DEF P

(* The three facts about the sum of all values of a function.                *)
LEMMA SumType ==
    ASSUME NEW N \in {Nat, Int}, NEW f, IsFiniteSet(DOMAIN f), \A x \in DOMAIN f : f[x] \in N
    PROVE  SumFunction(f) \in N
BY PartialType, SumIsPartial DEF SumFunction

LEMMA SumZero ==
    ASSUME NEW f, IsFiniteSet(DOMAIN f), \A x \in DOMAIN f : f[x] = 0
    PROVE  SumFunction(f) = 0
<1>. DEFINE D == DOMAIN f
            P == Partial(f, D)
            T == {n \in Nat : \A s \in SUBSET D : Cardinality(s) = n => P[s] = 0}
<1>0. /\ P[{}] = 0
      /\ \A s \in SUBSET D : s # {} =>
            \E x \in s : P[s] = f[x] + P[s \ {x}]
  BY PartialStep
<1>. HIDE DEF P
<1>1. 0 \in T
  <2>1. \A s \in SUBSET D : Cardinality(s) = 0 => s = {}
    BY SubsetSize
  <2>. QED  BY <1>0, <2>1
<1>2. ASSUME NEW n \in Nat, n \in T PROVE n + 1 \in T
  <2>1. SUFFICES ASSUME NEW s \in SUBSET D, Cardinality(s) = n + 1
                 PROVE  P[s] = 0
    OBVIOUS
  <2>2. PICK y \in s : P[s] = f[y] + P[s \ {y}]
    BY <1>0, <2>1, SubsetSize
  <2>3. s \ {y} \in SUBSET D /\ Cardinality(s \ {y}) = n
    BY <2>1, <2>2, SubsetSize
  <2>. QED  BY <1>2, <2>2, <2>3
<1>3. \A n \in Nat : n \in T
  <2>. HIDE DEF T
  <2>. QED  BY <1>1, <1>2, NatInduct
<1>4. P[D] = 0
  BY <1>3, FS_CardinalityType
<1>. QED  BY <1>4, SumIsPartial DEF SumFunction, P

LEMMA SumTake ==
    ASSUME NEW f, IsFiniteSet(DOMAIN f), \A x \in DOMAIN f : f[x] \in Int,
           NEW x \in DOMAIN f
    PROVE  /\ SumFunction(f) = f[x] + SumFunction([y \in DOMAIN f \ {x} |-> f[y]])
           /\ SumFunction([y \in DOMAIN f \ {x} |-> f[y]]) \in Int
<1>. DEFINE D == DOMAIN f
            E == DOMAIN f \ {x}
            g == [y \in E |-> f[y]]
<1>1. DOMAIN g = E /\ IsFiniteSet(E) /\ E \in SUBSET D /\ \A y \in E : g[y] = f[y]
  BY FS_Subset
<1>2. SumFunction(f) = Partial(f, D)[D] /\ SumFunction(g) = Partial(g, E)[E]
  BY <1>1, SumIsPartial DEF SumFunction
<1>. HIDE DEF g
<1>3. Partial(f, D)[D] = f[x] + Partial(f, D)[D \ {x}]
  BY PartialTake
<1>4. Partial(f, D)[E] = Partial(g, E)[E]
  BY <1>1, PartialSame
<1>5. SumFunction(g) \in Int
  BY <1>1, SumType
<1>. QED  BY <1>2, <1>3, <1>4, <1>5 DEF g

(* The sum of a function that gains a key, or whose value changes at one.    *)
LEMMA SumGains ==
    ASSUME NEW f, IsFiniteSet(DOMAIN f), \A x \in DOMAIN f : f[x] \in Int,
           NEW k, k \notin DOMAIN f, NEW g, DOMAIN g = DOMAIN f \cup {k}, g[k] \in Int,
           g = [x \in DOMAIN g |-> g[x]], f = [x \in DOMAIN f |-> f[x]],
           \A x \in DOMAIN f : g[x] = f[x]
    PROVE  SumFunction(g) = SumFunction(f) + g[k]
<1>1. f = [y \in DOMAIN g \ {k} |-> g[y]]
  OBVIOUS
<1>2. IsFiniteSet(DOMAIN g)
  BY FS_AddElement
<1>3. /\ SumFunction(g) = g[k] + SumFunction([y \in DOMAIN g \ {k} |-> g[y]])
      /\ SumFunction([y \in DOMAIN g \ {k} |-> g[y]]) \in Int
  BY <1>2, SumTake
<1>4. SumFunction(g) = g[k] + SumFunction(f) /\ SumFunction(f) \in Int
  BY <1>1, <1>3
<1>. QED  BY <1>4

LEMMA SumChanges ==
    ASSUME NEW f, IsFiniteSet(DOMAIN f), \A x \in DOMAIN f : f[x] \in Int,
           NEW g, DOMAIN g = DOMAIN f, NEW k \in DOMAIN f, g[k] \in Int,
           \A x \in DOMAIN f \ {k} : g[x] = f[x]
    PROVE  SumFunction(g) = SumFunction(f) - f[k] + g[k]
<1>1. [y \in DOMAIN g \ {k} |-> g[y]] = [y \in DOMAIN f \ {k} |-> f[y]]
  OBVIOUS
<1>2. SumFunction(f) = f[k] + SumFunction([y \in DOMAIN f \ {k} |-> f[y]])
      /\ SumFunction([y \in DOMAIN f \ {k} |-> f[y]]) \in Int
  BY SumTake
<1>3. SumFunction(g) = g[k] + SumFunction([y \in DOMAIN g \ {k} |-> g[y]])
  BY SumTake
<1>. DEFINE rest == SumFunction([y \in DOMAIN f \ {k} |-> f[y]])
            fk == f[k]
            gk == g[k]
<1>4. /\ SumFunction(f) = fk + rest /\ SumFunction(g) = gk + rest
      /\ fk \in Int /\ gk \in Int /\ rest \in Int
  BY <1>1, <1>2, <1>3
<1>. HIDE DEF rest, fk, gk
<1>5. SumFunction(g) = SumFunction(f) - fk + gk
  BY <1>4
<1>. QED  BY <1>5 DEF fk, gk
-------------------------------------------------------------------------------
(* Sequences laid end to end.                                                *)

(* The function FlattenSeq computes, for the first n elements of s.          *)
FlatBody(s, n, f) == [i \in 1..n |-> IF i = 1 THEN s[i] ELSE f[i - 1] \o s[i]]
Flat(s, n) == CHOOSE f : f = FlatBody(s, n, f)

LEMMA FlatExists ==
    ASSUME NEW s
    PROVE  \A n \in Nat : \E f : f = FlatBody(s, n, f)
<1>. DEFINE T == {n \in Nat : \E f : f = FlatBody(s, n, f)}
<1>1. 0 \in T
  <2>. DEFINE f == [i \in 1..0 |-> s[i]]
  <2>1. f = FlatBody(s, 0, f)
    BY DEF FlatBody
  <2>. QED  BY <2>1
<1>2. ASSUME NEW n \in Nat, n \in T PROVE n + 1 \in T
  <2>1. PICK f : f = FlatBody(s, n, f)
    BY <1>2
  <2>. DEFINE g == [i \in 1..(n + 1) |-> IF i = n + 1 THEN (IF i = 1 THEN s[i] ELSE f[n] \o s[i])
                                                     ELSE f[i]]
  <2>2. \A i \in 1..n : f[i] = IF i = 1 THEN s[i] ELSE f[i - 1] \o s[i]
    BY <2>1 DEF FlatBody
  <2>3. ASSUME NEW i \in 1..(n + 1) PROVE g[i] = IF i = 1 THEN s[i] ELSE g[i - 1] \o s[i]
    <3>1. CASE i = n + 1
      <4>1. i # 1 => i - 1 \in 1..(n + 1) /\ i - 1 # n + 1 /\ i - 1 = n
        BY <3>1
      <4>2. i # 1 => g[i - 1] = f[n]
        BY <4>1
      <4>. QED  BY <3>1, <4>2
    <3>2. CASE i # n + 1
      <4>1. i \in 1..n /\ (i # 1 => i - 1 \in 1..(n + 1) /\ i - 1 # n + 1)
        BY <3>2
      <4>2. g[i] = f[i] /\ (i # 1 => g[i - 1] = f[i - 1])
        BY <3>2, <4>1
      <4>. QED  BY <2>2, <4>1, <4>2
    <3>. QED  BY <3>1, <3>2
  <2>4. g = [i \in 1..(n + 1) |-> g[i]]
    OBVIOUS
  <2>. HIDE DEF g
  <2>5. g = FlatBody(s, n + 1, g)
    BY <2>3, <2>4 DEF FlatBody
  <2>. QED  BY <2>5
<1>. HIDE DEF T
<1>3. \A n \in Nat : n \in T
  BY <1>1, <1>2, NatInduct
<1>. QED  BY <1>3 DEF T

LEMMA FlatStep ==
    ASSUME NEW s, NEW n \in Nat, NEW i \in 1..n
    PROVE  Flat(s, n)[i] = IF i = 1 THEN s[1] ELSE Flat(s, n)[i - 1] \o s[i]
<1>1. Flat(s, n) = FlatBody(s, n, Flat(s, n))
  BY FlatExists DEF Flat
<1>. QED  BY <1>1 DEF FlatBody

LEMMA FlattenSeqFlat ==
    ASSUME NEW s, Len(s) # 0
    PROVE  FlattenSeq(s) = Flat(s, Len(s))[Len(s)]
BY DEF FlattenSeq, Flat, FlatBody

(* An element appended changes nothing before it.                            *)
LEMMA FlatPrefix ==
    ASSUME NEW S, NEW s \in Seq(S), NEW e \in S
    PROVE  \A k \in 1..Len(s) : Flat(Append(s, e), Len(s) + 1)[k] = Flat(s, Len(s))[k]
<1>. DEFINE t == Append(s, e)
            n == Len(s)
            m == Len(s) + 1
            T == {i \in Nat : i \in 1..n => Flat(t, m)[i] = Flat(s, n)[i]}
<1>1. n \in Nat /\ m = n + 1 /\ \A i \in 1..n : s[i] = t[i]
  BY LenProperties
<1>. HIDE DEF t, n, m
<1>2. 0 \in T
  OBVIOUS
<1>3. ASSUME NEW i \in Nat, i \in T PROVE i + 1 \in T
  <2>1. SUFFICES ASSUME i + 1 \in 1..n PROVE Flat(t, m)[i + 1] = Flat(s, n)[i + 1]
    OBVIOUS
  <2>2. m \in Nat /\ i + 1 \in 1..n /\ i + 1 \in 1..m /\ (i + 1 # 1 => i \in 1..n)
    BY <1>1, <2>1
  <2>3. Flat(s, n)[i + 1] = IF i + 1 = 1 THEN s[1] ELSE Flat(s, n)[i] \o s[i + 1]
    BY <1>1, <2>2, FlatStep
  <2>4. Flat(t, m)[i + 1] = IF i + 1 = 1 THEN t[1] ELSE Flat(t, m)[i] \o t[i + 1]
    BY <2>2, FlatStep
  <2>5. s[i + 1] = t[i + 1] /\ (i + 1 = 1 => s[1] = t[1])
    BY <1>1, <2>1
  <2>6. i + 1 # 1 => Flat(t, m)[i] = Flat(s, n)[i]
    BY <1>3, <2>2
  <2>. QED  BY <2>3, <2>4, <2>5, <2>6
<1>. HIDE DEF T
<1>4. \A i \in Nat : i \in T
  BY <1>2, <1>3, NatInduct
<1>5. \A i \in 1..n : Flat(t, m)[i] = Flat(s, n)[i]
  BY <1>1, <1>4 DEF T
<1>. QED  BY <1>5 DEF t, n, m

LEMMA FlatType ==
    ASSUME NEW S, NEW s \in Seq(Seq(S))
    PROVE  /\ \A i \in 1..Len(s) : Flat(s, Len(s))[i] \in Seq(S)
           /\ FlattenSeq(s) \in Seq(S)
<1>. DEFINE n == Len(s)
            T == {i \in Nat : i \in 1..n => Flat(s, n)[i] \in Seq(S)}
<1>1. n \in Nat /\ \A i \in 1..n : s[i] \in Seq(S)
  BY LenProperties, ElementOfSeq
<1>. HIDE DEF n
<1>2. 0 \in T
  OBVIOUS
<1>3. ASSUME NEW i \in Nat, i \in T PROVE i + 1 \in T
  <2>1. SUFFICES ASSUME i + 1 \in 1..n PROVE Flat(s, n)[i + 1] \in Seq(S)
    OBVIOUS
  <2>2. Flat(s, n)[i + 1] = IF i + 1 = 1 THEN s[1] ELSE Flat(s, n)[i] \o s[i + 1]
    BY <1>1, <2>1, FlatStep
  <2>3. CASE i = 0
    BY <1>1, <2>1, <2>2, <2>3
  <2>4. CASE i # 0
    <3>1. Flat(s, n)[i] \in Seq(S) /\ s[i + 1] \in Seq(S)
      BY <1>1, <1>3, <2>1, <2>4
    <3>. QED  BY <2>2, <2>4, <3>1
  <2>. QED  BY <2>3, <2>4
<1>. HIDE DEF T
<1>4. \A i \in Nat : i \in T
  BY <1>2, <1>3, NatInduct
<1>5. \A i \in 1..n : Flat(s, n)[i] \in Seq(S)
  BY <1>1, <1>4 DEF T
<1>6. CASE n = 0
  <2>1. s = << >> /\ FlattenSeq(s) = s
    BY <1>6, EmptySeq DEF FlattenSeq, n
  <2>2. << >> \in Seq(S)
    BY EmptySeq
  <2>. QED  BY <2>1, <2>2, <1>5 DEF n
<1>7. CASE n # 0
  <2>1. FlattenSeq(s) = Flat(s, n)[n]
    BY <1>7, FlattenSeqFlat DEF n
  <2>. QED  BY <1>1, <1>5, <1>7, <2>1 DEF n
<1>. QED  BY <1>6, <1>7

LEMMA FlattenAppend ==
    ASSUME NEW S, NEW s \in Seq(Seq(S)), NEW e \in Seq(S)
    PROVE  FlattenSeq(Append(s, e)) = FlattenSeq(s) \o e
<1>. DEFINE n == Len(s)
            t == Append(s, e)
<1>1. n \in Nat /\ Len(t) = n + 1 /\ t[n + 1] = e /\ \A i \in 1..n : s[i] = t[i]
  BY LenProperties
<1>2. n = 0 => FlattenSeq(s) = << >>
  BY EmptySeq DEF FlattenSeq
<1>3. n # 0 => FlattenSeq(s) = Flat(s, n)[n]
  BY FlattenSeqFlat
<1>. HIDE DEF n, t
<1>4. FlattenSeq(t) = Flat(t, n + 1)[n + 1]
  BY <1>1, FlattenSeqFlat
<1>5. Flat(t, n + 1)[n + 1] = IF n = 0 THEN t[1] ELSE Flat(t, n + 1)[n] \o t[n + 1]
  <2>. DEFINE m == n + 1
  <2>1. m \in Nat /\ m \in 1..m /\ (m = 1 <=> n = 0) /\ m - 1 = n
    BY <1>1
  <2>. HIDE DEF m
  <2>2. Flat(t, m)[m] = IF m = 1 THEN t[1] ELSE Flat(t, m)[m - 1] \o t[m]
    BY <2>1, FlatStep
  <2>3. Flat(t, m)[m] = IF n = 0 THEN t[1] ELSE Flat(t, m)[n] \o t[m]
    BY <2>1, <2>2
  <2>. QED  BY <2>3 DEF m
<1>6. n # 0 => Flat(t, n + 1)[n] = Flat(s, n)[n]
  <2>1. \A k \in 1..n : Flat(t, n + 1)[k] = Flat(s, n)[k]
    BY FlatPrefix DEF n, t
  <2>. QED  BY <1>1, <2>1
<1>7. CASE n = 0
  <2>1. FlattenSeq(t) = e
    BY <1>1, <1>4, <1>5, <1>7
  <2>2. << >> \o e = e
    BY ConcatEmptySeq
  <2>. QED  BY <1>2, <1>7, <2>1, <2>2 DEF t
<1>8. CASE n # 0
  BY <1>1, <1>3, <1>4, <1>5, <1>6, <1>8 DEF t
<1>. QED  BY <1>7, <1>8

(* What is laid end to end begins as its first part does.                    *)
LEMMA FlattenFirst ==
    ASSUME NEW S, NEW s \in Seq(Seq(S)), Len(s) > 0, Len(s[1]) > 0
    PROVE  FlattenSeq(s)[1] = s[1][1]
<1> DEFINE n == Len(s)
           T == {i \in Nat : i \in 1..n => Len(Flat(s, n)[i]) > 0 /\ Flat(s, n)[i][1] = s[1][1]}
<1>1. n \in Nat /\ n > 0 /\ \A i \in 1..n : s[i] \in Seq(S) /\ Flat(s, n)[i] \in Seq(S)
  BY FlatType
<1>2. 0 \in T  OBVIOUS
<1>3. ASSUME NEW i \in Nat, i \in T PROVE i + 1 \in T
  <2> SUFFICES ASSUME i + 1 \in 1..n
               PROVE  Len(Flat(s, n)[i + 1]) > 0 /\ Flat(s, n)[i + 1][1] = s[1][1]
    OBVIOUS
  <2>1. Flat(s, n)[i + 1] = IF i + 1 = 1 THEN s[1] ELSE Flat(s, n)[i] \o s[i + 1]
    BY <1>1, FlatStep
  <2>2. CASE i = 0
    <3>1. Flat(s, n)[i + 1] = s[1]  BY <2>1, <2>2
    <3> QED  BY <3>1
  <2>3. CASE i # 0
    <3>1. i \in 1..n /\ i + 1 # 1  BY <1>1, <2>3
    <3> DEFINE a == Flat(s, n)[i]
               b == s[i + 1]
               c == Flat(s, n)[i + 1]
    <3>2. a \in Seq(S) /\ b \in Seq(S) /\ Len(a) > 0 /\ a[1] = s[1][1]  BY <1>1, <1>3, <3>1
    <3>3. c = a \o b  BY <2>1, <3>1
    <3> HIDE DEF a, b, c
    <3>4. Len(c) > 0 /\ c[1] = a[1]  BY <3>2, <3>3
    <3> QED  BY <3>2, <3>4 DEF c
  <2> QED  BY <2>2, <2>3
<1> HIDE DEF T
<1>4. n \in T  BY <1>1, <1>2, <1>3, NatInduct
<1>5. Len(s) # 0 /\ n \in 1..n  BY <1>1
<1>6. FlattenSeq(s) = Flat(s, n)[n]  BY <1>5, FlattenSeqFlat
<1> QED  BY <1>4, <1>5, <1>6 DEF T
===============================================================================
