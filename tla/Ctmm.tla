-------------------------------- MODULE Ctmm --------------------------------
(* The CTMM pass (malus-sema/src/ctmm.rs): from a checked fn body to the     *)
(* same body with the retains and drops that make every tensor and box be    *)
(* freed statically; retain_sites.rs says which shapes alias a handle, and   *)
(* borrow_inference.rs removes the pairs it can show redundant.              *)
(* Static barriers (insert_barriers) are an option, off by default.          *)
EXTENDS TypedIR

---------------------------------------------------------------------------
(* retain_sites: which existing handles does binding e alias? *)

Site(e, shape) ==
    IF e.k = "id" /\ IsTensor(e.ty) THEN {[n |-> e.n, shape |-> shape, agg |-> FALSE]}
    ELSE IF e.k = "id" /\ IsList(e.ty) THEN {[n |-> e.n, shape |-> shape, agg |-> TRUE]}
    ELSE {}

(* One entry per source occurrence, in operand order. *)
SourceSites(e) ==
    LET Of(j, shape) == SetToSeq(Site(e.a[j], shape))
    IN  CASE e.k = "id" -> SetToSeq(Site(e, "ident"))
          [] e.k = "field" /\ e.n = "data" /\ IsTensor(e.a[1].ty) ->
                 SetToSeq(Site(e.a[1], "data"))
          [] e.k = "array" ->
                 SelectSeq(FlattenSeq([j \in DOMAIN e.a |-> Of(j, "elem")]),
                           LAMBDA s : ~s.agg)
          [] e.k = "struct" -> FlattenSeq([j \in DOMAIN e.a |-> Of(j, "field")])
          [] OTHER -> <<>>

(* Op on each source of e of one kind, in operand order. *)
EachSource(Op(_), e, agg) ==
    FoldLeft(LAMBDA ss, s : IF s.agg = agg THEN Append(ss, Op(s.n)) ELSE ss,
             <<>>, SourceSites(e))

(* Mutant: an element read is taken for a borrow of its container. *)
ElementReadsBorrow(e, n) == <<>>

(* A container element read: the new binding itself needs the reference. *)
BindingRetain(e, n) ==
    IF e.k # "index" \/ KindOf(e.a[1].ty) \notin {"array", "list"} THEN <<>>
    ELSE IF IsTensor(e.ty) THEN <<Retain(n)>>
    ELSE IF KindOf(e.ty) \in {"list", "struct", "enum"} THEN <<RetainAgg(n)>>
    ELSE <<>>

---------------------------------------------------------------------------
(* Hoisting: every GPU-producing operand becomes a named temporary, numbered *)
(* by a counter that is unique in the function.                              *)

GpuProducing(e) ==
    \/ e.k = "kcall"
    \/ e.k = "bin" /\ IsTensor(e.a[1].ty)
    \/ e.k = "call" /\ IsTensor(e.ty) /\ e.gpu = "gpu"

Hoistable(e) == GpuProducing(e) /\ IsTensor(e.ty)

Tmp(c) == "tmp" \o ToString(c)
IdOf(n, e) == [Id(n) EXCEPT !.ty = e.ty, !.gpu = e.gpu, !.g = e.g]

(* acc = [pre, c]: the statements hoisted so far and the counter. *)
HoistTemp(e, acc) ==
    IF Hoistable(e)
    THEN [e |-> IdOf(Tmp(acc.c), e),
          pre |-> Append(acc.pre, St("let", Tmp(acc.c), e, <<>>)), c |-> acc.c + 1]
    ELSE [e |-> e, pre |-> acc.pre, c |-> acc.c]

WithArg(e, h) == [h EXCEPT !.e = [e EXCEPT !.a = Append(@, h.e)]]
OverArgs(Op(_, _), e, acc) ==
    FoldLeft(LAMBDA r, arg : WithArg(r.e, Op(arg, r)),
             [e |-> [e EXCEPT !.a = <<>>], pre |-> acc.pre, c |-> acc.c], e.a)

RECURSIVE HoistExpr(_, _)
Named(h) == HoistTemp(h.e, h)
HoistArg(e, acc) == Named(HoistExpr(e, acc))
HoistOperands(h) == OverArgs(HoistTemp, h.e, h)
HoistExpr(e, acc) ==
    CASE e.k \in {"call", "kcall"} -> OverArgs(HoistArg, e, acc)
      [] e.k \in {"bin", "un"} -> HoistOperands(OverArgs(HoistExpr, e, acc))
      [] e.k \in {"tensor", "index", "field", "array", "tuple", "tidx"} ->
             OverArgs(HoistExpr, e, acc)
      [] OTHER -> [e |-> e, pre |-> acc.pre, c |-> acc.c]

(* A body with its counter, p = [b, c]: each statement replaced by Op's [b, c]. *)
Joined(p, h) == [b |-> p.b \o h.b, c |-> h.c]
Thread(Op(_, _), p) ==
    FoldLeft(LAMBDA r, st : Joined(r, Op(st, r.c)), [b |-> <<>>, c |-> p.c], p.b)

After(h, st) == [b |-> Append(h.pre, [st EXCEPT !.e = h.e]), c |-> h.c]
HoistStmt(st, c) ==
    IF IsSet(st) THEN After(HoistArg(st.e, [pre |-> <<>>, c |-> c]), st)
    ELSE IF st.s \in {"let", "ret", "do"} THEN After(HoistExpr(st.e, [pre |-> <<>>, c |-> c]), st)
    ELSE [b |-> <<st>>, c |-> c]

(* A GPU-producing return value is named too, after the retains are placed. *)
HoistReturn(st, c) ==
    IF st.s # "ret" \/ ~Hoistable(st.e) THEN [b |-> <<st>>, c |-> c]
    ELSE LET n == "ret" \o ToString(c)
         IN  [b |-> <<St("let", n, st.e, <<>>), [st EXCEPT !.e = IdOf(n, st.e)]>>,
              c |-> c + 1]

---------------------------------------------------------------------------
(* Retains *)

(* Mutant: a parameter is handed out as it came. *)
ParamReturnsUnretained(body, params) == body

(* `return x` or `return x.data` of a tensor parameter, at any depth. *)
RECURSIVE ParamReturnRetains(_, _)
ParamReturnRetains(body, params) ==
    LET Returned(e) ==
            IF e.k = "id" THEN {e.n}
            ELSE IF e.k = "field" /\ e.n = "data" /\ e.a[1].k = "id" THEN {e.a[1].n}
            ELSE {}
        Inner(b) == ParamReturnRetains(b, params)
        One(st) == IF st.s = "ret" /\ Returned(st.e) \cap params # {}
                   THEN <<Retain(CHOOSE n \in Returned(st.e) : TRUE), st>>
                   ELSE <<Within(Inner, st)>>
    IN  Splice(One, body)

(* Mutant: the retain of the new binding stands before its let. *)
ContainerReadEarly(st, c) ==
    LET bump == BindingRetain(st.e, st.n)
    IN  [b |-> IF st.s = "let" THEN bump \o <<st>> ELSE <<st>>, c |-> c]

ContainerRead(st, c) ==
    LET n    == IF st.s \in {"let", "set"} THEN st.n ELSE Tmp(c)
        bump == BindingRetain(st.e, n)
    IN  IF bump = <<>> \/ (st.s \notin {"let", "ret"} /\ ~IsSet(st))
        THEN [b |-> <<st>>, c |-> c]
        ELSE IF st.s \in {"let", "set"} THEN [b |-> <<st>> \o bump, c |-> c]
        ELSE [b |-> <<St("let", n, st.e, <<>>)>> \o bump
                      \o <<[st EXCEPT !.e = IdOf(n, st.e)]>>,
              c |-> c + 1]

Binding(st) == st.s \in {"let", "lettup"} \/ IsSet(st)
ArcRetains(st) ==
    Append(IF Binding(st) THEN EachSource(Retain, st.e, FALSE) ELSE <<>>, st)
ListRetains(st) ==
    Append(IF Binding(st) \/ (st.s = "ret" /\ st.e.k = "id")
           THEN EachSource(RetainAgg, st.e, TRUE) ELSE <<>>, st)

---------------------------------------------------------------------------
(* Drops *)

(* The locals of this body alone, with their types: name -> type. *)
Locals(body) ==
    FoldLeft(LAMBDA m, st :
                 IF st.s = "let" THEN (st.n :> st.e.ty) @@ m
                 ELSE IF st.s = "lettup"
                 THEN [n \in ToSet(st.bs[1]) |->
                          PartsOf(st.e.ty)[CHOOSE j \in DOMAIN st.bs[1] : st.bs[1][j] = n]] @@ m
                 ELSE m,
             << >>, body)

(* What a return may hand out and what an assignment moves; match arms are *)
(* not looked into.                                                        *)
RECURSIVE Escaping(_)
Escaping(body) ==
    UNION {IF body[j].s = "ret" \/ (IsSet(body[j]) /\ IsTensor(body[j].e.ty))
           THEN Idents(body[j].e)
           ELSE IF body[j].s = "match" THEN {}
           ELSE UNION {Escaping(body[j].b[x]) : x \in DOMAIN body[j].b} :
           j \in DOMAIN body}

AssignDrops(body, escaping) ==
    LET One(st) == IF st.s = "set" /\ st.n \notin escaping /\ OwnsHeap(st.e.ty)
                   THEN <<Drop(st.n, st.e.ty), st>> ELSE <<st>>
    IN  Splice(One, body)

(* A name never used after its binding has no last use, unless it is a seed. *)
LastUse(body, n, seeded) ==
    LET uses == {j \in DOMAIN body : n \in IdentsS(body[j])}
    IN  IF uses # {} THEN CHOOSE j \in uses : \A x \in uses : x <= j
        ELSE IF seeded THEN 1 ELSE 0

DropsOf(names, types) ==
    LET owned == {n \in names \cap DOMAIN types : OwnsHeap(types[n])}
    IN  [j \in 1..Cardinality(owned) |-> Drop(SetToSeq(owned)[j], types[SetToSeq(owned)[j]])]

LastUseDrops(body, types, seeds, escaping) ==
    LET At(j) == {n \in DOMAIN types \ escaping : LastUse(body, n, n \in seeds) = j}
    IN  FlattenSeq([j \in DOMAIN body |-> <<body[j]>> \o DropsOf(At(j), types)])

(* The bindings whose last drop in this body comes after statement j; a list *)
(* has no entry in the table of drop positions.                              *)
LiveAt(body, j) ==
    {body[x].n : x \in {y \in DOMAIN body : y > j /\ body[y].s = "drop"
                                            /\ ~IsList(body[y].ty)}}

RECURSIVE UnwindReturns(_, _, _), UnwindJumps(_, _, _)
UnwindReturns(body, live, types) ==
    LET Inner(b) == UnwindReturns(b, live, types)
        One(st)  == IF st.s = "ret"
                    THEN DropsOf(live \ Idents(st.e), types) \o <<st>>
                    ELSE <<Within(Inner, st)>>
    IN  Splice(One, body)

(* Not into nested loops: their break and continue are their own. *)
UnwindJumps(body, live, types) ==
    LET Inner(b) == UnwindJumps(b, live, types)
        One(st)  == IF st.s \in {"brk", "cont"} THEN DropsOf(live, types) \o <<st>>
                    ELSE IF IsLoop(st) THEN <<st>> ELSE <<Within(Inner, st)>>
    IN  Splice(One, body)

EarlyReturnUnwinds(body, types) ==
    [j \in DOMAIN body |->
        LET Inner(b) == UnwindReturns(b, LiveAt(body, j), types)
        IN  Within(Inner, body[j])]

(* Mutant: a jump leaves the values of the iteration it cuts short. *)
JumpsWithoutUnwind(body, types) == body

BreakContinueUnwinds(body, types) ==
    FlattenSeq([j \in DOMAIN body |-> UnwindJumps(<<body[j]>>, LiveAt(body, j), types)])

---------------------------------------------------------------------------
(* Barriers: a name in flight must be waited for before it is read or freed. *)

Launched(st) ==
    IF st.s \notin {"let", "do", "ret"} THEN {}
    ELSE IF st.e.k = "kcall"
    THEN {st.e.a[j].n : j \in {x \in DOMAIN st.e.a : st.e.a[x].k = "id"
                                                    /\ IsTensor(st.e.a[x].ty)}}
    ELSE Idents(st.e)

BarrierStep(acc, st) ==
    LET barrier   == St("barrier", "", NoEx, <<>>)
        launches  == st.s \in {"let", "do", "ret"} /\ GpuProducing(st.e)
        inFlight  == acc.pending \cup Launched(st) \cup (IF st.s = "let" THEN {st.n} ELSE {})
        touches   == IF st.s = "drop" THEN ~IsList(st.ty) /\ st.n \in acc.pending
                     ELSE IdentsS(st) \cap acc.pending # {}
    IN  IF launches
        THEN IF st.s = "ret" THEN [b |-> acc.b \o <<barrier, st>>, pending |-> {}]
             ELSE [b |-> Append(acc.b, st), pending |-> inFlight]
        ELSE IF touches THEN [b |-> acc.b \o <<barrier, st>>, pending |-> {}]
        ELSE [acc EXCEPT !.b = Append(@, st)]

Barriers(body) == FoldLeft(BarrierStep, [b |-> <<>>, pending |-> {}], body).b

---------------------------------------------------------------------------
(* The pass on one body; seed: the tensor payloads a match arm binds, c: the  *)
(* counter of temporaries, on: whether static barriers are asked for.         *)

(* The rewrites of one level, in their order. *)
Retained(p) == [p EXCEPT !.b = Splice(ListRetains, Splice(ArcRetains, @))]
Rewritten(p) ==
    Thread(HoistReturn, Retained(Thread(ContainerRead, Thread(HoistStmt, p))))

SeedTypes(seed) ==
    [n \in {seed[j].n : j \in DOMAIN seed} |-> (CHOOSE x \in ToSet(seed) : x.n = n).ty]
Dropped(body, types, seeds, escaping) ==
    LastUseDrops(AssignDrops(body, escaping), types, seeds, escaping)
Unwound(body, types) == BreakContinueUnwinds(EarlyReturnUnwinds(body, types), types)
Freed(body, seed, types) ==
    Unwound(Dropped(body, types, DOMAIN SeedTypes(seed), Escaping(body)), types)
Synchronised(body, on) == IF on THEN Barriers(body) ELSE body
Finish(p, seed, on) ==
    [p EXCEPT !.b = Synchronised(Freed(@, seed, SeedTypes(seed) @@ Locals(@)), on)]

RECURSIVE AnnotateBody(_, _, _, _)

(* Inner scopes first. A match's arms come after the other nested bodies; each *)
(* tensor payload is retained on entry, in field order, and seeded as a local  *)
(* of its arm.                                                                 *)
ArmSeed(st, j) ==
    IF st.s = "match" THEN SelectSeq(st.bs[j], LAMBDA x : IsTensor(x.ty)) ELSE <<>>
WithInner(st, j, inner) == [b |-> <<[st EXCEPT !.b[j] = inner.b]>>, c |-> inner.c]
OnEntry(seed) == [x \in DOMAIN seed |-> Retain(seed[x].n)]
AnnotateInner(st, c, on) ==
    FoldLeft(LAMBDA r, j :
                 WithInner(r.b[1], j,
                           AnnotateBody(OnEntry(ArmSeed(st, j)) \o st.b[j], ArmSeed(st, j), r.c, on)),
             [b |-> <<st>>, c |-> c], [j \in 1..Len(st.b) |-> j])

Scopes(p, on, arms) ==
    Thread(LAMBDA st, c : IF (st.s = "match") = arms THEN AnnotateInner(st, c, on)
                          ELSE [b |-> <<st>>, c |-> c], p)

AnnotateBody(body, seed, c, on) ==
    Finish(Scopes(Scopes(Rewritten([b |-> body, c |-> c]), on, FALSE), on, TRUE), seed, on)

---------------------------------------------------------------------------
(* borrow_inference: the flat top level of the finished body *)

LastAt(body, s, n) ==
    LET at == {j \in DOMAIN body : body[j].s = s /\ body[j].n = n}
              \ (IF s = "drop" THEN {j \in DOMAIN body : ~IsTensor(body[j].ty)} ELSE {})
    IN  IF at = {} THEN 0 ELSE CHOOSE j \in at : \A x \in at : x <= j

Reassigned(body) == {body[j].n : j \in {x \in DOMAIN body : body[x].s = "set"}}

(* name -> the parameter or never-reassigned owner it borrows from ("" for a *)
(* parameter).                                                               *)
Plain(e) ==
    {s.n : s \in {x \in ToSet(SourceSites(e)) : ~x.agg /\ x.shape \in {"ident", "data"}}}

RootOf(src, roots, body, params) ==
    IF src \in params THEN {""}
    ELSE IF src \in DOMAIN roots THEN {roots[src]}
    ELSE {src} \ Reassigned(body)

Borrowing(roots, n, owners) ==
    IF owners = {} THEN roots ELSE (n :> CHOOSE o \in owners : TRUE) @@ roots
BorrowRoots(body, params) ==
    FoldLeft(LAMBDA roots, st :
                 IF st.s # "let" THEN roots
                 ELSE Borrowing(roots, st.n,
                                UNION {RootOf(src, roots, body, params) : src \in Plain(st.e)}),
             << >>, body)

PairOf(body, n) == {LastAt(body, "retain", n), LastAt(body, "drop", n)}

AliasPairs(body, roots) ==
    UNION {PairOf(body, n) : n \in {x \in DOMAIN roots :
               /\ 0 \notin PairOf(body, x)
               /\ \/ roots[x] = ""
                  \/ LastAt(body, "drop", roots[x]) >= LastAt(body, "drop", x)}}

(* A source stored into a struct or array whose drop is in the run of drops *)
(* right after the construction hands its reference over instead.           *)
StoredAt(st) ==
    IF st.s # "let" THEN {}
    ELSE {s.n : s \in {x \in ToSet(SourceSites(st.e)) :
                          ~x.agg /\ x.shape \in {"field", "elem"}}}

HandedOver(body, n, stored) ==
    \E j \in DOMAIN body :
        /\ n \in stored[j]
        /\ \A x \in (j + 1)..Len(body) : n \notin stored[x]
        /\ LastAt(body, "retain", n) # 0
        /\ LastAt(body, "drop", n) > j
        /\ \A x \in (j + 1)..(LastAt(body, "drop", n) - 1) :
               body[x].s = "drop" /\ IsTensor(body[x].ty)

HandOvers(body, stored) ==
    UNION {PairOf(body, n) : n \in {x \in UNION Range(stored) : HandedOver(body, x, stored)}}

DemoteSafeBorrows(body, params) ==
    LET gone == AliasPairs(body, BorrowRoots(body, params))
                \cup HandOvers(body, [j \in DOMAIN body |-> StoredAt(body[j])])
    IN  FlattenSeq([j \in DOMAIN body |-> IF j \in gone THEN <<>> ELSE <<body[j]>>])

(* annotate_fns, for one function: params is its set of tensor parameters. *)
AnnotateFn(body, params, on) ==
    DemoteSafeBorrows(AnnotateBody(ParamReturnRetains(body, params), <<>>, 0, on).b, params)

=============================================================================
