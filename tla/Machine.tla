------------------------------- MODULE Machine -------------------------------
(* What a compiled fn does to the heap (malus-codegen-cpu/src/lib.rs): the    *)
(* body CTMM annotated is lowered, its names resolved by one flat var_map,    *)
(* and executed one statement at a time. A caller owns one reference to each  *)
(* parameter, the ABI is borrowing. A box is an ARC header and its slots; an  *)
(* array has no header. Scalars are 0, a branch goes either way, an index is  *)
(* its slot number.                                                           *)
EXTENDS Ctmm

CONSTANTS Sources,   \* what is compiled: [body, on], the body of a fn of Params
                     \* and whether --static-barriers is given
          Params,    \* its parameters, <<name, type>>s
          Fns,       \* what may be called: name -> Callee(ps, body)
          MaxSlots,  \* the most slots of a box
          LoopBound  \* the most iterations of a for or while loop

VARIABLES src,    \* the body before the pass
          barriers, \* whether it is compiled with static barriers
          phase,  \* "source", "running", "done", "refused"
          stack,  \* frames [code, vars, into], innermost last
          heap,   \* [obj: handle -> [rc, ty, kids, tag], next, bad]
          ret     \* what the fn returned

vars == <<src, barriers, phase, stack, heap, ret>>

---------------------------------------------------------------------------
(* Lowering: a let declares a new Variable and from then on the name means    *)
(* it, in every statement lowered later, whatever block that one is in.       *)

VarName(n, k) == n \o "." \o ToString(k)

RECURSIVE Renamed(_, _)
Renamed(e, map) ==
    [e EXCEPT !.n = IF e.k = "id" THEN map[e.n] ELSE @,
              !.a = [j \in DOMAIN e.a |-> Renamed(e.a[j], map)]]

(* acc = [map, next, ok]: var_map, the next Variable, and whether every name *)
(* was found so far.                                                        *)
Declare(names, acc) ==
    FoldLeft(LAMBDA r, n : [r EXCEPT !.map = (n :> VarName(n, r.next)) @@ @, !.next = @ + 1],
             [map |-> acc.map, next |-> acc.next, ok |-> acc.ok], names)

(* The names an inner body finds bound on entry. *)
Binders(st, j) ==
    CASE st.s \in {"for", "forin"} -> <<st.n>>
      [] st.s = "match" -> [x \in DOMAIN st.bs[j] |-> st.bs[j][x].n]
      [] OTHER -> <<>>

Names(st) ==
    Idents(st.e) \cup (IF IsSet(st) \/ st.s \in {"drop", "retain", "retagg"} THEN {st.n} ELSE {})

(* r: the bodies lowered so far; in: var_map on entry to this one. *)
WithBody(r, inner, in, bound) ==
    [inner EXCEPT !.b = Append(r.b, @),
                  !.bs = Append(r.bs, [x \in DOMAIN bound |-> in.map[bound[x]]])]

(* Whether nothing follows st in its block. *)
RECURSIVE Terminates(_)
Terminates(st) ==
    \/ st.s \in {"ret", "brk", "cont"}
    \/ /\ st.s = "match" \/ (st.s = "if" /\ Len(st.b) = 2)
       /\ \A x \in DOMAIN st.b : \E j \in DOMAIN st.b[x] : Terminates(st.b[x][j])
(* The statements that are lowered: none after one that terminates. *)
Reached(body) ==
    LET ends == {j \in DOMAIN body : Terminates(body[j])}
    IN  IF ends = {} THEN body ELSE SubSeq(body, 1, Min(ends))

RECURSIVE Lower(_, _)
LowerBody(r, body, in, bound) == WithBody(r, Lower(body, in), in, bound)
LowerInner(st, acc) ==
    FoldLeft(LAMBDA r, j : LowerBody(r, IF st.s = "nograd" THEN st.b[j] ELSE Reached(st.b[j]),
                                     Declare(Binders(st, j), r), Binders(st, j)),
             [b |-> <<>>, bs |-> <<>>, map |-> acc.map, next |-> acc.next, ok |-> acc.ok],
             [j \in DOMAIN st.b |-> j])

Lowered(st, map, new) ==
    [st EXCEPT !.e = Renamed(@, map),
               !.n = IF st.s = "let" THEN new.map[@] ELSE IF @ \in Names(st) THEN map[@] ELSE @,
               !.b = IF IsControl(st) THEN new.b ELSE @,
               !.bs = IF IsControl(st) THEN new.bs
                      ELSE IF st.s = "lettup" THEN <<[x \in DOMAIN @[1] |-> new.map[@[1][x]]]>>
                      ELSE @]
LowerTo(r, st, new) ==
    [b |-> Append(r.b, Lowered(st, r.map, new)), bs |-> <<>>, map |-> new.map,
     next |-> new.next, ok |-> new.ok]
LowerStmt(st, r) ==
    LowerTo(r, st, IF st.s = "let" THEN Declare(<<st.n>>, r)
                   ELSE IF st.s = "lettup" THEN Declare(st.bs[1], r) ELSE LowerInner(st, r))

Lower(body, acc) ==
    FoldLeft(LAMBDA r, st : IF r.ok /\ Names(st) \subseteq DOMAIN r.map THEN LowerStmt(st, r)
                            ELSE [r EXCEPT !.ok = FALSE],
             [b |-> <<>>, bs |-> <<>>, map |-> acc.map, next |-> acc.next, ok |-> acc.ok], body)

Entry(names) == Declare(names, [map |-> << >>, next |-> 1, ok |-> TRUE])

(* ps: the parameters as <<name, type>>. *)
NamesOf(ps) == [j \in DOMAIN ps |-> ps[j][1]]
Compiled(body, ps, on) ==
    LET tensors == {ps[j][1] : j \in {x \in DOMAIN ps : IsTensor(ps[x][2])}}
    IN  Lower(Reached(AnnotateFn(body, tensors, on)), Entry(NamesOf(ps)))

Callee(ps, body) ==
    [ps |-> ps, code |-> [on \in BOOLEAN |-> Compiled(body, ps, on).b]]

Frame(code, ps, args, into) ==
    LET at == [j \in DOMAIN ps |-> VarName(ps[j][1], j)]
    IN  [code |-> code, into |-> into,
         vars |-> [v \in ToSet(at) |-> args[CHOOSE j \in DOMAIN at : at[j] = v]]]

---------------------------------------------------------------------------
(* The heap *)

Live(h, v) == v \in DOMAIN h.obj
Misuse(h)  == [h EXCEPT !.bad = TRUE]

(* [h, v]: the new object is v, with one reference. *)
New(h, ty, kids, tag) ==
    [h |-> [h EXCEPT !.obj = (h.next :> [rc |-> 1, ty |-> ty, kids |-> kids, tag |-> tag]) @@ @,
                     !.next = @ + 1],
     v |-> h.next]

RetainH(h, v) ==
    IF v = 0 THEN h
    ELSE IF ~Live(h, v) THEN Misuse(h) ELSE [h EXCEPT !.obj[v].rc = @ + 1]

(* The types of the slots of an object. *)
SlotTypes(o) ==
    CASE KindOf(o.ty) \in {"struct", "tuple"} -> PartsOf(o.ty)
      [] KindOf(o.ty) = "enum" -> PartsOf(o.ty)[o.tag]
      [] KindOf(o.ty) \in {"array", "list"} -> [j \in DOMAIN o.kids |-> PartsOf(o.ty)]
      [] OTHER -> <<>>

OwnedSlots(o) == {j \in DOMAIN o.kids : OwnsHeap(SlotTypes(o)[j])}

(* The last reference took the contents along; the box itself goes after them. *)
Removed(h, v) ==
    IF ~Live(h, v) THEN Misuse(h)
    ELSE [h EXCEPT !.obj = [x \in DOMAIN @ \ {v} |-> @[x]]]

RECURSIVE ReleaseH(_, _)
ReleaseContents(h, o) ==
    FoldLeft(LAMBDA r, j : IF j \in OwnedSlots(o) THEN ReleaseH(r, o.kids[j]) ELSE r, h,
             [j \in DOMAIN o.kids |-> j])
ReleaseH(h, v) ==
    IF ~Live(h, v) THEN Misuse(h)
    ELSE IF h.obj[v].rc = 1 \/ KindOf(h.obj[v].ty) = "array"
    THEN Removed(ReleaseContents(h, h.obj[v]), v)
    ELSE [h EXCEPT !.obj[v].rc = @ - 1]

---------------------------------------------------------------------------
(* Expressions: operands in order, then the operation on their handles. *)

Touch(h, vs) == IF \E j \in DOMAIN vs : vs[j] # 0 /\ ~Live(h, vs[j]) THEN Misuse(h) ELSE h
Slot(h, v, j) ==
    [h |-> h, v |-> IF Live(h, v) /\ j \in DOMAIN h.obj[v].kids THEN h.obj[v].kids[j] ELSE 0]

(* A kernel, a launch or an operation: a new tensor, which holds no reference *)
(* to its operands, or a scalar.                                             *)
Computed(e, h) == IF IsTensor(e.ty) THEN New(h, e.ty, <<>>, 0) ELSE [h |-> h, v |-> 0]

Apply(e, h, vs) ==
    LET t == Touch(h, vs)
    IN  CASE e.k \in {"struct", "tuple", "array", "enum"} -> New(h, e.ty, vs, e.i)
          [] e.k = "field" /\ e.n = "data" -> [h |-> t, v |-> vs[1]]
          [] e.k = "call" /\ e.n = "variable" -> [h |-> RetainH(t, vs[1]), v |-> vs[1]]
          [] \/ e.k \in {"index", "tidx"} /\ ~IsTensor(e.a[1].ty)
             \/ e.k = "field" /\ ~IsTensor(e.a[1].ty) -> Slot(t, vs[1], e.i)
          [] OTHER -> Computed(e, t)

RECURSIVE Eval(_, _, _)
Push(vs, x)   == [h |-> x.h, vs |-> Append(vs, x.v)]
Applied(e, r) == Apply(e, r.h, r.vs)
EvalAll(es, h, env) ==
    FoldLeft(LAMBDA r, e : Push(r.vs, Eval(e, r.h, env)), [h |-> h, vs |-> <<>>], es)

(* A Variable never defined on this path reads as zero. *)
Eval(e, h, env) ==
    IF e.k = "id" THEN [h |-> h, v |-> IF e.n \in DOMAIN env THEN env[e.n] ELSE 0]
    ELSE IF e.k = "lit" THEN [h |-> h, v |-> 0]
    ELSE Applied(e, EvalAll(e.a, h, env))

---------------------------------------------------------------------------
(* Statements *)

Top   == Last(stack)
Cur   == Head(Top.code)
Rest  == Tail(Top.code)
Value(n) == IF n \in DOMAIN Top.vars THEN Top.vars[n] ELSE 0
Result   == Eval(Cur.e, heap, Top.vars)
At(ss)   == phase = "running" /\ ~heap.bad /\ Top.code # <<>> /\ Cur.s \in ss
Continue(code, env, h) ==
    /\ stack' = Append(Front(stack), [Top EXCEPT !.code = code, !.vars = env])
    /\ heap' = h
    /\ UNCHANGED <<src, barriers, phase, ret>>

(* What stays on the code of a frame while a loop runs, or a no_grad body. *)
Marker(st, k, over) == [st EXCEPT !.x = [NoEx EXCEPT !.k = "again", !.i = k, !.a = over]]
IsMarker(st)  == st.x.k = "again"

UserCall(e) == e.k = "call" /\ e.n \in DOMAIN Fns

Bind ==
    /\ At({"let", "set"})
    /\ ~UserCall(Cur.e)
    /\ \E r \in {Result} : Continue(Rest, (Cur.n :> r.v) @@ Top.vars, r.h)

Discard ==
    /\ At({"do"})
    /\ ~UserCall(Cur.e)
    /\ Continue(Rest, Top.vars, Result.h)

(* A call suspends the caller; the callee borrows its tensor arguments. *)
Call ==
    /\ At({"let", "set", "do"})
    /\ UserCall(Cur.e)
    /\ \E args \in {EvalAll(Cur.e.a, heap, Top.vars)} :
           /\ stack' = Front(stack) \o
                       << [Top EXCEPT !.code = Rest],
                          Frame(Fns[Cur.e.n].code[barriers], Fns[Cur.e.n].ps, args.vs,
                                IF Cur.s = "do" THEN "" ELSE Cur.n) >>
           /\ heap' = args.h
    /\ UNCHANGED <<src, barriers, phase, ret>>

(* A list read from a field is retained on its way out. *)
Leave(v, h) ==
    /\ heap' = h
    /\ IF Len(stack) = 1
       THEN /\ phase' = "done" /\ ret' = v
            /\ stack' = <<>>
       ELSE /\ LET caller == stack[Len(stack) - 1]
               IN  stack' = Append(SubSeq(stack, 1, Len(stack) - 2),
                                   IF Top.into = "" THEN caller
                                   ELSE [caller EXCEPT !.vars = (Top.into :> v) @@ @])
            /\ UNCHANGED <<phase, ret>>
    /\ UNCHANGED <<src, barriers>>

Return ==
    /\ At({"ret"})
    /\ \E r \in {Result} :
           Leave(r.v, IF IsList(Cur.e.ty) /\ Cur.e.k = "field" THEN RetainH(r.h, r.v) ELSE r.h)

FallOff ==
    /\ phase = "running" /\ ~heap.bad /\ Top.code = <<>>
    /\ Leave(0, heap)

(* The new value first, then the old slot is released, then the store. *)
Overwritten(h, base, i) ==
    IF i \in OwnedSlots(heap.obj[base]) THEN ReleaseH(h, heap.obj[base].kids[i]) ELSE h
Stored(h, base, i, v) ==
    IF Live(h, base) THEN [h EXCEPT !.obj[base].kids[i] = v] ELSE Misuse(h)
StoreSlot ==
    /\ At({"seti", "setf"})
    /\ \E base \in {Value(Cur.n)}, r \in {Result} :
           Continue(Rest, Top.vars,
                    IF Live(heap, base)
                    THEN Stored(Overwritten(r.h, base, Cur.i), base, Cur.i, r.v)
                    ELSE Misuse(heap))

(* The variables a pattern binds, in slot order. *)
Bindings(names, kids) ==
    [v \in ToSet(names) |-> kids[CHOOSE j \in DOMAIN names : names[j] = v]]

(* The fields of a named tuple are shared, those of a temporary moved. *)
Shared(h, box) ==
    IF Live(h, box)
    THEN FoldLeft(LAMBDA x, j : IF IsTensor(SlotTypes(h.obj[box])[j])
                                THEN RetainH(x, h.obj[box].kids[j]) ELSE x,
                  h, [j \in DOMAIN h.obj[box].kids |-> j])
    ELSE Misuse(h)
Moved(h, box) == [h EXCEPT !.obj = [x \in DOMAIN @ \ {box} |-> @[x]]]
LetTuple ==
    /\ At({"lettup"})
    /\ \E r \in {Result} :
           Continue(Rest,
                    Bindings(Cur.bs[1], IF Live(r.h, r.v) THEN r.h.obj[r.v].kids
                                        ELSE [j \in DOMAIN Cur.bs[1] |-> 0]) @@ Top.vars,
                    IF Cur.e.k = "id" THEN Shared(r.h, r.v) ELSE Moved(r.h, r.v))

RetainStep ==
    /\ At({"retain", "retagg"})
    /\ Continue(Rest, Top.vars, RetainH(heap, Value(Cur.n)))

DropStep ==
    /\ At({"drop"})
    /\ Continue(Rest, Top.vars, ReleaseH(heap, Value(Cur.n)))

Barrier ==
    /\ At({"barrier"})
    /\ Continue(Rest, Top.vars, heap)

If ==
    /\ At({"if"})
    /\ \E j \in 1..2 :
           Continue((IF j \in DOMAIN Cur.b THEN Cur.b[j] ELSE <<>>) \o Rest, Top.vars, Result.h)

(* The header of a counted or conditional loop. *)
Loop ==
    /\ At({"for", "while"})
    /\ LET k == IF IsMarker(Cur) THEN Cur.x.i ELSE 0
       IN  \/ Continue(Rest, Top.vars, Result.h)
           \/ /\ k < LoopBound
              /\ Continue(Cur.b[1] \o <<Marker(Cur, k + 1, <<>>)>> \o Rest, Top.vars, Result.h)

(* The iterable and its length are read once, its elements as they come. *)
NextOf(box, len, k, h) ==
    IF k >= len THEN Continue(Rest, Top.vars, h)
    ELSE Continue(Cur.b[1] \o <<Marker(Cur, k + 1, <<box, len>>)>> \o Rest,
                  (Cur.bs[1][1] :> Slot(h, box, k + 1).v) @@ Top.vars, Touch(h, <<box>>))
LengthOf(h, box) == IF Live(h, box) THEN Len(h.obj[box].kids) ELSE 0
ForIn ==
    /\ At({"forin"})
    /\ IF IsMarker(Cur) THEN NextOf(Cur.x.a[1], Cur.x.a[2], Cur.x.i, heap)
       ELSE \E r \in {Result} :
                NextOf(r.v, LengthOf(r.h, r.v), 0, Touch(r.h, <<r.v>>))

(* The nearest loop: break leaves it, continue goes back to its header. *)
Jump ==
    /\ At({"brk", "cont"})
    /\ LET at == CHOOSE j \in DOMAIN Rest :
                     /\ IsMarker(Rest[j]) /\ IsLoop(Rest[j])
                     /\ \A x \in 1..(j - 1) : ~(IsMarker(Rest[x]) /\ IsLoop(Rest[x]))
       IN  Continue(SubSeq(Rest, IF Cur.s = "brk" THEN at + 1 ELSE at, Len(Rest)), Top.vars, heap)

(* Payloads are bound as they are; the arms are tried in order. *)
Taken(o, h) ==
    Continue(Cur.b[o.tag] \o Rest, Bindings(Cur.bs[o.tag], o.kids) @@ Top.vars, h)
Match ==
    /\ At({"match"})
    /\ \E r \in {Result} :
           IF r.v # 0 /\ Live(r.h, r.v) THEN Taken(r.h.obj[r.v], r.h)
           ELSE Continue(Rest, Top.vars, Misuse(r.h))

(* The tape's pause and resume around the body touch no reference count: left *)
(* to Tape.                                                                   *)
NoGrad ==
    /\ At({"nograd"})
    /\ Continue(Cur.b[1] \o Rest, Top.vars, heap)

(* The pass and the lowering, once, before the body runs: a name that means  *)
(* nothing yet is an error.                                                  *)
Compile ==
    /\ phase = "source"
    /\ \E c \in {Compiled(src, Params, barriers)} :
           IF c.ok
           THEN /\ phase' = "running"
                /\ stack' = <<Frame(c.b, Params, [j \in DOMAIN Params |-> j], "")>>
           ELSE phase' = "refused" /\ UNCHANGED stack
    /\ UNCHANGED <<src, barriers, heap, ret>>

Finished == (phase \in {"done", "refused"} \/ heap.bad) /\ UNCHANGED vars

Init ==
    /\ \E s \in Sources : src = s.body /\ barriers = s.on
    /\ phase = "source"
    /\ stack = <<>>
    /\ heap = [obj |-> [j \in DOMAIN Params |->
                           [rc |-> 1, ty |-> Params[j][2], kids |-> <<>>, tag |-> 0]],
               next |-> Len(Params) + 1, bad |-> FALSE]
    /\ ret = 0

Next ==
    \/ Compile \/ Bind \/ Discard \/ Call \/ Return \/ FallOff \/ StoreSlot \/ LetTuple
    \/ RetainStep \/ DropStep \/ Barrier \/ If \/ Loop \/ ForIn \/ Jump \/ Match \/ NoGrad
    \/ Finished

Spec == Init /\ [][Next]_vars

---------------------------------------------------------------------------
(* Who owns what: a slot of a live box one reference, the caller one of each  *)
(* parameter and one of the result.                                           *)

SlotsOf(o) ==
    Cardinality({<<b, j>> \in (DOMAIN heap.obj) \X (1..MaxSlots) :
                     j \in OwnedSlots(heap.obj[b]) /\ heap.obj[b].kids[j] = o})
Owners(o) == SlotsOf(o) + (IF o \in DOMAIN Params THEN 1 ELSE 0) + (IF ret = o THEN 1 ELSE 0)

(* The bodies of a body, itself included, and the statements in them. *)
RECURSIVE Bodies(_)
Bodies(body) ==
    {body} \cup UNION {UNION {Bodies(body[j].b[x]) : x \in DOMAIN body[j].b} : j \in DOMAIN body}
Stmts(body) == UNION {ToSet(b) : b \in Bodies(body)}

Assigns(body) == \E st \in Stmts(body) : IsSet(st)
AllUsed(body) ==
    \A b \in Bodies(body) : \A j \in DOMAIN b : \A n \in DOMAIN Locals(<<b[j]>>) :
        \E x \in (j + 1)..Len(b) : n \in IdentsS(b[x])
HasEarlyExit(b) ==
    \E st \in UNION {Stmts(x) : x \in Bodies(b) \ {b}} : st.s \in {"ret", "brk", "cont"}
(* What a statement binds in its own body and does not return, the            *)
(* temporaries the pass names for it included.                                *)
KeptLocals(b) == DOMAIN Locals(b) \ Escaping(b)
Brought(st)   == KeptLocals(Rewritten([b |-> <<st>>, c |-> 0]).b)
(* Something is bound behind a statement of the same body that may leave it.  *)
BindsAfterExit(body) ==
    \E b \in Bodies(body) : \E j \in DOMAIN b : \E x \in (j + 1)..Len(b) :
        HasEarlyExit(<<b[j]>>) /\ Brought(b[x]) # {}
(* With a second way out, nothing bound here is returned and no list is bound. *)
PlainExits(body) ==
    \A b \in Bodies(body) : HasEarlyExit(b) =>
        /\ \A n \in DOMAIN Locals(b) : ~IsList(Locals(b)[n])
        /\ \A st \in Stmts(b) : st.s = "ret" /\ ~GpuProducing(st.e)
                                  => Idents(st.e) \cap DOMAIN Locals(b) = {}

---------------------------------------------------------------------------
(* Properties *)

(* No statement of a compiled body reads, retains or releases a handle that   *)
(* was freed: every drop CTMM places is the last one of the reference it ends *)
(* (ctmm.rs insert_drops, insert_assign_drops, the unwinds; the release code  *)
(* of codegen-cpu, contents with the last reference only).                    *)
NoUseAfterFree == ~heap.bad

(* At every moment each live object has at least the references its owners    *)
(* outside this fn need: the boxes that hold it, the caller who lent it, and, *)
(* after the return, the caller who got it. Nothing a fn returns or stores is *)
(* a reference it only borrowed (insert_param_return_retains, retain_sites,   *)
(* demote_safe_borrows).                                                      *)
OwnersCovered == heap.bad \/ \A o \in DOMAIN heap.obj : heap.obj[o].rc >= Owners(o)

(* What is left at the return is exactly what somebody outside owns.          *)
EveryReferenceOwned == phase = "done" => \A o \in DOMAIN heap.obj : heap.obj[o].rc = Owners(o)

(* A body without assignments, that uses what it binds, frees all of it on    *)
(* every way out: at the end, by an early return from any depth, by break and *)
(* continue (inject_early_return_unwinds, inject_break_continue_unwinds, the  *)
(* seeds of a match's arms). A body with a second way out binds no list and   *)
(* returns nothing it bound: of those with one, nothing is claimed.           *)
NothingLeaks ==
    ~Assigns(src) /\ AllUsed(src) /\ PlainExits(src) => EveryReferenceOwned

(* What the checker accepts, the code generator compiles: a temporary, a      *)
(* retain or a drop CTMM adds never names a binding that is not yet there     *)
(* ("unknown variable", codegen-cpu lib.rs:1204-1209). The one shape left out *)
(* is a binding behind a way out of the same body: the unwind in front of the *)
(* exit repeats its drop (ctmm.rs:850-890). In a body that has bound all it   *)
(* frees before it may be left, each unwind names what is there.              *)
AddedNamesExist == phase = "refused" => BindsAfterExit(src)
=============================================================================
