---------------------------- MODULE GradInference ----------------------------
(* Which expressions are recorded on the tape (malus-sema/src/               *)
(* grad_inference.rs): a fixpoint over all fns of a program that sets the    *)
(* flag g of every expression it finds to derive from variable(...), and     *)
(* what it approximates: the values that derive from a leaf when the program *)
(* runs.                                                                     *)
EXTENDS TypedIR, TLC

CONSTANTS Orders,    \* in which order the fns of a program may stand
          Params,    \* fn -> its parameters, <<name, type>>s
          Bodies,    \* the programs: fn -> body
          LoopBound, \* the most iterations of a loop
          CallBound  \* the deepest call

VARIABLES prog,  \* the fns [n, ps, body], as far as they are flagged
          pos,   \* the next fn of this round
          found, \* [params: fn -> flags, rets: fns, fields: <<type, slot>>s, changed]
          phase  \* "inferring", "done"

vars == <<prog, pos, found, phase>>

---------------------------------------------------------------------------
(* Expressions: the flagged expression, its flag, and what was found.         *)
(* env: name -> [g, ty]; off: inside a with no_grad.                          *)

Detaches(field) == field \in {"data", "grad", "len", "ndim", "shape", "strides"}

(* Mutant: a call site takes back what another one has found. *)
PassArgsAnew(f, n, args) ==
    LET slots == [j \in DOMAIN f.params[n] |-> args[j].g]
    IN  [f EXCEPT !.params[n] = slots, !.changed = @ \/ slots # f.params[n]]

(* The arguments of a call of fn n, as the flags of its parameters. *)
PassArgs(f, n, args) ==
    LET slots == [j \in DOMAIN f.params[n] |-> f.params[n][j] \/ args[j].g]
    IN  [f EXCEPT !.params[n] = slots, !.changed = @ \/ slots # f.params[n]]

Carry(f, slots) ==
    [f EXCEPT !.fields = @ \cup slots, !.changed = @ \/ ~(slots \subseteq f.fields)]

(* What an expression does by itself, gs being the flags of its operands. *)
Natural(e, gs, env, f) ==
    CASE e.k = "id" -> e.n \in DOMAIN env /\ env[e.n].g
      [] e.k = "call" /\ e.n = "variable" -> TRUE
      [] e.k = "call" /\ e.n \in DOMAIN f.params -> e.n \in f.rets
      [] e.k \in {"call", "bin", "un", "array", "tuple"} -> \E j \in DOMAIN gs : gs[j]
      [] e.k = "field" /\ Detaches(e.n) -> FALSE
      [] e.k = "field" /\ KindOf(e.a[1].ty) = "struct" -> <<e.a[1].ty, e.i>> \in f.fields
      [] e.k \in {"index", "tidx", "field"} -> gs[1]
      [] OTHER -> FALSE

(* r = [a, gs, f]: the operands flagged, their flags, what was found so far. *)
Passed(e, r) ==
    IF e.k = "call" /\ e.n \in DOMAIN r.f.params THEN PassArgs(r.f, e.n, r.a)
    ELSE IF e.k = "struct" THEN Carry(r.f, {<<e.ty, j>> : j \in {x \in DOMAIN r.gs : r.gs[x]}})
    ELSE r.f
Flagged(e, a, g, f) ==
    [e |-> [e EXCEPT !.a = a, !.g = @ \/ g], g |-> g,
     f |-> [f EXCEPT !.changed = @ \/ (g /\ ~e.g)]]
Judged(e, r, env, off, f) == Flagged(e, r.a, ~off /\ Natural(e, r.gs, env, f), f)
Inferred(e, r, env, off)  == Judged(e, r, env, off, Passed(e, r))
NextArg(r, x) == [a |-> Append(r.a, x.e), gs |-> Append(r.gs, x.g), f |-> x.f]

RECURSIVE InferExpr(_, _, _, _)
InferArgs(e, env, off, f) ==
    FoldLeft(LAMBDA r, arg : NextArg(r, InferExpr(arg, env, off, r.f)),
             [a |-> <<>>, gs |-> <<>>, f |-> f], e.a)
InferExpr(e, env, off, f) == Inferred(e, InferArgs(e, env, off, f), env, off)

---------------------------------------------------------------------------
(* Statements. acc = [b, env, f, ret]: the statements flagged so far, the     *)
(* locals, what was found, and whether a returned expression was flagged.     *)

Mark(env, n, g, ty) ==
    (n :> [g |-> g \/ (n \in DOMAIN env /\ env[n].g), ty |-> ty]) @@ env

(* Mutant: what an inner body assigns is forgotten at its end. *)
LeaveBlind(env, child) == env

(* A flag an inner body raised stays raised for a name the outer one knows. *)
Leave(env, child) == [n \in DOMAIN env |-> [env[n] EXCEPT !.g = @ \/ child[n].g]]

(* The names an inner body finds bound on entry, with their types. *)
Extra(st, j) ==
    CASE st.s = "for" -> << <<st.n, "i64">> >>
      [] st.s = "forin" -> << <<st.n, PartsOf(st.e.ty)>> >>
      [] st.s = "match" -> [x \in DOMAIN st.bs[j] |-> <<st.bs[j][x].n, st.bs[j][x].ty>>]
      [] OTHER -> <<>>

Entering(env, names) ==
    FoldLeft(LAMBDA m, x : (x[1] :> [g |-> FALSE, ty |-> x[2]]) @@ m, env, names)
(* c: what the inner body made of r. *)
Left(r, c) == [c EXCEPT !.b = Append(r.b, @), !.env = Leave(r.env, @)]

RECURSIVE InferBody(_, _, _)
InferScoped(st, acc, off) ==
    FoldLeft(LAMBDA r, j :
                 Left(r, InferBody(st.b[j],
                                   [r EXCEPT !.b = <<>>, !.env = Entering(@, Extra(st, j))],
                                   off \/ st.s = "nograd")),
             [acc EXCEPT !.b = <<>>], [j \in DOMAIN st.b |-> j])

TypeIn(env, n) == IF n \in DOMAIN env THEN env[n].ty ELSE "unit"
EnvAfter(st, env, g, inner) ==
    CASE st.s = "let" -> Mark(env, st.n, g, st.e.ty)
      [] st.s = "set" -> Mark(env, st.n, g, TypeIn(env, st.n))
      [] st.s = "lettup" ->
             FoldLeft(LAMBDA m, j : Mark(m, st.bs[1][j], g, PartsOf(st.e.ty)[j]),
                      env, [j \in DOMAIN st.bs[1] |-> j])
      [] OTHER -> inner
FoundAfter(st, env, x, inner) ==
    IF st.s = "setf" /\ x.g /\ KindOf(TypeIn(env, st.n)) = "struct"
    THEN Carry(x.f, {<<TypeIn(env, st.n), st.i>>}) ELSE inner

(* x: the statement's expression; inner: its bodies. *)
Assembled(st, acc, x, inner) ==
    [b |-> Append(acc.b, [st EXCEPT !.e = x.e, !.b = inner.b]),
     env |-> EnvAfter(st, acc.env, x.g, inner.env), f |-> FoundAfter(st, acc.env, x, inner.f),
     ret |-> inner.ret \/ (st.s = "ret" /\ x.g)]
InferParts(st, acc, off, x) ==
    Assembled(st, acc, x, InferScoped(st, [acc EXCEPT !.f = x.f], off))
InferStmt(st, acc, off) == InferParts(st, acc, off, InferExpr(st.e, acc.env, off, acc.f))

InferBody(body, acc, off) == FoldLeft(LAMBDA r, st : InferStmt(st, r, off), acc, body)

---------------------------------------------------------------------------
(* infer: rounds over the fns until a round changes nothing *)

ParamEnv(fn, flags) ==
    [x \in {fn.ps[y][1] : y \in DOMAIN fn.ps} |->
        LET y == CHOOSE y \in DOMAIN fn.ps : fn.ps[y][1] = x
        IN  [g |-> flags[y], ty |-> fn.ps[y][2]]]
Returned(fn, r) ==
    [fn |-> [fn EXCEPT !.body = r.b],
     f |-> IF r.ret
           THEN [r.f EXCEPT !.rets = @ \cup {fn.n}, !.changed = @ \/ fn.n \notin r.f.rets]
           ELSE r.f]
InferOne(p, j, f) ==
    Returned(p[j], InferBody(p[j].body, [b |-> <<>>, env |-> ParamEnv(p[j], f.params[p[j].n]),
                                         f |-> f, ret |-> FALSE], FALSE))

(* Mutant: each fn decides anew whether there is another round. *)
RoundOfLast(p, j, f) == InferOne(p, j, [f EXCEPT !.changed = FALSE])

Round(p, j, f) == InferOne(p, j, f)

InferFn ==
    /\ phase = "inferring" /\ pos <= Len(prog)
    /\ \E r \in {Round(prog, pos, found)} :
           prog' = [prog EXCEPT ![pos] = r.fn] /\ found' = r.f
    /\ pos' = pos + 1
    /\ UNCHANGED phase

NextRound ==
    /\ phase = "inferring" /\ pos > Len(prog)
    /\ found.changed
    /\ pos' = 1
    /\ found' = [found EXCEPT !.changed = FALSE]
    /\ UNCHANGED <<prog, phase>>

Finish ==
    /\ phase = "inferring" /\ pos > Len(prog)
    /\ ~found.changed
    /\ phase' = "done"
    /\ UNCHANGED <<prog, pos, found>>

Stop == phase = "done" /\ UNCHANGED vars

FnsOf(p) == {p[j].n : j \in DOMAIN p}
FnOf(p, n) == p[CHOOSE j \in DOMAIN p : p[j].n = n]

Init ==
    /\ \E order \in Orders, bodies \in Bodies :
           prog = [j \in DOMAIN order |->
                      [n |-> order[j], ps |-> Params[order[j]], body |-> bodies[order[j]]]]
    /\ pos = 1
    /\ found = [params |-> [n \in FnsOf(prog) |-> [j \in DOMAIN FnOf(prog, n).ps |-> FALSE]],
                rets |-> {}, fields |-> {}, changed |-> FALSE]
    /\ phase = "inferring"

Next == InferFn \/ NextRound \/ Finish \/ Stop
Spec == Init /\ [][Next]_vars

(* One thread, no waiting: infer goes on while it can. Turn is the control of *)
(* the three actions alone.                                                   *)
Turn ==
    /\ phase = "inferring"
    /\ IF pos <= Len(prog) THEN pos' = pos + 1 /\ phase' = phase
       ELSE IF found.changed THEN pos' = 1 /\ phase' = phase
       ELSE pos' = pos /\ phase' = "done"
FairSpec == Spec /\ WF_<<pos, phase>>(Turn)

---------------------------------------------------------------------------
(* What a run does. A value is [d, at]: whether it derives from a leaf, and   *)
(* the box it is (0: none). An outcome is [env, heap, exit, v, missed]:       *)
(* exit is "", "ret", "brk" or "cont"; missed: an operation on a value that   *)
(* derives from a leaf was neither flagged nor inside a with no_grad.         *)

Plain(d)   == [d |-> d, at |-> 0]
Enter(env, heap, missed) ==
    [env |-> env, heap |-> heap, exit |-> "", v |-> Plain(FALSE), missed |-> missed]

Boxed(e)   == e.k \in {"struct", "array", "tuple", "enum"}
Reads(e)   == \/ e.k \in {"index", "tidx"}
              \/ e.k = "field" /\ ~Detaches(e.n)
Records(e) == e.k \in {"bin", "un"} \/ (e.k = "call" /\ IsTensor(e.ty))

(* The operation of e on its operands' values. A unary operation is recorded *)
(* by the flag of its operand.                                               *)
Applied(e, o, vs, rec) ==
    LET derives == \E j \in DOMAIN vs : vs[j].d
        flag    == IF e.k = "un" THEN e.a[1].g ELSE e.g
    IN  IF e.k = "call" /\ e.n = "variable" THEN [o EXCEPT !.v = Plain(rec)]
        ELSE IF Boxed(e)
        THEN [o EXCEPT !.heap = Append(@, vs), !.v = [d |-> FALSE, at |-> Len(o.heap) + 1]]
        ELSE IF Reads(e)
        THEN [o EXCEPT !.v = IF vs[1].at # 0 THEN o.heap[vs[1].at][e.i] ELSE Plain(FALSE)]
        ELSE IF Records(e)
        THEN [o EXCEPT !.v = Plain(derives /\ rec), !.missed = @ \/ (derives /\ rec /\ ~flag)]
        ELSE [o EXCEPT !.v = Plain(FALSE)]

(* p: the program, k: how many more calls may nest. *)
RECURSIVE Runs(_, _, _, _, _), Values(_, _, _, _, _), Iterate(_, _, _, _, _, _)

Operands(e, o, rec, p, k) ==
    FoldLeft(LAMBDA rs, arg :
                 UNION {{[o |-> x, vs |-> Append(r.vs, x.v)] : x \in Values(arg, r.o, rec, p, k)} :
                        r \in rs},
             {[o |-> o, vs |-> <<>>]}, e.a)

Called(e, r, rec, p, k) ==
    LET fn  == FnOf(p, e.n)
        env == [x \in {fn.ps[y][1] : y \in DOMAIN fn.ps} |->
                   r.vs[CHOOSE y \in DOMAIN fn.ps : fn.ps[y][1] = x]]
    IN  IF k = 0 THEN {}
        ELSE {[x EXCEPT !.env = r.o.env, !.exit = ""] :
              x \in Runs(fn.body, Enter(env, r.o.heap, r.o.missed), rec, p, k - 1)}

Values(e, o, rec, p, k) ==
    IF e.k = "id"
    THEN {[o EXCEPT !.v = IF e.n \in DOMAIN o.env THEN o.env[e.n] ELSE Plain(FALSE)]}
    ELSE UNION {IF e.k = "call" /\ e.n \in FnsOf(p) THEN Called(e, r, rec, p, k)
                ELSE {Applied(e, r.o, r.vs, rec)} : r \in Operands(e, o, rec, p, k)}

(* An inner body; what it binds is gone at its end. *)
Inside(body, o, binds, rec, p, k) ==
    {[x EXCEPT !.env = [n \in DOMAIN o.env |-> IF n \in DOMAIN binds THEN o.env[n] ELSE x.env[n]]] :
     x \in Runs(body, [o EXCEPT !.env = binds @@ @], rec, p, k)}

Box(o) == IF o.v.at = 0 THEN <<>> ELSE o.heap[o.v.at]

(* At most n more iterations of a loop; elems: what a for-in still has to    *)
(* bind.                                                                     *)
Iterate(st, o, elems, n, rec, pk) ==
    LET binds == IF st.s = "forin" THEN (st.n :> Head(elems)) ELSE << >>
        once  == Inside(st.b[1], o, binds, rec, pk[1], pk[2])
        rest  == IF st.s = "forin" THEN Tail(elems) ELSE elems
    IN  IF n = 0 \/ (st.s = "forin" /\ elems = <<>>) THEN {o}
        ELSE UNION {IF x.exit = "ret" THEN {x}
                    ELSE IF x.exit = "brk" THEN {[x EXCEPT !.exit = ""]}
                    ELSE Iterate(st, [x EXCEPT !.exit = ""], rest, n - 1, rec, pk) : x \in once}
             \cup (IF st.s = "forin" THEN {} ELSE {o})

Step(st, o, rec, p, k) ==
    CASE st.s \in {"let", "set"} -> {[o EXCEPT !.env = (st.n :> o.v) @@ @]}
      [] st.s = "lettup" ->
             {[o EXCEPT !.env = [n \in ToSet(st.bs[1]) |->
                                    Box(o)[CHOOSE j \in DOMAIN st.bs[1] : st.bs[1][j] = n]] @@ @]}
      [] st.s \in {"seti", "setf"} -> {[o EXCEPT !.heap[o.env[st.n].at][st.i] = o.v]}
      [] st.s = "ret" -> {[o EXCEPT !.exit = "ret"]}
      [] st.s \in {"brk", "cont"} -> {[o EXCEPT !.exit = st.s]}
      [] st.s = "if" ->
             UNION {Inside(st.b[j], o, << >>, rec, p, k) : j \in DOMAIN st.b}
             \cup (IF Len(st.b) = 1 THEN {o} ELSE {})
      [] st.s = "nograd" -> Inside(st.b[1], o, << >>, FALSE, p, k)
      [] st.s = "match" ->
             UNION {Inside(st.b[j], o,
                           [n \in {st.bs[j][x].n : x \in DOMAIN st.bs[j]} |->
                               Box(o)[CHOOSE x \in DOMAIN st.bs[j] : st.bs[j][x].n = n]],
                           rec, p, k) : j \in {x \in DOMAIN st.b : Len(st.bs[x]) = Len(Box(o))}}
      [] IsLoop(st) -> Iterate(st, o, Box(o), LoopBound, rec, <<p, k>>)
      [] OTHER -> {o}

(* A fn that falls off its end returns nothing that derives from a leaf. *)
Runs(body, o, rec, p, k) ==
    FoldLeft(LAMBDA os, st :
                 UNION {IF x.exit # "" THEN {x}
                        ELSE UNION {Step(st, y, rec, p, k) : y \in Values(st.e, x, rec, p, k)} :
                        x \in os},
             {o}, body)

---------------------------------------------------------------------------
(* Properties *)

(* Every operation of a run on a value that derives from a variable(...)      *)
(* outside of any with no_grad, not cut off by .data or .grad, is flagged, so *)
(* that the code generator records it and backward finds it (infer; codegen-  *)
(* cpu lib.rs 1545, 1608, 1675). What flows through calls, in any order of    *)
(* the fns, through fields, tuples, arrays, branches and assignments is       *)
(* followed.                                                                  *)
NothingMissed ==
    phase = "done" =>
        \A o \in Runs(FnOf(prog, "main").body, Enter(<< >>, <<>>, FALSE), TRUE, prog, CallBound) :
            ~o.missed

(* The loop of infer stops only when there is nothing left to propagate: no   *)
(* fn of the flagged program would change by another visit.                   *)
Settled ==
    phase = "done" =>
        \A j \in DOMAIN prog : InferOne(prog, j, found) = [fn |-> prog[j], f |-> found]

(* The rounds end, for recursive programs too: a flag is never taken back.    *)
Terminates == <>(phase = "done")
=============================================================================
