-------------------------------- MODULE Sema --------------------------------
(* The type checker (malus-sema/src/check.rs, env.rs): the items of one      *)
(* program are registered, then their bodies are checked one after another   *)
(* in one environment, and a generic fn is instantiated where it is called.  *)
(* Spans, messages and number formats are left out; a constructor's fields   *)
(* are written in declaration order; an error is named by its kind.          *)
EXTENDS Env

CONSTANTS Programs,   \* the programs to check: a sequence of sequences of items
          Builtins,   \* name -> [kind, params, ret, gpu]
          Aliases     \* imported module -> the names it exports

(* An item: [it, n, tp, bound, ps, tys, ret, body], it in {"fn", "kernel",   *)
(* "struct", "enum", "trait", "impl"}; ps are parameters or fields [n, ty,   *)
(* mut], tp the type parameters of a fn, tys the payload types of each       *)
(* variant of an enum; the body of a trait, or of the impl of the trait      *)
(* bound for n, is its methods. A match names the variant of each arm by     *)
(* x.a[j].i, 0 is the wildcard.                                              *)

VARIABLES prog,    \* the program under check
          pass,    \* "names", "fields", "items", "impls", "bodies",
                   \* "accepted", "rejected"
          pos,     \* the next item of this pass
          env,     \* the environment
          typed,   \* typed fns and kernels, in the order they are finished
          errs     \* errors so far

vars == <<prog, pass, pos, env, typed, errs>>

---------------------------------------------------------------------------
(* Results: [ok, e, v, errs, out]; out are the fns instantiated meanwhile. A *)
(* result that is not ok passes through what would have come after it.       *)

Ok(e, v)       == [ok |-> TRUE, e |-> e, v |-> v, errs |-> {}, out |-> <<>>]
Fail(v, kind)  == [ok |-> FALSE, e |-> NoEx, v |-> v, errs |-> {kind}, out |-> <<>>]
After(r, next) == [next EXCEPT !.errs = r.errs \cup @, !.out = r.out \o @]
Then(r, next)  == IF r.ok THEN After(r, next) ELSE r
Failing(r, kind)      == [r EXCEPT !.ok = FALSE, !.e = NoEx, !.errs = @ \cup {kind}]
Refused(r, bad, kind) == IF r.ok /\ bad THEN Failing(r, kind) ELSE r
Typed(e, ty, gpu)     == [e EXCEPT !.ty = ty, !.gpu = gpu]
(* e with the operands of r. *)
WithArgs(e, r, ty, gpu) ==
    IF r.ok THEN [r EXCEPT !.e = Typed([e EXCEPT !.a = r.e.a], ty, gpu)] ELSE r
GpuIf(ty) == IF IsTensor(ty) THEN "gpu" ELSE "none"
Floats == {"f32", "f16", "bf16"}

LitType(e, want, ctx) ==
    CASE e.n # "int"              -> e.n
      [] want \in Floats          -> want
      [] want = "i32" \/ ctx.inK  -> "i32"
      [] OTHER                    -> "i64"

Compares == {"==", "!=", "<", "<=", ">", ">="}

BinResult(e, l, r, v, ctx) ==
    LET op        == e.n
        broadcast == /\ op \in {"+", "-", "*", "/"}
                     /\ \/ IsTensor(l.ty) /\ PartsOf(l.ty) = r.ty
                        \/ IsTensor(r.ty) /\ PartsOf(r.ty) = l.ty
        ty == CASE op \in Compares -> (IF ctx.inK THEN l.ty ELSE "bool")
                [] op \in {"and", "or"} -> "bool"
                [] OTHER -> IF ~IsTensor(l.ty) /\ IsTensor(r.ty) THEN r.ty ELSE l.ty
        gpu == IF l.gpu = "none" THEN r.gpu ELSE l.gpu
    IN  IF op = "**"
        THEN IF l.ty = "f32" /\ r.ty \in {"f32", "i32", "i64"}
             THEN Ok(Typed(e, "f32", "none"), v)
             ELSE Fail(v, "PowOperatorScalarOnly")
        ELSE IF IsTensor(l.ty) /\ IsTensor(r.ty) /\ {l.gpu, r.gpu} = {"cpu", "gpu"}
        THEN Fail(v, "PlacementMismatch")
        ELSE IF IsTensor(l.ty) /\ IsTensor(r.ty) /\ l.ty # r.ty
        THEN Fail(v, "DtypeMismatch")
        ELSE IF l.ty # r.ty /\ ~broadcast THEN Fail(v, "TypeMismatch")
        ELSE Ok(Typed(e, ty, gpu), v)

IndexResult(e, b, v) ==
    LET ty == CASE KindOf(b.ty) \in {"array", "list"} -> PartsOf(b.ty)
                [] b.ty = "buffer"                    -> "i64"
                [] IsTensor(b.ty)                     -> PartsOf(b.ty)
                [] OTHER                              -> b.ty
    IN  Ok(Typed(e, ty, IF KindOf(b.ty) \in {"tensor", "buffer"} THEN "none" ELSE b.gpu), v)

FieldResult(e, b, v, ctx) ==
    CASE IsTensor(b.ty) /\ e.n \in {"len", "ndim"} ->
             Ok(Typed(e, IF e.n = "ndim" /\ ctx.inK THEN "i32" ELSE "i64", "none"), v)
      [] IsTensor(b.ty) /\ e.n = "shape" ->
             Ok(Typed(e, TypeLike("array", 8, IF ctx.inK THEN "i32" ELSE "i64"), b.gpu), v)
      [] IsTensor(b.ty) /\ e.n \in {"data", "grad"} -> Ok(Typed(e, b.ty, "gpu"), v)
      [] KindOf(b.ty) = "struct" ->
             IF e.i \in DOMAIN FieldsOf(v, b.ty)
             THEN Ok(Typed(e, FieldsOf(v, b.ty)[e.i], GpuIf(FieldsOf(v, b.ty)[e.i])), v)
             ELSE Fail(v, "UnknownField")
      [] OTHER -> Ok(Typed(e, b.ty, b.gpu), v)

CheckTupleIndex(e, b, v) ==
    IF KindOf(b.ty) # "tuple" THEN Fail(v, "TupleIndexNotTuple")
    ELSE IF e.i \notin DOMAIN PartsOf(b.ty) THEN Fail(v, "TupleIndexOutOfRange")
    ELSE Ok(Typed(e, PartsOf(b.ty)[e.i], "none"), v)

RECURSIVE CheckE(_, _, _, _), CheckBody(_, _, _)

(* Operands in order, the types of wants as hints; stops at the first error, *)
(* a flaw of an operand just checked included.                               *)
NoArgs(v) == Ok(Ex("args", "", <<>>, 0), v)
Arg(r, c) == After(r, [c EXCEPT !.e = [r.e EXCEPT !.a = Append(@, c.e)]])
Sound(c, flaw) == IF c.ok /\ flaw # "" THEN Failing(c, flaw) ELSE c
CheckArg(Flaw(_, _), j, c) == Sound(c, Flaw(c.e, j))
CheckFrom(r0, args, wants, Flaw(_, _), ctx) ==
    FoldLeft(LAMBDA r, j :
                 IF r.ok
                 THEN Arg(r, CheckArg(Flaw, j, CheckE(args[j], IF j \in DOMAIN wants THEN wants[j] ELSE "",
                                                      r.v, ctx)))
                 ELSE r,
             r0, [j \in DOMAIN args |-> j])

CheckMore(r, args, wants, ctx)  == CheckFrom(r, args, wants, LAMBDA e, j : "", ctx)
CheckAny(args, wants, v, ctx) == CheckMore(NoArgs(v), args, wants, ctx)

CheckCounted(args, wants, arity, v, ctx) ==
    IF Len(args) # Len(wants) THEN Fail(v, arity) ELSE CheckAny(args, wants, v, ctx)

(* Operands whose types must be exactly wants. *)
CheckTyped(args, wants, arity, v, ctx) ==
    IF Len(args) # Len(wants) THEN Fail(v, arity)
    ELSE CheckFrom(NoArgs(v), args, wants,
                   LAMBDA e, j : IF e.ty = wants[j] THEN "" ELSE "TypeMismatch", ctx)

ParamTypes(sig) == [j \in DOMAIN sig.ps |-> sig.ps[j].ty]

---------------------------------------------------------------------------
(* Generic fns: instantiated once per concrete type, in the environment of   *)
(* the call, its scopes included; the signature and the cache entry are      *)
(* there before the body is checked.                                         *)

InFnLooping(ret) == [inK |-> FALSE, loops |-> 1, nograd |-> 0, ret |-> ret]
InFn(ret) == [inK |-> FALSE, loops |-> 0, nograd |-> 0, ret |-> ret]

TypedFn(n, kind, sig, body) == [n |-> n, kind |-> kind, ps |-> sig.ps, ret |-> sig.ret, body |-> body]

(* Mutant: the scope of a body stays open after it. *)
ClosedNoPop(r, n, kind, sig) ==
    [r EXCEPT !.ok = TRUE, !.out = Append(@, TypedFn(n, kind, sig, r.e.b[1]))]

(* What is left of a body: its scope is closed, the typed fn comes out. *)
Closed(r, n, kind, sig) ==
    [r EXCEPT !.ok = TRUE, !.v = Pop(@), !.out = Append(@, TypedFn(n, kind, sig, r.e.b[1]))]

(* The body of a fn, method or instance. *)
CheckFn(n, sig, body, v) ==
    Closed(CheckBody(body, FoldLeft(BindParam, Push(v), sig.ps), InFn(sig.ret)), n, "fn", sig)

Mangle(n, ty, v) == n \o "__" \o (IF Nominal(ty) THEN NameOf(ty, v) ELSE ty)

Substituted(t, g, ty, v) == IF t = g.tp THEN Resolved(ty) ELSE Resolve(t, v)
InstanceSig(g, ty, v) ==
    [ps  |-> [j \in DOMAIN g.ps |-> [g.ps[j] EXCEPT !.ty = Substituted(@, g, ty, v).ty]],
     ret |-> Substituted(g.ret, g, ty, v).ty]
InstanceErrors(g, ty, v) ==
    UNION {Substituted(t, g, ty, v).errs : t \in ToSet(ParamTypes(g)) \cup {g.ret}}
CheckInstance(name, g, sig, v) ==
    CheckFn(name, sig, g.body, [v EXCEPT !.fns = (name :> sig) @@ @, !.mono = @ \cup {name}])

Instantiate(g, ty, v) ==
    IF Mangle(g.n, ty, v) \in v.mono THEN Ok(NoEx, v)
    ELSE IF InstanceErrors(g, ty, v) # {}
    THEN [Fail(v, "") EXCEPT !.errs = InstanceErrors(g, ty, v)]
    ELSE CheckInstance(Mangle(g.n, ty, v), g, InstanceSig(g, ty, v), v)

(* inst: the instance of that name was made, if it is ok. *)
Dispatch(e, name, args, inst) ==
    IF \E j \in DOMAIN args : args[j].ty # inst.v.fns[name].ps[j].ty
    THEN Failing(inst, "TypeMismatch")
    ELSE [inst EXCEPT !.e = Typed([e EXCEPT !.n = name, !.a = args], inst.v.fns[name].ret,
                                  GpuIf(inst.v.fns[name].ret))]
CallInstance(e, name, args, inst) == IF inst.ok THEN Dispatch(e, name, args, inst) ELSE inst

Bounded(g, ty, v) ==
    g.bound # "" => Nominal(ty) /\ <<g.bound, NameOf(ty, v)>> \in DOMAIN v.impls
CallAt(e, g, r, ty) ==
    IF ~Bounded(g, ty, r.v) THEN Failing(r, "TraitBoundNotSatisfied")
    ELSE After(r, CallInstance(e, Mangle(g.n, ty, r.v), r.e.a, Instantiate(g, ty, r.v)))

(* at: the types the arguments for the type parameter have. *)
CallInferred(e, g, r, at) ==
    IF ~r.ok THEN r
    ELSE IF at = {} THEN Failing(r, "GenericTypeParamUnresolved")
    ELSE IF Cardinality(at) > 1 THEN Failing(r, "TypeMismatch")
    ELSE CallAt(e, g, r, CHOOSE t \in at : TRUE)
TypesAt(g, args) == {args[j].ty : j \in {x \in DOMAIN g.ps : g.ps[x].ty = g.tp}}
CallChecked(e, g, r) == CallInferred(e, g, r, TypesAt(g, r.e.a))
CallGeneric(e, g, v, ctx) ==
    IF Len(e.a) # Len(g.ps) THEN Fail(v, "ArgCountMismatch")
    ELSE CallChecked(e, g, CheckAny(e.a, <<>>, v, ctx))

---------------------------------------------------------------------------
(* Calls, in the order the checker tries the readings of a callee. *)

CallFn(e, sig, v, ctx) ==
    WithArgs(e, CheckTyped(e.a, ParamTypes(sig), "ArgCountMismatch", v, ctx), sig.ret, GpuIf(sig.ret))

CallKernel(e, sig, v, ctx) ==
    IF ctx.inK THEN Fail(v, "KernelCalledFromKernel")
    ELSE WithArgs([e EXCEPT !.k = "kcall"],
                  CheckTyped(e.a, ParamTypes(sig), "ArgCountMismatch", v, ctx), sig.ret, "gpu")

(* A reduction or a softmax takes one tensor, then axis and keepdim by name;  *)
(* e.i is how many are named, 3 stands for one unknown name.                  *)
Positional(e) == Len(e.a) - (IF e.i = 3 THEN 1 ELSE e.i)
HasAxis(e)    == e.i \in {1, 2}
Done(e, b, r) == WithArgs([e EXCEPT !.i = 0], r, b.ret, b.gpu)

Zero == Typed(Ex("lit", "int", <<>>, 0), "i64", "none")
KeepDim(e, r) == IF r.ok /\ e.i = 1 THEN [r EXCEPT !.e.a = Append(@, Zero)] ELSE r
CallReduction(e, b, v, ctx) ==
    IF Positional(e) > 1 THEN Fail(v, "ArgCountMismatch")
    ELSE IF e.i = 3 THEN Fail(v, "UnknownReductionArg")
    ELSE IF Positional(e) = 0 THEN Fail(v, "ArgCountMismatch")
    ELSE Done(e, b, KeepDim(e, Refused(CheckAny(e.a, <<b.ret, "i64", "i64">>, v, ctx),
                                       ~HasAxis(e) /\ e.n # "sum", "MissingReductionAxis")))

CallAxisOnly(e, b, v, ctx) ==
    IF Positional(e) > 1 THEN Fail(v, "ArgCountMismatch")
    ELSE IF e.i \in {2, 3} THEN Fail(v, "UnknownAxisArg")
    ELSE IF Positional(e) = 0 THEN Fail(v, "ArgCountMismatch")
    ELSE IF ~HasAxis(e) THEN Fail(v, "MissingAxisArg")
    ELSE Done(e, b, CheckAny(e.a, <<b.ret, "i64">>, v, ctx))

(* A tensor, then its new dimensions; nothing by name. *)
CallShapeOp(e, b, v, ctx) ==
    IF e.i > 0 \/ e.a = <<>> THEN Fail(v, "ArgCountMismatch")
    ELSE Done(e, b, CheckAny(e.a, <<b.ret>> \o [j \in DOMAIN Tail(e.a) |-> "i64"], v, ctx))

CallLen(e, b, v, ctx) ==
    IF Len(e.a) # 1 THEN Fail(v, "ArgCountMismatch")
    ELSE Done(e, b, CheckFrom(NoArgs(v), e.a, <<>>,
                              LAMBDA x, j : IF IsList(x.ty) THEN "" ELSE "TypeMismatch", ctx))

(* Arguments are counted; their types are hints, not conditions. *)
CallCounted(e, b, v, ctx) == CheckCounted(e.a, b.params, "ArgCountMismatch", v, ctx)

CallIntrinsic(e, b, v, ctx) ==
    IF ~ctx.inK THEN Fail(v, "KernelIntrinsicOutsideKernel")
    ELSE Done(e, b, CallCounted(e, b, v, ctx))

(* In a kernel a builtin on scalars gives a scalar. *)
Scalars(b, args, ctx) ==
    /\ ctx.inK /\ IsTensor(b.ret) /\ args # <<>>
    /\ \A j \in DOMAIN args : IsScalar(args[j].ty)
Elementwise(e, b, r, ctx) ==
    Done(e, IF Scalars(b, r.e.a, ctx) THEN [b EXCEPT !.ret = PartsOf(b.ret)] ELSE b, r)
CallFixed(e, b, v, ctx) == Elementwise(e, b, CallCounted(e, b, v, ctx), ctx)

(* Any number of arguments; a print counts the holes of its template. *)
Holes(e, args) ==
    IF e.n = "print" /\ args # <<>> /\ args[1].k = "lit" /\ args[1].n = "str" THEN {args[1].i} ELSE {}
Formatted(e, r) == Refused(r, ~(Holes(e, r.e.a) \subseteq {Len(r.e.a) - 1}), "FormatArgCountMismatch")
CallVariadic(e, b, v, ctx) ==
    Done(e, b, Formatted(e,
         CheckFrom(NoArgs(v), e.a,
                   IF b.kind = "variadic" THEN <<>> ELSE [j \in DOMAIN e.a |-> b.params[1]],
                   LAMBDA x, j : IF b.kind = "typed" /\ x.ty # b.params[1] THEN "TypeMismatch" ELSE "",
                   ctx)))

CallBuiltin(e, b, v, ctx) ==
    CASE b.kind = "reduction"  -> CallReduction(e, b, v, ctx)
      [] b.kind = "listlen"    -> CallLen(e, b, v, ctx)
      [] b.kind = "shape"      -> CallShapeOp(e, b, v, ctx)
      [] b.kind = "axis"       -> CallAxisOnly(e, b, v, ctx)
      [] b.kind = "kernelonly" -> CallIntrinsic(e, b, v, ctx)
      [] b.kind = "fixed"      -> CallFixed(e, b, v, ctx)
      [] OTHER                 -> CallVariadic(e, b, v, ctx)

(* The callee of a plain name: a fn, else a kernel, else a builtin. *)
CallResolved(e, unknown, v, ctx) ==
    IF e.n \in DOMAIN v.fns THEN CallFn(e, v.fns[e.n], v, ctx)
    ELSE IF e.n \in DOMAIN v.kernels THEN CallKernel(e, v.kernels[e.n], v, ctx)
    ELSE IF e.n \in DOMAIN Builtins THEN CallBuiltin(e, Builtins[e.n], v, ctx)
    ELSE Fail(v, unknown)

(* module.f(..): by its bare name, if the module exports it; no generic fn.  *)
CallQualified(e, module, v, ctx) ==
    IF e.n \notin Aliases[module] THEN Fail(v, "UnknownIdent")
    ELSE CallResolved([e EXCEPT !.k = "call", !.a = Tail(e.a)], "UnknownIdent", v, ctx)

(* x.m(..): the impl for x's type that has a method of that name; r is x. *)
Unknown(x) == IF x.k = "id" THEN "UnknownIdent" ELSE "NotAFunction"
OnSelf(self, r) == IF r.ok THEN [r EXCEPT !.e.a = <<self>> \o @] ELSE r
CallOn(e, name, sig, r, ctx) ==
    After(r, WithArgs([e EXCEPT !.k = "call", !.n = name],
                      OnSelf(r.e, CheckTyped(Tail(e.a), Tail(ParamTypes(sig)), "ArgCountMismatch",
                                             r.v, ctx)),
                      sig.ret, GpuIf(sig.ret)))
HasMethod(v, ty, n) == \E i \in DOMAIN v.impls : i[2] = ty /\ n \in v.impls[i]
CallFound(e, r, ty, ctx) ==
    IF HasMethod(r.v, ty, e.n) THEN CallOn(e, ty \o "__" \o e.n, r.v.fns[ty \o "__" \o e.n], r, ctx)
    ELSE Failing(r, "UnknownMethod")
CallOf(e, r, ctx) ==
    IF ~r.ok \/ ~Nominal(r.e.ty) THEN Failing(r, Unknown(e.a[1]))
    ELSE CallFound(e, r, NameOf(r.e.ty, r.v), ctx)
CallMethod(e, v, ctx) ==
    IF e.a[1].k = "id" /\ e.a[1].n \in DOMAIN Aliases THEN CallQualified(e, e.a[1].n, v, ctx)
    ELSE CallOf(e, CheckE(e.a[1], "", v, ctx), ctx)

Constructed(k, e, r) == WithArgs([e EXCEPT !.k = k], r, TypeNow(r.v, e.n), "none")

(* E.A(..): the payload is counted only when there are arguments, its types  *)
(* are not compared with the declaration.                                    *)
CallVariant(e, v, ctx) ==
    IF e.i \notin DOMAIN FieldsOf(v, e.n) THEN Fail(v, "UnknownVariant")
    ELSE IF e.a # <<>> /\ Len(e.a) # Len(FieldsOf(v, e.n)[e.i]) THEN Fail(v, "MatchArmArityMismatch")
    ELSE Constructed("enum", e, CheckAny(e.a, FieldsOf(v, e.n)[e.i], v, ctx))

(* E.A without a call has no payload. *)
BareVariant(e, v) ==
    IF e.i \notin DOMAIN FieldsOf(v, e.n) THEN Fail(v, "UnknownVariant")
    ELSE IF FieldsOf(v, e.n)[e.i] # <<>> THEN Fail(v, "MatchArmArityMismatch")
    ELSE Constructed("enum", e, NoArgs(v))

StructInit(e, v, ctx) ==
    Constructed("struct", e, CheckTyped(e.a, FieldsOf(v, e.n), "MissingField", v, ctx))

CheckCall(e, v, ctx) ==
    IF e.n \in DOMAIN v.generics THEN CallGeneric(e, v.generics[e.n], v, ctx)
    ELSE IF e.n \in DOMAIN v.types /\ KindOf(e.n) = "struct" THEN StructInit(e, v, ctx)
    ELSE CallResolved(e, "NotAFunction", v, ctx)

(* name@[grid, tg, out](tensors, scalars): e.i = 0 without grid, 1 without   *)
(* tg, 3 with out; neither the configuration's types nor the arguments' are  *)
(* compared with what the kernel wants.                                      *)
Wanted(sig) == SelectSeq(ParamTypes(sig), IsTensor) \o SelectSeq(ParamTypes(sig), IsScalar)
BadShape(shape) == \E j \in DOMAIN shape : shape[j].k = "array" /\ Len(shape[j].a) \notin 1..8
LaunchWith(e, sig, config, shape, args, v, ctx) ==
    WithArgs(e,
        Refused(CheckMore(Refused(CheckMore(Refused(CheckAny(config, <<>>, v, ctx),
                                                    BadShape(shape), "UnknownReductionArg"),
                                            shape, <<>>, ctx),
                                  Len(args) # Len(Wanted(sig)), "ArgCountMismatch"),
                          args, Wanted(sig), ctx),
                ~IsTensor(sig.ret), "TypeMismatch"),
        sig.ret, "gpu")
CheckLaunch(e, v, ctx) ==
    IF ctx.inK THEN Fail(v, "KernelLaunchInsideKernel")
    ELSE IF e.n \notin DOMAIN v.kernels THEN Fail(v, "UnknownKernel")
    ELSE IF e.i < 2 THEN Fail(v, "MissingLaunchConfig")
    ELSE LaunchWith(e, v.kernels[e.n], SubSeq(e.a, 1, 2), SubSeq(e.a, 3, e.i),
                    SubSeq(e.a, e.i + 1, Len(e.a)), v, ctx)

---------------------------------------------------------------------------
(* Literals of several parts. *)

Lossy(x, dtype) == x.k = "lit" /\ x.n = "f32" /\ dtype \notin Floats
CheckTensor(e, v, ctx) ==
    IF Len(e.a) # e.i THEN Fail(v, "TensorShapeMismatch")
    ELSE WithArgs(e, CheckFrom(NoArgs(v), e.a, [j \in DOMAIN e.a |-> PartsOf(e.n)],
                               LAMBDA x, j : IF Lossy(x, PartsOf(e.n)) THEN "LossyCoercion" ELSE "",
                               ctx),
                  e.n, e.gpu)

(* The first element gives the type, the others must have it. *)
ArrayOf(e, list, r) ==
    WithArgs(e, r, IF list THEN TypeLike("list", 0, r.e.a[1].ty)
                   ELSE TypeLike("array", Len(e.a), r.e.a[1].ty), r.e.a[1].gpu)
CheckRest(e, r, ctx) ==
    CheckFrom(r, Tail(e.a), [j \in DOMAIN Tail(e.a) |-> r.e.a[1].ty],
              LAMBDA x, j : IF x.ty = r.e.a[1].ty THEN "" ELSE "TypeMismatch", ctx)
CheckArray(e, want, v, ctx) ==
    IF e.a = <<>> THEN Fail(v, "TypeMismatch")
    ELSE ArrayOf(e, IsList(want),
                 CheckRest(e, CheckAny(SubSeq(e.a, 1, 1), IF IsList(want) THEN <<PartsOf(want)>> ELSE <<>>,
                                       v, ctx), ctx))

TupleTyped(e, r) ==
    WithArgs(e, r, TypeLike("tuple", 0, [j \in DOMAIN r.e.a |-> r.e.a[j].ty]), "none")
CheckTuple(e, v, ctx) ==
    IF Len(e.a) < 2 THEN Fail(v, "TupleTooShort")
    ELSE TupleTyped(e, CheckFrom(NoArgs(v), e.a, <<>>,
                              LAMBDA x, j : IF KindOf(x.ty) = "tuple" THEN "NestedTuple" ELSE "", ctx))

(* Operations whose operands come first. *)
Hints(e) ==
    CASE e.k = "bin" /\ e.n = "**" -> <<"f32">>
      [] e.k = "index"             -> <<"", "i64">>
      [] OTHER                     -> <<>>
Operation(e, a, v, ctx) ==
    CASE e.k = "bin"   -> BinResult(e, a[1], a[2], v, ctx)
      [] e.k = "un"    -> Ok(Typed(e, a[1].ty, a[1].gpu), v)
      [] e.k = "index" -> IndexResult(e, a[1], v)
      [] e.k = "field" -> FieldResult(e, a[1], v, ctx)
      [] e.k = "tidx"  -> CheckTupleIndex(e, a[1], v)
Operate(e, r, ctx) == Then(r, Operation([e EXCEPT !.a = r.e.a], r.e.a, r.v, ctx))

CheckE(e, want, v, ctx) ==
    CASE e.k = "lit" -> Ok(Typed(e, LitType(e, want, ctx), "none"), v)
      [] e.k = "id" ->
             IF Visible(v, e.n) = {} THEN Fail(v, "UnknownIdent")
             ELSE Ok(Typed(e, Lookup(v, e.n).ty, Lookup(v, e.n).gpu), v)
      [] e.k \in {"bin", "un", "index", "field", "tidx"} ->
             Operate(e, CheckAny(e.a, Hints(e), v, ctx), ctx)
      [] e.k = "call" -> CheckCall(e, v, ctx)
      [] e.k = "method" -> CallMethod(e, v, ctx)
      [] e.k = "variant" -> CallVariant(e, v, ctx)
      [] e.k = "bare" -> BareVariant(e, v)
      [] e.k = "tensor" -> CheckTensor(e, v, ctx)
      [] e.k = "launch" -> CheckLaunch(e, v, ctx)
      [] e.k = "array" -> CheckArray(e, want, v, ctx)
      [] e.k = "tuple" -> CheckTuple(e, v, ctx)

---------------------------------------------------------------------------
(* Statements: a result's e is the typed statement. *)

Local(n, ty, gpu) == [n |-> n, ty |-> ty, gpu |-> gpu]
BindLocal(v, b)   == Bind(v, b.n, b.ty, b.gpu)

(* Mutant: the scope of an inner body stays open after it. *)
BlockUnscoped(r, c) ==
    After(r, [c EXCEPT !.ok = TRUE, !.e = [r.e EXCEPT !.b = @ \o c.e.b]])

(* The inner bodies of st, each in a scope of its own that starts with its   *)
(* locals; an error in one does not stop the others or what follows st.      *)
Block(r, c) ==
    After(r, [c EXCEPT !.ok = TRUE, !.v = Pop(@), !.e = [r.e EXCEPT !.b = @ \o c.e.b]])
Blocks(st, locals, v, ctx) ==
    FoldLeft(LAMBDA r, j :
                 Block(r, CheckBody(st.b[j], FoldLeft(BindLocal, Push(r.v), locals[j]), ctx)),
             Ok([st EXCEPT !.b = <<>>], v), [j \in DOMAIN st.b |-> j])

NoLocals(st) == [j \in DOMAIN st.b |-> <<>>]
InLoop(ctx)  == [ctx EXCEPT !.loops = @ + 1]

(* The arms of a match: the first flaw of the arms, then what is missing. *)
Repeated(arms, j) == \E i \in 1..(j - 1) : arms[i] = arms[j]
FlawOf(arms, n, j) ==
    CASE arms[j] = 0       -> "MatchWildcard"
      [] Repeated(arms, j) -> "DuplicateMatchArm"
      [] arms[j] \notin 1..n -> "UnknownVariant"
      [] OTHER             -> ""
ArmsFlaw(arms, n) ==
    LET flawed == {j \in DOMAIN arms : FlawOf(arms, n, j) # ""}
    IN  IF flawed # {} THEN FlawOf(arms, n, Min(flawed))
        ELSE IF ToSet(arms) # 1..n THEN "NonExhaustiveMatch" ELSE ""

(* The payload of each arm; arms after the first whose binders do not fit    *)
(* its payload are not checked.                                              *)
Payloads(arms, variants) == [j \in DOMAIN arms |-> variants[arms[j]]]
Fitting(bs, payloads) ==
    LET bad == {j \in DOMAIN payloads : Len(bs[j]) # Len(payloads[j])}
    IN  IF bad = {} THEN Len(payloads) ELSE Min(bad) - 1
ArmLocals(bs, payloads, n) ==
    [j \in 1..n |-> [x \in DOMAIN bs[j] |-> Local(bs[j][x].n, payloads[j][x], GpuIf(payloads[j][x]))]]
CheckLocals(st, locals, v, ctx) == Blocks([st EXCEPT !.bs = locals], locals, v, ctx)
CheckFitting(st, payloads, n, v, ctx) ==
    Refused(CheckLocals([st EXCEPT !.b = SubSeq(@, 1, n)], ArmLocals(st.bs, payloads, n), v, ctx),
            n < Len(payloads), "MatchArmArityMismatch")
CheckPayloads(st, payloads, v, ctx) == CheckFitting(st, payloads, Fitting(st.bs, payloads), v, ctx)
CheckArms(st, arms, variants, v, ctx) ==
    IF ArmsFlaw(arms, Len(variants)) # "" THEN Fail(v, ArmsFlaw(arms, Len(variants)))
    ELSE CheckPayloads(st, Payloads(arms, variants), v, ctx)
CheckMatch(st, v, ctx) ==
    IF KindOf(st.e.ty) # "enum" THEN Fail(v, "MatchScrutineeNotEnum")
    ELSE CheckArms(st, [j \in DOMAIN st.x.a |-> st.x.a[j].i], FieldsOf(v, st.e.ty), v, ctx)

(* name = e, name[x] = e, name.i = e; without a name the target is nested.   *)
(* The target, its index typed; then the value, of the target's type.        *)
AssignName(st, v) ==
    IF st.n \in v.mutParam THEN Fail(v, "MutParamBareRebind") ELSE Ok(st.x, v)

(* The inside of a mut parameter may be changed, the parameter not. *)
AssignSlot(st, ty, v, ctx) ==
    IF KindOf(ty) \notin {"array", "list", "buffer", "tensor"} THEN Fail(v, "TypeMismatch")
    ELSE IF IsTensor(ty) /\ ~ctx.inK THEN Fail(v, "TensorIndexAssignOutsideKernel")
    ELSE CheckE(st.x, IF IsTensor(ty) THEN "i32" ELSE "i64", v, ctx)

AssignField(st, ty, v) ==
    IF KindOf(ty) # "struct" THEN Fail(v, "TypeMismatch")
    ELSE IF st.i \notin DOMAIN FieldsOf(v, ty) THEN Fail(v, "UnknownField")
    ELSE Ok(st.x, v)

Target(st, ty, v, ctx) ==
    CASE st.s = "set"  -> AssignName(st, v)
      [] st.s = "seti" -> AssignSlot(st, ty, v, ctx)
      [] st.s = "setf" -> AssignField(st, ty, v)
TargetType(st, ty, v) ==
    CASE st.s = "set"  -> ty
      [] st.s = "seti" -> (IF ty = "buffer" THEN "i64" ELSE PartsOf(ty))
      [] st.s = "setf" -> FieldsOf(v, ty)[st.i]

WithValue(st, r) == IF r.ok THEN [r EXCEPT !.e = [st EXCEPT !.e = r.e.a[1]]] ELSE r
AssignedValue(st, want, t, ctx) ==
    Then(t, WithValue([st EXCEPT !.x = t.e], CheckTyped(<<st.e>>, <<want>>, "", t.v, ctx)))
AssignTo(st, ty, v, ctx) == AssignedValue(st, TargetType(st, ty, v), Target(st, ty, v, ctx), ctx)
CheckAssign(st, v, ctx) ==
    IF st.n = "" THEN Fail(v, "NestedLvalue")
    ELSE IF Visible(v, st.n) = {} THEN Fail(v, "UnknownIdent")
    ELSE IF st.n \notin v.mut THEN Fail(v, "AssignToImmutable")
    ELSE AssignTo(st, Lookup(v, st.n).ty, v, ctx)

TupleLocals(names, tys) == [j \in DOMAIN names |-> Local(names[j].n, tys[j], "none")]
BindAll(v, locals, mut) ==
    FoldLeft(LAMBDA w, b : IF mut THEN BindMut(w, b.n, b.ty, "none") ELSE BindLocal(w, b), v, locals)

(* Mutant: a wrong let of a tuple is given up without an error. *)
BindTupleQuiet(st, v) ==
    IF KindOf(st.e.ty) # "tuple" \/ Len(st.bs[1]) # Len(PartsOf(st.e.ty))
    THEN [Fail(v, "") EXCEPT !.errs = {}]
    ELSE Ok([st EXCEPT !.bs = <<TupleLocals(@[1], PartsOf(st.e.ty))>>],
            BindAll(v, TupleLocals(st.bs[1], PartsOf(st.e.ty)), st.i = 1))

BindTuple(st, v) ==
    IF KindOf(st.e.ty) # "tuple" THEN Fail(v, "TupleDestructureNotTuple")
    ELSE IF Len(st.bs[1]) # Len(PartsOf(st.e.ty)) THEN Fail(v, "TupleDestructureArity")
    ELSE Ok([st EXCEPT !.bs = <<TupleLocals(@[1], PartsOf(st.e.ty))>>],
            BindAll(v, TupleLocals(st.bs[1], PartsOf(st.e.ty)), st.i = 1))

(* A wrong type is an error, and the statement stays. *)
CheckReturn(st, v, ctx) ==
    [Ok(st, v) EXCEPT !.errs = IF st.e.ty = ctx.ret THEN {} ELSE {"ReturnTypeMismatch"}]

(* An if or a while; in a kernel any type will do. *)
CheckGuarded(st, v, ctx) ==
    IF ~ctx.inK /\ st.e.ty # "bool" THEN Fail(v, "TypeMismatch")
    ELSE Blocks(st, NoLocals(st), v, IF st.s = "while" THEN InLoop(ctx) ELSE ctx)

(* r: the two ends of the range. *)
CheckRange(st, r, counter, ctx) ==
    Then(r, Blocks([st EXCEPT !.e = r.e.a[1], !.x = r.e.a[2], !.ty = counter],
                   << <<Local(st.n, counter, "none")>> >>, r.v, InLoop(ctx)))
Counter(ctx) == IF ctx.inK THEN "i32" ELSE "i64"
CheckFor(st, v, ctx) ==
    CheckRange(st, CheckAny(<<st.e, st.x>>, <<Counter(ctx), Counter(ctx)>>, v, ctx), Counter(ctx), ctx)

CheckForIn(st, v, ctx) ==
    IF KindOf(st.e.ty) \notin {"array", "list"} THEN Fail(v, "TypeMismatch")
    ELSE Blocks([st EXCEPT !.ty = PartsOf(st.e.ty)],
                << <<Local(st.n, PartsOf(st.e.ty), "none")>> >>, v, InLoop(ctx))

CheckJump(st, v, ctx) ==
    IF ctx.loops > 0 THEN Ok(st, v)
    ELSE Fail(v, IF st.s = "brk" THEN "BreakOutsideLoop" ELSE "ContinueOutsideLoop")

CheckNoGrad(st, v, ctx) == Blocks(st, NoLocals(st), v, [ctx EXCEPT !.nograd = @ + 1])

CheckShared(st, v, ctx) ==
    IF ctx.inK THEN Ok(st, BindMut(v, st.n, st.ty, "none"))
    ELSE Fail(v, "LetSharedOutsideKernel")

CheckLet(st, v) == Ok(st, Bind(v, st.n, st.e.ty, st.e.gpu))

CheckLetMut(st, v) == Ok([st EXCEPT !.s = "let"], BindMut(v, st.n, st.e.ty, st.e.gpu))

(* A statement whose expression, already typed, came first. *)
Given(st, v, ctx) ==
    CASE st.s = "let"    -> CheckLet(st, v)
      [] st.s = "letmut" -> CheckLetMut(st, v)
      [] st.s = "lettup" -> BindTuple(st, v)
      [] st.s = "do"     -> Ok(st, v)
      [] st.s = "ret"    -> CheckReturn(st, v, ctx)
      [] st.s \in {"if", "while"} -> CheckGuarded(st, v, ctx)
      [] st.s = "forin"  -> CheckForIn(st, v, ctx)
      [] st.s = "match"  -> CheckMatch(st, v, ctx)
Hint(st, ctx) ==
    CASE st.s = "ret"             -> ctx.ret
      [] st.s \in {"if", "while"} -> "bool"
      [] OTHER                    -> ""
GivenExpr(st, r, ctx) == Then(r, Given([st EXCEPT !.e = r.e], r.v, ctx))

CheckStmt(st, v, ctx) ==
    CASE IsSet(st)       -> CheckAssign(st, v, ctx)
      [] st.s = "for"    -> CheckFor(st, v, ctx)
      [] st.s = "nograd" -> CheckNoGrad(st, v, ctx)
      [] st.s \in {"brk", "cont"} -> CheckJump(st, v, ctx)
      [] st.s = "shared" -> CheckShared(st, v, ctx)
      [] st.s = "ret" /\ ctx.nograd > 0 -> Fail(v, "EarlyExitInNoGrad")
      [] OTHER -> GivenExpr(st, CheckE(st.e, Hint(st, ctx), v, ctx), ctx)

(* The rest of a body is not checked after a statement that fails. *)
Appended(r, c) ==
    After(r, [c EXCEPT !.e = IF c.ok THEN [r.e EXCEPT !.b[1] = Append(@, c.e)] ELSE r.e])
CheckBody(body, v, ctx) ==
    FoldLeft(LAMBDA r, st : IF r.ok THEN Appended(r, CheckStmt(st, r.v, ctx)) ELSE r,
             Ok(St("body", "", NoEx, << <<>> >>), v), body)

---------------------------------------------------------------------------
(* The passes: what each does with one item. *)

Named(it, v) ==
    IF it.it \notin {"struct", "enum"} THEN Ok(NoEx, v)
    ELSE IF it.n \in DOMAIN v.types THEN Fail(v, "DuplicateTypeDefinition")
    ELSE Ok(NoEx, [v EXCEPT !.types =
                       (it.n :> [it |-> it.it, done |-> FALSE, parts |-> <<>>]) @@ @])

(* All the errors of a declaration; its parts are set only without any. *)
Groups(it) == IF it.it = "struct" THEN <<ParamTypes(it)>> ELSE it.tys
FieldErrors(it, got) ==
    UNION {g.errs : g \in UNION {ToSet(got[j]) : j \in DOMAIN got}}
    \cup (IF it.it = "struct" /\ \E g \in ToSet(got[1]) : KindOf(g.ty) = "tuple"
          THEN {"TupleInStructField"} ELSE {})
Filled(it, v, got, tys) ==
    IF FieldErrors(it, got) # {} THEN [Fail(v, "") EXCEPT !.errs = FieldErrors(it, got)]
    ELSE Ok(NoEx, [v EXCEPT !.types[it.n].done = TRUE,
                            !.types[it.n].parts = IF it.it = "struct" THEN tys[1] ELSE tys])
FillWith(it, v, got) ==
    Filled(it, v, got, [j \in DOMAIN got |-> [x \in DOMAIN got[j] |-> got[j][x].ty]])
Fields(it, v) ==
    IF it.it \notin {"struct", "enum"} \/ v.types[it.n].it # it.it THEN Ok(NoEx, v)
    ELSE FillWith(it, v, [j \in DOMAIN Groups(it) |->
                             [x \in DOMAIN Groups(it)[j] |-> Resolve(Groups(it)[j][x], v)]])

TakesSelf(m) == m.ps # <<>> /\ m.ps[1].n = "self" /\ m.ps[1].ty = "Self"

(* [ok, sig, errs] of parameters and a return type, Self standing for self. *)
Own(ty, self, v) == IF ty = "Self" /\ self # "" THEN Resolved(self) ELSE Resolve(ty, v)
SigOf(it, tys) ==
    [ps |-> [j \in DOMAIN it.ps |-> [it.ps[j] EXCEPT !.ty = tys[j]]], ret |-> tys[Len(tys)]]
Sig(it, all) ==
    LET bad == {j \in DOMAIN all : ~all[j].ok}
    IN  [ok   |-> bad = {}, sig |-> SigOf(it, [j \in DOMAIN all |-> all[j].ty]),
         errs |-> IF bad = {} THEN {} ELSE all[Min(bad)].errs]
Signed(it, self, v) ==
    Sig(it, [j \in 1..(Len(it.ps) + 1) |->
                Own(IF j > Len(it.ps) THEN it.ret ELSE it.ps[j].ty, self, v)])

Known(v, next, s) == IF s.ok THEN Ok(NoEx, next) ELSE [Fail(v, "") EXCEPT !.errs = s.errs]
SignedFn(n, v, s)     == Known(v, [v EXCEPT !.fns = (n :> s.sig) @@ @], s)
SignedKernel(n, v, s) == Known(v, [v EXCEPT !.kernels = (n :> s.sig) @@ @], s)

DeclareFn(it, v) ==
    IF it.n \in DOMAIN v.fns \cup DOMAIN v.generics THEN Fail(v, "DuplicateDefinition")
    ELSE IF Len(it.tp) > 1 THEN Fail(v, "TooManyTypeParams")
    ELSE IF Len(it.tp) = 1
    THEN Ok(NoEx, [v EXCEPT !.generics = (it.n :> [it EXCEPT !.tp = it.tp[1]]) @@ @])
    ELSE SignedFn(it.n, v, Signed(it, "", v))

DeclareKernel(it, v) ==
    IF it.n \in DOMAIN v.kernels THEN Fail(v, "DuplicateDefinition")
    ELSE SignedKernel(it.n, v, Signed(it, "", v))

(* All the errors of a trait; it exists only without any. *)
TraitSig(m, v) == IF TakesSelf(m) THEN Signed([m EXCEPT !.ps = Tail(@)], "", v)
                  ELSE [ok |-> FALSE, sig |-> m, errs |-> {"ImplMethodMissingSelf"}]
Promised(methods, sigs) ==
    {[n |-> methods[j].n, tys |-> ParamTypes(sigs[j].sig), ret |-> sigs[j].sig.ret] : j \in DOMAIN sigs}
TraitOf(it, v, sigs) ==
    IF \E j \in DOMAIN sigs : ~sigs[j].ok
    THEN [Fail(v, "") EXCEPT !.errs = UNION {sigs[j].errs : j \in DOMAIN sigs}]
    ELSE Ok(NoEx, [v EXCEPT !.traits = (it.n :> Promised(it.body, sigs)) @@ @])
DeclareTrait(it, v) ==
    IF it.n \in DOMAIN v.traits THEN Fail(v, "DuplicateDefinition")
    ELSE TraitOf(it, v, [j \in DOMAIN it.body |-> TraitSig(it.body[j], v)])

Declared(it, v) ==
    CASE it.it = "fn"     -> DeclareFn(it, v)
      [] it.it = "kernel" -> DeclareKernel(it, v)
      [] it.it = "trait"  -> DeclareTrait(it, v)
      [] OTHER            -> Ok(NoEx, v)

(* One method of an impl: a name the trait has must have its signature, any  *)
(* other is an inherent method.                                              *)
KeepsPromise(trait, m, sig) ==
    m.n \in {t.n : t \in trait} =>
        [n |-> m.n, tys |-> Tail(ParamTypes(sig)), ret |-> sig.ret] \in trait
MethodOf(it, m, name, v, s) ==
    IF ~s.ok THEN [Fail(v, "") EXCEPT !.errs = s.errs]
    ELSE IF ~KeepsPromise(v.traits[it.bound], m, s.sig) THEN Fail(v, "ImplMethodMismatch")
    ELSE IF name \in DOMAIN v.fns THEN Fail(v, "DuplicateDefinition")
    ELSE Ok(NoEx, [v EXCEPT !.fns = (name :> s.sig) @@ @, !.impls[<<it.bound, it.n>>] = @ \cup {m.n}])
Method(it, m, v) ==
    IF m.tp # <<>> THEN Fail(v, "TooManyTypeParams")
    ELSE IF ~TakesSelf(m) THEN Fail(v, "ImplMethodMissingSelf")
    ELSE MethodOf(it, m, it.n \o "__" \o m.n, v, Signed(m, TypeNow(v, it.n), v))

(* Each method after the other; the impl is there even if they all fail. *)
EachMethod(it, v) == FoldLeft(LAMBDA r, m : After(r, Method(it, m, r.v)), Ok(NoEx, v), it.body)
Implemented(it, v) ==
    IF it.it # "impl" THEN Ok(NoEx, v)
    ELSE IF it.n \notin DOMAIN v.types THEN Fail(v, "UnknownType")
    ELSE IF it.bound \notin DOMAIN v.traits THEN Fail(v, "UnknownTrait")
    ELSE EachMethod(it, [v EXCEPT !.impls = (<<it.bound, it.n>> :> {}) @@ @])

Implicit(body) ==
    /\ body # <<>> /\ Last(body).s = "ret"
    /\ \A j \in DOMAIN body : body[j].s \in {"let", "letmut", "ret"}

Element(ty) == IF IsTensor(ty) THEN PartsOf(ty) ELSE ty

(* A kernel of lets and a return is checked element by element, any other    *)
(* writes to out.                                                            *)
KernelEnv(sig, map, v) ==
    FoldLeft(LAMBDA w, p : IF map THEN Bind(w, p.n, Element(p.ty), "gpu")
                           ELSE Bind(w, p.n, p.ty, GpuIf(p.ty)),
             IF map THEN Push(v) ELSE BindMut(Push(v), "out", sig.ret, "gpu"), sig.ps)
KernelCtx(sig, map) ==
    [inK |-> TRUE, loops |-> 0, nograd |-> 0, ret |-> IF map THEN Element(sig.ret) ELSE "unit"]
CheckKernelAs(it, sig, map, v) ==
    Closed(CheckBody(it.body, KernelEnv(sig, map, v), KernelCtx(sig, map)),
           it.n, IF map THEN "map" ELSE "kernel", sig)
CheckKernel(it, sig, v) == CheckKernelAs(it, sig, Implicit(it.body), v)

(* The fns of an item by their linked names; those that were not registered  *)
(* have been reported.                                                       *)
FnsOf(it) ==
    CASE it.it = "fn"   -> <<[n |-> it.n, body |-> it.body]>>
      [] it.it = "impl" -> [j \in DOMAIN it.body |->
                               [n |-> it.n \o "__" \o it.body[j].n, body |-> it.body[j].body]]
      [] OTHER          -> <<>>
CheckFns(fns, v) ==
    FoldLeft(LAMBDA r, f : IF f.n \in DOMAIN r.v.fns
                           THEN After(r, CheckFn(f.n, r.v.fns[f.n], f.body, r.v)) ELSE r,
             Ok(NoEx, v), fns)
Checked(it, v) ==
    IF it.it = "kernel" /\ it.n \in DOMAIN v.kernels THEN CheckKernel(it, v.kernels[it.n], v)
    ELSE CheckFns(FnsOf(it), v)

NoMain(v) == IF "main" \in DOMAIN v.fns THEN {} ELSE {"MainNotFound"}

---------------------------------------------------------------------------
(* The program, item after item, pass after pass. *)

More == pos <= Len(prog)

Advance(r) ==
    /\ More
    /\ env' = r.v /\ errs' = errs \cup r.errs /\ typed' = typed \o r.out
    /\ pos' = pos + 1
    /\ UNCHANGED <<prog, pass>>

CollectName   == pass = "names"  /\ Advance(Named(prog[pos], env))
ResolveFields == pass = "fields" /\ Advance(Fields(prog[pos], env))
CollectItem   == pass = "items"  /\ Advance(Declared(prog[pos], env))
RegisterImpl  == pass = "impls"  /\ Advance(Implemented(prog[pos], env))
CheckItem     == pass = "bodies" /\ Advance(Checked(prog[pos], env))

NextPass ==
    /\ ~More /\ pass \in {"names", "fields", "items", "impls"}
    /\ pass' = CASE pass = "names"  -> "fields" [] pass = "fields" -> "items"
                 [] pass = "items"  -> "impls"  [] pass = "impls"  -> "bodies"
    /\ pos' = 1
    /\ errs' = IF pass = "impls" THEN errs \cup NoMain(env) ELSE errs
    /\ UNCHANGED <<prog, env, typed>>

Decide ==
    /\ ~More /\ pass = "bodies"
    /\ pass' = IF errs = {} THEN "accepted" ELSE "rejected"
    /\ UNCHANGED <<prog, pos, env, typed, errs>>

Init ==
    /\ \E j \in DOMAIN Programs : prog = Programs[j]
    /\ pass = "names" /\ pos = 1
    /\ env = EmptyEnv /\ typed = <<>> /\ errs = {}

Next == \/ CollectName \/ ResolveFields \/ CollectItem \/ RegisterImpl \/ CheckItem
        \/ NextPass \/ Decide

Spec == Init /\ [][Next]_vars

---------------------------------------------------------------------------
(* What an accepted program is, stated apart from the checker. *)

Accepted == pass = "accepted"

RECURSIVE Exprs(_), ExprsIn(_)
Exprs(e) == {e} \cup UNION {Exprs(e.a[j]) : j \in DOMAIN e.a}
ExprsIn(body) ==
    UNION {Exprs(body[j].e) \cup Exprs(body[j].x)
              \cup UNION {ExprsIn(body[j].b[x]) : x \in DOMAIN body[j].b} : j \in DOMAIN body}

(* Lexical scoping: sc maps a name to its type, and a body gets a copy. *)
ScopeOf(locals) ==
    FoldLeft(LAMBDA sc, b : (b.n :> b.ty) @@ sc, << >>, locals)
Binds(st) ==
    CASE st.s = "let" -> (st.n :> st.e.ty)
      [] st.s = "lettup" -> ScopeOf(st.bs[1])
      [] st.s = "shared" -> (st.n :> st.ty)
      [] OTHER -> << >>
BindsInside(st, j) ==
    CASE st.s \in {"for", "forin"} -> (st.n :> st.ty)
      [] st.s = "match" -> ScopeOf(st.bs[j])
      [] OTHER -> << >>

(* Every statement of a body with the scope it stands in. *)
RECURSIVE Sites(_, _)
Sites(body, sc) ==
    LET Here(st, s) ==
            {[st |-> st, sc |-> s]}
            \cup UNION {Sites(st.b[j], BindsInside(st, j) @@ s) : j \in DOMAIN st.b}
    IN  FoldLeft(LAMBDA r, st : [at |-> r.at \cup Here(st, r.sc), sc |-> Binds(st) @@ r.sc],
                 [at |-> {}, sc |-> sc], body).at

ExprsAt(st) == Exprs(st.e) \cup Exprs(st.x)
InScope(site) ==
    LET st == site.st
        sc == site.sc
    IN  /\ \A x \in ExprsAt(st) : x.k = "id" => x.n \in DOMAIN sc /\ sc[x.n] = x.ty
        /\ IsSet(st) => st.n \in DOMAIN sc
        /\ st.s = "set" => sc[st.n] = st.e.ty

Opening(f) ==
    LET ty(p) == IF f.kind = "map" THEN Element(p.ty) ELSE p.ty
    IN  ScopeOf([j \in DOMAIN f.ps |-> [f.ps[j] EXCEPT !.ty = ty(f.ps[j])]])
            @@ (IF f.kind = "kernel" THEN ("out" :> f.ret) ELSE << >>)

(* The scopes around the j-th typed fn: none around an item of the program,  *)
(* around an instance those of the calls that may have made it, in a body    *)
(* that was under check when it was, and so is typed later.                  *)
RECURSIVE Enclosing(_)
SitesOf(j) == UNION {Sites(typed[j].body, Opening(typed[j]) @@ sc) : sc \in Enclosing(j)}
Calls(st, n) == \E e \in ExprsAt(st) : e.k = "call" /\ e.n = n
Enclosing(j) ==
    IF typed[j].n \notin env.mono THEN {<< >>}
    ELSE {s.sc : s \in {x \in UNION {SitesOf(g) : g \in (j + 1)..Len(typed)} : Calls(x.st, typed[j].n)}}

(* A name in an accepted body has the nearest binding and that binding's      *)
(* type. In a fn, method or kernel of the program the binding is in that body *)
(* or is a parameter: the lookup through one environment that grows and       *)
(* shrinks (env.rs:184-206, check.rs:702-760) is lexical scoping there, with  *)
(* instances checked in between. A generic body is checked inside the scopes  *)
(* of the call it is instantiated for (check.rs:1706-1724), so a name that is *)
(* free in it is one of those that call sees, and of no other body.           *)
WellScoped ==
    Accepted =>
        \A j \in DOMAIN typed : \E sc \in Enclosing(j) :
            \A site \in Sites(typed[j].body, Opening(typed[j]) @@ sc) : InScope(site)

(* A call that stays in an accepted body names exactly one typed fn or        *)
(* kernel, and its operands and its type are that one's: methods, instances   *)
(* and plain fns alike (check.rs:1294-1313, 1654-1755), so the code generator *)
(* finds what it calls.                                                       *)
CallsAgree ==
    Accepted =>
        \A j \in DOMAIN typed : \A e \in ExprsIn(typed[j].body) :
            LET kinds  == IF e.k = "call" THEN {"fn"} ELSE {"map", "kernel"}
                callee == {x \in DOMAIN typed : typed[x].n = e.n /\ typed[x].kind \in kinds}
                f      == typed[CHOOSE x \in callee : TRUE]
            IN  e.k \in {"call", "kcall"} /\ (e.n \notin DOMAIN Builtins \/ callee # {}) =>
                    /\ Cardinality(callee) = 1
                    /\ e.ty = f.ret
                    /\ ParamTypes(f) = [x \in DOMAIN e.a |-> e.a[x].ty]

(* Whether every jump of a body has somewhere to go: a loop around it in this *)
(* body, and no no_grad region between a return and its fn.                   *)
RECURSIVE JumpsLand(_, _, _)
JumpsLand(body, loop, region) ==
    \A j \in DOMAIN body :
        LET st == body[j]
        IN  /\ st.s \in {"brk", "cont"} => loop
            /\ st.s = "ret" => ~region
            /\ \A x \in DOMAIN st.b :
                  JumpsLand(st.b[x], loop \/ IsLoop(st), region \/ st.s = "nograd")

(* A break or continue has its loop in the same body and no return is inside  *)
(* no_grad, also in an instance checked in the middle of a loop or of a       *)
(* no_grad region of its caller (check.rs:1693-1706).                         *)
JumpsHaveTarget ==
    Accepted => \A j \in DOMAIN typed : JumpsLand(typed[j].body, FALSE, FALSE)

(* The source bodies a typed fn may stand for. *)
Sources(f) ==
    {it.body : it \in {x \in ToSet(prog) : x.it \in {"fn", "kernel"} /\ x.n = f.n}}
    \cup UNION {{m.body : m \in {y \in ToSet(it.body) : it.n \o "__" \o y.n = f.n}} :
                it \in {x \in ToSet(prog) : x.it = "impl"}}
    \cup {it.body : it \in {x \in ToSet(prog) : x.it = "fn" /\ x.tp # <<>> /\
                                \E ty \in DOMAIN Types \cup {"f32", "i64"} : f.n = Mangle(x.n, ty, env)}}

RECURSIVE Skeleton(_)
Skeleton(body) ==
    [j \in DOMAIN body |->
        <<IF body[j].s = "letmut" THEN "let" ELSE body[j].s,
          [x \in DOMAIN body[j].b |-> Skeleton(body[j].b[x])]>>]

(* Nothing is lost on the way: each body of an accepted program is typed      *)
(* once, and statement for statement; a check that gives up reports an error  *)
(* (check_body returns what it has so far, check.rs:603-911).                 *)
NothingDropped ==
    Accepted =>
        /\ \A j \in DOMAIN typed :
              \E b \in Sources(typed[j]) : Skeleton(typed[j].body) = Skeleton(b)
        /\ \A it \in ToSet(prog) :
              it.it \in {"fn", "kernel"} /\ it.n \notin DOMAIN env.generics =>
                  Cardinality({j \in DOMAIN typed : typed[j].n = it.n
                                  /\ (typed[j].kind = "fn" <=> it.it = "fn")}) = 1

(* The passes over p at once: 5 of them, or the 4 that register its items.   *)
Pass(name, it, v) ==
    CASE name = 1 -> Named(it, v)
      [] name = 2 -> Fields(it, v)
      [] name = 3 -> Declared(it, v)
      [] name = 4 -> Implemented(it, v)
Registered(p) ==
    FoldLeft(LAMBDA r, k : After(r, Pass((k \div Len(p)) + 1, p[(k % Len(p)) + 1], r.v)),
             Ok(NoEx, EmptyEnv), [k \in 1..(4 * Len(p)) |-> k - 1])

(* Every item is fine where nothing but declarations has been looked at.     *)
EachAlone(p, r) ==
    r.errs \cup NoMain(r.v) = {} /\ \A it \in ToSet(p) : Checked(it, r.v).errs = {}
Alone(p) == EachAlone(p, Registered(p))

(* Everything but the types in the reverse order, the types as they are,     *)
(* behind the rest.                                                          *)
IsType(it)   == it.it \in {"struct", "enum"}
Reordered(p) ==
    Reverse(SelectSeq(p, LAMBDA it : ~IsType(it))) \o SelectSeq(p, IsType)

(* The names a statement of the source binds for those behind it, and for    *)
(* its j-th inner body.                                                      *)
NamesIn(binders) == {b.n : b \in ToSet(binders)}
BoundBy(st) ==
    CASE st.s \in {"let", "letmut", "shared"} -> {st.n}
      [] st.s = "lettup" -> NamesIn(st.bs[1])
      [] OTHER -> {}
BoundInside(st, j) ==
    CASE st.s \in {"for", "forin"} -> {st.n}
      [] st.s = "match" -> NamesIn(st.bs[j])
      [] OTHER -> {}

(* The names body uses and does not bind. *)
RECURSIVE FreeIn(_, _)
FreeIn(body, bound) ==
    LET Free(st, known) ==
            ((Idents(st.e) \cup Idents(st.x) \cup (IF IsSet(st) THEN {st.n} ELSE {})) \ known)
            \cup UNION {FreeIn(st.b[j], known \cup BoundInside(st, j)) : j \in DOMAIN st.b}
    IN  FoldLeft(LAMBDA r, st : [free |-> r.free \cup Free(st, r.known), known |-> r.known \cup BoundBy(st)],
                 [free |-> {}, known |-> bound], body).free

RECURSIVE Stmts(_)
Stmts(body) ==
    UNION {{body[j]} \cup UNION {Stmts(body[j].b[x]) : x \in DOMAIN body[j].b} : j \in DOMAIN body}

(* The ways names are bound in p: plainly, by let mut, as a mut parameter. *)
FnItems(p) ==
    {it \in ToSet(p) : it.it \in {"fn", "kernel"}}
    \cup UNION {ToSet(it.body) : it \in {x \in ToSet(p) : x.it = "impl"}}
MutStmt(st) == st.s \in {"letmut", "shared"} \/ (st.s = "lettup" /\ st.i = 1)
BindingsOf(it) ==
    {<<q.n, IF q.mut THEN "param" ELSE "let">> : q \in ToSet(it.ps)}
    \cup UNION {{<<n, IF MutStmt(st) THEN "mut" ELSE "let">> : n \in BoundBy(st)}
                 \cup {<<n, "let">> : n \in UNION {BoundInside(st, j) : j \in DOMAIN st.b}}
                 : st \in Stmts(it.body)}
    \cup (IF it.it = "kernel" THEN {<<"out", "mut">>} ELSE {})

GenericsOf(p) == {it \in ToSet(p) : it.it = "fn" /\ it.tp # <<>>}
CallsIn(p) ==
    {e.n : e \in {x \in UNION {ExprsIn(it.body) : it \in FnItems(p)} : x.k = "call"}}

(* What checking a body leaves behind in the environment is of no use to     *)
(* another one. A name is bound in one way in the whole program: the flat    *)
(* sets of mutable names (env.rs:113-117, 178-188) say what its scope says.  *)
OneWay(p) ==
    \A a, b \in UNION {BindingsOf(it) : it \in FnItems(p)} : a[1] = b[1] => a = b
(* A generic body names only what is its own: the instance one call made is  *)
(* the one any other call would make (check.rs:1674).                        *)
ClosedGenerics(p) ==
    \A g \in GenericsOf(p) : FreeIn(g.body, NamesIn(g.ps)) \subseteq DOMAIN Aliases
(* No fn has the name of an instance and no call uses one (check.rs:1697).   *)
OwnNames(p) ==
    {Mangle(g.n, ty, env) : g \in GenericsOf(p), ty \in DOMAIN Types \cup {"f32", "i64"}}
        \cap ({it.n : it \in FnItems(p)} \cup CallsIn(p)) = {}
(* No second impl of a trait for a type: it replaces the methods of the      *)
(* first (check.rs:370).                                                     *)
OneImpl(p) ==
    \A i, j \in DOMAIN p :
        p[i].it = "impl" /\ p[j].it = "impl" /\ p[i].n = p[j].n /\ p[i].bound = p[j].bound => i = j
KeptApart(p) == OneWay(p) /\ ClosedGenerics(p) /\ OwnNames(p) /\ OneImpl(p)

(* The verdict depends neither on the order of the items nor on what was     *)
(* checked before: a program is accepted exactly when each of its bodies is, *)
(* by itself, right after all items have been declared, and in the reverse   *)
(* order as well. No name, signature or impl is needed earlier than it is    *)
(* there, and a body leaves no scope, binding or instance that another is    *)
(* accepted or refused for (check.rs:148-372, 384-558). It is claimed for    *)
(* programs that keep apart what the environment does not: of the others     *)
(* the verdict does depend on the order.                                     *)
OrderFree ==
    pass \in {"accepted", "rejected"} /\ KeptApart(prog) => (Accepted <=> Alone(Reordered(prog)))

=============================================================================
