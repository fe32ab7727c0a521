--------------------------------- MODULE Env ---------------------------------
(* The environment of the type checker (malus-sema/src/env.rs) and the        *)
(* resolution of written types in it (check.rs: resolve_ty). types holds the  *)
(* structs and enums met so far, fns, generics, kernels, traits and impls     *)
(* what has been declared, mono the instances made of generics.               *)
EXTENDS TypedIR

EmptyEnv == [scopes |-> << << >> >>, mut |-> {}, mutParam |-> {}, types |-> << >>,
             fns |-> << >>, generics |-> << >>, kernels |-> << >>,
             traits |-> << >>, impls |-> << >>, mono |-> {}]

Nominal(ty)  == KindOf(ty) \in {"struct", "enum"}
IsScalar(ty) == ty \in {"f32", "f16", "bf16", "i32", "i64"}

---------------------------------------------------------------------------
(* Types. A struct or enum is resolved to its name and the fields it has at   *)
(* that moment: before its own fields are resolved it is another type.        *)

Unfilled(n) == n \o "?"
TypeNow(v, n) == IF v.types[n].done THEN n ELSE Unfilled(n)
NameOf(ty, v) == IF ty \in DOMAIN v.types THEN ty
                 ELSE CHOOSE n \in DOMAIN v.types : ty = Unfilled(n)
FieldsOf(v, ty) == IF ty \in DOMAIN v.types THEN v.types[ty].parts ELSE PartsOf(ty)

TypeLike(k, len, parts) ==
    CHOOSE t \in DOMAIN Types :
        Types[t].k = k /\ Types[t].len = len /\ Types[t].parts = parts

Resolved(ty)    == [ok |-> TRUE, ty |-> ty, errs |-> {}]
Unresolved(why) == [ok |-> FALSE, ty |-> "unit", errs |-> {why}]

(* From the resolved element or parts, the array, list or tuple of them. *)
ElementIn(ty, elem) ==
    IF ~elem.ok THEN elem
    ELSE IF KindOf(elem.ty) = "tuple" THEN Unresolved("TupleInArrayElement")
    ELSE Resolved(TypeLike(KindOf(ty), Types[ty].len, elem.ty))
TupleOfAll(parts) ==
    IF parts.ok THEN Resolved(TypeLike("tuple", 0, parts.tys))
    ELSE [ok |-> FALSE, ty |-> "unit", errs |-> parts.errs]

RECURSIVE Resolve(_, _)
(* Each of tys in turn; a signature gives up at the first that fails. *)
OneMore(r, c) == [ok |-> c.ok, tys |-> Append(r.tys, c.ty), errs |-> c.errs]
ResolveAll(tys, v) ==
    FoldLeft(LAMBDA r, ty : IF r.ok THEN OneMore(r, Resolve(ty, v)) ELSE r,
             [ok |-> TRUE, tys |-> <<>>, errs |-> {}], tys)

Resolve(ty, v) ==
    CASE ty = "Self" -> Unresolved("SelfOutsideImpl")
      [] KindOf(ty) = "named" \/ (Nominal(ty) /\ ty \notin DOMAIN v.types) -> Unresolved("UnknownType")
      [] Nominal(ty) /\ ty \in DOMAIN v.types -> Resolved(TypeNow(v, ty))
      [] KindOf(ty) \in {"array", "list"} -> ElementIn(ty, Resolve(PartsOf(ty), v))
      [] KindOf(ty) = "tuple" -> TupleOfAll(ResolveAll(PartsOf(ty), v))
      [] OTHER -> Resolved(ty)

---------------------------------------------------------------------------
(* Scopes. The set of mutable names is flat: it is never cut back. *)

Push(v)  == [v EXCEPT !.scopes = Append(@, << >>)]
Pop(v)   == [v EXCEPT !.scopes = Front(@)]
Bind(v, n, ty, gpu) ==
    [v EXCEPT !.scopes[Len(v.scopes)] = (n :> [ty |-> ty, gpu |-> gpu]) @@ @]
BindMut(v, n, ty, gpu) == Bind([v EXCEPT !.mut = @ \cup {n}], n, ty, gpu)
BindParam(v, p) ==
    IF p.mut THEN BindMut([v EXCEPT !.mutParam = @ \cup {p.n}], p.n, p.ty, "none")
    ELSE Bind(v, p.n, p.ty, "none")

Visible(v, n) == {j \in DOMAIN v.scopes : n \in DOMAIN v.scopes[j]}
Lookup(v, n)  == v.scopes[CHOOSE j \in Visible(v, n) :
                              \A x \in Visible(v, n) : x <= j][n]
=============================================================================
