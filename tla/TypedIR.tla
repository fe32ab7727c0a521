------------------------------ MODULE TypedIR ------------------------------
(* The program representation every pass of the compiler works on            *)
(* (malus-sema/src/typed_ir.rs and ty.rs): one record shape for expressions, *)
(* one for statements. A body is a sequence of statements; b holds the inner *)
(* bodies of a control-flow node (then/else, a loop's body, a match's arms). *)
EXTENDS Integers, Sequences, FiniteSets, SequencesExt

CONSTANT Types   \* type name -> [k, parts]: parts of a struct/tuple are its
                 \* field types, of an enum its payload sequences, of an
                 \* array or list its element type, of a tensor its dtype

KindOf(ty)   == IF ty \in DOMAIN Types THEN Types[ty].k ELSE ty
PartsOf(ty)  == Types[ty].parts
IsTensor(ty) == KindOf(ty) = "tensor"
IsList(ty)   == KindOf(ty) = "list"
OwnsHeap(ty) ==
    KindOf(ty) \in {"tensor", "struct", "enum", "array", "list", "tuple"}

(* k: lit id bin un call kcall launch index field array struct enum tuple    *)
(* tidx tensor; n: the identifier, callee, operator, field or variant; a:    *)
(* operands in evaluation order; i: slot, tuple index or variant index.      *)
Ex(k, n, a, i) ==
    [k |-> k, n |-> n, a |-> a, i |-> i, ty |-> "unit", gpu |-> "none", g |-> FALSE]
NoEx  == Ex("none", "", <<>>, 0)
Id(n) == Ex("id", n, <<>>, 0)

(* s: let letmut lettup set seti setf ret do if for while forin match nograd *)
(* brk cont, and what the passes inject: drop retain retagg barrier.         *)
St(s, n, e, b) ==
    [s |-> s, n |-> n, e |-> e, b |-> b, x |-> NoEx, i |-> 0, ty |-> "unit", bs |-> <<>>]

IsLoop(st)    == st.s \in {"for", "while", "forin"}
IsControl(st) == st.s \in {"if", "for", "while", "forin", "nograd", "match"}
IsSet(st)     == st.s \in {"set", "seti", "setf"}
Retain(n)     == St("retain", n, NoEx, <<>>)
RetainAgg(n)  == St("retagg", n, NoEx, <<>>)
Drop(n, ty)   == [St("drop", n, NoEx, <<>>) EXCEPT !.ty = ty]

RECURSIVE Idents(_), IdentsS(_)
Idents(e) ==
    (IF e.k = "id" THEN {e.n} ELSE {}) \cup UNION {Idents(e.a[j]) : j \in DOMAIN e.a}

IdentsB(body) == UNION {IdentsS(body[j]) : j \in DOMAIN body}

(* An assignment's target, base and index are no uses; a drop is no use. *)
IdentsS(st) == Idents(st.e) \cup UNION {IdentsB(st.b[j]) : j \in DOMAIN st.b}

(* Every statement replaced by a sequence, in order. *)
Splice(Op(_), body) == FlattenSeq([j \in DOMAIN body |-> Op(body[j])])

(* Every inner body of a statement replaced. *)
Within(Op(_), st) == [st EXCEPT !.b = [j \in DOMAIN st.b |-> Op(st.b[j])]]

=============================================================================
