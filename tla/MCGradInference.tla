--------------------------- MODULE MCGradInference ---------------------------
(* Programs of three fns: main, which makes the leaf, a helper it calls, and *)
(* one more, in every order.                                                 *)
EXTENDS GradInference

CONSTANT Shapes   \* which programs

MCTypes == [T |-> [k |-> "tensor", parts |-> "f32"], S |-> [k |-> "struct", parts |-> <<"T", "T">>],
            L |-> [k |-> "list", parts |-> "T"], U |-> [k |-> "tuple", parts |-> <<"T", "T">>],
            E |-> [k |-> "enum", parts |-> << <<"T">>, <<>> >>]]

TypeOf == [a |-> "T", b |-> "T", c |-> "T", d |-> "T", p |-> "T", y |-> "T", m |-> "T", n |-> "T",
           s |-> "S", l |-> "L", u |-> "U", e |-> "E"]

Ty(e, ty)  == [e EXCEPT !.ty = ty]
V(n)       == Ty(Id(n), TypeOf[n])
C          == Ty(Ex("tensor", "", <<>>, 0), "T")
Leaf       == Ty(Ex("call", "variable", <<C>>, 0), "T")
Un(e)      == Ty(Ex("un", "neg", <<e>>, 0), "T")
Bin(e, e2) == Ty(Ex("bin", "+", <<e, e2>>, 0), "T")
Relu(e)    == Ty(Ex("call", "relu", <<e>>, 0), "T")
Kern(e)    == Ty(Ex("kcall", "k", <<e>>, 0), "T")
Data(e)    == Ty(Ex("field", "data", <<e>>, 0), "T")
Fst(e)     == Ty(Ex("field", "w", <<e>>, 1), "T")
Snd(e)     == Ty(Ex("field", "z", <<e>>, 2), "T")
At(n, i)   == Ty(Ex("index", "", <<V(n)>>, i), "T")
Make(k, es, i, ty) == Ty(Ex(k, ty, es, i), ty)
CallOf(f, es, ty)  == Ty(Ex("call", f, es, 0), ty)
Def(n, e)  == St("let", n, e, <<>>)
SetN(n, e) == St("set", n, e, <<>>)
SetF(n, e) == [St("setf", n, e, <<>>) EXCEPT !.i = 1]
SetI(n, e) == [St("seti", n, e, <<>>) EXCEPT !.i = 1]
Do(e)      == St("do", "", e, <<>>)
Ret(e)     == St("ret", "", e, <<>>)
Lit        == Ex("lit", "c", <<>>, 0)
If1(b)     == St("if", "", Lit, <<b>>)
For1(b)    == St("for", "i", Lit, <<b>>)
Each(b)    == St("forin", "y", V("l"), <<b>>)
NoGrad1(b) == St("nograd", "", NoEx, <<b>>)
Arms(b1, b2) == [St("match", "", V("e"), <<b1, b2>>) EXCEPT
                    !.bs = << <<[n |-> "y", ty |-> "T"]>>, <<>> >>]
F(e) == CallOf("f", <<e>>, "T")
H(e) == CallOf("h", <<e>>, "T")

(* The helper f(p: T) -> T and the last fn h(p: T) -> T. *)
BodiesF == {
    <<Ret(Relu(V("p")))>>, <<Ret(V("p"))>>, <<Ret(Relu(Data(V("p"))))>>, <<Ret(Kern(V("p")))>>,
    <<If1(<<Ret(F(Un(V("p"))))>>), Ret(V("p"))>>,
    <<Def("s", Make("struct", <<C, V("p")>>, 0, "S")), Ret(Bin(Fst(V("s")), Snd(V("s"))))>>,
    <<Def("b", H(V("p"))), Ret(Un(V("b")))>>,
    <<NoGrad1(<<Def("b", Relu(V("p"))), Do(Un(V("b")))>>), Ret(H(C))>> }
BodiesH == {
    <<Ret(Un(V("p")))>>, <<Ret(C)>>, <<If1(<<Ret(F(V("p")))>>), Ret(C)>>,
    <<Def("s", Make("struct", <<V("p"), C>>, 0, "S")), SetF("s", Leaf), Ret(Un(Fst(V("s"))))>> }

(* Statements of main; a list's element assigned, a loop's element, a        *)
(* payload and a value carried to the next iteration are shapes of their own. *)
PoolMain == {
    Def("a", C), Def("a", Leaf), Def("b", F(V("a"))), Def("b", H(V("a"))), Def("b", Data(V("a"))),
    Def("b", Bin(V("a"), C)), Do(Relu(V("b"))), Do(Un(V("a"))), Do(F(V("b"))), Do(H(V("b"))),
    If1(<<SetN("a", Leaf)>>), For1(<<SetN("b", Relu(V("b")))>>), SetN("b", V("a")),
    Def("s", Make("struct", <<V("a"), C>>, 0, "S")), Def("s", Make("struct", <<C, C>>, 0, "S")),
    SetF("s", Leaf),
    Do(Un(Fst(V("s")))), Do(Un(Snd(V("s")))), Def("b", Fst(V("s"))),
    Def("u", Make("tuple", <<Leaf, C>>, 0, "U")),
    [St("lettup", "", V("u"), <<>>) EXCEPT !.bs = << <<"m", "n">> >>], Do(Relu(V("m"))),
    Do(Un(V("n"))),
    Def("l", Make("array", <<C, V("a")>>, 0, "L")), Do(Un(At("l", 2))),
    Each(<<Do(F(C))>>), NoGrad1(<<SetN("a", Leaf), Do(Un(V("a")))>>),
    NoGrad1(<<SetN("b", H(V("a")))>>) }

Loose == { Each(<<Do(Un(V("y")))>>) }

RECURSIVE Free(_)
Binds(st) == IF st.s = "let" THEN {st.n} ELSE IF st.s = "lettup" THEN ToSet(st.bs[1]) ELSE {}
Bound(body) == UNION {Binds(body[j]) : j \in DOMAIN body}
FreeIn(body) == UNION {Free(body[j]) \ Bound(SubSeq(body, 1, j - 1)) : j \in DOMAIN body}
Free(st) == (Idents(st.e) \cup (IF IsSet(st) THEN {st.n} ELSE {})
             \cup UNION {FreeIn(st.b[j]) : j \in DOMAIN st.b}) \ {"y"}
Fits(body, st) == Free(st) \subseteq Bound(body) /\ Binds(st) \cap Bound(body) = {}

RECURSIVE Written(_, _)
Written(len, pool) ==
    IF len = 0 THEN {<<>>}
    ELSE {Append(z[1], z[2]) : z \in {y \in Written(len - 1, pool) \X pool : Fits(y[1], y[2])}}

MCBodies == [main : Written(3, IF Shapes = "followed" THEN PoolMain
                                       ELSE PoolMain \cup Loose),
             f : BodiesF, h : BodiesH]
MCParams == [main |-> <<>>, f |-> << <<"p", "T">> >>, h |-> << <<"p", "T">> >>]
MCOrders == { <<"main", "f", "h">>, <<"h", "f", "main">>, <<"f", "main", "h">> }
=============================================================================
