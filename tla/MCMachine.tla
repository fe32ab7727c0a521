------------------------------ MODULE MCMachine ------------------------------
(* A pool of statements over fixed names, and every well-scoped fn body of at *)
(* most Length of them that ends in a return.                                 *)
EXTENDS Machine

CONSTANTS Length,   \* statements before the return
          Shapes    \* which of the bodies

MCTypes == [T |-> [k |-> "tensor", parts |-> "f32"], S |-> [k |-> "struct", parts |-> <<"T">>],
            L |-> [k |-> "list", parts |-> "T"], A |-> [k |-> "array", parts |-> "T"],
            M |-> [k |-> "list", parts |-> "S"], U |-> [k |-> "tuple", parts |-> <<"T", "T">>],
            E |-> [k |-> "enum", parts |-> << <<"T", "T">>, <<>> >>]]
MCParams == << <<"p", "T">> >>

TypeOf == [p |-> "T", q |-> "T", a |-> "T", b |-> "T", c |-> "T", m |-> "T", n |-> "T",
    v |-> "T", w |-> "T", d |-> "T",
           y |-> "T", x |-> "T", s |-> "S", s2 |-> "S", l |-> "L", k |-> "L", r |-> "A",
           g |-> "M", u |-> "U", e |-> "E"]

Ty(e, ty)  == [e EXCEPT !.ty = ty, !.gpu = IF ty = "T" THEN "gpu" ELSE "none"]
V(n)       == Ty(Id(n), TypeOf[n])
K(n)       == Ty(Ex("kcall", "k", <<V(n)>>, 0), "T")
Make(k, es, i, ty) == Ty(Ex(k, ty, es, i), ty)
Read(n, ty) == Ty(Ex("index", "", <<V(n)>>, 1), ty)
Def(n, e)  == St("let", n, e, <<>>)
Use(n)     == St("do", "", Ex("call", "print", <<V(n)>>, 0), <<>>)
Part(n, f) == Ty(Ex("field", f, <<V(n)>>, 1), "T")
Ret(e)     == St("ret", "", e, <<>>)
If1(b)     == St("if", "", Ex("lit", "c", <<>>, 0), <<b>>)
For1(b)    == St("for", "i", Ex("lit", "n", <<>>, 0), <<b>>)
Each(n, b) == St("forin", "y", V(n), <<b>>)
SetN(n, e) == St("set", n, e, <<>>)
SetI(n, e) == [St("seti", n, e, <<>>) EXCEPT !.i = 1]
Brk        == St("brk", "", NoEx, <<>>)
Cont       == St("cont", "", NoEx, <<>>)
Pay(n)     == [n |-> n, ty |-> "T"]
Arms(b1, b2) == [St("match", "", V("e"), <<b1, b2>>) EXCEPT
                    !.bs = << <<Pay("v"), Pay("w")>>, <<>> >>]
CallOf(f, es, ty) == Ty(Ex("call", f, es, 0), ty)

MCFns == [same  |-> Callee(<< <<"q", "T">> >>, << Ret(V("q")) >>),
          show  |-> Callee(<< <<"q", "T">> >>, << If1(<<Use("q")>>) >>),
          first |-> Callee(<< <<"l", "L">> >>, << Def("x", Read("l", "T")), Ret(V("x")) >>)]

Pool == {
    Def("a", K("p")), Def("a", CallOf("same", <<V("p")>>, "T")),
    Def("b", V("a")), Def("b", V("p")), Def("b", Part("a", "data")), Def("c", V("b")),
    Def("s", Make("struct", <<V("a")>>, 0, "S")), Def("s", Make("struct", <<K("p")>>, 0, "S")),
    Def("l", Make("array", <<V("a"), V("a")>>, 0, "L")), Def("k", V("l")),
    Def("r", Make("array", <<V("a")>>, 0, "A")),
    Def("g", Make("array", <<Make("struct", <<K("p")>>, 0, "S")>>, 0, "M")),
    Def("s2", Read("g", "S")), Def("l", Make("array", <<K("p"), K("p")>>, 0, "L")),
    Def("x", Read("l", "T")), Def("x", Read("r", "T")), Def("x", CallOf("first", <<V("l")>>, "T")),
    Def("e", Make("enum", <<K("p"), K("p")>>, 1, "E")), Def("e", Make("enum", <<>>, 2, "E")),
    Def("u", Make("tuple", <<K("p"), K("p")>>, 0, "U")),
    [St("lettup", "", V("u"), <<>>) EXCEPT !.bs = << <<"m", "n">> >>],
    [St("lettup", "", Make("tuple", <<K("p"), K("p")>>, 0, "U"), <<>>) EXCEPT
        !.bs = << <<"m", "n">> >>],
    Use("a"), Use("b"), Use("x"), Use("m"), Use("n"), Use("s2"), Use("l"), Use("g"),
    St("do", "", CallOf("show", <<V("a")>>, "unit"), <<>>),
    St("do", "", Ex("call", "print", <<Part("s", "f")>>, 0), <<>>),
    St("do", "", Ex("call", "print", <<K("a")>>, 0), <<>>),
    If1(<<Use("a")>>), If1(<<Ret(K("p"))>>), If1(<<Ret(V("p"))>>),
    For1(<<If1(<<Brk>>), Use("a")>>),
    For1(<<Def("d", K("a")), If1(<<Cont>>), If1(<<Ret(K("p"))>>), Use("d")>>),
    Each("l", <<Use("y")>>), Each("l", <<Def("d", V("y")), Use("d")>>),
    Each("r", <<If1(<<Brk>>), Use("y")>>),
    Arms(<<Use("v"), Use("w")>>, <<Use("p")>>), Arms(<<Use("v"), Ret(V("w"))>>, <<Ret(K("p"))>>),
    Arms(<<Use("w")>>, <<>>),
    For1(<<SetN("a", K("a"))>>), SetN("a", K("a")), SetN("a", V("b")),
    SetI("l", K("a")), SetI("l", V("b")), [SetI("s", K("a")) EXCEPT !.s = "setf"],
    St("nograd", "", NoEx, << <<Use("a")>> >>) }

Returns == { Ret(V("p")), Ret(V("a")), Ret(V("b")), Ret(V("x")), Ret(V("m")), Ret(K("p")),
    Ret(K("a")) }

RECURSIVE Free(_)
Binds(st) == IF st.s = "let" THEN {st.n} ELSE IF st.s = "lettup" THEN ToSet(st.bs[1]) ELSE {}
Bound(body) == UNION {Binds(body[j]) : j \in DOMAIN body}
FreeIn(body) == UNION {Free(body[j]) \ Bound(SubSeq(body, 1, j - 1)) : j \in DOMAIN body}
Free(st) ==
    LET inner == UNION {FreeIn(st.b[j]) : j \in DOMAIN st.b}
        local == IF st.s = "match" THEN {"v", "w"} ELSE {"y"}
    IN  Idents(st.e) \cup (IF IsSet(st) THEN {st.n} ELSE {}) \cup (inner \ local)

Fits(body, st) ==
    /\ Free(st) \subseteq Bound(body) \cup {"p"}
    /\ Binds(st) \cap Bound(body) = {}

RECURSIVE Written(_)
Written(len) ==
    IF len = 0 THEN {<<>>}
    ELSE LET w == Written(len - 1)
         IN  w \cup {Append(b, st) :
                     <<b, st>> \in {z \in w \X Pool : /\ Len(z[1]) = len - 1
                                                    /\ Fits(z[1], z[2])}}
Complete(len) == {Append(b, st) : <<b, st>> \in {z \in Written(len) \X Returns : Fits(z[1], z[2])}}

(* A value assigned at this level that no later statement reads. *)
DeadStore(body) ==
    \E j \in DOMAIN body :
        /\ body[j].s = "set"
        /\ \A x \in (j + 1)..Len(body) : body[j].n \notin Free(body[x])

(* An element bound by the last statement that reads its container. *)
LastRead(body) ==
    \E j \in DOMAIN body :
        /\ BindingRetain(body[j].e, "") # <<>>
        /\ \A x \in (j + 1)..Len(body) : body[j].e.a[1].n \notin Free(body[x])

Clean(body) == ~DeadStore(body) /\ ~LastRead(body)

(* "clean": without the shapes the pass is known to get wrong; shorter ones  *)
(* also with static barriers. "reads": with an element's last read.          *)
MCSources ==
    IF Shapes = "clean"
    THEN [body : {b \in Complete(Length) : Clean(b)}, on : {FALSE}]
         \cup [body : {b \in Complete(Length - 1) : Clean(b)}, on : {TRUE}]
    ELSE [body : {b \in Complete(Length) : ~DeadStore(b)}, on : {FALSE}]
=============================================================================
