------------------------------- MODULE MCSema -------------------------------
(* A library of declarations, and around it every main of two statements out *)
(* of a pool, every library with one item more or one item changed, the      *)
(* rotations of the library, and pairs of items of which one may use what    *)
(* the other leaves in the environment.                                      *)
EXTENDS Sema

Of(k, len, parts) == [k |-> k, len |-> len, parts |-> parts]
MCTypes ==
    [T |-> Of("tensor", 0, "f32"), I |-> Of("tensor", 0, "i32"),
     S |-> Of("struct", 0, <<"T">>), A |-> Of("struct", 0, <<"S", "L">>),
     E |-> Of("enum", 0, << <<"T", "S">>, <<>> >>),
     L |-> Of("list", 0, "T"), LS |-> Of("list", 0, "S"), A1 |-> Of("array", 1, "T"),
     A2 |-> Of("array", 2, "T"), AS |-> Of("array", 1, "S"), AU |-> Of("array", 2, "U"),
     LU |-> Of("list", 0, "U"),
     G1 |-> Of("array", 1, "i64"), G8 |-> Of("array", 8, "i64"), D8 |-> Of("array", 8, "i32"),
     F2 |-> Of("array", 2, "f32"), U |-> Of("tuple", 0, <<"T", "T">>),
     US |-> Of("tuple", 0, <<"S", "T">>),
     UN |-> Of("tuple", 0, <<"Nope", "T">>), Nope |-> Of("named", 0, <<>>)]
    @@ ("S?" :> Of("struct", 0, <<>>)) @@ ("A?" :> Of("struct", 0, <<>>)) @@ ("E?" :> Of("enum",
        0, <<>>))
    @@ ("LS?" :> Of("list", 0, "S?")) @@ ("AS?" :> Of("array", 1, "S?")) @@ ("US?" :> Of("tuple",
        0, <<"S?", "T">>))

B(kind, params, ret, gpu) == [kind |-> kind, params |-> params, ret |-> ret, gpu |-> gpu]
MCBuiltins ==
    [print |-> B("variadic", <<>>, "unit", "none"), rand |-> B("dims", <<"i64">>, "T", "gpu"),
     exp |-> B("fixed", <<"T">>, "T", "gpu"), reshape |-> B("shape", <<>>, "T", "gpu"),
     sum |-> B("reduction", <<>>, "T", "gpu"), mean |-> B("reduction", <<>>, "T", "gpu"),
     softmax |-> B("axis", <<>>, "T", "gpu"), backward |-> B("typed", <<"T">>, "unit", "none"),
     len |-> B("listlen", <<"L">>, "i64", "none"),
     fmax |-> B("kernelonly", <<"f32", "f32">>, "f32", "none"),
     global_id |-> B("kernelonly", <<>>, "i32", "none")]

MCAliases == [ops |-> {"add", "id", "exp", "gone"}]

(* Items. *)
P(n, ty)  == [n |-> n, ty |-> ty, mut |-> FALSE]
MP(n, ty) == [n |-> n, ty |-> ty, mut |-> TRUE]
Item(k, n, ps, ret, body) ==
    [it |-> k, n |-> n, tp |-> <<>>, bound |-> "", ps |-> ps, tys |-> <<>>, ret |-> ret,
        body |-> body]
Struct(n, fields) == Item("struct", n, fields, "unit", <<>>)
Enum(n, tys)      == [Item("enum", n, <<>>, "unit", <<>>) EXCEPT !.tys = tys]
Trait(n, methods) == Item("trait", n, <<>>, "unit", methods)
Fn(n, ps, ret, body)     == Item("fn", n, ps, ret, body)
Kernel(n, ps, ret, body) == Item("kernel", n, ps, ret, body)
Generic(n, bound, ps, ret, body) == [Fn(n, ps, ret, body) EXCEPT !.tp = <<"X">>, !.bound = bound]
Impl(t, n, methods)      == [Item("impl", n, <<>>, "unit", methods) EXCEPT !.bound = t]
Self(rest) == <<P("self", "Self")>> \o rest

(* Expressions and statements. *)
Num      == Ex("lit", "int", <<>>, 0)
Flt      == Ex("lit", "f32", <<>>, 0)
Yes      == Ex("lit", "bool", <<>>, 0)
Str(n)   == Ex("lit", "str", <<>>, n)
Call(f, as)    == Ex("call", f, as, 0)
Named1(f, as, i) == Ex("call", f, as, i)
Dot(x, m, as)  == Ex("method", m, <<x>> \o as, 0)
Bin(op, l, r)  == Ex("bin", op, <<l, r>>, 0)
Field(x, f, i) == Ex("field", f, <<x>>, i)
At(x, j)       == Ex("index", "", <<x, j>>, 0)
List(as)       == Ex("array", "", as, 0)
Pair(l, r)     == Ex("tuple", "", <<l, r>>, 0)
Launch(k, as, i) == Ex("launch", k, as, i)
Tensor(ty, as, i, gpu) == [Ex("tensor", ty, as, i) EXCEPT !.gpu = gpu]
Let(n, e) == St("let", n, e, <<>>)
Mut(n, e) == St("letmut", n, e, <<>>)
Do(e)     == St("do", "", e, <<>>)
Ret(e)    == St("ret", "", e, <<>>)
Set(n, e) == St("set", n, e, <<>>)
SetI(n, x, e) == [St("seti", n, e, <<>>) EXCEPT !.x = x]
SetF(n, i, e) == [St("setf", n, e, <<>>) EXCEPT !.i = i]
If(c, b)  == St("if", "", c, <<b>>)
IfElse(c, b1, b2) == St("if", "", c, <<b1, b2>>)
While(c, b) == St("while", "", c, <<b>>)
For(n, b) == [St("for", n, Num, <<b>>) EXCEPT !.x = Num]
Each(n, e, b) == St("forin", n, e, <<b>>)
NoGrad(b) == St("nograd", "", NoEx, <<b>>)
Brk == St("brk", "", NoEx, <<>>)
Cont == St("cont", "", NoEx, <<>>)
Unpack(names, e, mut) == [St("lettup", "", e,
    <<>>) EXCEPT !.bs = <<[j \in DOMAIN names |-> [n |-> names[j]]]>>, !.i = mut]
Shared(n, ty) == [St("shared", n, NoEx, <<>>) EXCEPT !.ty = ty]
Case(i) == Ex("arm", "", <<>>, i)
Match(e, arms, bs, bodies) ==
    [St("match", "", e, bodies) EXCEPT !.x = Ex("arms", "", arms, 0),
        !.bs = [j \in DOMAIN bs |-> [x \in DOMAIN bs[j] |-> [n |-> bs[j][x]]]]]

S(x)   == Call("S", <<x>>)
X      == Id("t")                 \* a tensor main begins with
Seven  == List(<<Num>>)

Library == <<
    Struct("S", <<P("w", "T")>>),
    Struct("A", <<P("s", "S"), P("l", "L")>>),
    Enum("E", << <<"T", "S">>, <<>> >>),
    Trait("M", <<Fn("get", Self(<<P("x", "T")>>), "T", <<>>)>>),
    Impl("M", "S", <<Fn("get", Self(<<P("x", "T")>>), "T",
        <<Ret(Bin("+", Field(Id("self"), "w", 1), Id("x")))>>),
                     Fn("own", Self(<<>>), "T",
                     <<Ret(Dot(Id("self"), "get", <<Field(Id("self"), "w", 1)>>))>>)>>),
    Generic("id", "", <<P("x", "X")>>, "X", <<Let("y", Id("x")), Ret(Id("y"))>>),
    Generic("through", "M", <<P("x", "X"), P("z", "T")>>, "T",
            <<For("i", <<Let("y", Dot(Id("x"), "get", <<Id("z")>>)), If(Yes, <<Brk>>)>>),
              Ret(Call("id", <<Id("z")>>))>>),
    Kernel("add", <<P("a", "T"), P("b", "T")>>, "T",
        <<Let("c", Bin("+", Id("a"), Id("b"))), Ret(Id("c"))>>),
    Kernel("copy", <<P("a", "T"), P("n", "i32")>>, "T",
           <<Let("i", Call("global_id", <<>>)), Shared("tmp", "F2"),
               SetI("tmp", Num, At(Id("a"), Id("i"))),
             If(Bin("<", Id("i"), Id("n")),
             <<SetI("out", Id("i"), Call("exp", <<At(Id("tmp"), Num)>>))>>)>>),
    Fn("fill", <<P("v", "T"), MP("box", "S")>>, "unit",
        <<SetF("box", 1, Id("v")), Do(Call("fill", <<Id("v"), Id("box")>>))>>) >>

Main(body) == Fn("main", <<>>, "unit", <<Let("t", Call("rand", <<Num>>))>> \o body)

Pool == <<
    Let("a", Dot(Id("ops"), "add", <<X, X>>)), Let("a", Dot(Id("ops"), "add", <<X>>)),
    Let("a", Dot(Id("ops"), "id", <<X>>)), Let("a", Dot(Id("ops"), "fill", <<X>>)),
    Let("ops", S(X)),
    Let("a", Dot(Id("ops"), "own", <<>>)), Let("a", Dot(Id("ops"), "exp", <<X>>)),
    Do(Call("print", <<Str(1), Call("sum", <<X>>)>>)), Do(Call("print", <<Str(2), X>>)),
    Let("a", S(X)), Let("a", S(Num)), Let("a", Call("A", <<S(X), List(<<X>>)>>)),
    Let("a", List(<<X, X>>)),
    Let("a", List(<<X, Num>>)), Let("a", Pair(X, X)), Let("a", Pair(Pair(X, X), X)),
    Let("a", Call("id", <<S(X)>>)),
    Let("a", Call("id", <<X>>)), Let("a", Call("id", <<Flt>>)), Do(Call("through", <<S(X), X>>)),
    Do(Call("through", <<X, X>>)),
    Let("a", Dot(S(X), "own", <<>>)), Let("a", Dot(S(X), "none", <<>>)),
    Let("a", Dot(X, "own", <<>>)),
    Let("a", Call("add", <<X, X>>)), Let("a", Call("add", <<X>>)),
    Let("a", Launch("copy", <<Seven, Seven, X, Num>>, 2)),
    Let("a", Launch("copy", <<Seven, Seven, List(<<>>), X, Num>>, 3)),
    Let("a", Launch("copy", <<Seven>>, 1)),
    Let("a", Launch("copy", <<Seven, Seven, Seven, X>>, 3)), Let("a", Launch("nope", <<>>, 0)),
    Let("a", Call("reshape", <<X, Num>>)), Let("a", Named1("reshape", <<X, Num>>, 1)),
    Let("a", Call("mean", <<X>>)),
    Let("a", Named1("mean", <<X, Num>>, 1)), Let("a", Named1("mean", <<X, Num>>, 3)),
    Let("a", Call("mean", <<X, X>>)), Let("a", Named1("sum", <<X, Num, Num>>, 2)),
    Let("a", Call("softmax", <<X>>)), Let("a", Named1("softmax", <<X, Num>>, 1)),
    Let("a", Named1("softmax", <<X, Num, Num>>, 2)),
    Let("a", Call("softmax", <<>>)), Let("a", Call("fmax", <<Flt, Flt>>)),
    Let("a", Call("nope", <<X>>)),
    Let("a", Bin("**", Num, Num)), Let("a", Bin("**", X, Num)), Let("a", Bin("-", Flt, X)),
    Let("a", Bin("<", Num, Flt)),
    Let("a", Bin("+", X, Tensor("I", <<Num>>, 1, "gpu"))),
    Let("a", Bin("+", X, Field(X, "data", 0))),
    Let("a", Bin("+", X, Tensor("T", <<Num>>, 1, "cpu"))), Let("a", Tensor("T", <<Num>>, 2, "gpu")),
    Let("a", Tensor("I", <<Flt>>, 1, "gpu")), Let("a", Ex("un", "-", <<X>>, 0)),
    Let("a", Ex("variant", "E", <<X, S(X)>>, 1)), Let("a", Ex("variant", "E", <<X>>, 1)),
    Let("a", Ex("bare", "E", <<>>, 2)),
    Let("a", Ex("bare", "E", <<>>, 1)), Let("a", Ex("variant", "E", <<>>, 3)),
    Let("a", At(Field(X, "shape", 0), Num)), Let("a", Field(S(X), "w", 1)),
    Let("a", Field(S(X), "v", 2)),
    Let("a", Call("len", <<X>>)), Do(Call("backward", <<X, Flt>>)),
    Do(Call("fill", <<X, S(X)>>)), Do(Call("fill", <<Num, S(X)>>)),
    Let("a", Dot(S(X), "get", <<Num>>)),
    Mut("m", X), Mut("m", List(<<X, X>>)), Mut("m", S(X)), Unpack(<<"a", "m">>, Id("a"), 1),
    Unpack(<<"a", "b", "c">>, Id("a"), 0),
    Set("m", Call("add", <<X, X>>)), Set("m", Num), Set("a", X), SetI("m", Num, X),
    SetI("m", Num, Num), SetF("m", 1, X),
    SetF("m", 2, X), Set("", X), Set("box", X),
    Let("a", Call("S", <<>>)), Let("a", Pair(X, X)), Let("a", Ex("tuple", "", <<X>>, 0)),
    Do(Ex("tidx", "", <<Id("a")>>, 3)),
    If(Yes, <<Let("a", X), Do(Id("a"))>>), IfElse(Num, <<>>, <<>>),
    IfElse(Yes, <<Let("a", Num)>>, <<Do(Id("a"))>>),
    While(Yes, <<If(Yes, <<Cont>>), Let("t", Num), Do(Id("t"))>>), While(Num, <<>>), Brk, Cont,
    For("i", <<Let("a", Id("i")), Do(Call("id", <<X>>)), If(Yes, <<Brk>>)>>),
    Each("y", List(<<X, X>>), <<Do(Call("add", <<Id("y"), X>>))>>),
    Each("y", Id("a"), <<Let("t", Id("y"))>>), Do(Id("y")), Do(Ex("tidx", "", <<Id("a")>>, 2)),
    Match(Id("a"), <<Case(1), Case(2)>>, << <<"v", "w">>, <<>> >>,
        << <<Do(Call("add", <<Id("v"), Field(Id("w"), "w", 1)>>))>>, <<Do(Id("t"))>> >>),
    Match(Id("a"), <<Case(2), Case(1)>>, << <<>>, <<"v">> >>, << <<Do(Id("u"))>>, <<>> >>),
    Match(Id("a"), <<Case(1)>>, << <<"v", "w">> >>, << <<>> >>),
    Match(Id("a"), <<Case(2), Case(2)>>, << <<>>, <<>> >>, << <<>>, <<>> >>),
    Match(Id("a"), <<Case(2), Case(0)>>, << <<>>, <<>> >>, << <<>>, <<>> >>),
    Match(Id("a"), <<Case(3)>>, << <<>> >>, << <<>> >>),
    NoGrad(<<Let("a", Call("id", <<S(X)>>)), For("i", <<Brk>>)>>), NoGrad(<<Ret(Num)>>),
    Shared("a", "F2"), Ret(Num), Ret(Call("print", <<>>)) >>

(* What the first statement of main binds for the second. *)
Before == << Mut("m", X), Mut("m", List(<<X, X>>)), Mut("m", S(X)), Let("a", Pair(X, X)),
    Let("a", List(<<X, X>>)),
             Let("a", Ex("bare", "E", <<>>, 2)), Let("a", Num), Do(Call("id", <<S(X)>>)), Brk >>

(* One item more than the library, most of them wrong. *)
Extras == <<
    Struct("S", <<P("v", "T")>>), Enum("S", << <<>> >>),
    Enum("E", << <<"T">>, <<>> >>), Struct("Q", <<P("v", "U")>>),
    Struct("Q", <<P("v", "Nope"), P("w", "AU")>>), Enum("Q", << <<"LU">> >>),
    Fn("id", <<>>, "unit", <<>>), Fn("fill", <<>>, "unit", <<Do(Id("t"))>>),
    Fn("g", <<>>, "unit", <<Do(Id("t"))>>),
    Fn("f", <<MP("x", "S")>>, "unit", <<Set("x", Id("x"))>>),
    Fn("add", <<P("a", "T")>>, "T", <<Ret(Id("a"))>>),
    Fn("S__get", <<>>, "unit", <<>>), Fn("f", <<P("x", "Nope")>>, "T", <<>>),
    Fn("f", <<P("x", "UN")>>, "T", <<>>),
    Fn("f", <<P("x", "US"), P("l", "LS")>>, "T", <<Ret(Ex("tidx", "", <<Id("x")>>, 2))>>),
    Fn("f", <<>>, "Self", <<>>),
    Kernel("copy", <<>>, "T", <<>>), Kernel("k", <<P("a", "Nope")>>, "T", <<>>),
    Kernel("k", <<P("a", "T")>>, "T", <<Ret(Call("add", <<Id("a"), Id("a")>>))>>),
    Kernel("k", <<P("a", "T")>>, "T",
        <<For("i", <<SetI("out", Id("i"), At(Id("a"), Id("i")))>>), Do(Launch("add", <<>>, 2))>>),
    Kernel("k", <<P("a", "T")>>, "f32", <<Let("x", Id("a")), Ret(Bin("<", Id("x"), Flt))>>),
    Kernel("k", <<P("a", "T")>>, "T", <<SetI("a", Num, Flt)>>),
    [Generic("two", "", <<P("x", "X")>>, "X", <<>>) EXCEPT !.tp = <<"X", "Y">>],
    Trait("M", <<>>), Trait("N", <<Fn("get", <<>>, "T", <<>>)>>),
    Trait("N", <<Fn("two", Self(<<P("y", "Self")>>), "Nope", <<>>)>>),
    Impl("M", "Q", <<>>), Impl("N", "S", <<>>),
    Impl("M", "S", <<Fn("get", Self(<<P("x", "T")>>), "T", <<>>)>>),
    Impl("M", "E", <<Fn("get", Self(<<>>), "T", <<>>)>>),
    Impl("M", "E", <<Fn("get", <<>>, "T", <<>>),
        Fn("own", Self(<<P("e", "Self")>>), "E", <<Ret(Id("e"))>>)>>),
    Impl("M", "A", <<Fn("get", Self(<<P("x", "T")>>), "T",
        <<Ret(Dot(Field(Id("self"), "s", 1), "get", <<Id("x")>>))>>)>>),
    Impl("M", "A", <<[Fn("get", Self(<<>>), "T", <<>>) EXCEPT !.tp = <<"X">>]>>),
    Generic("rec", "", <<P("x", "X"), P("n", "i64")>>, "X",
        <<If(Yes, <<Ret(Call("rec", <<Id("x"), Id("n")>>))>>), Ret(Id("x"))>>),
    Generic("pick", "", <<P("x", "X"), P("y", "X")>>, "X", <<Ret(Id("x"))>>),
    Generic("bad", "", <<P("x", "T")>>, "T", <<Ret(Id("x"))>>),
    Generic("bad", "", <<P("x", "X")>>, "Nope", <<Ret(Id("x"))>>) >>

UsesExtras == << For("i", <<Do(Call("rec", <<X, Num>>)), Do(Call("rec", <<S(X), Num>>))>>),
    Do(Call("pick", <<X, X>>)),
                 Do(Call("pick", <<X, S(X)>>)), For("i", <<Do(Call("bad", <<X>>))>>),
                 Do(Call("pick", <<X>>)), Do(Call("f", <<Pair(S(X), X), List(<<S(X)>>)>>)),
                 Let("k", Call("k", <<X>>)), Do(Call("add", <<X>>)) >>

(* What one body may leave for another: names free in a generic body, names  *)
(* that are mutable elsewhere, a second impl, an instance called by its name. *)
Open == <<
    Generic("loose", "", <<P("x", "X")>>, "T", <<Let("y", Id("x")), Ret(Id("t"))>>),
    Generic("relay", "", <<P("x", "X")>>, "T", <<Let("z", Id("x")), Ret(Call("loose", <<Id("x")>>))>>) >>
Borrows == <<
    Fn("lender", <<P("t", "T")>>, "T", <<Ret(Call("loose", <<Id("t")>>))>>),
    Fn("stranger", <<P("x", "T")>>, "T", <<Ret(Call("loose", <<Id("x")>>))>>) >>
Leaves == <<
    Fn("owner", <<P("x", "T")>>, "T", <<Mut("m", Id("x")), Set("m", Id("x")), Ret(Id("m"))>>),
    Fn("setter", <<P("x", "T")>>, "T", <<Let("m", Id("x")), Set("m", Id("x")), Ret(Id("m"))>>),
    Fn("keeper", <<P("x", "S")>>, "unit", <<Mut("box", Id("x")), Set("box", Id("x"))>>),
    Fn("direct", <<P("x", "T")>>, "T", <<Ret(Call("id__T", <<Id("x")>>))>>),
    Impl("M", "S", <<Fn("more", Self(<<>>), "T", <<Ret(Dot(Id("self"), "own", <<>>))>>)>>) >>
Leavings == << <<Do(Call("id", <<X>>))>>, <<Mut("m", X), Set("m", X)>>, <<Let("m", X), Set("m", X)>>,
    <<Do(Dot(S(X), "own", <<>>))>> >>
Borrowings == <<
    <<Do(Call("loose", <<X>>))>>, <<Do(Call("relay", <<S(X)>>))>>,
    <<If(Yes, <<Let("t", Num), Do(Call("relay", <<X>>))>>)>>,
    <<Let("u", X), If(Yes, <<Let("t", Id("u")), Do(Call("loose", <<Num>>))>>), Do(Call("relay", <<X>>))>>,
    <<Mut("m", X), For("i", <<Set("m", Call("loose", <<Id("i")>>))>>)>> >>

Rotated(p, n) == SubSeq(p, n + 1, Len(p)) \o SubSeq(p, 1, n)

(* The types stay in order at the front wherever the rest begins. *)
Types3 == SubSeq(Library, 1, 3)
Rest   == SubSeq(Library, 4, Len(Library))
Around(body) == Library \o <<Main(body)>>
Grid(n, m, Program(_, _)) ==
    [k \in 1..(n * m) |-> Program(((k - 1) \div m) + 1, ((k - 1) % m) + 1)]

Mains     == Grid(Len(Before), Len(Pool), LAMBDA i, j : Around(<<Before[i], Pool[j]>>))
Rotations == Grid(Len(Pool), Len(Rest), LAMBDA i,
    n : Types3 \o Rotated(Rest \o <<Main(<<Pool[i]>>)>>, n))
WithExtra == Grid(Len(Extras), Len(UsesExtras),
                  LAMBDA i, j : Types3 \o <<Extras[i]>> \o Rest \o <<Main(<<UsesExtras[j]>>)>>)
Late      == [i \in DOMAIN Extras |-> Around(<<>>) \o <<Extras[i]>>]

(* Two of them around main, in both orders. *)
Pairs(items) == Grid(Len(items), Len(items), LAMBDA i, j : <<items[i], items[j]>>)
Sides(front, items, mains) ==
    Grid(Len(items) * Len(items), Len(mains),
         LAMBDA i, j : front \o <<Pairs(items)[i][1], Main(mains[j])>>
                           \o SelectSeq(<<Pairs(items)[i][2]>>, LAMBDA it : it # Pairs(items)[i][1]))
Left     == Sides(Library, Leaves, Leavings)
Borrowed == Sides(Library \o Open, Borrows \o <<Leaves[1]>>, Borrowings)

MCPrograms == Mains \o Rotations \o WithExtra \o Late \o Left \o Borrowed \o <<Library, <<>> >>
=============================================================================
