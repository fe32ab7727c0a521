------------------------------ MODULE OffsideRule ------------------------------
(***************************************************************************)
(* What the indentation of a source means, said over its lines alone, and   *)
(* that the lexer and the block parser agree with it.                       *)
(***************************************************************************)
EXTENDS BlockParser

Lines == source.lines

PlacesBefore(i, kind) ==
    UNION {{j} \X {n \in DOMAIN Lines[j].text : Lines[j].text[n] = kind} : j \in 1..(i - 1)}
DepthBefore(i) ==
    Cardinality(PlacesBefore(i, "open")) - Cardinality(PlacesBefore(i, "close"))

WidthOf(i) == Len(Lines[i].lead)

(* The logical lines (one starts outside brackets and goes on until they    *)
(* close), the text of each, and the line each belongs to: the last less    *)
(* indented one before it.                                                  *)
Outline ==
    LET logical == {i \in DOMAIN Lines : Lines[i].text # <<>> /\ DepthBefore(i) <= 0}
        end(i)  == Min({Len(Lines)} \cup {j - 1 : j \in {k \in logical : k > i}})
    IN  [logical |-> logical,
         text |-> [i \in logical |-> FlattenSeq([j \in 1..(end(i) - i + 1) |-> Lines[i + j - 1].text])],
         up |-> [i \in logical |-> Max({0} \cup {j \in logical : j < i /\ WidthOf(j) < WidthOf(i)})]]

Ancestors(o, i) ==
    {j \in o.logical : j < i /\ \A k \in o.logical : k \in (j + 1)..i => WidthOf(j) < WidthOf(k)}
ChildrenOf(o, p) == {i \in o.logical : o.up[i] = p}
Before(o, i) == Max({0} \cup {j \in ChildrenOf(o, o.up[i]) : j < i})

OneChar == \E c \in {" ", "tab"} : \A i \in DOMAIN Lines : Range(Lines[i].lead) \subseteq {c}

(***************************************************************************)
(* A well-formed source: which line may stand under which.                  *)
(***************************************************************************)
HeadOf(o, i) == o.text[i][1]
IsHeader(o, i) == Last(o.text[i]) = "colon"
Inner(o, i, from) == SubSeq(o.text[i], from, Len(o.text[i]) - 1)

UnderOf(o, p) ==                        \* the block a line p opens
    IF p = 0 THEN "program"
    ELSE CASE HeadOf(o, p) \in {"struct", "trait", "impl", "match"} -> HeadOf(o, p)
           [] OTHER -> "body"

Keyword == {"fn", "struct", "trait", "impl", "if", "while", "match"}
HeaderShaped(o, i) ==
    /\ IsHeader(o, i)
    /\ CASE HeadOf(o, i) = "else"    -> Len(o.text[i]) = 2
         [] HeadOf(o, i) \in Keyword -> /\ IsExpr(Inner(o, i, 2))
                                        /\ Named(HeadOf(o, i)) => o.text[i][2] = "word"
         [] OTHER                    -> IsExpr(Inner(o, i, 1)) /\ HeadOf(o, i) = "word"

Fits(o, i) ==
    LET under == UnderOf(o, o.up[i])
    IN  CASE under = "program" ->
               \/ HeadOf(o, i) \in {"fn", "struct", "trait", "impl"} /\ HeaderShaped(o, i)
               \/ /\ o.text[i] = <<"import", "word">>
                  /\ \A j \in ChildrenOf(o, 0) : j < i => HeadOf(o, j) = "import"
          [] under = "struct" -> o.text[i] = <<"word", "colon", "word">>
          [] under = "trait"  -> HeadOf(o, i) = "fn" /\ IsExpr(Tail(o.text[i]))
          [] under = "impl"   -> HeadOf(o, i) = "fn" /\ HeaderShaped(o, i)
          [] under = "match"  -> HeadOf(o, i) = "word" /\ HeaderShaped(o, i)
          [] OTHER ->
               \/ HeadOf(o, i) \in {"if", "while", "match"} /\ HeaderShaped(o, i)
               \/ /\ HeadOf(o, i) = "else" /\ HeaderShaped(o, i)
                  /\ Before(o, i) # 0 /\ HeadOf(o, Before(o, i)) = "if"
               \/ IsExpr(o.text[i])

WellFormed(o) ==
    /\ OneChar
    /\ \A i \in o.logical :
         /\ IF o.up[i] = 0 THEN WidthOf(i) = 0
            ELSE \A j \in ChildrenOf(o, o.up[i]) : WidthOf(j) = WidthOf(i)
         /\ IsHeader(o, i) <=> ChildrenOf(o, i) # {}
         /\ Fits(o, i)

(***************************************************************************)
(* Invariants.                                                              *)
(***************************************************************************)
Nesting(n) == Count(KindsOf(SubSeq(tokens, 1, n)), "indent")
             - Count(KindsOf(SubSeq(tokens, 1, n)), "dedent")
(* The INDENTs emitted so far that no DEDENT has closed, and the line whose *)
(* last token stands before one.                                            *)
OpenIndents == {k \in DOMAIN tokens : /\ tokens[k].kind = "indent"
                                      /\ \A m \in k..Len(tokens) : Nesting(m) >= Nesting(k)}
HeaderBehind(o, k) == Max({j \in o.logical : j < tokens[k].line})

(* A bracket closed that was never opened: the lexer counts on from zero.   *)
Surplus == \E i \in 1..(line - 1) : \E n \in DOMAIN Lines[i].text :
               DepthBefore(i) + Level(Lines[i].text, n) < 0

(* The INDENT and DEDENT tokens nest the lines as their widths do: where a  *)
(* logical line's first token comes, the blocks open around it are those of *)
(* the lines it is indented under, each opened right behind its header.  A  *)
(* block left open too long, closed once too often or opened by a           *)
(* continuation line gives a line other ancestors.                          *)
NestedAsIndented ==
    InLine /\ col = 1 /\ ~Surplus =>
        LET o == Outline
        IN  line \in o.logical =>
                {HeaderBehind(o, k) : k \in OpenIndents} = Ancestors(o, line)

(* A source is parsed exactly when its lines are well formed: the parser    *)
(* reads the tokens to their end and no error of lexer or parser hits a     *)
(* well-formed source, and what the lexer lets pass (a colon with nothing   *)
(* deeper below, an else without its if, a block under a plain statement)   *)
(* is refused by one of them.                                               *)
VerdictRight == parsed # "no" => (parsed = "program" <=> WellFormed(Outline))

(* The tree of an accepted source is the tree of its indentation: every     *)
(* statement is in the block of the line it is indented under, and an else  *)
(* belongs to the if of its own width before it.                            *)
TreeRight ==
    parsed = "program" =>
        LET o == Outline
        IN  /\ DOMAIN partner = {i \in o.logical : HeadOf(o, i) = "else"}
            /\ \A i \in DOMAIN partner : partner[i] = Before(o, i)
            /\ DOMAIN parent = o.logical \ DOMAIN partner
            /\ \A i \in DOMAIN parent : parent[i] = o.up[i]

================================================================================
