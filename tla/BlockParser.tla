------------------------------ MODULE BlockParser ------------------------------
(***************************************************************************)
(* The block structure of the malus parser (malus-syntax, parser.rs) over   *)
(* the tokens of Layout.  The recursive descent is a stack of open blocks:  *)
(* one step reads one statement, item, arm or field, opening the block of a *)
(* header, or ends a block.                                                 *)
(*                                                                          *)
(* An expression is words and bracketed groups, with no operators.  What    *)
(* stands between a header's keyword and its colon (a fn's name and         *)
(* parameters, an arm's variant and bindings, a loop's range) is one        *)
(* expression.  "while" stands for while, for and with; "struct" for struct *)
(* and enum; "fn" for fn and kernel.                                        *)
(***************************************************************************)
EXTENDS Layout

VARIABLES
    pos,                    \* the parser's place in tokens
    blocks,                 \* open blocks [kind, line, count], the program first
    parent,                 \* line of a statement |-> line of its header, or 0
    partner,                \* line of an else |-> line of its if
    parsed                  \* "no", "program", or the error that ended it

parVars == <<pos, blocks, parent, partner, parsed>>
vars == <<source, line, col, tokens, indent_stack, bracket_depth, at_line_start,
          after_colon, indent_char, lexed, pos, blocks, parent, partner, parsed>>

(***************************************************************************)
(* Expressions.                                                             *)
(***************************************************************************)
Count(s, kind) == Cardinality({i \in DOMAIN s : s[i] = kind})
Level(s, i)    == Count(SubSeq(s, 1, i), "open") - Count(SubSeq(s, 1, i), "close")

(* An open bracket after a value is a call and may be empty; elsewhere it   *)
(* groups.                                                                  *)
Ends(kind) == kind \in {"word", "close"}
IsCall(s, i) == i > 1 /\ Ends(s[i - 1])
Follows(s, i) ==
    CASE s[i] = "word"  -> ~Ends(s[i - 1])
      [] s[i] = "open"  -> TRUE
      [] s[i] = "close" -> Ends(s[i - 1]) \/ IsCall(s, i - 1)
      [] OTHER          -> FALSE

IsExpr(s) ==
    /\ s # <<>> /\ s[1] \in {"word", "open"}
    /\ \A i \in 2..Len(s) : Follows(s, i)
    /\ \A i \in DOMAIN s : Level(s, i) >= 0
    /\ Level(s, Len(s)) = 0

(***************************************************************************)
(* The parser's view of the tokens: it never moves past Eof.                *)
(***************************************************************************)
At(p) == tokens[Min({p, Len(tokens)})]
Is(p, kind) == At(p).kind = kind
KindsOf(ts) == [i \in DOMAIN ts |-> ts[i].kind]
SkipNewlines(p) == Min({q \in p..Len(tokens) : ~Is(q, "newline")})

(* The place after the expression at p; p itself if there is none.          *)
ExprEnds(p) == Min({q \in p..Len(tokens) : At(q).kind \notin {"word", "open", "close"}})
AfterExpr(p) ==
    Max({p} \cup {q \in p..ExprEnds(p) : IsExpr(KindsOf(SubSeq(tokens, p, q - 1)))})

EndsStatement(p) == At(p).kind \in {"newline", "dedent", "eof"}
AfterStatement(p) == IF Is(p, "newline") THEN p + 1 ELSE p

(***************************************************************************)
(* What may stand in a block of each kind, and the block a header opens.    *)
(***************************************************************************)
Heads == [program |-> {"fn", "struct", "trait", "impl"},
          impl    |-> {"fn"},
          match   |-> {"word"},
          body    |-> {"if", "while", "match"}]
HeadsIn(kind) == IF kind \in DOMAIN Heads THEN Heads[kind] ELSE {}

Opens == [fn |-> "body", while |-> "body", if |-> "then", match |-> "match",
          struct |-> "struct", trait |-> "trait", impl |-> "impl"]

(* The blocks of statements: parse_body.                                    *)
ListOf(kind) == IF kind \in {"then", "else"} THEN "body" ELSE kind

Block == Last(blocks)
Start == SkipNewlines(pos)
Ready == lexed = "yes" /\ parsed = "no"
AtBlockEnd == At(Start).kind \in {"dedent", "eof"}
Reading == Ready /\ ~(Block.kind = "program" /\ Is(Start, "eof"))
                 /\ ~(Block.kind # "program" /\ AtBlockEnd)

Counted == [blocks EXCEPT ![Len(blocks)].count = @ + 1]
Noted(f, l, v) == [x \in DOMAIN f \cup {l} |-> IF x = l THEN v ELSE f[x]]
Adopt(l) == parent' = Noted(parent, l, Block.line)

Reject(error) == parsed' = error /\ UNCHANGED <<pos, blocks, parent, partner>>

Named(kind) == kind \in Heads.program     \* an item has a name

(* A header's tail: colon, newline, indent.                                 *)
BlockAt(p) == Is(p, "colon") /\ Is(p + 1, "newline") /\ Is(p + 2, "indent")

Header ==
    LET l == At(Start).line
        p == IF ListOf(Block.kind) = "match" THEN Start ELSE Start + 1
        q == AfterExpr(p)
        kind == IF ListOf(Block.kind) = "match" THEN "body" ELSE Opens[At(Start).kind]
    IN  /\ Reading /\ At(Start).kind \in HeadsIn(ListOf(Block.kind))
        /\ IF q > p /\ (Named(At(Start).kind) => Is(p, "word")) /\ BlockAt(q)
           THEN /\ pos' = q + 3
                /\ blocks' = Append(Counted, [kind |-> kind, line |-> l, count |-> 0])
                /\ Adopt(l)
                /\ UNCHANGED <<partner, parsed>>
           ELSE Reject("header")
        /\ UNCHANGED lexVars

LeafAnywhere(q) ==                       \* mutant: what follows is not looked at
    /\ pos' = AfterStatement(q)
    /\ blocks' = Counted
    /\ Adopt(At(Start).line)
    /\ UNCHANGED <<partner, parsed>>

(* A line that opens nothing, up to q: what ends a statement follows.       *)
Leaf(q) ==
    IF EndsStatement(q)
    THEN /\ pos' = AfterStatement(q)
         /\ blocks' = Counted
         /\ Adopt(At(Start).line)
         /\ UNCHANGED <<partner, parsed>>
    ELSE Reject("expected newline")

Statement ==
    /\ Reading /\ ListOf(Block.kind) = "body"
    /\ At(Start).kind \notin Heads.body
    /\ IF AfterExpr(Start) > Start THEN Leaf(AfterExpr(Start))
                                   ELSE Reject("expected expression")
    /\ UNCHANGED lexVars

Field ==
    /\ Reading /\ Block.kind = "struct"
    /\ IF Is(Start, "word") /\ Is(Start + 1, "colon") /\ Is(Start + 2, "word")
       THEN Leaf(Start + 3) ELSE Reject("field")
    /\ UNCHANGED lexVars

Signature ==
    /\ Reading /\ Block.kind = "trait"
    /\ IF Is(Start, "fn") /\ AfterExpr(Start + 1) > Start + 1
       THEN Leaf(AfterExpr(Start + 1)) ELSE Reject("signature")
    /\ UNCHANGED lexVars

(* Imports come before every other item.                                    *)
NoItems == \A l \in DOMAIN parent :
               parent[l] = 0 => \E k \in DOMAIN tokens :
                   tokens[k].line = l /\ tokens[k].kind = "import"

Import ==
    /\ Reading /\ Block.kind = "program" /\ Is(Start, "import")
    /\ IF NoItems /\ Is(Start + 1, "word") THEN Leaf(Start + 2) ELSE Reject("import")
    /\ UNCHANGED lexVars

Misplaced ==
    /\ Reading
    /\ \/ Block.kind = "program" /\ At(Start).kind \notin Heads.program \cup {"import"}
       \/ Block.kind = "impl" /\ ~Is(Start, "fn")
       \/ Block.kind = "match" /\ At(Start).kind \notin Heads.match
    /\ Reject("unexpected token")
    /\ UNCHANGED lexVars

(* The end of a block.  After the block of an if, an else directly behind   *)
(* it belongs to that if.                                                   *)
EndBlock ==
    LET p == IF Is(Start, "dedent") THEN Start + 1 ELSE Start
    IN  /\ Ready /\ Block.kind # "program" /\ AtBlockEnd
        /\ IF Block.count = 0 THEN Reject("empty block")
           ELSE IF Block.kind = "then" /\ Is(p, "else")
           THEN IF BlockAt(p + 1)
                THEN /\ pos' = p + 4
                     /\ blocks' = Append(Front(blocks),
                            [kind |-> "else", line |-> At(p).line, count |-> 0])
                     /\ partner' = Noted(partner, At(p).line, Block.line)
                     /\ UNCHANGED <<parent, parsed>>
                ELSE Reject("else")
           ELSE /\ pos' = p
                /\ blocks' = Front(blocks)
                /\ UNCHANGED <<parent, partner, parsed>>
        /\ UNCHANGED lexVars

Finish ==
    /\ Ready /\ Block.kind = "program" /\ Is(Start, "eof")
    /\ parsed' = "program"
    /\ UNCHANGED <<pos, blocks, parent, partner>>
    /\ UNCHANGED lexVars

(* A lexer error is the parser's error (parse).                             *)
LexError ==
    /\ lexed \notin {"no", "yes"} /\ parsed = "no"
    /\ Reject(lexed)
    /\ UNCHANGED lexVars

Init ==
    /\ LexInit
    /\ pos = 1
    /\ blocks = <<[kind |-> "program", line |-> 0, count |-> 0]>>
    /\ parent = <<>>
    /\ partner = <<>>
    /\ parsed = "no"

Lex == LexNext /\ UNCHANGED parVars
Parse == \/ Header \/ Statement \/ Field \/ Signature \/ Import \/ Misplaced
         \/ EndBlock \/ Finish \/ LexError
Done == parsed # "no" /\ UNCHANGED vars

Next == Lex \/ Parse \/ Done

Spec == Init /\ [][Next]_vars
================================================================================
