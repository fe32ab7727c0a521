----------------------------- MODULE MCOffsideRule -----------------------------
(* Sources: programs that use every kind of line, with one or two of their   *)
(* lines changed, moved in or out, cut or added, and all short ones.         *)
EXTENDS OffsideRule

L(w, text) == [lead |-> [i \in 1..w |-> " "], text |-> text]

FnLine    == <<"fn", "word", "open", "close", "colon">>
IfLine    == <<"if", "word", "colon">>
ElseLine  == <<"else", "colon">>
WhileLine == <<"while", "word", "colon">>
MatchLine == <<"match", "word", "colon">>
ArmLine   == <<"word", "colon">>
Word      == <<"word">>
Words     == <<"word", "word">>
Call      == <<"word", "open", "word", "close">>
CallOpen  == <<"word", "open", "word">>
CallShut  == <<"close">>
IfOpen    == <<"if", "word", "open">>
IfShut    == <<"word", "close", "colon">>
FieldLine == <<"word", "colon", "word">>
SigLine   == <<"fn", "word", "open", "close">>
Item(k)   == <<k, "word", "colon">>
ImportLine == <<"import", "word">>

Texts == {FnLine, IfLine, ElseLine, WhileLine, MatchLine, ArmLine, Word, Words, CallOpen,
          CallShut, FieldLine, SigLine, Item("impl"), ImportLine, <<>>}

(* A dangling else, at each of the two ifs; brackets over several lines.    *)
Nested ==
    {<<L(0, FnLine), L(1, IfLine), L(2, IfLine), L(3, Word),
       L(w, ElseLine), L(w + 1, Word)>> : w \in {1, 2}}
Programs == Nested \cup {
    <<L(0, FnLine), L(2, WhileLine), L(4, Call), L(2, CallOpen), L(0, CallShut), L(2, Word)>>,
    <<L(0, FnLine), L(1, IfOpen), L(3, IfShut), L(2, Word), L(1, ElseLine), L(2, Word)>>,
    <<L(0, FnLine), L(1, MatchLine), L(2, ArmLine), L(3, Word), L(2, ArmLine), L(3, Word)>>,
    <<L(0, ImportLine), L(0, Item("struct")), L(1, FieldLine), L(0, Item("trait")), L(1, SigLine)>>,
    <<L(0, Item("impl")), L(1, FnLine), L(2, Word), L(1, FnLine), L(3, Word)>>}

Widths == 0..4
Replaced(p, i, l) == [p EXCEPT ![i] = l]
Moved(ps)   == {Replaced(p, i, L(w, p[i].text)) : p \in ps, i \in 1..5, w \in Widths}
MovedL(ps)  == {Replaced(p, Len(p), L(w, p[Len(p)].text)) : p \in ps, w \in Widths}
Changed(ps) == 
    UNION {{Replaced(p, i, L(Len(p[i].lead), t)) : i \in DOMAIN p, t \in Texts} : p \in ps}
Tabbed(ps)  == UNION {{Replaced(p, i,
    [p[i] EXCEPT !.lead = [j \in DOMAIN @ |-> IF j <= k THEN "tab" ELSE " "]]) :
                       i \in DOMAIN p, k \in 1..2} : p \in ps}
Cut(ps)     == UNION {{RemoveAt(p, i) : i \in DOMAIN p} : p \in ps}
Added(ps)   == UNION {{InsertAt(p, i, L(w, t)) : i \in DOMAIN p, w \in {0, 2},
    t \in {<<>>, Word, CallShut, ElseLine}} : p \in ps}

Once  == Moved(Programs) \cup MovedL(Programs) \cup Changed(Programs) \cup Cut(Programs) \cup Added(Programs)
Twice == Moved(Moved(Programs)) \cup Tabbed(Programs) \cup Changed(Cut(Programs)) \cup MovedL(Changed(Programs))
Short == {<<L(0, FnLine), L(1, t), L(w, u), L(v, x)>>  :
              t, u, x \in Texts \ {FieldLine, SigLine, Words, Item("impl")}, w \in 0..1, v \in 0..2}

MCSources == [lines : Once \cup Twice, newline : {TRUE}]
        \cup [lines : Once \cup Short, newline : {FALSE}]
================================================================================
