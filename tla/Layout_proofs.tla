---------------------------- MODULE Layout_proofs ----------------------------
(* The lexer's stack of widths and its bracket counter stay sound on every   *)
(* source.                                                                   *)
EXTENDS OffsideRule, Induction, SequenceTheorems

(* The invariant the induction needs besides LexTypeOK: the source read is   *)
(* one of the lexer's, so that every line has a width.                       *)
LexInv == LexTypeOK /\ source \in Sources

LEMMA SeqFacts ==
    ASSUME NEW S, NEW s \in Seq(S)
    PROVE  Len(s) \in Nat /\ \A i \in 1..Len(s) : s[i] \in S
OBVIOUS

LEMMA WidthIsNat == ASSUME source \in Sources, ~AtEnd, line \in Nat \ {0}
                    PROVE  Width \in Nat
<1> DEFINE ls == source.lines
<1> DEFINE Line == [lead : Seq({" ", "tab"}), text : Seq(TextKinds)]
<1>0. source \in Sources /\ line \in Nat \ {0} /\ ~AtEnd
  OBVIOUS
<1>1. ls \in Seq(Line)
  BY <1>0, SourcesAssumption
<1> HIDE DEF Line
<1>2. Len(ls) \in Nat  BY <1>1, SeqFacts
<1>3. line \in Nat /\ line # 0 /\ ~(line > Len(ls))
  BY <1>0 DEF AtEnd
<1> HIDE DEF ls
<1>4. line \in 1..Len(ls)  BY <1>2, <1>3
<1>5. ls[line] \in Line
  BY <1>1, <1>4, SeqFacts
<1>6. ls[line].lead \in Seq({" ", "tab"})  BY <1>5 DEF Line
<1>7. Width = Len(ls[line].lead)  BY DEF Width, Here, ls
<1> QED  BY <1>6, <1>7, SeqFacts

(* A stack of widths: not empty, from 0 strictly up.                         *)
Rising(s) == /\ s \in Seq(Nat) /\ Len(s) >= 1 /\ s[1] = 0
             /\ \A i, j \in DOMAIN s : i < j => s[i] < s[j]

LEMMA PushKeepsRising ==
    ASSUME NEW s, Rising(s), NEW w \in Nat, w > Last(s)
    PROVE  Rising(Append(s, w))
<1> DEFINE t == Append(s, w)
<1>1. t \in Seq(Nat) /\ Len(t) = Len(s) + 1 /\ t[Len(s) + 1] = w
      /\ \A i \in 1..Len(s) : t[i] = s[i]
  BY DEF Rising
<1>2. \A i \in 1..Len(s) : s[i] <= Last(s)
  <2> TAKE i \in 1..Len(s)
  <2>1. CASE i = Len(s)  BY <2>1 DEF Last, Rising
  <2>2. CASE i < Len(s)  BY <2>2 DEF Last, Rising
  <2> QED  BY <2>1, <2>2 DEF Rising
<1>3. ASSUME NEW i \in DOMAIN t, NEW j \in DOMAIN t, i < j  PROVE t[i] < t[j]
  <2>1. i \in 1..Len(s)  BY <1>1, <1>3 DEF Rising
  <2>2. CASE j = Len(s) + 1
    <3>1. s[i] \in Nat /\ Last(s) \in Nat  BY <2>1 DEF Rising, Last
    <3> QED  BY <2>1, <2>2, <1>1, <1>2, <3>1
  <2>3. CASE j \in 1..Len(s)  BY <2>1, <2>3, <1>1, <1>3 DEF Rising
  <2> QED  BY <1>1, <2>2, <2>3 DEF Rising
<1> QED  BY <1>1, <1>3 DEF Rising

LEMMA PopKeepsRising ==
    ASSUME NEW s, Rising(s), NEW k \in 1..Len(s)
    PROVE  Rising(SubSeq(s, 1, k))
<1>1. SubSeq(s, 1, k) \in Seq(Nat) /\ Len(SubSeq(s, 1, k)) = k
      /\ \A i \in 1..k : SubSeq(s, 1, k)[i] = s[i]
  BY DEF Rising
<1>2. k \in 1..Len(s) /\ Len(s) \in Nat /\ \A i \in 1..Len(s) : s[i] \in Nat
  BY DEF Rising
<1>3. SubSeq(s, 1, k)[1] = 0  BY <1>1, <1>2 DEF Rising
<1>4. ASSUME NEW i \in 1..k, NEW j \in 1..k, i < j
      PROVE  SubSeq(s, 1, k)[i] < SubSeq(s, 1, k)[j]
  <2>1. i \in DOMAIN s /\ j \in DOMAIN s  BY <1>2 DEF Rising
  <2>2. s[i] < s[j]  BY <2>1, <1>4 DEF Rising
  <2> QED  BY <2>2, <1>1
<1>5. DOMAIN SubSeq(s, 1, k) = 1..k  BY <1>1
<1>6. k >= 1  BY <1>2
<1> QED  BY <1>1, <1>3, <1>4, <1>5, <1>6 DEF Rising

LEMMA BottomRises == Rising(<<0>>)
<1> DEFINE s == <<0>>
<1>1. s \in Seq(Nat) /\ Len(s) = 1 /\ s[1] = 0  OBVIOUS
<1>2. DOMAIN s = {1}  OBVIOUS
<1> HIDE DEF s
<1>3. Rising(s)  BY <1>1, <1>2 DEF Rising
<1> QED  BY <1>3 DEF s

LEMMA StepKeepsLexInv == LexInv /\ [LexNext]_lexVars => LexInv'
<1> SUFFICES ASSUME LexInv, [LexNext]_lexVars PROVE LexInv'
  OBVIOUS
<1> USE DEF LexInv, LexTypeOK
<1>r. Rising(indent_stack)  BY DEF Rising
<1>1. CASE MixedLine  BY <1>1 DEF MixedLine, Fail, Errors
<1>2. CASE BlankLine  BY <1>2 DEF BlankLine
<1>3. CASE Continued  BY <1>3 DEF Continued
<1>4. CASE Deeper
  <2>1. Width \in Nat
    BY <1>4, WidthIsNat DEF Deeper, LogicalStart, AtLineStart
  <2>2. CASE after_colon
    <3>1. indent_stack' = Append(indent_stack, Width) /\ Width > Last(indent_stack)
      BY <1>4, <2>2 DEF Deeper
    <3>2. Rising(indent_stack')  BY <3>1, <2>1, <1>r, PushKeepsRising
    <3>3. /\ after_colon' = FALSE /\ lexed' = lexed /\ at_line_start' = FALSE
          /\ source' = source /\ line' = line /\ col' = col /\ bracket_depth' = bracket_depth
      BY <1>4, <2>2 DEF Deeper, LogicalStart
    <3> QED  BY <3>2, <3>3 DEF Rising
  <2>3. CASE ~after_colon
    BY <1>4, <2>3 DEF Deeper, LogicalStart, Fail, Errors
  <2> QED  BY <2>2, <2>3
<1>5. CASE Shallower
  <2>1. PICK k \in 1..(Len(indent_stack) - 1) :
          /\ LogicalStart
          /\ indent_stack' = SubSeq(indent_stack, 1, k)
          /\ after_colon' = FALSE
          /\ lexed' \in {lexed, "InconsistentDedent"}
    BY <1>5 DEF Shallower, Fail
  <2>2. Rising(indent_stack')  BY <2>1, <1>r, PopKeepsRising
  <2>3. /\ at_line_start' = FALSE /\ source' = source /\ line' = line /\ col' = col
        /\ bracket_depth' = bracket_depth
    BY <2>1 DEF LogicalStart
  <2> QED  BY <2>1, <2>2, <2>3 DEF Rising, Errors
<1>6. CASE SameLevel  BY <1>6 DEF SameLevel, LogicalStart, Fail, Errors
<1>7. CASE Scan
  <2>1. bracket_depth' \in Nat
    <3>1. bracket_depth' = BracketsAfter(Here.text[col])  BY <1>7 DEF Scan
    <3>2. bracket_depth \in Nat  OBVIOUS
    <3>3. \A kind : BracketsAfter(kind) \in Nat  BY <3>2 DEF BracketsAfter
    <3> QED  BY <3>1, <3>3
  <2>2. /\ col' = col + 1 /\ indent_stack' = indent_stack /\ lexed' = lexed
        /\ UNCHANGED <<source, line, at_line_start, after_colon>>
    BY <1>7 DEF Scan
  <2> QED  BY <2>1, <2>2
<1>8. CASE Newline
  <2>1. after_colon' \in BOOLEAN  BY <1>8 DEF Newline, LastRealIsColon
  <2>2. /\ line' = line + 1 /\ col' = 1 /\ at_line_start' = TRUE
        /\ UNCHANGED <<source, indent_stack, bracket_depth, lexed>>
    BY <1>8 DEF Newline
  <2> QED  BY <2>1, <2>2
<1>9. CASE EndOfSource
  <2>1. Rising(indent_stack')
    <3>1. indent_stack' \in {indent_stack, <<0>>}  BY <1>9 DEF EndOfSource
    <3> QED  BY <3>1, <1>r, BottomRises
  <2>2. lexed' = "yes" /\ UNCHANGED <<source, line, col, bracket_depth, at_line_start, after_colon>>
    BY <1>9 DEF EndOfSource
  <2> QED  BY <2>1, <2>2 DEF Rising
<1>10. CASE UNCHANGED lexVars  BY <1>10 DEF lexVars
<1> QED
  BY <1>1, <1>2, <1>3, <1>4, <1>5, <1>6, <1>7, <1>8, <1>9, <1>10 DEF LexNext

LEMMA InitLexInv == LexInit => LexInv
<1> SUFFICES ASSUME LexInit PROVE LexInv
  OBVIOUS
<1>1. Rising(indent_stack)  BY BottomRises DEF LexInit
<1>2. /\ source \in Sources /\ line = 1 /\ col = 1 /\ bracket_depth = 0
      /\ at_line_start = TRUE /\ after_colon = FALSE /\ lexed = "no"
  BY DEF LexInit
<1>3. line \in Nat \ {0} /\ col \in Nat \ {0} /\ bracket_depth \in Nat  BY <1>2
<1>4. at_line_start \in BOOLEAN /\ after_colon \in BOOLEAN
  BY <1>2
<1>5. lexed \in {"no", "yes"} \cup Errors  BY <1>2
<1> QED  BY <1>1, <1>2, <1>3, <1>4, <1>5, Zenon DEF LexInv, LexTypeOK, Rising

(* On every source the lexer's stack holds a bottom and rises strictly, and  *)
(* its bracket counter does not fall below zero: taking the stack's last     *)
(* element never panics and the unsigned counter never wraps.                *)
THEOREM LexTypeCorrect == LexSpec => []LexTypeOK
<1>1. LexInv => LexTypeOK
  BY DEF LexInv
<1> QED  BY <1>1, InitLexInv, StepKeepsLexInv, PTL DEF LexSpec

-------------------------------------------------------------------------------
(* Counting.  How often a kind is among the first n elements of a sequence   *)
(* of kinds, one element at a time.                                          *)
Upto(s, n, kind) == Cardinality({m \in 1..n : s[m] = kind})

LEMMA UptoFinite ==
    ASSUME NEW s, NEW n \in Nat, NEW kind
    PROVE  /\ IsFiniteSet({m \in 1..n : s[m] = kind})
           /\ Upto(s, n, kind) \in Nat
<1>1. IsFiniteSet(1..n)  BY FS_Interval
<1>2. {m \in 1..n : s[m] = kind} \in SUBSET (1..n)  OBVIOUS
<1>3. IsFiniteSet({m \in 1..n : s[m] = kind})  BY <1>1, <1>2, FS_Subset
<1> QED  BY <1>3, FS_CardinalityType DEF Upto

LEMMA UptoNone == ASSUME NEW s, NEW kind PROVE Upto(s, 0, kind) = 0
<1>1. {m \in 1..0 : s[m] = kind} = {}  OBVIOUS
<1> QED  BY <1>1, FS_EmptySet DEF Upto

LEMMA UptoStep ==
    ASSUME NEW s, NEW n \in Nat, NEW kind
    PROVE  Upto(s, n + 1, kind) = IF s[n + 1] = kind THEN Upto(s, n, kind) + 1
                                                     ELSE Upto(s, n, kind)
<1> DEFINE P(k) == {m \in 1..k : s[m] = kind}
<1>1. IsFiniteSet(P(n)) /\ n + 1 \notin P(n)  BY UptoFinite
<1>2. CASE s[n + 1] = kind
  <2>1. P(n + 1) = P(n) \cup {n + 1}  BY <1>2
  <2>2. Cardinality(P(n + 1)) = Cardinality(P(n)) + 1
    BY <1>1, <2>1, FS_AddElement
  <2> QED  BY <1>2, <2>2 DEF Upto
<1>3. CASE s[n + 1] # kind
  <2>1. P(n + 1) = P(n)  BY <1>3
  <2> QED  BY <1>3, <2>1 DEF Upto
<1> QED  BY <1>2, <1>3

LEMMA UptoSame ==
    ASSUME NEW s, NEW t, NEW n \in Nat, NEW kind, \A m \in 1..n : s[m] = t[m]
    PROVE  Upto(s, n, kind) = Upto(t, n, kind)
<1>1. {m \in 1..n : s[m] = kind} = {m \in 1..n : t[m] = kind}  OBVIOUS
<1> QED  BY <1>1 DEF Upto

LEMMA CountIsUpto ==
    ASSUME NEW S, NEW s \in Seq(S), NEW n \in 0..Len(s), NEW kind
    PROVE  Count(SubSeq(s, 1, n), kind) = Upto(s, n, kind)
<1> DEFINE t == SubSeq(s, 1, n)
<1>1. DOMAIN t = 1..n /\ \A i \in 1..n : t[i] = s[i]  OBVIOUS
<1>2. {i \in DOMAIN t : t[i] = kind} = {m \in 1..n : s[m] = kind}  BY <1>1
<1> QED  BY <1>2 DEF Count, Upto

(* Brackets open after the first n tokens of a line.                         *)
LEMMA LevelStep ==
    ASSUME NEW S, NEW s \in Seq(S), NEW n \in Nat, n < Len(s)
    PROVE  /\ Level(s, n) \in Int
           /\ Level(s, n + 1) = CASE s[n + 1] = "open"  -> Level(s, n) + 1
                                  [] s[n + 1] = "close" -> Level(s, n) - 1
                                  [] OTHER              -> Level(s, n)
<1>1. n \in 0..Len(s) /\ n + 1 \in 0..Len(s)  OBVIOUS
<1>2. /\ Level(s, n) = Upto(s, n, "open") - Upto(s, n, "close")
      /\ Level(s, n + 1) = Upto(s, n + 1, "open") - Upto(s, n + 1, "close")
  BY <1>1, CountIsUpto DEF Level
<1>3. Upto(s, n, "open") \in Nat /\ Upto(s, n, "close") \in Nat  BY UptoFinite
<1>4. /\ Upto(s, n + 1, "open") = IF s[n + 1] = "open" THEN Upto(s, n, "open") + 1
                                                      ELSE Upto(s, n, "open")
      /\ Upto(s, n + 1, "close") = IF s[n + 1] = "close" THEN Upto(s, n, "close") + 1
                                                        ELSE Upto(s, n, "close")
  BY UptoStep
<1> QED  BY <1>2, <1>3, <1>4

LEMMA LevelNone == ASSUME NEW S, NEW s \in Seq(S) PROVE Level(s, 0) = 0
<1>1. 0 \in 0..Len(s)  OBVIOUS
<1> QED  BY <1>1, CountIsUpto, UptoNone DEF Level

-------------------------------------------------------------------------------
(* Tokens.  How deep the blocks are after the first n tokens, and the        *)
(* INDENTs that are still open at the end.                                   *)
TokenKinds == TextKinds \cup LayoutKinds \cup {"eof"}
Tokens == [kind : TokenKinds, line : Nat]
Height(ts, n) == Upto(KindsOf(ts), n, "indent") - Upto(KindsOf(ts), n, "dedent")
OpenIn(ts) == {k \in DOMAIN ts : /\ ts[k].kind = "indent"
                                 /\ \A m \in k..Len(ts) : Height(ts, m) >= Height(ts, k)}

LEMMA HeightInt == ASSUME NEW ts, NEW n \in Nat PROVE Height(ts, n) \in Int
<1>1. Upto(KindsOf(ts), n, "indent") \in Nat /\ Upto(KindsOf(ts), n, "dedent") \in Nat
  BY UptoFinite
<1> QED  BY <1>1 DEF Height

LEMMA HeightNone == ASSUME NEW ts PROVE Height(ts, 0) = 0
BY UptoNone DEF Height

LEMMA HeightStep ==
    ASSUME NEW ts \in Seq(Tokens), NEW n \in Nat, n < Len(ts)
    PROVE  Height(ts, n + 1) = CASE ts[n + 1].kind = "indent" -> Height(ts, n) + 1
                                 [] ts[n + 1].kind = "dedent" -> Height(ts, n) - 1
                                 [] OTHER                     -> Height(ts, n)
<1> DEFINE s == KindsOf(ts)
<1>1. s[n + 1] = ts[n + 1].kind  BY DEF KindsOf
<1> HIDE DEF s
<1>3. Upto(s, n, "indent") \in Nat /\ Upto(s, n, "dedent") \in Nat  BY UptoFinite
<1>4. /\ Upto(s, n + 1, "indent") = IF s[n + 1] = "indent" THEN Upto(s, n, "indent") + 1
                                                          ELSE Upto(s, n, "indent")
      /\ Upto(s, n + 1, "dedent") = IF s[n + 1] = "dedent" THEN Upto(s, n, "dedent") + 1
                                                          ELSE Upto(s, n, "dedent")
  BY UptoStep
<1>5. /\ Height(ts, n) = Upto(s, n, "indent") - Upto(s, n, "dedent")
      /\ Height(ts, n + 1) = Upto(s, n + 1, "indent") - Upto(s, n + 1, "dedent")
  BY DEF Height, s
<1> QED  BY <1>1, <1>3, <1>4, <1>5

LEMMA HeightSame ==
    ASSUME NEW ts \in Seq(Tokens), NEW us \in Seq(Tokens), NEW n \in 0..Len(ts),
           Len(us) >= Len(ts), \A i \in 1..n : us[i] = ts[i]
    PROVE  Height(us, n) = Height(ts, n)
<1>1. \A i \in 1..n : KindsOf(us)[i] = KindsOf(ts)[i]  BY DEF KindsOf
<1>2. n \in Nat  OBVIOUS
<1> QED  BY <1>1, <1>2, UptoSame DEF Height

LEMMA NestingIsHeight ==
    ASSUME tokens \in Seq(Tokens), NEW n \in 0..Len(tokens)
    PROVE  Nesting(n) = Height(tokens, n)
<1> DEFINE s == KindsOf(tokens)
<1>1. s \in Seq(TokenKinds) /\ Len(s) = Len(tokens)
  <2>1. DOMAIN tokens = 1..Len(tokens) /\ Len(tokens) \in Nat
        /\ \A i \in 1..Len(tokens) : tokens[i].kind \in TokenKinds
    <3>1. DOMAIN tokens = 1..Len(tokens) /\ Len(tokens) \in Nat  OBVIOUS
    <3>2. \A i \in 1..Len(tokens) : tokens[i] \in Tokens  OBVIOUS
    <3> QED  BY <3>1, <3>2 DEF Tokens
  <2>2. s = [i \in 1..Len(tokens) |-> tokens[i].kind]  BY <2>1 DEF KindsOf
  <2> HIDE DEF s
  <2>3. s \in [1..Len(tokens) -> TokenKinds]  BY <2>1, <2>2
  <2> QED  BY <2>1, <2>3
<1>2. KindsOf(SubSeq(tokens, 1, n)) = SubSeq(s, 1, n)
  <2>1. DOMAIN SubSeq(tokens, 1, n) = 1..n /\ \A i \in 1..n : SubSeq(tokens, 1, n)[i] = tokens[i]
    OBVIOUS
  <2>2. SubSeq(s, 1, n) = [i \in 1..n |-> s[i]]
    BY <1>1
  <2>3. \A i \in 1..n : s[i] = tokens[i].kind  BY DEF KindsOf
  <2> QED  BY <2>1, <2>2, <2>3 DEF KindsOf
<1> HIDE DEF s
<1>3. \A kind : Count(SubSeq(s, 1, n), kind) = Upto(s, n, kind)  BY <1>1, CountIsUpto
<1> QED  BY <1>2, <1>3 DEF Nesting, Height, s

LEMMA OpenIndentsAre ==
    ASSUME tokens \in Seq(Tokens) PROVE OpenIndents = OpenIn(tokens)
<1>1. \A k \in DOMAIN tokens : /\ Nesting(k) = Height(tokens, k)
                               /\ \A m \in k..Len(tokens) : Nesting(m) = Height(tokens, m)
  <2> TAKE k \in DOMAIN tokens
  <2>1. k \in 0..Len(tokens) /\ \A m \in k..Len(tokens) : m \in 0..Len(tokens)  OBVIOUS
  <2> QED  BY <2>1, NestingIsHeight
<1> QED  BY <1>1 DEF OpenIndents, OpenIn

(* A token that is neither INDENT nor DEDENT opens and closes nothing.       *)
LEMMA PlainToken ==
    ASSUME NEW ts \in Seq(Tokens), NEW t \in Tokens, t.kind \notin {"indent", "dedent"}
    PROVE  /\ Append(ts, t) \in Seq(Tokens)
           /\ \A n \in 0..Len(ts) : Height(Append(ts, t), n) = Height(ts, n)
           /\ Height(Append(ts, t), Len(ts) + 1) = Height(ts, Len(ts))
           /\ OpenIn(Append(ts, t)) = OpenIn(ts)
<1> DEFINE us == Append(ts, t)
<1>1. /\ us \in Seq(Tokens) /\ Len(us) = Len(ts) + 1 /\ us[Len(ts) + 1] = t
      /\ \A i \in 1..Len(ts) : us[i] = ts[i]
      /\ DOMAIN us = 1..(Len(ts) + 1) /\ DOMAIN ts = 1..Len(ts)
  OBVIOUS
<1> HIDE DEF us
<1>2. ASSUME NEW n \in 0..Len(ts) PROVE Height(us, n) = Height(ts, n)
  <2>1. \A i \in 1..n : us[i] = ts[i]  BY <1>1
  <2> QED  BY <1>1, <2>1, HeightSame
<1>3. Height(us, Len(ts) + 1) = Height(ts, Len(ts))
  <2>1. Len(ts) \in Nat /\ Len(ts) < Len(us) /\ Len(ts) \in 0..Len(ts)  BY <1>1
  <2> QED  BY <1>1, <1>2, <2>1, HeightStep
<1>4. ASSUME NEW k \in OpenIn(us) PROVE k \in OpenIn(ts)
  <2>1. k \in 1..Len(ts) /\ ts[k].kind = "indent"  BY <1>1, <1>4 DEF OpenIn
  <2>2. ASSUME NEW m \in k..Len(ts) PROVE Height(ts, m) >= Height(ts, k)
    <3>1. m \in k..Len(us) /\ m \in 0..Len(ts) /\ k \in 0..Len(ts)  BY <1>1, <2>1
    <3> QED  BY <3>1, <1>2, <1>4 DEF OpenIn
  <2> QED  BY <1>1, <2>1, <2>2 DEF OpenIn
<1>5. ASSUME NEW k \in OpenIn(ts) PROVE k \in OpenIn(us)
  <2>1. k \in 1..Len(ts) /\ us[k].kind = "indent" /\ k \in 0..Len(ts)  BY <1>1 DEF OpenIn
  <2>2. ASSUME NEW m \in k..Len(us) PROVE Height(us, m) >= Height(us, k)
    <3>1. CASE m = Len(ts) + 1
      <4>1. Len(ts) \in k..Len(ts)  BY <2>1
      <4> QED  BY <4>1, <3>1, <1>2, <1>3, <2>1 DEF OpenIn
    <3>2. CASE m # Len(ts) + 1
      <4>1. m \in k..Len(ts) /\ m \in 0..Len(ts)  BY <3>2, <1>1, <2>1, <2>2
      <4> QED  BY <4>1, <1>2, <2>1 DEF OpenIn
    <3> QED  BY <3>1, <3>2
  <2> QED  BY <1>1, <2>1, <2>2 DEF OpenIn
<1> QED  BY <1>1, <1>2, <1>3, <1>4, <1>5 DEF us

(* An INDENT opens one block and closes none.                                *)
LEMMA IndentToken ==
    ASSUME NEW ts \in Seq(Tokens), NEW t \in Tokens, t.kind = "indent"
    PROVE  /\ Append(ts, t) \in Seq(Tokens)
           /\ \A n \in 0..Len(ts) : Height(Append(ts, t), n) = Height(ts, n)
           /\ Height(Append(ts, t), Len(ts) + 1) = Height(ts, Len(ts)) + 1
           /\ OpenIn(Append(ts, t)) = OpenIn(ts) \cup {Len(ts) + 1}
<1> DEFINE us == Append(ts, t)
<1>1. /\ us \in Seq(Tokens) /\ Len(us) = Len(ts) + 1 /\ us[Len(ts) + 1] = t
      /\ \A i \in 1..Len(ts) : us[i] = ts[i]
      /\ DOMAIN us = 1..(Len(ts) + 1) /\ DOMAIN ts = 1..Len(ts)
  OBVIOUS
<1> HIDE DEF us
<1>2. ASSUME NEW n \in 0..Len(ts) PROVE Height(us, n) = Height(ts, n)
  <2>1. \A i \in 1..n : us[i] = ts[i]  BY <1>1
  <2> QED  BY <1>1, <2>1, HeightSame
<1>3. Height(us, Len(ts) + 1) = Height(ts, Len(ts)) + 1
  <2>1. Len(ts) \in Nat /\ Len(ts) < Len(us) /\ Len(ts) \in 0..Len(ts)  BY <1>1
  <2> QED  BY <1>1, <1>2, <2>1, HeightStep
<1>4. ASSUME NEW k \in OpenIn(us), k # Len(ts) + 1 PROVE k \in OpenIn(ts)
  <2>1. k \in 1..Len(ts) /\ ts[k].kind = "indent"  BY <1>1, <1>4 DEF OpenIn
  <2>2. ASSUME NEW m \in k..Len(ts) PROVE Height(ts, m) >= Height(ts, k)
    <3>1. m \in k..Len(us) /\ m \in 0..Len(ts) /\ k \in 0..Len(ts)  BY <1>1, <2>1
    <3> QED  BY <3>1, <1>2, <1>4 DEF OpenIn
  <2> QED  BY <1>1, <2>1, <2>2 DEF OpenIn
<1>5. ASSUME NEW k \in OpenIn(ts) PROVE k \in OpenIn(us)
  <2>1. k \in 1..Len(ts) /\ us[k].kind = "indent" /\ k \in 0..Len(ts)  BY <1>1 DEF OpenIn
  <2>2. ASSUME NEW m \in k..Len(us) PROVE Height(us, m) >= Height(us, k)
    <3>1. CASE m = Len(ts) + 1
      <4>1. Len(ts) \in k..Len(ts) /\ Len(ts) \in Nat  BY <2>1
      <4>2. Height(ts, Len(ts)) \in Int /\ Height(ts, k) \in Int  BY <4>1, <2>1, HeightInt
      <4> QED  BY <4>1, <4>2, <3>1, <1>2, <1>3, <2>1 DEF OpenIn
    <3>2. CASE m # Len(ts) + 1
      <4>1. m \in k..Len(ts) /\ m \in 0..Len(ts)  BY <3>2, <1>1, <2>1, <2>2
      <4> QED  BY <4>1, <1>2, <2>1 DEF OpenIn
    <3> QED  BY <3>1, <3>2
  <2> QED  BY <1>1, <2>1, <2>2 DEF OpenIn
<1>6. Len(ts) + 1 \in OpenIn(us)
  <2>1. Len(ts) \in Nat  OBVIOUS
  <2>2. \A m \in (Len(ts) + 1)..Len(us) : m = Len(ts) + 1  BY <1>1, <2>1
  <2>3. Height(us, Len(ts) + 1) \in Int  BY <2>1, HeightInt
  <2> QED  BY <1>1, <2>1, <2>2, <2>3 DEF OpenIn
<1> QED  BY <1>1, <1>2, <1>3, <1>4, <1>5, <1>6 DEF us

(* A run of DEDENTs closes one block each, the innermost first.              *)
LEMMA DedentTail ==
    ASSUME NEW ts \in Seq(Tokens), NEW us \in Seq(Tokens), NEW n \in Nat,
           Len(us) = Len(ts) + n, \A i \in 1..Len(ts) : us[i] = ts[i],
           \A j \in 1..n : us[Len(ts) + j].kind = "dedent"
    PROVE  /\ \A m \in 0..Len(ts) : Height(us, m) = Height(ts, m)
           /\ \A j \in 0..n : Height(us, Len(ts) + j) = Height(ts, Len(ts)) - j
           /\ OpenIn(us) = {k \in OpenIn(ts) : Height(ts, k) <= Height(ts, Len(ts)) - n}
<1>1. /\ DOMAIN us = 1..(Len(ts) + n) /\ DOMAIN ts = 1..Len(ts) /\ Len(ts) \in Nat
      /\ Len(us) = Len(ts) + n /\ Len(us) >= Len(ts)
      /\ \A i \in 1..Len(ts) : us[i] = ts[i]
      /\ \A j \in 1..n : us[Len(ts) + j].kind = "dedent"
  OBVIOUS
<1>2. ASSUME NEW m \in 0..Len(ts) PROVE Height(us, m) = Height(ts, m)
  <2>1. \A i \in 1..m : us[i] = ts[i]  BY <1>1
  <2> QED  BY <1>1, <2>1, HeightSame
<1>3. \A j \in 0..n : Height(us, Len(ts) + j) = Height(ts, Len(ts)) - j
  <2> DEFINE T == {j \in Nat : j <= n => Height(us, Len(ts) + j) = Height(ts, Len(ts)) - j}
  <2>0. Height(ts, Len(ts)) \in Int  BY <1>1, HeightInt
  <2>1. 0 \in T
    <3>1. Len(ts) \in 0..Len(ts) /\ Len(ts) + 0 = Len(ts)  BY <1>1
    <3> QED  BY <2>0, <3>1, <1>2
  <2>2. ASSUME NEW j \in Nat, j \in T PROVE j + 1 \in T
    <3> SUFFICES ASSUME j + 1 <= n
                 PROVE  Height(us, Len(ts) + (j + 1)) = Height(ts, Len(ts)) - (j + 1)
      OBVIOUS
    <3>1. Height(us, Len(ts) + j) = Height(ts, Len(ts)) - j  BY <2>2
    <3>2. /\ Len(ts) + j \in Nat /\ Len(ts) + j < Len(us)
          /\ (Len(ts) + j) + 1 = Len(ts) + (j + 1) /\ j + 1 \in 1..n
      BY <1>1
    <3>3. us[Len(ts) + (j + 1)].kind = "dedent"  BY <1>1, <3>2
    <3>4. Height(us, (Len(ts) + j) + 1) = Height(us, Len(ts) + j) - 1
      BY <1>1, <3>2, <3>3, HeightStep
    <3> QED  BY <2>0, <3>1, <3>2, <3>4
  <2> HIDE DEF T
  <2>3. \A j \in Nat : j \in T  BY <2>1, <2>2, NatInduct
  <2> QED  BY <2>3 DEF T
<1>4. ASSUME NEW k \in OpenIn(us)
      PROVE  k \in OpenIn(ts) /\ Height(ts, k) <= Height(ts, Len(ts)) - n
  <2>1. k \in 1..Len(ts)
    <3> SUFFICES ASSUME k \notin 1..Len(ts) PROVE FALSE
      OBVIOUS
    <3>1. k - Len(ts) \in 1..n /\ k = Len(ts) + (k - Len(ts))  BY <1>1 DEF OpenIn
    <3>2. us[k].kind = "dedent"  BY <1>1, <3>1
    <3> QED  BY <3>2 DEF OpenIn
  <2>2. ts[k].kind = "indent" /\ k \in 0..Len(ts)  BY <1>1, <2>1 DEF OpenIn
  <2>3. ASSUME NEW m \in k..Len(ts) PROVE Height(ts, m) >= Height(ts, k)
    <3>1. m \in k..Len(us) /\ m \in 0..Len(ts)  BY <1>1, <2>1
    <3> QED  BY <3>1, <2>2, <1>2, <1>4 DEF OpenIn
  <2>4. Height(us, Len(ts) + n) >= Height(us, k)
    <3>1. Len(ts) + n \in k..Len(us)  BY <1>1, <2>1
    <3> QED  BY <3>1 DEF OpenIn
  <2>5. Height(ts, k) \in Int /\ Height(ts, Len(ts)) \in Int  BY <1>1, <2>1, HeightInt
  <2> QED  BY <1>1, <1>2, <1>3, <2>1, <2>2, <2>3, <2>4, <2>5 DEF OpenIn
<1>5. ASSUME NEW k \in OpenIn(ts), Height(ts, k) <= Height(ts, Len(ts)) - n
      PROVE  k \in OpenIn(us)
  <2>1. k \in 1..Len(ts) /\ us[k].kind = "indent" /\ k \in 0..Len(ts)  BY <1>1 DEF OpenIn
  <2>0. Height(ts, k) \in Int /\ Height(ts, Len(ts)) \in Int  BY <1>1, <2>1, HeightInt
  <2>2. ASSUME NEW m \in k..Len(us) PROVE Height(us, m) >= Height(us, k)
    <3>1. CASE m > Len(ts)
      <4>1. m - Len(ts) \in 0..n /\ m = Len(ts) + (m - Len(ts))  BY <3>1, <1>1, <2>1, <2>2
      <4>2. Height(us, m) = Height(ts, Len(ts)) - (m - Len(ts))  BY <4>1, <1>3
      <4> QED  BY <4>1, <4>2, <2>0, <1>2, <1>5, <2>1
    <3>2. CASE ~(m > Len(ts))
      <4>1. m \in k..Len(ts) /\ m \in 0..Len(ts)  BY <3>2, <1>1, <2>1, <2>2
      <4> QED  BY <4>1, <1>2, <2>1 DEF OpenIn
    <3> QED  BY <3>1, <3>2
  <2> QED  BY <1>1, <2>1, <2>2 DEF OpenIn
<1> QED  BY <1>1, <1>2, <1>3, <1>4, <1>5

LEMMA DedentRun ==
    ASSUME NEW ts \in Seq(Tokens), NEW t \in Tokens, t.kind = "dedent", NEW n \in Nat,
           NEW us, us = ts \o [j \in 1..n |-> t]
    PROVE  /\ us \in Seq(Tokens) /\ Len(us) = Len(ts) + n
           /\ \A i \in 1..Len(ts) : us[i] = ts[i]
           /\ \A j \in 1..n : us[Len(ts) + j].kind = "dedent"
<1> DEFINE run == [j \in 1..n |-> t]
<1>0. run \in Seq(Tokens) /\ Len(run) = n /\ \A j \in 1..n : run[j] = t  OBVIOUS
<1>1. us = ts \o run  OBVIOUS
<1> HIDE DEF run
<1>2. us \in Seq(Tokens) /\ Len(us) = Len(ts) + n  BY <1>0, <1>1
<1>3. \A i \in 1..Len(ts) : us[i] = ts[i]  BY <1>0, <1>1
<1>4. \A j \in 1..n : us[Len(ts) + j] = run[j]  BY <1>0, <1>1
<1>5. \A j \in 1..n : us[Len(ts) + j].kind = "dedent"  BY <1>0, <1>4
<1> QED  BY <1>2, <1>3, <1>5

-------------------------------------------------------------------------------
(* The invariant: what the lexer's state says about the lines it has read.   *)
(* A line is reached once its start has been handled; the newest logical     *)
(* line is the last one reached, and the top of the stack is its width.      *)
Logicals == {i \in DOMAIN Lines : Lines[i].text # <<>> /\ DepthBefore(i) <= 0}
Anc(i) == {j \in Logicals : j < i /\ \A k \in Logicals : k \in (j + 1)..i => WidthOf(j) < WidthOf(k)}
Behind(k) == Max({j \in Logicals : j < tokens[k].line})

Reached == IF at_line_start THEN line - 1 ELSE line
Newest(h) == h \in Logicals /\ h <= Reached /\ \A j \in Logicals : j <= Reached => j <= h

(* Where the lexer is: at the start of a line, or behind some of its tokens. *)
Place ==
    IF at_line_start THEN col = 1 /\ line <= Len(Lines) + 1
    ELSE line <= Len(Lines) /\ col <= Len(Lines[line].text) + 1

(* Unless a bracket too many was closed, the counter is the number of        *)
(* brackets open, so that a line is logical exactly when it is zero.         *)
DepthRight ==
    ~Surplus =>
        IF at_line_start THEN bracket_depth = DepthBefore(line)
        ELSE (\A n \in 1..(col - 1) : DepthBefore(line) + Level(Lines[line].text, n) >= 0)
             => bracket_depth = DepthBefore(line) + Level(Lines[line].text, col - 1)

(* As many INDENTs without their DEDENT as there are widths above 0.         *)
Balanced(ts, levels) ==
    /\ ts \in Seq(Tokens)
    /\ \A n \in 0..Len(ts) : Height(ts, n) >= 0
    /\ Height(ts, Len(ts)) = levels - 1
Balance == Balanced(tokens, Len(indent_stack))

Unopened ==
    /\ at_line_start /\ ~after_colon /\ bracket_depth = 0 /\ indent_stack = <<0>>
    /\ OpenIn(tokens) = {}
    /\ \A j \in Logicals : ~(j <= Reached)

NestsAt(h) ==
    /\ Newest(h)
    /\ WidthOf(h) = Last(indent_stack)
    /\ {Behind(k) : k \in OpenIn(tokens)} = Anc(h)
    /\ \A k \in OpenIn(tokens) :
         /\ Height(tokens, k) \in 1..(Len(indent_stack) - 1)
         /\ WidthOf(Behind(k)) = indent_stack[Height(tokens, k)]

Nests == lexed = "no" /\ ~Surplus => Unopened \/ \E h \in Logicals : NestsAt(h)

NestInv == LexInv /\ Balance /\ (lexed = "no" => Place /\ DepthRight) /\ Nests

-------------------------------------------------------------------------------
(* The lines of a source and the brackets in them.                           *)
LEMMA LineFacts ==
    ASSUME source \in Sources
    PROVE  /\ Len(Lines) \in Nat /\ DOMAIN Lines = 1..Len(Lines)
           /\ \A i \in 1..Len(Lines) : Lines[i].text \in Seq(TextKinds) /\ WidthOf(i) \in Nat
<1> DEFINE ls == source.lines
<1> DEFINE Line == [lead : Seq({" ", "tab"}), text : Seq(TextKinds)]
<1>0. source \in Sources
  OBVIOUS
<1>1. ls \in Seq(Line)
  BY <1>0, SourcesAssumption
<1> HIDE DEF Line
<1>2. Len(ls) \in Nat /\ DOMAIN ls = 1..Len(ls) /\ \A i \in 1..Len(ls) : ls[i] \in Line
  BY <1>1
<1>3. \A l \in Line : l.lead \in Seq({" ", "tab"}) /\ l.text \in Seq(TextKinds)  BY DEF Line
<1>4. \A l \in Line : Len(l.lead) \in Nat
  <2> TAKE l \in Line
  <2>1. l.lead \in Seq({" ", "tab"})  BY <1>3
  <2> QED  BY <2>1, SeqFacts
<1>5. \A i \in 1..Len(ls) : ls[i].text \in Seq(TextKinds) /\ Len(ls[i].lead) \in Nat
  BY <1>2, <1>3, <1>4
<1> QED  BY <1>2, <1>5 DEF Lines, WidthOf

LEMMA PlacesNone == ASSUME NEW kind PROVE PlacesBefore(1, kind) = {}
<1>1. 1..(1 - 1) = {}  OBVIOUS
<1> QED  BY <1>1 DEF PlacesBefore

LEMMA PlacesStep ==
    ASSUME source \in Sources, NEW i \in 1..Len(Lines), NEW kind,
           IsFiniteSet(PlacesBefore(i, kind))
    PROVE  /\ IsFiniteSet(PlacesBefore(i + 1, kind))
           /\ Cardinality(PlacesBefore(i + 1, kind))
                = Cardinality(PlacesBefore(i, kind)) + Upto(Lines[i].text, Len(Lines[i].text), kind)
<1> DEFINE t == Lines[i].text
           I == {n \in DOMAIN t : t[n] = kind}
           Before0 == PlacesBefore(i, kind)
           After0  == PlacesBefore(i + 1, kind)
<1>1. /\ t \in Seq(TextKinds) /\ Len(Lines) \in Nat /\ i \in Nat  BY LineFacts
<1>2. 1..((i + 1) - 1) = (1..(i - 1)) \cup {i} /\ i \notin 1..(i - 1)  BY <1>1
<1>3. After0 = Before0 \cup ({i} \X I)
  <2>1. ASSUME NEW p \in After0 PROVE p \in Before0 \cup ({i} \X I)
    <3>1. PICK j \in (1..(i - 1)) \cup {i} : p \in {j} \X {n \in DOMAIN Lines[j].text : Lines[j].text[n] = kind}
      BY <1>2, <2>1 DEF PlacesBefore
    <3> QED  BY <3>1 DEF PlacesBefore
  <2>2. Before0 \subseteq After0  BY <1>2 DEF PlacesBefore
  <2>3. {i} \X I \subseteq After0  BY <1>2 DEF PlacesBefore
  <2> QED  BY <2>1, <2>2, <2>3
<1>4. Before0 \cap ({i} \X I) = {}
  <2> SUFFICES ASSUME NEW p \in Before0, p \in {i} \X I PROVE FALSE
    OBVIOUS
  <2>1. PICK j \in 1..(i - 1) : p \in {j} \X {n \in DOMAIN Lines[j].text : Lines[j].text[n] = kind}
    BY DEF PlacesBefore
  <2>2. p[1] = j /\ p[1] = i  BY <2>1
  <2> QED  BY <1>2, <2>1, <2>2
<1>0. IsFiniteSet(Before0)  OBVIOUS
<1> HIDE DEF t, Before0, After0
<1>5. Len(t) \in Nat /\ DOMAIN t = 1..Len(t)  BY <1>1
<1>6. I = {m \in 1..Len(t) : t[m] = kind}  BY <1>5
<1> HIDE DEF I
<1>7. IsFiniteSet(I) /\ Cardinality(I) = Upto(t, Len(t), kind)
  <2>1. IsFiniteSet({m \in 1..Len(t) : t[m] = kind})  BY <1>5, UptoFinite
  <2> QED  BY <1>6, <2>1 DEF Upto
<1>8. Cardinality(I) \in Nat  BY <1>7, FS_CardinalityType
<1>9. IsFiniteSet({i}) /\ Cardinality({i}) = 1  BY FS_Singleton
<1>10. IsFiniteSet({i} \X I) /\ Cardinality({i} \X I) = 1 * Cardinality(I)
  BY <1>7, <1>9, FS_Product
<1>11. Cardinality(Before0 \cap ({i} \X I)) = 0  BY <1>4, FS_EmptySet
<1>12. /\ IsFiniteSet(After0)
       /\ Cardinality(After0) = Cardinality(Before0) + Cardinality({i} \X I) - 0
  BY <1>0, <1>3, <1>10, <1>11, FS_Union
<1>13. Cardinality(Before0) \in Nat  BY <1>0, FS_CardinalityType
<1>14. Cardinality(After0) = Cardinality(Before0) + Upto(t, Len(t), kind)
  BY <1>7, <1>8, <1>10, <1>12, <1>13
<1> QED  BY <1>12, <1>14 DEF t, Before0, After0

LEMMA PlacesFinite ==
    ASSUME source \in Sources, NEW kind
    PROVE  \A i \in 1..(Len(Lines) + 1) : IsFiniteSet(PlacesBefore(i, kind))
<1> DEFINE T == {n \in Nat : n <= Len(Lines) => IsFiniteSet(PlacesBefore(n + 1, kind))}
<1>0. Len(Lines) \in Nat  BY LineFacts
<1>1. 0 \in T
  <2>1. 0 + 1 = 1  OBVIOUS
  <2> QED  BY <2>1, PlacesNone, FS_EmptySet
<1>2. ASSUME NEW n \in Nat, n \in T PROVE n + 1 \in T
  <2> SUFFICES ASSUME n + 1 <= Len(Lines) PROVE IsFiniteSet(PlacesBefore((n + 1) + 1, kind))
    OBVIOUS
  <2>1. n + 1 \in 1..Len(Lines) /\ n <= Len(Lines)  BY <1>0
  <2>2. IsFiniteSet(PlacesBefore(n + 1, kind))  BY <1>2, <2>1
  <2> QED  BY <2>1, <2>2, PlacesStep
<1> HIDE DEF T
<1>3. \A n \in Nat : n \in T  BY <1>1, <1>2, NatInduct
<1>4. ASSUME NEW i \in 1..(Len(Lines) + 1) PROVE IsFiniteSet(PlacesBefore(i, kind))
  <2>1. i - 1 \in Nat /\ i - 1 <= Len(Lines) /\ (i - 1) + 1 = i  BY <1>0
  <2> QED  BY <1>3, <2>1 DEF T
<1> QED  BY <1>4

LEMMA DepthFirst == DepthBefore(1) = 0
<1>1. Cardinality(PlacesBefore(1, "open")) = 0 /\ Cardinality(PlacesBefore(1, "close")) = 0
  BY PlacesNone, FS_EmptySet
<1> QED  BY <1>1 DEF DepthBefore

(* What is open before the next line: what was open before this one, and     *)
(* what this one leaves.                                                     *)
LEMMA DepthStep ==
    ASSUME source \in Sources, NEW i \in 1..Len(Lines)
    PROVE  /\ DepthBefore(i) \in Int
           /\ DepthBefore(i + 1) = DepthBefore(i) + Level(Lines[i].text, Len(Lines[i].text))
           /\ Level(Lines[i].text, Len(Lines[i].text)) \in Int
<1> DEFINE t == Lines[i].text
<1>1. /\ t \in Seq(TextKinds) /\ Len(Lines) \in Nat  BY LineFacts
<1>2. i \in 1..(Len(Lines) + 1)  BY <1>1
<1>3. \A kind : IsFiniteSet(PlacesBefore(i, kind))  BY <1>2, PlacesFinite
<1>4. \A kind : /\ Cardinality(PlacesBefore(i, kind)) \in Nat
                /\ Cardinality(PlacesBefore(i + 1, kind))
                     = Cardinality(PlacesBefore(i, kind)) + Upto(t, Len(t), kind)
  BY <1>3, PlacesStep, FS_CardinalityType
<1> HIDE DEF t
<1>5. Len(t) \in 0..Len(t) /\ Len(t) \in Nat  BY <1>1
<1>6. Level(t, Len(t)) = Upto(t, Len(t), "open") - Upto(t, Len(t), "close")
  BY <1>1, <1>5, CountIsUpto DEF Level
<1>7. Upto(t, Len(t), "open") \in Nat /\ Upto(t, Len(t), "close") \in Nat  BY <1>5, UptoFinite
<1> DEFINE a == Cardinality(PlacesBefore(i, "open"))
           b == Cardinality(PlacesBefore(i, "close"))
           c == Cardinality(PlacesBefore(i + 1, "open"))
           d == Cardinality(PlacesBefore(i + 1, "close"))
<1>8. /\ a \in Nat /\ b \in Nat
      /\ c = a + Upto(t, Len(t), "open") /\ d = b + Upto(t, Len(t), "close")
  BY <1>4
<1>9. DepthBefore(i) = a - b /\ DepthBefore(i + 1) = c - d  BY DEF DepthBefore
<1> HIDE DEF a, b, c, d
<1>10. /\ DepthBefore(i) \in Int /\ Level(t, Len(t)) \in Int
       /\ DepthBefore(i + 1) = DepthBefore(i) + Level(t, Len(t))
  <2> DEFINE u == Upto(t, Len(t), "open")
             v == Upto(t, Len(t), "close")
  <2>1. /\ a \in Nat /\ b \in Nat /\ u \in Nat /\ v \in Nat /\ c = a + u /\ d = b + v
        /\ Level(t, Len(t)) = u - v /\ DepthBefore(i) = a - b /\ DepthBefore(i + 1) = c - d
    BY <1>6, <1>7, <1>8, <1>9
  <2> HIDE DEF u, v
  <2> QED  BY <2>1
<1> QED  BY <1>10 DEF t

(* The lines do not change while they are read.                              *)
LEMMA LinesStay ==
    ASSUME source' = source
    PROVE  /\ Lines' = Lines /\ Logicals' = Logicals
           /\ \A i : DepthBefore(i)' = DepthBefore(i) /\ WidthOf(i)' = WidthOf(i)
           /\ \A i : Anc(i)' = Anc(i)
<1>1. Lines' = Lines  BY DEF Lines
<1>2. \A i : DepthBefore(i)' = DepthBefore(i) /\ WidthOf(i)' = WidthOf(i)
  BY <1>1 DEF DepthBefore, PlacesBefore, WidthOf
<1>3. Logicals' = Logicals  BY <1>1, <1>2 DEF Logicals
<1>4. \A i : Anc(i)' = Anc(i)  BY <1>2, <1>3 DEF Anc
<1> QED  BY <1>1, <1>2, <1>3, <1>4

LEMMA SurplusStays ==
    ASSUME source' = source, line \in Nat, line' \in Nat, line <= line', Surplus
    PROVE  Surplus'
<1>1. PICK i \in 1..(line - 1) : \E n \in DOMAIN Lines[i].text :
               DepthBefore(i) + Level(Lines[i].text, n) < 0
  BY DEF Surplus
<1>2. i \in 1..(line' - 1)
  <2>1. \A a, b \in Nat : a <= b => \A j \in 1..(a - 1) : j \in 1..(b - 1)  OBVIOUS
  <2> QED  BY <2>1
<1>3. \E n \in DOMAIN Lines'[i].text : DepthBefore(i)' + Level(Lines'[i].text, n) < 0
  BY <1>1, LinesStay
<1> QED  BY <1>2, <1>3 DEF Surplus

LEMMA SurplusAt ==
    ASSUME source' = source, NEW l \in 1..(line' - 1), NEW n \in DOMAIN Lines[l].text,
           DepthBefore(l) + Level(Lines[l].text, n) < 0
    PROVE  Surplus'
<1>1. \E m \in DOMAIN Lines'[l].text : DepthBefore(l)' + Level(Lines'[l].text, m) < 0
  BY LinesStay
<1> QED  BY <1>1 DEF Surplus

LEMMA MaxIs ==
    ASSUME NEW S \in SUBSET Nat, NEW h \in S, \A j \in S : j <= h
    PROVE  Max(S) = h
<1>1. h \in S /\ \A j \in S : h >= j  OBVIOUS
<1>2. \A x \in S : (\A j \in S : x >= j) => x = h  OBVIOUS
<1> QED  BY <1>1, <1>2 DEF Max

(* The ancestors of the next logical line are the last one and its           *)
(* ancestors, as far as they are indented less.                              *)
LEMMA AncestorsNext ==
    ASSUME source \in Sources, NEW h \in Logicals, NEW i \in Logicals, h < i,
           \A j \in Logicals : j < i => j <= h
    PROVE  Anc(i) = {j \in Anc(h) \cup {h} : WidthOf(j) < WidthOf(i)}
<1>1. Logicals \subseteq Nat /\ \A j \in Logicals : WidthOf(j) \in Nat
  BY LineFacts DEF Logicals
<1>2. ASSUME NEW j \in Anc(i) PROVE j \in Anc(h) \cup {h} /\ WidthOf(j) < WidthOf(i)
  <2>1. j \in Logicals /\ j < i /\ j <= h /\ i \in (j + 1)..i  BY <1>1 DEF Anc
  <2>2. WidthOf(j) < WidthOf(i)  BY <2>1 DEF Anc
  <2>3. \A k \in Logicals : k \in (j + 1)..h => k \in (j + 1)..i  BY <1>1, <2>1
  <2> QED  BY <1>1, <2>1, <2>2, <2>3 DEF Anc
<1>3. ASSUME NEW j \in Anc(h) \cup {h}, WidthOf(j) < WidthOf(i) PROVE j \in Anc(i)
  <2>1. j \in Logicals /\ j <= h /\ j < i  BY <1>1 DEF Anc
  <2>2. ASSUME NEW k \in Logicals, k \in (j + 1)..i PROVE WidthOf(j) < WidthOf(k)
    <3>1. CASE k = i  BY <3>1, <1>3
    <3>2. CASE k # i
      <4>1. k <= h /\ k \in (j + 1)..h  BY <1>1, <2>1, <2>2, <3>2
      <4> QED  BY <1>1, <1>3, <2>1, <4>1 DEF Anc
    <3> QED  BY <3>1, <3>2
  <2> QED  BY <2>1, <2>2 DEF Anc
<1> QED  BY <1>2, <1>3

-------------------------------------------------------------------------------
(* Balance, for each way the tokens grow.                                    *)
LEMMA BalancePlain ==
    ASSUME NEW ts, NEW n \in Nat, Balanced(ts, n),
           NEW t \in Tokens, t.kind \notin {"indent", "dedent"}
    PROVE  Balanced(Append(ts, t), n)
<1>0. ts \in Seq(Tokens)  BY DEF Balanced
<1> DEFINE us == Append(ts, t)
<1>1. /\ us \in Seq(Tokens) /\ Len(us) = Len(ts) + 1 /\ Len(ts) \in Nat  BY <1>0
<1>2. /\ \A m \in 0..Len(ts) : Height(us, m) = Height(ts, m)
      /\ Height(us, Len(ts) + 1) = Height(ts, Len(ts))
  BY <1>0, PlainToken
<1> HIDE DEF us
<1>3. \A m \in 0..Len(us) : m \in 0..Len(ts) \/ m = Len(ts) + 1  BY <1>1
<1>4. Len(ts) \in 0..Len(ts)  BY <1>1
<1> QED  BY <1>1, <1>2, <1>3, <1>4 DEF Balanced, us

LEMMA BalanceIndent ==
    ASSUME NEW ts, NEW n \in Nat, Balanced(ts, n), NEW t \in Tokens, t.kind = "indent"
    PROVE  Balanced(Append(ts, t), n + 1)
<1>0. ts \in Seq(Tokens) /\ Height(ts, Len(ts)) = n - 1 /\ Height(ts, Len(ts)) >= 0
  BY DEF Balanced
<1> DEFINE us == Append(ts, t)
<1>1. /\ us \in Seq(Tokens) /\ Len(us) = Len(ts) + 1 /\ Len(ts) \in Nat  BY <1>0
<1>2. /\ \A m \in 0..Len(ts) : Height(us, m) = Height(ts, m)
      /\ Height(us, Len(ts) + 1) = Height(ts, Len(ts)) + 1
  BY <1>0, IndentToken
<1> HIDE DEF us
<1>3. \A m \in 0..Len(us) : m \in 0..Len(ts) \/ m = Len(ts) + 1  BY <1>1
<1>4. Height(us, Len(us)) = (n + 1) - 1 /\ Height(us, Len(ts) + 1) >= 0  BY <1>0, <1>1, <1>2
<1> QED  BY <1>1, <1>2, <1>3, <1>4 DEF Balanced, us

LEMMA BalanceTail ==
    ASSUME NEW ts, NEW n \in Nat, Balanced(ts, n), NEW us \in Seq(Tokens),
           NEW k \in Nat, k < n,
           Len(us) = Len(ts) + k, \A i \in 1..Len(ts) : us[i] = ts[i],
           \A j \in 1..k : us[Len(ts) + j].kind = "dedent"
    PROVE  Balanced(us, n - k)
<1>0. ts \in Seq(Tokens) /\ Height(ts, Len(ts)) = n - 1
  BY DEF Balanced
<1>1. Len(ts) \in Nat /\ k \in Nat /\ n \in Nat /\ Len(us) = Len(ts) + k /\ k < n  BY <1>0
<1>2. /\ \A m \in 0..Len(ts) : Height(us, m) = Height(ts, m)
      /\ \A j \in 0..k : Height(us, Len(ts) + j) = Height(ts, Len(ts)) - j
  BY <1>0, DedentTail
<1>3. ASSUME NEW m \in 0..Len(us) PROVE Height(us, m) >= 0
  <2>1. CASE m \in 0..Len(ts)
    <3>1. Height(us, m) = Height(ts, m)  BY <2>1, <1>2
    <3>2. Height(ts, m) >= 0  BY <2>1 DEF Balanced
    <3> QED  BY <3>1, <3>2
  <2>2. CASE m \notin 0..Len(ts)
    <3>1. m - Len(ts) \in 0..k /\ m = Len(ts) + (m - Len(ts))  BY <2>2, <1>1
    <3>2. Height(us, m) = Height(ts, Len(ts)) - (m - Len(ts))  BY <3>1, <1>2
    <3>3. m - Len(ts) <= k /\ m - Len(ts) \in Nat  BY <3>1
    <3> QED  BY <1>0, <1>1, <3>2, <3>3
  <2> QED  BY <2>1, <2>2
<1>4. Height(us, Len(us)) = (n - k) - 1
  <2>1. k \in 0..k  OBVIOUS
  <2>2. Height(us, Len(ts) + k) = Height(ts, Len(ts)) - k  BY <1>2, <2>1
  <2> QED  BY <1>0, <1>1, <2>2
<1> QED  BY <1>3, <1>4 DEF Balanced

LEMMA BalanceDedents ==
    ASSUME NEW ts, NEW n \in Nat, Balanced(ts, n), NEW t \in Tokens, t.kind = "dedent",
           NEW k \in Nat, k < n
    PROVE  Balanced(ts \o [j \in 1..k |-> t], n - k)
<1> DEFINE us == ts \o [j \in 1..k |-> t]
<1>1. ts \in Seq(Tokens)  BY DEF Balanced
<1>2. /\ us \in Seq(Tokens) /\ Len(us) = Len(ts) + k
      /\ \A i \in 1..Len(ts) : us[i] = ts[i]
      /\ \A j \in 1..k : us[Len(ts) + j].kind = "dedent"
  BY <1>1, DedentRun
<1> HIDE DEF us
<1>3. Balanced(us, n - k)  BY <1>2, BalanceTail
<1> QED  BY <1>3 DEF us

LEMMA TokenType ==
    ASSUME line \in Nat, NEW kind \in TokenKinds
    PROVE  Token(kind) \in Tokens /\ Token(kind).kind = kind
BY DEF Token, Tokens

LEMMA LayoutTokens ==
    ASSUME line \in Nat
    PROVE  /\ Token("indent") \in Tokens /\ Token("indent").kind = "indent"
           /\ Token("dedent") \in Tokens /\ Token("dedent").kind = "dedent"
           /\ Token("newline") \in Tokens /\ Token("newline").kind \notin {"indent", "dedent"}
           /\ Token("eof") \in Tokens /\ Token("eof").kind \notin {"indent", "dedent"}
<1>1. /\ "indent" \in TokenKinds /\ "dedent" \in TokenKinds
      /\ "newline" \in TokenKinds /\ "eof" \in TokenKinds
  BY DEF TokenKinds, LayoutKinds
<1>2. /\ Token("indent") \in Tokens /\ Token("indent").kind = "indent"
      /\ Token("dedent") \in Tokens /\ Token("dedent").kind = "dedent"
      /\ Token("newline") \in Tokens /\ Token("newline").kind = "newline"
      /\ Token("eof") \in Tokens /\ Token("eof").kind = "eof"
  BY <1>1, TokenType
<1> QED  BY <1>2

(* Concatenation under a name the provers do not see through.                *)
Joined(s, t) == s \o t

LEMMA Regroup ==
    ASSUME NEW S, NEW s \in Seq(S), NEW a \in Seq(S), NEW r \in Seq(S),
           NEW b \in Seq(S), b = Joined(a, r), NEW d \in Seq(S), d = Joined(s, a)
    PROVE  Joined(s, b) = Joined(d, r)
BY DEF Joined

LEMMA StepKeepsBalance == LexInv /\ Balance /\ [LexNext]_lexVars => Balance'
<1> SUFFICES ASSUME LexInv, Balance, [LexNext]_lexVars PROVE Balance'
  OBVIOUS
<1> DEFINE n == Len(indent_stack)
<1>0. /\ indent_stack \in Seq(Nat) /\ n \in Nat /\ n >= 1 /\ line \in Nat /\ line # 0
      /\ Balanced(tokens, n) /\ tokens \in Seq(Tokens)
  BY DEF LexInv, LexTypeOK, Balance, Balanced
<1>1. CASE tokens' = tokens /\ indent_stack' = indent_stack
  BY <1>1 DEF Balance
<1>2. CASE Deeper /\ after_colon
  <2>1. tokens' = Append(tokens, Token("indent")) /\ indent_stack' = Append(indent_stack, Width)
    BY <1>2 DEF Deeper, Emitted
  <2>2. Len(indent_stack') = n + 1  BY <1>0, <2>1
  <2>3. Balanced(tokens', n + 1)  BY <1>0, <2>1, LayoutTokens, BalanceIndent
  <2> QED  BY <2>2, <2>3 DEF Balance
<1>3. CASE Shallower
  <2>1. PICK k \in 1..(n - 1) :
          /\ indent_stack' = SubSeq(indent_stack, 1, k)
          /\ tokens' = tokens \o [j \in 1..(n - k) |-> Token("dedent")]
    BY <1>3 DEF Shallower
  <2>2. n - k \in Nat /\ n - k < n /\ n - (n - k) = k  BY <1>0, <2>1
  <2>3. Len(indent_stack') = k
    <3>1. k \in 0..Len(indent_stack)  BY <1>0, <2>1
    <3> QED  BY <1>0, <2>1, <3>1
  <2>4. Balanced(tokens', n - (n - k))  BY <1>0, <2>1, <2>2, LayoutTokens, BalanceDedents, Zenon
  <2> QED  BY <2>2, <2>3, <2>4 DEF Balance
<1>4. CASE Scan
  <2>1. /\ tokens' = Append(tokens, Token(Here.text[col])) /\ indent_stack' = indent_stack
        /\ col <= Len(Here.text) /\ ~AtEnd
    BY <1>4 DEF Scan, Emitted, InLine
  <2>2. Here.text[col] \in TextKinds
    <3>1. line \in 1..Len(Lines) /\ Here = Lines[line]
      BY <1>0, <2>1, LineFacts DEF AtEnd, Here, Lines, LexInv
    <3>2. Here.text \in Seq(TextKinds)  BY <3>1, LineFacts DEF LexInv
    <3>3. col \in 1..Len(Here.text)  BY <2>1, <3>2 DEF LexInv, LexTypeOK
    <3> QED  BY <3>2, <3>3, SeqFacts
  <2>3. Token(Here.text[col]) \in Tokens /\ Token(Here.text[col]).kind \notin {"indent", "dedent"}
    BY <1>0, <2>2, TokenType DEF TextKinds, LayoutKinds, TokenKinds
  <2> QED  BY <1>0, <2>1, <2>3, BalancePlain DEF Balance
<1>5. CASE Newline /\ bracket_depth = 0
  <2>1. tokens' = Append(tokens, Token("newline")) /\ indent_stack' = indent_stack
    BY <1>5 DEF Newline, Emitted
  <2>2. Token("newline") \in Tokens /\ Token("newline").kind \notin {"indent", "dedent"}
    BY <1>0, LayoutTokens
  <2> QED  BY <1>0, <2>1, <2>2, BalancePlain DEF Balance
<1>6. CASE EndOfSource
  <2>1. /\ tokens' = tokens \o EofTokens
        /\ indent_stack' = IF bracket_depth > 0 THEN indent_stack ELSE <<0>>
    BY <1>6 DEF EndOfSource
  <2>2. /\ Token("eof") \in Tokens /\ Token("eof").kind \notin {"indent", "dedent"}
        /\ Token("newline") \in Tokens /\ Token("newline").kind \notin {"indent", "dedent"}
        /\ Token("dedent") \in Tokens /\ Token("dedent").kind = "dedent"
    BY <1>0, LayoutTokens
  <2>3. CASE bracket_depth > 0
    <3>1. tokens' = tokens \o <<Token("eof")>> /\ indent_stack' = indent_stack
      BY <2>1, <2>3 DEF EofTokens
    <3>2. tokens' = Append(tokens, Token("eof"))  BY <1>0, <2>2, <3>1, AppendIsConcat
    <3> QED  BY <1>0, <2>2, <3>1, <3>2, BalancePlain DEF Balance
  <2>4. CASE ~(bracket_depth > 0)
    <3> DEFINE a == IF NeedsNewline THEN <<Token("newline")>> ELSE <<>>
               run == [k \in 1..(n - 1) |-> Token("dedent")]
               e == <<Token("eof")>>
               ts == tokens \o a
               us == ts \o run
    <3>1. tokens' = tokens \o (a \o run \o e) /\ indent_stack' = <<0>>
      BY <2>1, <2>4 DEF EofTokens
    <3>2. a \in Seq(Tokens) /\ e \in Seq(Tokens)  BY <2>2
    <3>3. run \in Seq(Tokens)  BY <1>0, <2>2
    <3>4. Balanced(ts, n)
      <4>1. CASE NeedsNewline
        <5>1. ts = Append(tokens, Token("newline"))  BY <1>0, <2>2, <4>1, AppendIsConcat
        <5> QED  BY <1>0, <2>2, <5>1, BalancePlain
      <4>2. CASE ~NeedsNewline
        <5>1. ts = tokens  BY <1>0, <4>2, ConcatEmptySeq
        <5> QED  BY <1>0, <5>1
      <4> QED  BY <4>1, <4>2
    <3> HIDE DEF a, e
    <3>5. ts \in Seq(Tokens)  BY <3>4 DEF Balanced
    <3> HIDE DEF ts
    <3>6. n - 1 \in Nat /\ n - 1 < n /\ n - (n - 1) = 1  BY <1>0
    <3>7. Balanced(us, n - (n - 1))  BY <1>0, <2>2, <3>4, <3>6, BalanceDedents
    <3> HIDE DEF run
    <3>8. us \in Seq(Tokens)  BY <3>7 DEF Balanced
    <3> DEFINE b == a \o run
               c == b \o e
    <3>9. tokens' = Joined(tokens, c) /\ b = Joined(a, run) /\ c = Joined(b, e)
          /\ ts = Joined(tokens, a) /\ us = Joined(ts, run)
      BY <3>1 DEF ts, Joined
    <3>15. b \in Seq(Tokens)  BY <3>2, <3>3, ConcatProperties
    <3> HIDE DEF b
    <3>16. c \in Seq(Tokens)  BY <3>2, <3>15, ConcatProperties
    <3> HIDE DEF c, us
    <3>17. us = Joined(tokens, b)
      <4>1. Joined(tokens, b) = Joined(ts, run)
        BY <1>0, <3>2, <3>3, <3>5, <3>9, <3>15, Regroup
      <4> QED  BY <3>9, <4>1
    <3>18. Joined(tokens, c) = Joined(us, e)
        BY <1>0, <3>2, <3>8, <3>9, <3>15, <3>16, <3>17, Regroup
    <3>14. tokens' = us \o e  BY <3>9, <3>18 DEF Joined
    <3>10. tokens' = Append(us, Token("eof"))  BY <2>2, <3>8, <3>14, AppendIsConcat DEF e
    <3>11. Balanced(us, 1)  BY <3>6, <3>7
    <3>12. Balanced(tokens', 1)  BY <2>2, <3>10, <3>11, BalancePlain
    <3>13. Len(indent_stack') = 1  BY <3>1
    <3> QED  BY <3>12, <3>13 DEF Balance
  <2> QED  BY <2>3, <2>4
<1>7. ASSUME LexNext, ~(tokens' = tokens /\ indent_stack' = indent_stack)
      PROVE  \/ (Deeper /\ after_colon) \/ Shallower \/ Scan
             \/ (Newline /\ bracket_depth = 0) \/ EndOfSource
  BY <1>7 DEF LexNext, MixedLine, BlankLine, Continued, Deeper, SameLevel, LogicalStart, Newline
<1>8. CASE UNCHANGED lexVars  BY <1>8, <1>1 DEF lexVars
<1> QED  BY <1>1, <1>2, <1>3, <1>4, <1>5, <1>6, <1>7, <1>8

-------------------------------------------------------------------------------
(* The place in the line and the bracket counter.                            *)
LEMMA PlacePrimed ==
    ASSUME source' = source
    PROVE  Place' <=> IF at_line_start' THEN col' = 1 /\ line' <= Len(Lines) + 1
                      ELSE line' <= Len(Lines) /\ col' <= Len(Lines[line'].text) + 1
BY DEF Place, Lines

LEMMA DepthPrimed ==
    ASSUME source' = source
    PROVE  DepthRight' <=>
             (~Surplus' =>
               IF at_line_start' THEN bracket_depth' = DepthBefore(line')
               ELSE (\A n \in 1..(col' - 1) :
                        DepthBefore(line') + Level(Lines[line'].text, n) >= 0)
                    => bracket_depth' = DepthBefore(line') + Level(Lines[line'].text, col' - 1))
BY DEF DepthRight, DepthBefore, PlacesBefore, Lines

LEMMA StartFacts ==
    ASSUME LexInv, Place, ~AtEnd
    PROVE  /\ line \in 1..Len(Lines) /\ Len(Lines) \in Nat /\ Here = Lines[line]
           /\ Here.text \in Seq(TextKinds) /\ Len(Here.text) \in Nat
           /\ WidthOf(line) = Width /\ Width \in Nat
           /\ DepthBefore(line) \in Int
<1>1. line \in 1..Len(Lines) /\ Len(Lines) \in Nat /\ Here = Lines[line]
  BY LineFacts DEF AtEnd, Here, Lines, LexInv, LexTypeOK
<1>2. Here.text \in Seq(TextKinds) /\ WidthOf(line) \in Nat  BY <1>1, LineFacts DEF LexInv
<1>3. WidthOf(line) = Width  BY <1>1 DEF WidthOf, Width
<1>4. DepthBefore(line) \in Int  BY <1>1, DepthStep DEF LexInv
<1>5. Len(Here.text) \in Nat  BY <1>2
<1> QED  BY <1>1, <1>2, <1>3, <1>4, <1>5

LEMMA SurplusOnly ==
    ASSUME LexInv, LexInv', source' = source, line' \in {line, line + 1}, ~Surplus'
    PROVE  /\ ~Surplus
           /\ line' = line + 1 => \A n \in DOMAIN Lines[line].text :
                                     ~(DepthBefore(line) + Level(Lines[line].text, n) < 0)
<1>1. line \in Nat /\ line' \in Nat /\ line <= line' /\ line # 0
  BY DEF LexInv, LexTypeOK
<1>2. ~Surplus  BY <1>1, SurplusStays
<1>3. ASSUME line' = line + 1, NEW n \in DOMAIN Lines[line].text,
             DepthBefore(line) + Level(Lines[line].text, n) < 0
      PROVE  FALSE
  <2>1. line \in 1..(line' - 1)  BY <1>1, <1>3
  <2> QED  BY <1>3, <2>1, SurplusAt
<1> QED  BY <1>2, <1>3

(* A line begins, and its text has not been looked at.                       *)
LEMMA LineBegins ==
    ASSUME LexInv, Place, DepthRight, LexInv',
           ~AtEnd, at_line_start, at_line_start' = FALSE,
           UNCHANGED <<source, line, col, bracket_depth>>
    PROVE  Place' /\ DepthRight'
<1>1. /\ line \in 1..Len(Lines) /\ Len(Lines) \in Nat /\ Lines[line].text \in Seq(TextKinds)
      /\ Len(Lines[line].text) \in Nat /\ DepthBefore(line) \in Int
  BY StartFacts
<1>2. col = 1  BY DEF Place
<1>3. Place'  BY <1>1, <1>2, PlacePrimed
<1>4. ASSUME ~Surplus' PROVE bracket_depth = DepthBefore(line) + Level(Lines[line].text, col - 1)
  <2>1. ~Surplus  BY <1>4, SurplusOnly
  <2>2. bracket_depth = DepthBefore(line)  BY <2>1 DEF DepthRight
  <2>3. Level(Lines[line].text, 0) = 0  BY <1>1, LevelNone
  <2>4. col - 1 = 0  BY <1>2
  <2> QED  BY <1>1, <2>2, <2>3, <2>4
<1> QED  BY <1>3, <1>4, DepthPrimed

LEMMA StepKeepsDepth ==
    ASSUME LexInv, LexInv', lexed = "no", Place, DepthRight, LexNext, lexed' = "no"
    PROVE  Place' /\ DepthRight'
<1>0. line \in Nat /\ line # 0 /\ col \in Nat /\ col # 0 /\ bracket_depth \in Nat
  BY DEF LexInv, LexTypeOK
<1>1. CASE MixedLine  BY <1>1 DEF MixedLine, Fail
<1>2. CASE BlankLine
  <2>1. /\ at_line_start /\ at_line_start' = at_line_start /\ ~AtEnd /\ Here.text = <<>>
        /\ line' = line + 1 /\ source' = source /\ col' = col /\ bracket_depth' = bracket_depth
    BY <1>2 DEF BlankLine, AtLineStart
  <2>2. /\ line \in 1..Len(Lines) /\ Len(Lines) \in Nat /\ Lines[line].text = <<>>
        /\ Lines[line].text \in Seq(TextKinds) /\ DepthBefore(line) \in Int
    BY <2>1, StartFacts
  <2>3. Place'  BY <2>1, <2>2, PlacePrimed DEF Place
  <2>4. DepthBefore(line + 1) = DepthBefore(line)
    <3>1. Len(Lines[line].text) = 0  BY <2>2
    <3>2. Level(Lines[line].text, 0) = 0  BY <2>2, LevelNone
    <3> QED  BY <2>2, <3>1, <3>2, DepthStep DEF LexInv
  <2>5. ASSUME ~Surplus' PROVE bracket_depth' = DepthBefore(line')
    <3>1. ~Surplus  BY <2>1, <2>5, SurplusOnly
    <3> QED  BY <2>1, <2>4, <3>1 DEF DepthRight
  <2> QED  BY <2>1, <2>3, <2>5, DepthPrimed
<1>3. CASE Continued
  BY <1>3, LineBegins DEF Continued, AtLineStart
<1>4. CASE Deeper \/ Shallower \/ SameLevel
  <2>1. LogicalStart  BY <1>4 DEF Deeper, Shallower, SameLevel
  <2> QED  BY <2>1, LineBegins DEF LogicalStart, AtLineStart
<1>5. CASE Scan
  <2>1. /\ ~at_line_start /\ at_line_start' = at_line_start /\ ~AtEnd /\ col <= Len(Here.text)
        /\ line' = line /\ source' = source /\ col' = col + 1
        /\ bracket_depth' = BracketsAfter(Here.text[col])
    BY <1>5 DEF Scan, InLine
  <2> DEFINE t == Lines[line].text
             d == DepthBefore(line)
  <2>2. /\ line \in 1..Len(Lines) /\ Len(Lines) \in Nat /\ Here.text = t
        /\ t \in Seq(TextKinds) /\ d \in Int /\ Len(t) \in Nat
    BY <2>1, StartFacts
  <2>3. Place'  BY <1>0, <2>1, <2>2, PlacePrimed DEF Place
  <2>4. ASSUME ~Surplus', \A n \in 1..col : d + Level(t, n) >= 0
        PROVE  bracket_depth' = d + Level(t, col)
    <3>1. ~Surplus  BY <2>1, <2>4, SurplusOnly
    <3>2. \A n \in 1..(col - 1) : d + Level(t, n) >= 0  BY <1>0, <2>4
    <3>3. bracket_depth = d + Level(t, col - 1)  BY <2>1, <3>1, <3>2 DEF DepthRight
    <3>4. d + Level(t, col) >= 0  BY <1>0, <2>4
    <3> HIDE DEF t, d
    <3>5. col - 1 \in Nat /\ col - 1 < Len(t) /\ (col - 1) + 1 = col  BY <1>0, <2>1, <2>2
    <3>6. /\ Level(t, col - 1) \in Int
          /\ Level(t, col) = CASE t[col] = "open"  -> Level(t, col - 1) + 1
                               [] t[col] = "close" -> Level(t, col - 1) - 1
                               [] OTHER            -> Level(t, col - 1)
      BY <2>2, <3>5, LevelStep
    <3>7. bracket_depth' = CASE t[col] = "open" -> bracket_depth + 1
                             [] t[col] = "close" -> IF bracket_depth > 0 THEN bracket_depth - 1 ELSE 0
                             [] OTHER -> bracket_depth
      BY <2>1, <2>2 DEF BracketsAfter
    <3>a. CASE t[col] = "open"  BY <1>0, <2>2, <3>3, <3>6, <3>7, <3>a
    <3>b. CASE t[col] = "close"  BY <1>0, <2>2, <3>3, <3>4, <3>6, <3>7, <3>b
    <3>c. CASE t[col] # "open" /\ t[col] # "close"  BY <1>0, <2>2, <3>3, <3>6, <3>7, <3>c
    <3> QED  BY <3>a, <3>b, <3>c
  <2>5. col' - 1 = col  BY <1>0, <2>1
  <2> QED  BY <2>1, <2>3, <2>4, <2>5, DepthPrimed
<1>6. CASE Newline
  <2>1. /\ ~at_line_start /\ at_line_start' = TRUE /\ ~AtEnd /\ col > Len(Here.text)
        /\ line' = line + 1 /\ source' = source /\ col' = 1 /\ bracket_depth' = bracket_depth
    BY <1>6 DEF Newline, InLine
  <2> DEFINE t == Lines[line].text
             d == DepthBefore(line)
  <2>2. /\ line \in 1..Len(Lines) /\ Len(Lines) \in Nat /\ Here.text = t
        /\ t \in Seq(TextKinds) /\ d \in Int /\ Len(t) \in Nat /\ DOMAIN t = 1..Len(t)
    BY <2>1, StartFacts
  <2>3. Place'  BY <2>1, <2>2, PlacePrimed
  <2>4. col - 1 = Len(t)  BY <1>0, <2>1, <2>2 DEF Place
  <2>5. ASSUME ~Surplus' PROVE bracket_depth' = DepthBefore(line')
    <3>1. ~Surplus /\ \A n \in DOMAIN t : ~(d + Level(t, n) < 0)
      BY <2>1, <2>5, SurplusOnly
    <3>2. ASSUME NEW n \in 1..Len(t) PROVE d + Level(t, n) >= 0
      <4>1. Level(t, n) \in Int
        <5>1. n \in 0..Len(t) /\ n \in Nat  BY <2>2
        <5>2. Level(t, n) = Upto(t, n, "open") - Upto(t, n, "close")
          BY <2>2, <5>1, CountIsUpto DEF Level
        <5>3. Upto(t, n, "open") \in Nat /\ Upto(t, n, "close") \in Nat  BY <5>1, UptoFinite
        <5> QED  BY <5>2, <5>3
      <4> QED  BY <2>2, <3>1, <4>1
    <3>3. bracket_depth = d + Level(t, Len(t))  BY <2>1, <2>4, <3>1, <3>2 DEF DepthRight
    <3>4. DepthBefore(line + 1) = d + Level(t, Len(t))  BY <2>2, DepthStep DEF LexInv
    <3> QED  BY <2>1, <3>3, <3>4
  <2> QED  BY <2>1, <2>3, <2>5, DepthPrimed
<1>7. CASE EndOfSource  BY <1>7 DEF EndOfSource
<1> QED  BY <1>1, <1>2, <1>3, <1>4, <1>5, <1>6, <1>7 DEF LexNext

-------------------------------------------------------------------------------
(* The open INDENTs are those of the lines the newest one is indented under. *)
LEMMA BehindStays ==
    ASSUME source' = source, NEW k, tokens'[k] = tokens[k]
    PROVE  Behind(k)' = Behind(k)
<1>1. Logicals' = Logicals  BY LinesStay
<1> QED  BY <1>1 DEF Behind

(* A step that opens and closes nothing, whether or not a line without       *)
(* layout was passed.                                                        *)
LEMMA Carried ==
    ASSUME LexInv, Balance, NEW h \in Logicals, NestsAt(h),
           source' = source, indent_stack' = indent_stack, Newest(h)',
           \/ tokens' = tokens
           \/ \E t \in Tokens : t.kind \notin {"indent", "dedent"} /\ tokens' = Append(tokens, t)
    PROVE  NestsAt(h)'
<1>1. tokens \in Seq(Tokens)  BY DEF Balance, Balanced
<1>2. /\ OpenIn(tokens') = OpenIn(tokens)
      /\ \A k \in OpenIn(tokens) : tokens'[k] = tokens[k] /\ Height(tokens', k) = Height(tokens, k)
  <2>1. CASE tokens' = tokens  BY <2>1
  <2>2. ASSUME NEW t \in Tokens, t.kind \notin {"indent", "dedent"}, tokens' = Append(tokens, t)
        PROVE  <1>2!1 /\ <1>2!2
    <3>1. OpenIn(Append(tokens, t)) = OpenIn(tokens)  BY <1>1, <2>2, PlainToken
    <3>2. \A n \in 0..Len(tokens) : Height(Append(tokens, t), n) = Height(tokens, n)
      BY <1>1, <2>2, PlainToken
    <3>3. \A k \in OpenIn(tokens) : k \in 1..Len(tokens) /\ k \in 0..Len(tokens)
      BY <1>1 DEF OpenIn
    <3>4. \A k \in 1..Len(tokens) : Append(tokens, t)[k] = tokens[k]  BY <1>1, <2>2
    <3> QED  BY <2>2, <3>1, <3>2, <3>3, <3>4
  <2> QED  BY <2>1, <2>2
<1>3. \A k \in OpenIn(tokens) : Behind(k)' = Behind(k)  BY <1>2, BehindStays
<1>4. WidthOf(h)' = WidthOf(h) /\ Anc(h)' = Anc(h) /\ \A i : WidthOf(i)' = WidthOf(i)
  BY LinesStay
<1>5. {Behind(k)' : k \in OpenIn(tokens')} = Anc(h)'
  <2>1. {Behind(k)' : k \in OpenIn(tokens')} = {Behind(k) : k \in OpenIn(tokens)}
    BY <1>2, <1>3
  <2> QED  BY <1>4, <2>1 DEF NestsAt
<1>6. ASSUME NEW k \in OpenIn(tokens')
      PROVE  /\ Height(tokens', k) \in 1..(Len(indent_stack') - 1)
             /\ WidthOf(Behind(k))' = indent_stack'[Height(tokens', k)]
  <2>1. k \in OpenIn(tokens) /\ Height(tokens', k) = Height(tokens, k)  BY <1>2, <1>6
  <2>2. WidthOf(Behind(k))' = WidthOf(Behind(k))
    <3>1. WidthOf(Behind(k))' = Len(source'.lines[Behind(k)'].lead)  BY DEF WidthOf, Lines
    <3>2. WidthOf(Behind(k)) = Len(source.lines[Behind(k)].lead)  BY DEF WidthOf, Lines
    <3> QED  BY <1>3, <2>1, <3>1, <3>2
  <2> QED  BY <2>1, <2>2 DEF NestsAt
<1> QED  BY <1>4, <1>5, <1>6 DEF NestsAt

(* Where a logical line begins.  l is the line, as a constant.               *)
Begins(l) ==
    /\ LexInv /\ Balance /\ Place /\ DepthRight /\ ~Surplus /\ ~AtEnd
    /\ l = line /\ at_line_start /\ Here.text # <<>> /\ bracket_depth = 0

LEMMA LogicalHere ==
    ASSUME LexInv, Place, DepthRight, ~Surplus, ~AtEnd, at_line_start
    PROVE  line \in Logicals <=> Here.text # <<>> /\ bracket_depth = 0
<1>1. /\ line \in 1..Len(Lines) /\ Here = Lines[line] /\ DOMAIN Lines = 1..Len(Lines)
  BY StartFacts, LineFacts DEF LexInv
<1>2. bracket_depth = DepthBefore(line) /\ bracket_depth \in Nat
  BY DEF DepthRight, LexInv, LexTypeOK
<1> QED  BY <1>1, <1>2 DEF Logicals

LEMMA BeginsFacts ==
    ASSUME NEW l, Begins(l)
    PROVE  /\ l \in Logicals /\ l \in Nat /\ WidthOf(l) = Width /\ Width \in Nat
           /\ Rising(indent_stack) /\ Len(indent_stack) \in Nat /\ Len(indent_stack) >= 1
           /\ tokens \in Seq(Tokens) /\ line \in Nat
           /\ Last(indent_stack) = indent_stack[Len(indent_stack)]
           /\ \A i \in 1..Len(indent_stack) : indent_stack[i] \in Nat
<1>1. l \in Logicals  BY LogicalHere DEF Begins
<1>2. WidthOf(l) = Width /\ Width \in Nat /\ l \in Nat /\ line \in Nat
  BY StartFacts DEF Begins
<1>3. Rising(indent_stack) /\ indent_stack \in Seq(Nat) /\ Len(indent_stack) >= 1
  BY DEF Begins, LexInv, LexTypeOK, Rising
<1>4. \A i \in 1..Len(indent_stack) : indent_stack[i] \in Nat  BY <1>3
<1>5. Len(indent_stack) \in Nat  BY <1>3
<1>6. tokens \in Seq(Tokens)  BY DEF Begins, Balance, Balanced
<1> QED  BY <1>1, <1>2, <1>3, <1>4, <1>5, <1>6 DEF Last

LEMMA NewestHere ==
    ASSUME NEW l, Begins(l), source' = source, line' = line, at_line_start' = FALSE
    PROVE  Newest(l)'
<1>1. Reached' = l /\ l \in Logicals  BY BeginsFacts DEF Reached, Begins
<1>2. Logicals' = Logicals /\ \A j \in Logicals : j <= l => j <= l  BY LinesStay
<1>3. l \in Nat  BY BeginsFacts
<1> QED  BY <1>1, <1>2, <1>3 DEF Newest

(* The line before it, if there is one.                                      *)
LEMMA Previous ==
    ASSUME NEW l, Begins(l), NEW h \in Logicals, NestsAt(h)
    PROVE  /\ h < l /\ \A j \in Logicals : j < l => j <= h
           /\ Anc(l) = {j \in Anc(h) \cup {h} : WidthOf(j) < WidthOf(l)}
           /\ \A j \in Anc(h) : WidthOf(j) < WidthOf(h)
           /\ \A j \in Logicals : j \in Nat /\ WidthOf(j) \in Nat
           /\ Anc(h) \subseteq Logicals
<1>1. Reached = l - 1 /\ l \in Nat /\ l \in Logicals  BY BeginsFacts DEF Reached, Begins
<1>2. \A j \in Logicals : j \in Nat /\ WidthOf(j) \in Nat  BY LineFacts DEF Logicals, Begins, LexInv
<1>3. h < l /\ \A j \in Logicals : j < l => j <= h
  <2>1. h <= l - 1 /\ \A j \in Logicals : j <= l - 1 => j <= h
    BY <1>1 DEF NestsAt, Newest
  <2>2. h \in Nat /\ \A j \in Logicals : j < l => j <= l - 1  BY <1>1, <1>2
  <2> QED  BY <1>1, <2>1, <2>2
<1>4. Anc(l) = {j \in Anc(h) \cup {h} : WidthOf(j) < WidthOf(l)}
  BY <1>1, <1>3, AncestorsNext DEF Begins, LexInv
<1>5. \A j \in Anc(h) : j \in Logicals /\ WidthOf(j) < WidthOf(h)
  <2> TAKE j \in Anc(h)
  <2>1. j \in Logicals /\ j < h /\ h \in (j + 1)..h  BY <1>2 DEF Anc
  <2> QED  BY <2>1 DEF Anc
<1> QED  BY <1>2, <1>3, <1>4, <1>5

LEMMA WidthPrimed ==
    ASSUME source' = source, NEW k, NEW j, Behind(k)' = j
    PROVE  WidthOf(Behind(k))' = WidthOf(j)
BY DEF WidthOf, Lines

LEMMA NestsFirst ==
    ASSUME NEW l, Begins(l), Unopened, source' = source, line' = line,
           at_line_start' = FALSE, tokens' = tokens, indent_stack' = indent_stack,
           Width = Last(indent_stack)
    PROVE  NestsAt(l)'
<1>1. WidthOf(l)' = Last(indent_stack')  BY BeginsFacts, LinesStay
<1>2. Anc(l) = {}
  <2>1. \A j \in Logicals : j \in Nat /\ ~(j <= l - 1)
    BY LineFacts DEF Begins, LexInv, Unopened, Reached, Logicals
  <2>2. l \in Nat  BY BeginsFacts
  <2> QED  BY <2>1, <2>2 DEF Anc
<1>3. Anc(l)' = {}  BY <1>2, LinesStay
<1>4. OpenIn(tokens') = {}  BY DEF Unopened
<1>5. {Behind(k)' : k \in OpenIn(tokens')} = {}  BY <1>4
<1> QED  BY <1>1, <1>3, <1>4, <1>5, NewestHere DEF NestsAt

LEMMA NestsSame ==
    ASSUME NEW l, Begins(l), NEW h \in Logicals, NestsAt(h), source' = source, line' = line,
           at_line_start' = FALSE, tokens' = tokens, indent_stack' = indent_stack,
           Width = Last(indent_stack)
    PROVE  NestsAt(l)'
<1>1. WidthOf(l)' = Last(indent_stack') /\ WidthOf(l) = WidthOf(h)
  BY BeginsFacts, LinesStay DEF NestsAt
<1>2. Anc(l) = Anc(h)
  <2>1. WidthOf(h) \in Nat  BY Previous
  <2> QED  BY <1>1, <2>1, Previous
<1>3. Anc(l)' = Anc(h)  BY <1>2, LinesStay
<1>4. \A k \in OpenIn(tokens) : Behind(k)' = Behind(k)  BY BehindStays
<1>5. {Behind(k)' : k \in OpenIn(tokens')} = Anc(l)'
  <2>1. {Behind(k)' : k \in OpenIn(tokens')} = {Behind(k) : k \in OpenIn(tokens)}
    BY <1>4
  <2> QED  BY <1>3, <2>1 DEF NestsAt
<1>6. \A k \in OpenIn(tokens) : WidthOf(Behind(k))' = WidthOf(Behind(k))
  BY <1>4, WidthPrimed
<1>7. \A k \in OpenIn(tokens') : /\ Height(tokens', k) \in 1..(Len(indent_stack') - 1)
                                 /\ WidthOf(Behind(k))' = indent_stack'[Height(tokens', k)]
  BY <1>6 DEF NestsAt
<1> QED  BY <1>1, <1>5, <1>7, NewestHere DEF NestsAt

LEMMA NestsDeeper ==
    ASSUME NEW l, Begins(l), NEW h \in Logicals, NestsAt(h), source' = source, line' = line,
           at_line_start' = FALSE, tokens' = Append(tokens, Token("indent")),
           indent_stack' = Append(indent_stack, Width), Width > Last(indent_stack),
           NEW new, new = Len(tokens) + 1
    PROVE  NestsAt(l)'
<1> DEFINE n == Len(indent_stack)
<1>0. /\ l \in Logicals /\ l \in Nat /\ WidthOf(l) = Width /\ Width \in Nat
      /\ indent_stack \in Seq(Nat) /\ n \in Nat /\ n >= 1 /\ tokens \in Seq(Tokens) /\ l = line
      /\ Last(indent_stack) = indent_stack[n] /\ WidthOf(h) = indent_stack[n]
      /\ \A i \in 1..n : indent_stack[i] \in Nat
  BY BeginsFacts DEF Rising, NestsAt, Begins
<1>1. /\ Len(indent_stack') = n + 1 /\ indent_stack'[n + 1] = Width
      /\ \A i \in 1..n : indent_stack'[i] = indent_stack[i]
      /\ Last(indent_stack') = Width
  <2>1. /\ Len(indent_stack') = n + 1 /\ indent_stack'[n + 1] = Width
        /\ \A i \in 1..n : indent_stack'[i] = indent_stack[i]
    BY <1>0
  <2> QED  BY <2>1 DEF Last
<1>2. Token("indent") \in Tokens /\ Token("indent").kind = "indent" /\ Token("indent").line = l
  BY <1>0, LayoutTokens DEF Token
<1>3. /\ \A m \in 0..Len(tokens) : Height(tokens', m) = Height(tokens, m)
      /\ Height(tokens', new) = Height(tokens, Len(tokens)) + 1
      /\ OpenIn(tokens') = OpenIn(tokens) \cup {new}
  BY <1>0, <1>2, IndentToken
<1>4. Height(tokens, Len(tokens)) = n - 1  BY DEF Begins, Balance, Balanced
<1>5. tokens'[new] = Token("indent") /\ \A k \in 1..Len(tokens) : tokens'[k] = tokens[k]
  BY <1>0
<1>6. \A k \in OpenIn(tokens) : k \in 1..Len(tokens) /\ k \in 0..Len(tokens)
  BY <1>0 DEF OpenIn
<1>7. \A k \in OpenIn(tokens) : Behind(k)' = Behind(k)  BY <1>5, <1>6, BehindStays
<1>8. Behind(new)' = h
  <2>1. Logicals' = Logicals  BY LinesStay
  <2> DEFINE S == {j \in Logicals : j < l}
  <2>2. S \in SUBSET Nat /\ h \in S /\ \A j \in S : j <= h  BY Previous
  <2> HIDE DEF S
  <2>3. Max(S) = h  BY <2>2, MaxIs
  <2>4. tokens'[new].line = l  BY <1>2, <1>5
  <2>5. Behind(new)' = Max({j \in Logicals' : j < tokens'[new].line})  BY DEF Behind
  <2> QED  BY <2>1, <2>3, <2>4, <2>5 DEF S
<1>9. {Behind(k)' : k \in OpenIn(tokens')} = Anc(l)'
  <2>1. {Behind(k)' : k \in OpenIn(tokens')} = {Behind(k) : k \in OpenIn(tokens)} \cup {h}
    BY <1>3, <1>7, <1>8
  <2>2. Anc(l) = Anc(h) \cup {h}
    <3>1. WidthOf(h) < WidthOf(l) /\ WidthOf(h) \in Nat /\ WidthOf(l) \in Nat  BY <1>0
    <3>2. \A j \in Anc(h) : WidthOf(j) < WidthOf(h) /\ WidthOf(j) \in Nat  BY Previous
    <3>3. \A j \in Anc(h) \cup {h} : WidthOf(j) < WidthOf(l)  BY <3>1, <3>2
    <3> QED  BY <3>3, Previous
  <2>3. Anc(l)' = Anc(l)  BY LinesStay
  <2> QED  BY <2>1, <2>2, <2>3 DEF NestsAt
<1>10. ASSUME NEW k \in OpenIn(tokens')
       PROVE  /\ Height(tokens', k) \in 1..(Len(indent_stack') - 1)
              /\ WidthOf(Behind(k))' = indent_stack'[Height(tokens', k)]
  <2>1. CASE k = new
    <3>1. Height(tokens', k) = n
      <4>1. Height(tokens, Len(tokens)) + 1 = n  BY <1>0, <1>4
      <4> QED  BY <1>3, <2>1, <4>1
    <3>2. WidthOf(Behind(k))' = WidthOf(h)  BY <1>8, <2>1, WidthPrimed
    <3>3. n \in 1..((n + 1) - 1) /\ n \in 1..n  BY <1>0
    <3> QED  BY <1>0, <1>1, <3>1, <3>2, <3>3
  <2>2. CASE k # new
    <3>1. k \in OpenIn(tokens)  BY <1>3, <1>10, <2>2
    <3>2. Height(tokens', k) = Height(tokens, k)  BY <1>3, <1>6, <3>1
    <3>3. Height(tokens, k) \in 1..(n - 1) /\ WidthOf(Behind(k)) = indent_stack[Height(tokens, k)]
      BY <3>1 DEF NestsAt
    <3>4. WidthOf(Behind(k))' = WidthOf(Behind(k))  BY <1>7, <3>1, WidthPrimed
    <3>5. Height(tokens, k) \in 1..n /\ Height(tokens, k) \in 1..((n + 1) - 1)  BY <1>0, <3>3
    <3> QED  BY <1>1, <3>2, <3>3, <3>4, <3>5
  <2> QED  BY <2>1, <2>2
<1>11. WidthOf(l)' = Last(indent_stack')  BY <1>0, <1>1, LinesStay
<1> QED  BY <1>9, <1>10, <1>11, NewestHere DEF NestsAt

LEMMA NestsShallower ==
    ASSUME NEW l, Begins(l), NEW h \in Logicals, NestsAt(h), source' = source, line' = line,
           at_line_start' = FALSE, Width < Last(indent_stack),
           NEW p \in 1..(Len(indent_stack) - 1), indent_stack[p] = Width,
           indent_stack' = SubSeq(indent_stack, 1, p),
           tokens' = tokens \o [j \in 1..(Len(indent_stack) - p) |-> Token("dedent")]
    PROVE  NestsAt(l)'
<1> DEFINE n == Len(indent_stack)
<1>0. /\ l \in Logicals /\ l \in Nat /\ WidthOf(l) = Width /\ Width \in Nat
      /\ n \in Nat /\ n >= 1 /\ tokens \in Seq(Tokens)
      /\ Last(indent_stack) = indent_stack[n] /\ WidthOf(h) = indent_stack[n]
      /\ \A i \in 1..n : indent_stack[i] \in Nat
      /\ Rising(indent_stack)
  BY BeginsFacts DEF NestsAt
<1>1. p \in 1..n /\ p \in Nat /\ n - p \in Nat /\ p < n  BY <1>0
<1>2. /\ Len(indent_stack') = p /\ \A i \in 1..p : indent_stack'[i] = indent_stack[i]
      /\ Last(indent_stack') = Width
  <2>1. indent_stack \in Seq(Nat) /\ p \in 1..Len(indent_stack)  BY <1>0, <1>1 DEF Rising
  <2>2. Len(indent_stack') = p /\ \A i \in 1..p : indent_stack'[i] = indent_stack[i]
    BY <2>1
  <2>3. p \in 1..p  BY <1>1
  <2> QED  BY <2>2, <2>3 DEF Last
<1>3. \A i \in 1..(n - 1) : indent_stack[i] < Width <=> i \in 1..(p - 1)
  <2> TAKE i \in 1..(n - 1)
  <2>5. i \in 1..n /\ p \in 1..n
    <3> HIDE DEF n
    <3> QED  BY <1>0, <1>1
  <2>6. DOMAIN indent_stack = 1..n
    <3>1. indent_stack \in Seq(Nat)  BY <1>0 DEF Rising
    <3> QED  BY <3>1
  <2>0. i \in DOMAIN indent_stack /\ p \in DOMAIN indent_stack  BY <2>5, <2>6
  <2>1. indent_stack[i] \in Nat /\ indent_stack[p] = Width  BY <1>0
  <2>2. CASE i < p
    <3>1. indent_stack[i] < indent_stack[p]  BY <1>0, <2>0, <2>2 DEF Rising
    <3> QED  BY <1>1, <2>1, <2>2, <3>1
  <2>3. CASE i = p  BY <1>0, <1>1, <2>1, <2>3
  <2>4. CASE i > p
    <3>1. indent_stack[p] < indent_stack[i]  BY <1>0, <1>1, <2>0, <2>4 DEF Rising
    <3> QED  BY <1>0, <1>1, <2>1, <2>4, <3>1
  <2> QED  BY <1>1, <2>2, <2>3, <2>4
<1>4. Token("dedent") \in Tokens /\ Token("dedent").kind = "dedent"
  BY LayoutTokens, BeginsFacts
<1>5. /\ tokens' \in Seq(Tokens) /\ Len(tokens') = Len(tokens) + (n - p)
      /\ \A i \in 1..Len(tokens) : tokens'[i] = tokens[i]
      /\ \A j \in 1..(n - p) : tokens'[Len(tokens) + j].kind = "dedent"
  BY <1>0, <1>1, <1>4, DedentRun
<1>6. /\ \A m \in 0..Len(tokens) : Height(tokens', m) = Height(tokens, m)
      /\ OpenIn(tokens') = {k \in OpenIn(tokens) :
                              Height(tokens, k) <= Height(tokens, Len(tokens)) - (n - p)}
  BY <1>0, <1>1, <1>5, DedentTail
<1>7. Height(tokens, Len(tokens)) - (n - p) = p - 1
  <2>1. Height(tokens, Len(tokens)) = n - 1  BY DEF Begins, Balance, Balanced
  <2> QED  BY <1>0, <1>1, <2>1
<1>8. \A k \in OpenIn(tokens) :
         /\ Height(tokens, k) \in 1..(n - 1) /\ WidthOf(Behind(k)) = indent_stack[Height(tokens, k)]
         /\ Behind(k)' = Behind(k) /\ Height(tokens', k) = Height(tokens, k)
  <2> TAKE k \in OpenIn(tokens)
  <2>1. k \in 1..Len(tokens) /\ k \in 0..Len(tokens)  BY <1>0 DEF OpenIn
  <2>2. Behind(k)' = Behind(k)  BY <1>5, <2>1, BehindStays
  <2> QED  BY <1>6, <2>1, <2>2 DEF NestsAt
<1>9. OpenIn(tokens') = {k \in OpenIn(tokens) : WidthOf(Behind(k)) < Width}
  <2>1. \A k \in OpenIn(tokens) : Height(tokens, k) <= p - 1 <=> Height(tokens, k) \in 1..(p - 1)
    BY <1>1, <1>8
  <2> QED  BY <1>3, <1>6, <1>7, <1>8, <2>1
<1>10. {Behind(k)' : k \in OpenIn(tokens')} = Anc(l)'
  <2>1. {Behind(k)' : k \in OpenIn(tokens')}
          = {j \in {Behind(k) : k \in OpenIn(tokens)} : WidthOf(j) < Width}
    <3>1. \A k \in OpenIn(tokens') : k \in OpenIn(tokens) /\ Behind(k)' = Behind(k)
      BY <1>8, <1>9
    <3>2. {Behind(k)' : k \in OpenIn(tokens')} = {Behind(k) : k \in OpenIn(tokens')}
      BY <3>1
    <3>. QED  BY <1>9, <3>2
  <2>2. ~(WidthOf(h) < Width)
    <3>1. n \in 1..n  BY <1>0
    <3>2. indent_stack[n] \in Nat /\ Width < indent_stack[n]  BY <1>0, <3>1
    <3> QED  BY <1>0, <3>2
  <2>3. Anc(l) = {j \in Anc(h) : WidthOf(j) < Width}  BY <1>0, <2>2, Previous
  <2>4. Anc(l)' = Anc(l)  BY LinesStay
  <2> QED  BY <2>1, <2>3, <2>4 DEF NestsAt
<1>11. ASSUME NEW k \in OpenIn(tokens')
       PROVE  /\ Height(tokens', k) \in 1..(Len(indent_stack') - 1)
              /\ WidthOf(Behind(k))' = indent_stack'[Height(tokens', k)]
  <2>1. k \in OpenIn(tokens) /\ WidthOf(Behind(k)) < Width  BY <1>9, <1>11
  <2>2. Height(tokens, k) \in 1..(p - 1)  BY <1>3, <1>8, <2>1
  <2>3. WidthOf(Behind(k))' = WidthOf(Behind(k))  BY <1>8, <2>1, WidthPrimed
  <2>4. Height(tokens, k) \in 1..p  BY <1>1, <2>2
  <2> QED  BY <1>2, <1>8, <2>1, <2>2, <2>3, <2>4
<1>12. WidthOf(l)' = Last(indent_stack')  BY <1>0, <1>2, LinesStay
<1> QED  BY <1>10, <1>11, <1>12, NewestHere DEF NestsAt

LEMMA StepKeepsNests ==
    ASSUME LexInv, LexInv', Balance, lexed = "no", Place, DepthRight, Nests,
           LexNext, lexed' = "no", ~Surplus'
    PROVE  Unopened' \/ \E h \in Logicals' : NestsAt(h)'
<1>0. line \in Nat /\ line # 0  BY DEF LexInv, LexTypeOK
<1>1. source' = source /\ line' \in {line, line + 1}
  BY DEF LexNext, MixedLine, BlankLine, Continued, Deeper, Shallower, SameLevel, LogicalStart,
         Scan, Newline, EndOfSource
<1>2. ~Surplus  BY <1>1, SurplusOnly
<1>3. Unopened \/ \E h \in Logicals : NestsAt(h)  BY <1>2 DEF Nests
<1>4. Logicals' = Logicals /\ Logicals \subseteq Nat
  BY <1>1, LinesStay, LineFacts DEF Logicals, LexInv
<1>5. CASE MixedLine  BY <1>5 DEF MixedLine, Fail
<1>6. CASE BlankLine
  <2>1. /\ at_line_start /\ at_line_start' = at_line_start /\ ~AtEnd /\ Here.text = <<>>
        /\ line' = line + 1 /\ tokens' = tokens /\ indent_stack' = indent_stack
        /\ bracket_depth' = bracket_depth /\ after_colon' = after_colon
    BY <1>6 DEF BlankLine, AtLineStart
  <2>2. line \notin Logicals  BY <1>2, <2>1, LogicalHere
  <2>3. Reached = line - 1 /\ Reached' = line  BY <1>0, <2>1 DEF Reached
  <2>4. \A j \in Logicals : j <= line <=> j <= line - 1  BY <1>0, <1>4, <2>2
  <2>5. CASE Unopened
    BY <1>4, <2>1, <2>3, <2>4, <2>5 DEF Unopened
  <2>6. ASSUME NEW h \in Logicals, NestsAt(h) PROVE NestsAt(h)'
    <3>1. Newest(h)'  BY <1>0, <1>4, <2>3, <2>4, <2>6 DEF NestsAt, Newest
    <3> QED  BY <1>1, <2>1, <2>6, <3>1, Carried
  <2> QED  BY <1>3, <1>4, <2>5, <2>6
<1>7. CASE Continued
  <2>1. /\ at_line_start /\ at_line_start' = FALSE /\ ~AtEnd /\ bracket_depth > 0
        /\ line' = line /\ tokens' = tokens /\ indent_stack' = indent_stack
    BY <1>7 DEF Continued, AtLineStart
  <2>2. line \notin Logicals
    <3>1. bracket_depth # 0  BY <2>1
    <3> QED  BY <1>2, <2>1, <3>1, LogicalHere
  <2>3. Reached = line - 1 /\ Reached' = line  BY <1>0, <2>1 DEF Reached
  <2>4. \A j \in Logicals : j <= line <=> j <= line - 1  BY <1>0, <1>4, <2>2
  <2>5. ~Unopened
    <3>1. bracket_depth # 0  BY <2>1
    <3> QED  BY <3>1 DEF Unopened
  <2>6. ASSUME NEW h \in Logicals, NestsAt(h) PROVE NestsAt(h)'
    <3>1. Newest(h)'  BY <1>0, <1>4, <2>3, <2>4, <2>6 DEF NestsAt, Newest
    <3> QED  BY <1>1, <2>1, <2>6, <3>1, Carried
  <2> QED  BY <1>3, <1>4, <2>5, <2>6
<1>8. CASE Deeper \/ Shallower \/ SameLevel
  <2>0. LogicalStart  BY <1>8 DEF Deeper, Shallower, SameLevel
  <2>1. /\ at_line_start /\ at_line_start' = FALSE /\ ~AtEnd /\ line' = line
        /\ Here.text # <<>> /\ bracket_depth = 0
    BY <2>0 DEF LogicalStart, AtLineStart
  <2> SUFFICES ASSUME NEW l, l = line PROVE \E h \in Logicals : NestsAt(h)'
    BY <1>4
  <2>2. Begins(l)  BY <1>2, <2>1 DEF Begins
  <2>3. l \in Logicals  BY <2>2, BeginsFacts
  <2>4. Unopened => Last(indent_stack) = 0 /\ Len(indent_stack) = 1 /\ ~after_colon
    BY DEF Unopened, Last
  <2>5. CASE Deeper
    <3>1. /\ after_colon /\ indent_stack' = Append(indent_stack, Width)
          /\ tokens' = Append(tokens, Token("indent")) /\ Width > Last(indent_stack)
      BY <2>5 DEF Deeper, Fail, Emitted
    <3>2. PICK h \in Logicals : NestsAt(h)  BY <1>3, <2>4, <3>1
    <3>3. NestsAt(l)'  BY <1>1, <2>1, <2>2, <3>1, <3>2, NestsDeeper
    <3> QED  BY <2>3, <3>3
  <2>6. CASE Shallower
    <3>1. PICK p \in 1..(Len(indent_stack) - 1) :
            /\ Width < Last(indent_stack) /\ indent_stack[p] = Width
            /\ indent_stack' = SubSeq(indent_stack, 1, p)
            /\ tokens' = tokens \o [j \in 1..(Len(indent_stack) - p) |-> Token("dedent")]
      BY <2>6 DEF Shallower, Fail
    <3>2. ~Unopened
      <4>1. \A q \in 1..(1 - 1) : FALSE  OBVIOUS
      <4> QED  BY <2>4, <4>1
    <3>3. PICK h \in Logicals : NestsAt(h)  BY <1>3, <3>2
    <3>4. NestsAt(l)'  BY <1>1, <2>1, <2>2, <3>1, <3>3, NestsShallower
    <3> QED  BY <2>3, <3>4
  <2>7. CASE SameLevel
    <3>1. Width = Last(indent_stack) /\ indent_stack' = indent_stack /\ tokens' = tokens
      BY <2>7 DEF SameLevel
    <3>2. CASE Unopened
      <4>1. NestsAt(l)'  BY <1>1, <2>1, <2>2, <3>1, <3>2, NestsFirst
      <4> QED  BY <2>3, <4>1
    <3>3. ASSUME NEW h \in Logicals, NestsAt(h) PROVE NestsAt(l)'
      BY <1>1, <2>1, <2>2, <3>1, <3>3, NestsSame
    <3> QED  BY <1>3, <2>3, <3>2, <3>3
  <2> QED  BY <1>8, <2>5, <2>6, <2>7
<1>9. CASE Scan \/ Newline
  <2>1. /\ ~at_line_start /\ ~AtEnd /\ indent_stack' = indent_stack
        /\ Reached' = Reached
    BY <1>0, <1>9 DEF Scan, Newline, InLine, Reached
  <2>2. \/ tokens' = tokens
        \/ \E t \in Tokens : t.kind \notin {"indent", "dedent"} /\ tokens' = Append(tokens, t)
    <3>1. CASE Scan
      <4>1. tokens' = Append(tokens, Token(Here.text[col])) /\ col <= Len(Here.text)
        BY <3>1 DEF Scan, Emitted
      <4>2. Here.text \in Seq(TextKinds)  BY <2>1, StartFacts
      <4>3. col \in 1..Len(Here.text)  BY <4>1, <4>2 DEF LexInv, LexTypeOK
      <4>4. Here.text[col] \in TextKinds  BY <4>2, <4>3, SeqFacts
      <4>5. Token(Here.text[col]) \in Tokens /\ Token(Here.text[col]).kind \notin {"indent", "dedent"}
        BY <1>0, <4>4, TokenType DEF TextKinds, LayoutKinds, TokenKinds
      <4> QED  BY <4>1, <4>5
    <3>2. CASE Newline
      <4>1. tokens' = tokens \/ tokens' = Append(tokens, Token("newline"))
        BY <3>2 DEF Newline, Emitted
      <4> QED  BY <1>0, <4>1, LayoutTokens
    <3> QED  BY <1>9, <3>1, <3>2
  <2>3. ~Unopened  BY <2>1 DEF Unopened
  <2>4. PICK h \in Logicals : NestsAt(h)  BY <1>3, <2>3
  <2>5. Newest(h)'  BY <1>4, <2>1, <2>4 DEF NestsAt, Newest
  <2>6. NestsAt(h)'  BY <1>1, <2>1, <2>2, <2>4, <2>5, Carried
  <2> QED  BY <1>4, <2>6
<1>10. CASE EndOfSource  BY <1>10 DEF EndOfSource
<1> QED  BY <1>5, <1>6, <1>7, <1>8, <1>9, <1>10 DEF LexNext

(* The invariant holds.                                                      *)
LEMMA InitNests == LexInit => NestInv
<1> SUFFICES ASSUME LexInit PROVE NestInv
  OBVIOUS
<1>1. /\ source \in Sources /\ line = 1 /\ col = 1 /\ tokens = <<>> /\ indent_stack = <<0>>
      /\ bracket_depth = 0 /\ at_line_start = TRUE /\ after_colon = FALSE /\ lexed = "no"
  BY DEF LexInit
<1>2. LexInv  BY InitLexInv
<1>3. Balance
  <2>1. <<>> \in Seq(Tokens) /\ Len(tokens) = 0 /\ Len(indent_stack) = 1  BY <1>1
  <2>2. Height(tokens, 0) = 0  BY HeightNone
  <2>3. \A n \in 0..Len(tokens) : n = 0  BY <2>1
  <2> QED  BY <1>1, <2>1, <2>2, <2>3 DEF Balance, Balanced
<1>4. Place  BY <1>1, LineFacts DEF Place
<1>5. DepthRight  BY <1>1, DepthFirst DEF DepthRight
<1>6. Unopened
  <2>1. OpenIn(tokens) = {}  BY <1>1 DEF OpenIn
  <2>2. \A j \in Logicals : j \in Nat /\ j # 0  BY <1>1, LineFacts DEF Logicals
  <2>3. Reached = 0  BY <1>1 DEF Reached
  <2>4. \A j \in Logicals : ~(j <= Reached)  BY <2>2, <2>3
  <2> QED  BY <1>1, <2>1, <2>4 DEF Unopened
<1> QED  BY <1>2, <1>3, <1>4, <1>5, <1>6 DEF NestInv, Nests

LEMMA StepKeepsNestInv == NestInv /\ [LexNext]_lexVars => NestInv'
<1> SUFFICES ASSUME NestInv, [LexNext]_lexVars PROVE NestInv'
  OBVIOUS
<1>1. LexInv'  BY StepKeepsLexInv DEF NestInv
<1>2. Balance'  BY StepKeepsBalance DEF NestInv
<1>3. CASE LexNext
  <2>1. lexed = "no"
    BY <1>3 DEF LexNext, MixedLine, BlankLine, Continued, Deeper, Shallower, SameLevel,
                LogicalStart, AtLineStart, Scan, Newline, InLine, EndOfSource
  <2>2. lexed' = "no" => Place' /\ DepthRight'
    BY <1>1, <1>3, <2>1, StepKeepsDepth DEF NestInv
  <2>3. Nests'
    <3>1. lexed' = "no" /\ ~Surplus' => Unopened' \/ \E h \in Logicals' : NestsAt(h)'
      BY <1>1, <1>3, <2>1, StepKeepsNests DEF NestInv
    <3> QED  BY <3>1 DEF Nests
  <2> QED  BY <1>1, <1>2, <2>2, <2>3 DEF NestInv
<1>4. CASE UNCHANGED lexVars
  <2>1. Place' = Place /\ DepthRight' = DepthRight
    BY <1>4 DEF lexVars, Place, DepthRight, Surplus, DepthBefore, PlacesBefore, Lines
  <2>2. Nests' = Nests
    BY <1>4 DEF lexVars, Nests, Surplus, Unopened, NestsAt, Newest, Reached, Behind, Logicals, Anc,
                WidthOf, DepthBefore, PlacesBefore, Lines
  <2>3. lexed' = lexed  BY <1>4 DEF lexVars
  <2> QED  BY <1>1, <1>2, <2>1, <2>2, <2>3 DEF NestInv
<1> QED  BY <1>3, <1>4

-------------------------------------------------------------------------------
(* The parser leaves the lexer's state alone.                                *)
LEMMA SpecLexes == Spec => LexSpec
<1>1. Init => LexInit  BY DEF Init
<1>2. ASSUME [Next]_vars PROVE [LexNext]_lexVars
  <2>1. CASE Lex  BY <2>1 DEF Lex
  <2>2. CASE Parse
    BY <2>2 DEF Parse, Header, Statement, Field, Signature, Import, Misplaced, EndBlock, Finish, LexError
  <2>3. CASE Done \/ UNCHANGED vars  BY <2>3 DEF Done, vars, lexVars
  <2> QED  BY <1>2, <2>1, <2>2, <2>3 DEF Next
<1> QED  BY <1>1, <1>2, PTL DEF Spec, LexSpec

LEMMA NestInvHolds == LexSpec => []NestInv
BY InitNests, StepKeepsNestInv, PTL DEF LexSpec

LEMMA OutlineLogicals == Outline.logical = Logicals
BY DEF Outline, Logicals

(* On every source, and not only on the shapes a run enumerates: where the   *)
(* first token of a logical line is read, the INDENTs without their DEDENT   *)
(* (lexer.rs:321-352) stand right behind the lines that line is indented     *)
(* under, one each.                                                          *)
THEOREM LinesNest == Spec => []NestedAsIndented
<1>1. ASSUME NestInv PROVE NestedAsIndented
  <2> SUFFICES ASSUME InLine, col = 1, ~Surplus, line \in Outline.logical
               PROVE  {HeaderBehind(Outline, k) : k \in OpenIndents} = Ancestors(Outline, line)
    BY DEF NestedAsIndented
  <2>1. line \in Logicals /\ lexed = "no" /\ ~at_line_start /\ line \in Nat
    BY <1>1, OutlineLogicals DEF InLine, NestInv, LexInv, LexTypeOK
  <2>2. Reached = line  BY <2>1 DEF Reached
  <2>3. PICK h \in Logicals : NestsAt(h)  BY <1>1, <2>1 DEF NestInv, Nests, Unopened
  <2>4. h = line
    <3>1. h \in Nat  BY <1>1, LineFacts DEF Logicals, NestInv, LexInv
    <3>2. h <= line /\ line <= h  BY <2>1, <2>2, <2>3 DEF NestsAt, Newest
    <3> QED  BY <2>1, <3>1, <3>2
  <2>5. OpenIndents = OpenIn(tokens)  BY <1>1, OpenIndentsAre DEF NestInv, Balance, Balanced
  <2>6. \A k : HeaderBehind(Outline, k) = Behind(k)
    BY OutlineLogicals DEF HeaderBehind, Behind
  <2>7. Ancestors(Outline, line) = Anc(line)  BY OutlineLogicals DEF Ancestors, Anc
  <2>8. {Behind(k) : k \in OpenIn(tokens)} = Anc(line)  BY <2>3, <2>4 DEF NestsAt
  <2> QED  BY <2>5, <2>6, <2>7, <2>8
<1> QED  BY <1>1, SpecLexes, NestInvHolds, PTL

(* At the end of a source whose brackets close no width but 0 is left.       *)
AtBottom == lexed = "yes" /\ bracket_depth = 0 => Len(indent_stack) = 1

LEMMA AtBottomHolds == LexSpec => []AtBottom
<1>1. LexInit => AtBottom  BY DEF LexInit, AtBottom
<1>2. ASSUME AtBottom, [LexNext]_lexVars PROVE AtBottom'
  <2>1. CASE EndOfSource
    <3>1. bracket_depth' = bracket_depth
          /\ indent_stack' = IF bracket_depth > 0 THEN indent_stack ELSE <<0>>
      BY <2>1 DEF EndOfSource
    <3>2. Len(<<0>>) = 1 /\ ~(0 > 0)  OBVIOUS
    <3> QED  BY <3>1, <3>2 DEF AtBottom
  <2>2. CASE LexNext /\ ~EndOfSource
    <3>1. lexed' # "yes"
      BY <2>2 DEF LexNext, MixedLine, BlankLine, Continued, Deeper, Shallower, SameLevel,
                  LogicalStart, AtLineStart, Scan, Newline, InLine, Fail
    <3> QED  BY <3>1 DEF AtBottom
  <2>3. CASE UNCHANGED lexVars  BY <1>2, <2>3 DEF lexVars, AtBottom
  <2> QED  BY <1>2, <2>1, <2>2, <2>3
<1> QED  BY <1>1, <1>2, PTL DEF LexSpec

(* Every INDENT has its DEDENT: no prefix of the tokens closes more blocks   *)
(* than it opened, and when the source has been read with its brackets       *)
(* closed (emit_eof_dedents, lexer.rs:516-535) every block is closed.        *)
BlocksClose ==
    /\ \A n \in 0..Len(tokens) : Nesting(n) >= 0
    /\ lexed = "yes" /\ bracket_depth = 0 => Nesting(Len(tokens)) = 0

THEOREM TokensBalance == Spec => []BlocksClose
<1>1. ASSUME NestInv, AtBottom PROVE BlocksClose
  <2>1. Balanced(tokens, Len(indent_stack)) /\ tokens \in Seq(Tokens)
    BY <1>1 DEF NestInv, Balance, Balanced
  <2>2. \A n \in 0..Len(tokens) : Nesting(n) = Height(tokens, n)  BY <2>1, NestingIsHeight
  <2>3. Len(tokens) \in 0..Len(tokens)  BY <2>1
  <2>4. /\ \A n \in 0..Len(tokens) : Height(tokens, n) >= 0
        /\ Height(tokens, Len(tokens)) = Len(indent_stack) - 1
    BY <2>1 DEF Balanced
  <2>5. \A n \in 0..Len(tokens) : Nesting(n) >= 0  BY <2>2, <2>4
  <2>6. ASSUME lexed = "yes", bracket_depth = 0 PROVE Nesting(Len(tokens)) = 0
    <3>1. Len(indent_stack) = 1  BY <1>1, <2>6 DEF AtBottom
    <3>2. Nesting(Len(tokens)) = Height(tokens, Len(tokens))  BY <2>2, <2>3
    <3> QED  BY <2>4, <3>1, <3>2
  <2> QED  BY <2>5, <2>6 DEF BlocksClose
<1> QED  BY <1>1, SpecLexes, NestInvHolds, AtBottomHolds, PTL
===============================================================================
