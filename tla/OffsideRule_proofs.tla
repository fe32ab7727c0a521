--------------------------- MODULE OffsideRule_proofs ---------------------------
(* The tree the parser builds is the tree of the indentation, on every       *)
(* source.  First what the lexer's tokens are, as an invariant of its steps; *)
(* then how the parser walks over them.                                      *)
EXTENDS Layout_proofs

-------------------------------------------------------------------------------
(* Tokens: the text in them, where a logical line starts, the INDENTs open   *)
(* after the first m, and the brackets.                                      *)
IsText(t) == t.kind \notin LayoutKinds \cup {"eof"}
EndsInText(ts) == Len(ts) > 0 /\ IsText(ts[Len(ts)])
Starts(ts) == {k \in 1..Len(ts) : IsText(ts[k]) /\ (k = 1 \/ ~IsText(ts[k - 1]))}
Opened(ts, m) == {k \in 1..m : /\ ts[k].kind = "indent"
                               /\ \A x \in k..m : Height(ts, x) >= Height(ts, k)}
TokLevel(ts, n) == Upto(KindsOf(ts), n, "open") - Upto(KindsOf(ts), n, "close")
Sound(ts, n) == \A m \in 0..n : TokLevel(ts, m) >= 0

LEMMA TokenFacts ==
    ASSUME NEW ts \in Seq(Tokens)
    PROVE  /\ Len(ts) \in Nat /\ DOMAIN ts = 1..Len(ts)
           /\ \A k \in 1..Len(ts) : ts[k] \in Tokens /\ ts[k].kind \in TokenKinds /\ ts[k].line \in Nat
<1>1. Len(ts) \in Nat /\ DOMAIN ts = 1..Len(ts) /\ \A k \in 1..Len(ts) : ts[k] \in Tokens
  OBVIOUS
<1> QED  BY <1>1 DEF Tokens

LEMMA TokLevelNone == ASSUME NEW ts PROVE TokLevel(ts, 0) = 0
BY UptoNone DEF TokLevel

LEMMA TokLevelInt == ASSUME NEW ts, NEW n \in Nat PROVE TokLevel(ts, n) \in Int
<1>1. Upto(KindsOf(ts), n, "open") \in Nat /\ Upto(KindsOf(ts), n, "close") \in Nat
  BY UptoFinite
<1> QED  BY <1>1 DEF TokLevel

Shift(kind) == IF kind = "open" THEN 1 ELSE IF kind = "close" THEN -1 ELSE 0

LEMMA TokLevelStep ==
    ASSUME NEW ts \in Seq(Tokens), NEW n \in Nat, n < Len(ts)
    PROVE  TokLevel(ts, n + 1) = TokLevel(ts, n) + Shift(ts[n + 1].kind)
<1> DEFINE s == KindsOf(ts)
<1>1. s[n + 1] = ts[n + 1].kind  BY DEF KindsOf
<1> HIDE DEF s
<1>3. Upto(s, n, "open") \in Nat /\ Upto(s, n, "close") \in Nat  BY UptoFinite
<1>4. /\ Upto(s, n + 1, "open") = IF s[n + 1] = "open" THEN Upto(s, n, "open") + 1
                                                      ELSE Upto(s, n, "open")
      /\ Upto(s, n + 1, "close") = IF s[n + 1] = "close" THEN Upto(s, n, "close") + 1
                                                        ELSE Upto(s, n, "close")
  BY UptoStep
<1>5. /\ TokLevel(ts, n) = Upto(s, n, "open") - Upto(s, n, "close")
      /\ TokLevel(ts, n + 1) = Upto(s, n + 1, "open") - Upto(s, n + 1, "close")
  BY DEF TokLevel, s
<1> QED  BY <1>1, <1>3, <1>4, <1>5 DEF Shift

(* us begins with ts.                                                        *)
Extends(us, ts) == /\ us \in Seq(Tokens) /\ ts \in Seq(Tokens) /\ Len(us) >= Len(ts)
                   /\ \A i \in 1..Len(ts) : us[i] = ts[i]

LEMMA KeptPrefix ==
    ASSUME NEW ts, NEW us, Extends(us, ts)
    PROVE  \A m \in 0..Len(ts) : /\ Height(us, m) = Height(ts, m)
                                 /\ TokLevel(us, m) = TokLevel(ts, m)
                                 /\ Opened(us, m) = Opened(ts, m)
<1>0. Len(ts) \in Nat /\ Len(us) \in Nat  BY TokenFacts DEF Extends
<1>1. ASSUME NEW m \in 0..Len(ts) PROVE Height(us, m) = Height(ts, m) /\ TokLevel(us, m) = TokLevel(ts, m)
  <2>1. \A i \in 1..m : KindsOf(us)[i] = KindsOf(ts)[i]
    <3>1. \A i \in 1..m : us[i] = ts[i] /\ i \in 1..Len(ts) /\ i \in 1..Len(us)
      BY <1>0 DEF Extends
    <3> QED  BY <3>1, TokenFacts DEF KindsOf, Extends
  <2>2. m \in Nat  BY <1>0
  <2>3. \A kind : Upto(KindsOf(us), m, kind) = Upto(KindsOf(ts), m, kind)
    BY <2>1, <2>2, UptoSame
  <2> QED  BY <2>3 DEF Height, TokLevel
<1>2. ASSUME NEW m \in 0..Len(ts) PROVE Opened(us, m) = Opened(ts, m)
  <2>1. \A k \in 1..m : /\ us[k] = ts[k] /\ Height(us, k) = Height(ts, k)
                        /\ \A x \in k..m : Height(us, x) = Height(ts, x)
    <3>1. \A k \in 1..m : k \in 1..Len(ts) /\ k \in 0..Len(ts) /\ \A x \in k..m : x \in 0..Len(ts)
      BY <1>0
    <3> QED  BY <1>1, <3>1 DEF Extends
  <2> QED  BY <2>1 DEF Opened
<1> QED  BY <1>1, <1>2

(* Tokens without text added at the end.                                     *)
Quiet(us, ts) == Extends(us, ts) /\ \A i \in (Len(ts) + 1)..Len(us) : ~IsText(us[i])

LEMMA QuietAdds ==
    ASSUME NEW ts, NEW us, Quiet(us, ts)
    PROVE  /\ Starts(us) = Starts(ts)
           /\ \A m \in Len(ts)..Len(us) : TokLevel(us, m) = TokLevel(ts, Len(ts))
<1>0. /\ Len(ts) \in Nat /\ Len(us) \in Nat /\ Len(us) >= Len(ts)
      /\ \A i \in 1..Len(ts) : us[i] = ts[i]
      /\ \A i \in (Len(ts) + 1)..Len(us) : ~IsText(us[i])
      /\ us \in Seq(Tokens) /\ Extends(us, ts)
  BY TokenFacts DEF Quiet, Extends
<1>1. Starts(us) = Starts(ts)
  <2>1. ASSUME NEW k \in Starts(us) PROVE k \in Starts(ts)
    <3>1. k \in 1..Len(us) /\ IsText(us[k]) /\ (k = 1 \/ ~IsText(us[k - 1]))  BY DEF Starts
    <3>2. k \in 1..Len(ts)  BY <1>0, <3>1
    <3>3. k # 1 => k - 1 \in 1..Len(ts)  BY <3>2
    <3> QED  BY <1>0, <3>1, <3>2, <3>3 DEF Starts
  <2>2. ASSUME NEW k \in Starts(ts) PROVE k \in Starts(us)
    <3>1. k \in 1..Len(ts) /\ IsText(ts[k]) /\ (k = 1 \/ ~IsText(ts[k - 1]))  BY DEF Starts
    <3>2. k \in 1..Len(us)  BY <1>0, <3>1
    <3>3. k # 1 => k - 1 \in 1..Len(ts)  BY <3>1
    <3> QED  BY <1>0, <3>1, <3>2, <3>3 DEF Starts
  <2> QED  BY <2>1, <2>2
<1>2. \A m \in Len(ts)..Len(us) : TokLevel(us, m) = TokLevel(ts, Len(ts))
  <2> DEFINE T == {n \in Nat : Len(ts) + n <= Len(us)
                                  => TokLevel(us, Len(ts) + n) = TokLevel(ts, Len(ts))}
  <2>1. 0 \in T
    <3>1. Len(ts) \in 0..Len(ts) /\ Len(ts) + 0 = Len(ts)  BY <1>0
    <3> QED  BY <1>0, <3>1, KeptPrefix
  <2>2. ASSUME NEW n \in Nat, n \in T PROVE n + 1 \in T
    <3> SUFFICES ASSUME Len(ts) + (n + 1) <= Len(us)
                 PROVE  TokLevel(us, Len(ts) + (n + 1)) = TokLevel(ts, Len(ts))
      OBVIOUS
    <3> DEFINE x == Len(ts) + n
    <3>1. x \in Nat /\ x < Len(us) /\ x <= Len(us) /\ Len(ts) + (n + 1) = x + 1
          /\ x + 1 \in (Len(ts) + 1)..Len(us)
      BY <1>0
    <3>2. TokLevel(us, x) = TokLevel(ts, Len(ts))  BY <2>2, <3>1
    <3> HIDE DEF x
    <3>3. TokLevel(us, x + 1) = TokLevel(us, x) + Shift(us[x + 1].kind)
      BY <1>0, <3>1, TokLevelStep
    <3>4. ~IsText(us[x + 1])  BY <1>0, <3>1
    <3>5. Shift(us[x + 1].kind) = 0  BY <3>4 DEF IsText, LayoutKinds, Shift
    <3>6. TokLevel(us, x) \in Int  BY <3>1, TokLevelInt
    <3> QED  BY <3>1, <3>2, <3>3, <3>5, <3>6
  <2> HIDE DEF T
  <2>3. \A n \in Nat : n \in T  BY <2>1, <2>2, NatInduct
  <2>4. ASSUME NEW m \in Len(ts)..Len(us) PROVE TokLevel(us, m) = TokLevel(ts, Len(ts))
    <3>1. m - Len(ts) \in Nat /\ Len(ts) + (m - Len(ts)) = m /\ m <= Len(us)  BY <1>0
    <3> QED  BY <2>3, <3>1 DEF T
  <2> QED  BY <2>4
<1> QED  BY <1>1, <1>2

(* A token of text added at the end.                                         *)
LEMMA TextAdds ==
    ASSUME NEW ts \in Seq(Tokens), NEW t \in Tokens, IsText(t), NEW us, us = Append(ts, t)
    PROVE  /\ Extends(us, ts) /\ Len(us) = Len(ts) + 1 /\ us[Len(ts) + 1] = t /\ EndsInText(us)
           /\ Starts(us) = Starts(ts) \cup (IF EndsInText(ts) THEN {} ELSE {Len(ts) + 1})
           /\ TokLevel(us, Len(ts) + 1) = TokLevel(ts, Len(ts)) + Shift(t.kind)
<1>1. /\ us \in Seq(Tokens) /\ Len(us) = Len(ts) + 1 /\ us[Len(ts) + 1] = t
      /\ \A i \in 1..Len(ts) : us[i] = ts[i]
      /\ Len(ts) \in Nat
  OBVIOUS
<1>2. Extends(us, ts)  BY <1>1 DEF Extends
<1>3. EndsInText(us)  BY <1>1 DEF EndsInText
<1>4. TokLevel(us, Len(ts) + 1) = TokLevel(ts, Len(ts)) + Shift(t.kind)
  <2>1. Len(ts) \in 0..Len(ts) /\ Len(ts) < Len(us)  BY <1>1
  <2>2. TokLevel(us, Len(ts)) = TokLevel(ts, Len(ts))  BY <1>2, <2>1, KeptPrefix
  <2> QED  BY <1>1, <2>1, <2>2, TokLevelStep
<1>5. \A k \in 1..Len(ts) : k \in Starts(us) <=> k \in Starts(ts)
  <2> TAKE k \in 1..Len(ts)
  <2>1. k \in 1..Len(us) /\ us[k] = ts[k] /\ (k # 1 => us[k - 1] = ts[k - 1])  BY <1>1
  <2> QED  BY <2>1 DEF Starts
<1>6. Len(ts) + 1 \in Starts(us) <=> ~EndsInText(ts)
  <2>1. Len(ts) + 1 \in 1..Len(us) /\ (Len(ts) + 1 = 1 <=> ~(Len(ts) > 0))
        /\ (Len(ts) + 1) - 1 = Len(ts) /\ (Len(ts) > 0 => us[Len(ts)] = ts[Len(ts)])
    BY <1>1
  <2> QED  BY <1>1, <2>1 DEF Starts, EndsInText
<1>7. /\ \A k \in Starts(us) : k \in 1..Len(ts) \/ k = Len(ts) + 1
      /\ \A k \in Starts(ts) : k \in 1..Len(ts)
  BY <1>1 DEF Starts
<1> QED  BY <1>1, <1>2, <1>3, <1>4, <1>5, <1>6, <1>7

-------------------------------------------------------------------------------
(* The lexer's tokens.  Eof is the last one and there only when the pass is  *)
(* over; a line has been scanned to its end when its text is the last thing; *)
(* an INDENT stands right before the first token of its line; the brackets   *)
(* of the tokens are those of the lines.                                     *)
EofLast ==
    IF lexed = "yes" THEN /\ Len(tokens) > 0
                          /\ \A k \in 1..Len(tokens) : tokens[k].kind = "eof" <=> k = Len(tokens)
    ELSE \A k \in 1..Len(tokens) : tokens[k].kind # "eof"

TailRule ==
    lexed = "no" =>
      /\ ~at_line_start => Here.text # <<>>
      /\ IF col = 1 THEN bracket_depth = 0 <=> ~EndsInText(tokens) ELSE EndsInText(tokens)

AtFirst == lexed = "no" /\ ~at_line_start /\ col = 1 /\ bracket_depth = 0
IndentRule ==
    lexed \in {"no", "yes"} =>
      \A k \in 1..Len(tokens) : tokens[k].kind = "indent" =>
        IF k < Len(tokens) THEN k + 1 \in Starts(tokens) /\ tokens[k + 1].line = tokens[k].line
        ELSE AtFirst /\ tokens[k].line = line

LevelRule ==
    /\ Sound(tokens, Len(tokens)) => bracket_depth = TokLevel(tokens, Len(tokens)) /\ ~Surplus
    /\ lexed = "no" =>
         IF at_line_start THEN TokLevel(tokens, Len(tokens)) = DepthBefore(line)
         ELSE /\ TokLevel(tokens, Len(tokens)) = DepthBefore(line) + Level(Lines[line].text, col - 1)
              /\ Sound(tokens, Len(tokens)) =>
                   \A n \in 1..(col - 1) : DepthBefore(line) + Level(Lines[line].text, n) >= 0

(* Where no bracket too many was closed, the text that stands behind layout  *)
(* is the first of a logical line, one for each, in their order, and the     *)
(* INDENTs open there stand behind the lines it is indented under.           *)
Ahead(l) == Max({j \in Logicals : j < l})
Passed == IF lexed = "yes" THEN Logicals
          ELSE {l \in Logicals : l < line \/ (l = line /\ col > 1)}
Headers(ts, m) == {Ahead(ts[j].line) : j \in Opened(ts, m)}
StartsAre(ts, passed) ==
    /\ {ts[k].line : k \in Starts(ts)} = passed
    /\ \A k, m \in Starts(ts) : k < m => ts[k].line < ts[m].line
    /\ \A k \in Starts(ts) :
         /\ ts[k].kind = Lines[ts[k].line].text[1]
         /\ Headers(ts, k - 1) = Anc(ts[k].line)
StartsRight == lexed \in {"no", "yes"} /\ ~Surplus => StartsAre(tokens, Passed)

LayInv == EofLast /\ TailRule /\ IndentRule /\ LevelRule /\ StartsRight

LEMMA HereIsText ==
    ASSUME LexInv, Place, ~AtEnd, col <= Len(Here.text)
    PROVE  /\ Here.text[col] \in TextKinds /\ IsText(Token(Here.text[col]))
           /\ Token(Here.text[col]) \in Tokens /\ Token(Here.text[col]).kind = Here.text[col]
           /\ Here.text # <<>>
<1>1. Here.text \in Seq(TextKinds) /\ Len(Here.text) \in Nat  BY StartFacts
<1>2. col \in 1..Len(Here.text) /\ line \in Nat  BY <1>1 DEF LexInv, LexTypeOK
<1>3. Here.text[col] \in TextKinds  BY <1>1, <1>2, SeqFacts
<1>4. /\ Token(Here.text[col]) \in Tokens /\ Token(Here.text[col]).kind = Here.text[col]
  BY <1>2, <1>3, TokenType DEF TokenKinds
<1>5. Here.text # <<>>  BY <1>2
<1> QED  BY <1>3, <1>4, <1>5 DEF IsText, TextKinds

LEMMA TokensAdded ==
    ASSUME NEW ts \in Seq(Tokens), NEW r \in Seq(Tokens)
    PROVE  /\ Extends(Joined(ts, r), ts) /\ Joined(ts, r) \in Seq(Tokens)
           /\ Len(Joined(ts, r)) = Len(ts) + Len(r) /\ Len(r) \in Nat
           /\ \A i \in (Len(ts) + 1)..Len(Joined(ts, r)) :
                 i - Len(ts) \in 1..Len(r) /\ Joined(ts, r)[i] = r[i - Len(ts)]
<1> DEFINE us == ts \o r
<1>1. /\ us \in Seq(Tokens) /\ Len(us) = Len(ts) + Len(r) /\ Len(ts) \in Nat /\ Len(r) \in Nat
      /\ \A i \in 1..Len(ts) : us[i] = ts[i]
  BY TokenFacts
<1>2. \A i \in (Len(ts) + 1)..Len(us) : i - Len(ts) \in 1..Len(r) /\ us[i] = r[i - Len(ts)]
  OBVIOUS
<1> QED  BY <1>1, <1>2 DEF Extends, Joined

LEMMA EofTokensAre ==
    ASSUME line \in Nat, Len(indent_stack) \in Nat, Len(indent_stack) >= 1
    PROVE  /\ EofTokens \in Seq(Tokens) /\ Len(EofTokens) >= 1
           /\ \A i \in 1..Len(EofTokens) : /\ EofTokens[i].kind \in {"newline", "dedent", "eof"}
                                           /\ EofTokens[i].kind = "eof" <=> i = Len(EofTokens)
<1> DEFINE n == Len(indent_stack) - 1
           a == IF NeedsNewline THEN <<Token("newline")>> ELSE <<>>
           run == [k \in 1..n |-> Token("dedent")]
           e == <<Token("eof")>>
<1>1. /\ Token("dedent") \in Tokens /\ Token("newline") \in Tokens /\ Token("eof") \in Tokens
      /\ Token("dedent").kind = "dedent" /\ Token("newline").kind = "newline"
      /\ Token("eof").kind = "eof"
  BY LayoutTokens DEF Token
<1>2. n \in Nat  OBVIOUS
<1>3. e \in Seq(Tokens) /\ Len(e) = 1 /\ e[1].kind = "eof"  BY <1>1
<1>4. run \in Seq(Tokens) /\ Len(run) = n /\ \A i \in 1..n : run[i].kind = "dedent"
  BY <1>1, <1>2
<1>5. a \in Seq(Tokens) /\ Len(a) \in Nat /\ \A i \in 1..Len(a) : a[i].kind = "newline"
  BY <1>1
<1>6. CASE bracket_depth > 0
  <2>1. EofTokens = e  BY <1>6 DEF EofTokens
  <2> QED  BY <1>3, <2>1
<1>7. CASE ~(bracket_depth > 0)
  <2>1. EofTokens = (a \o run) \o e  BY <1>7 DEF EofTokens
  <2> HIDE DEF a, run, e, n
  <2> DEFINE b == a \o run
  <2>2. /\ b \in Seq(Tokens) /\ Len(b) \in Nat
        /\ \A i \in 1..Len(b) : b[i].kind \in {"newline", "dedent"}
    <3>1. b \in Seq(Tokens) /\ Len(b) = Len(a) + n
      <4>1. b = Joined(a, run)  BY DEF Joined, b
      <4>2. a \in Seq(Tokens) /\ run \in Seq(Tokens) /\ Len(run) = n  BY <1>4, <1>5
      <4> HIDE DEF b
      <4> QED  BY <4>1, <4>2, TokensAdded
    <3>2. ASSUME NEW i \in 1..Len(b) PROVE b[i].kind \in {"newline", "dedent"}
      <4>1. CASE i <= Len(a)
        <5>1. i \in 1..Len(a) /\ b[i] = a[i]  BY <1>4, <1>5, <3>1, <4>1
        <5> QED  BY <1>5, <5>1
      <4>2. CASE i > Len(a)
        <5>1. i - Len(a) \in 1..n /\ b[i] = run[i - Len(a)]  BY <1>2, <1>4, <1>5, <3>1, <4>2
        <5> QED  BY <1>4, <5>1
      <4> QED  BY <1>5, <3>1, <4>1, <4>2
    <3>3. Len(b) \in Nat  BY <1>2, <1>5, <3>1
    <3> QED  BY <3>1, <3>2, <3>3
  <2> HIDE DEF b
  <2>3. EofTokens = b \o e  BY <2>1 DEF b
  <2>4. EofTokens \in Seq(Tokens) /\ Len(EofTokens) = Len(b) + 1
    <3>1. EofTokens = Joined(b, e)  BY <2>3 DEF Joined
    <3>2. b \in Seq(Tokens) /\ e \in Seq(Tokens) /\ Len(e) = 1  BY <1>3, <2>2
    <3>3. Joined(b, e) \in Seq(Tokens) /\ Len(Joined(b, e)) = Len(b) + Len(e)
      BY <3>2, TokensAdded
    <3> QED  BY <3>1, <3>2, <3>3
  <2>5. ASSUME NEW i \in 1..Len(EofTokens)
        PROVE  /\ EofTokens[i].kind \in {"newline", "dedent", "eof"}
               /\ EofTokens[i].kind = "eof" <=> i = Len(EofTokens)
    <3>1. CASE i <= Len(b)
      <4>1. i \in 1..Len(b) /\ EofTokens[i] = b[i]  BY <1>3, <2>2, <2>3, <2>4, <3>1
      <4>2. b[i].kind \in {"newline", "dedent"}  BY <2>2, <4>1
      <4> QED  BY <2>2, <2>4, <4>1, <4>2
    <3>2. CASE i > Len(b)
      <4>1. i = Len(b) + 1 /\ EofTokens[i] = e[1]  BY <1>3, <2>2, <2>3, <2>4, <3>2
      <4> QED  BY <1>3, <2>4, <4>1
    <3> QED  BY <2>2, <2>4, <3>1, <3>2
  <2> QED  BY <2>2, <2>4, <2>5
<1> QED  BY <1>6, <1>7

(* What each step adds: Scan one token of text, every other step only        *)
(* layout, an INDENT alone.                                                  *)
LEMMA StepAdds ==
    ASSUME LexInv, Balance, lexed = "no", Place, LexNext
    PROVE  /\ source' = source /\ tokens' \in Seq(Tokens)
           /\ ~Scan => Quiet(tokens', tokens)
           /\ lexed' = "yes" <=> EndOfSource
           /\ EndOfSource => Len(tokens') > Len(tokens) /\
                \A i \in (Len(tokens) + 1)..Len(tokens') :
                   /\ tokens'[i].kind \in {"newline", "dedent", "eof"}
                   /\ tokens'[i].kind = "eof" <=> i = Len(tokens')
           /\ ~EndOfSource /\ ~Scan =>
                \A i \in (Len(tokens) + 1)..Len(tokens') :
                   /\ tokens'[i].kind \in {"newline", "dedent", "indent"}
                   /\ ~Deeper => tokens'[i].kind # "indent"
<1>0. /\ tokens \in Seq(Tokens) /\ Len(tokens) \in Nat /\ line \in Nat
      /\ Len(indent_stack) \in Nat /\ Len(indent_stack) >= 1
  BY TokenFacts DEF Balance, Balanced, LexInv, LexTypeOK
<1>s. source' = source
  BY DEF LexNext, MixedLine, BlankLine, Continued, Deeper, Shallower, SameLevel, LogicalStart,
         Scan, Newline, EndOfSource
<1>l. lexed' = "yes" <=> EndOfSource
  BY DEF LexNext, MixedLine, BlankLine, Continued, Deeper, Shallower, SameLevel, LogicalStart,
         Scan, Newline, EndOfSource, Fail
<1>n. \A i \in (Len(tokens) + 1)..Len(tokens) : FALSE  BY <1>0
<1>t. \A t : t.kind \in {"newline", "dedent", "eof", "indent"} => ~IsText(t)
  BY DEF IsText, LayoutKinds
<1>1. CASE tokens' = tokens /\ ~EndOfSource /\ ~Scan
  <2>1. Quiet(tokens', tokens)  BY <1>0, <1>1, <1>n DEF Quiet, Extends
  <2> QED  BY <1>0, <1>1, <1>l, <1>n, <1>s, <2>1
<1>2. CASE Scan
  <2>1. ~AtEnd /\ col <= Len(Here.text) /\ tokens' = Append(tokens, Token(Here.text[col])) /\ lexed' # "yes"
    BY <1>2 DEF Scan, InLine, Emitted
  <2>2. tokens' \in Seq(Tokens)  BY <1>0, <2>1, HereIsText
  <2> QED  BY <1>2, <1>l, <1>s, <2>1, <2>2
<1>3. ASSUME NEW t \in Tokens, t.kind \in {"newline", "indent"}, tokens' = Append(tokens, t),
             t.kind = "indent" => Deeper, ~EndOfSource, ~Scan
      PROVE  /\ tokens' \in Seq(Tokens) /\ Quiet(tokens', tokens)
             /\ \A i \in (Len(tokens) + 1)..Len(tokens') :
                   /\ tokens'[i].kind \in {"newline", "dedent", "indent"}
                   /\ ~Deeper => tokens'[i].kind # "indent"
  <2>1. /\ tokens' \in Seq(Tokens) /\ Len(tokens') = Len(tokens) + 1 /\ tokens'[Len(tokens) + 1] = t
        /\ \A i \in 1..Len(tokens) : tokens'[i] = tokens[i]
        /\ Len(tokens') >= Len(tokens)
    BY <1>0, <1>3
  <2>2. \A i \in (Len(tokens) + 1)..Len(tokens') : tokens'[i] = t  BY <1>0, <2>1
  <2> QED  BY <1>0, <1>3, <1>t, <2>1, <2>2 DEF Quiet, Extends
<1>4. CASE Shallower
  <2>1. PICK k \in 1..(Len(indent_stack) - 1) :
          tokens' = tokens \o [j \in 1..(Len(indent_stack) - k) |-> Token("dedent")]
    BY <1>4 DEF Shallower
  <2> DEFINE r == [j \in 1..(Len(indent_stack) - k) |-> Token("dedent")]
  <2>2. Token("dedent") \in Tokens /\ Token("dedent").kind = "dedent"  BY <1>0, LayoutTokens
  <2>3. r \in Seq(Tokens) /\ \A i \in 1..Len(r) : r[i].kind = "dedent"
    <3>1. Len(indent_stack) - k \in Nat  BY <1>0
    <3> QED  BY <2>2, <3>1
  <2> HIDE DEF r
  <2>4. /\ Extends(tokens', tokens)
        /\ \A i \in (Len(tokens) + 1)..Len(tokens') : tokens'[i].kind = "dedent"
    <3>1. tokens' = Joined(tokens, r)  BY <2>1 DEF r, Joined
    <3>2. /\ Extends(tokens', tokens) /\ Len(tokens') = Len(tokens) + Len(r)
          /\ \A i \in (Len(tokens) + 1)..Len(tokens') :
               i - Len(tokens) \in 1..Len(r) /\ tokens'[i] = r[i - Len(tokens)]
      BY <1>0, <2>3, <3>1, TokensAdded
    <3> QED  BY <2>3, <3>2
  <2>5. ~EndOfSource /\ ~Scan
    BY <1>4, <1>l DEF Shallower, LogicalStart, AtLineStart, Scan, InLine, Fail
  <2> QED  BY <1>s, <1>l, <1>t, <2>4, <2>5 DEF Quiet, Extends
<1>5. CASE EndOfSource
  <2>1. tokens' = Joined(tokens, EofTokens)  BY <1>5 DEF EndOfSource, Joined
  <2>2. EofTokens \in Seq(Tokens) /\ Len(EofTokens) >= 1
        /\ \A i \in 1..Len(EofTokens) : /\ EofTokens[i].kind \in {"newline", "dedent", "eof"}
                                        /\ EofTokens[i].kind = "eof" <=> i = Len(EofTokens)
    BY <1>0, EofTokensAre
  <2>3. /\ Extends(tokens', tokens) /\ Len(tokens') = Len(tokens) + Len(EofTokens)
        /\ Len(EofTokens) \in Nat
        /\ \A i \in (Len(tokens) + 1)..Len(tokens') :
              i - Len(tokens) \in 1..Len(EofTokens) /\ tokens'[i] = EofTokens[i - Len(tokens)]
    BY <1>0, <2>1, <2>2, TokensAdded
  <2>4. Len(tokens') > Len(tokens)  BY <1>0, <2>2, <2>3
  <2>5. ASSUME NEW i \in (Len(tokens) + 1)..Len(tokens')
        PROVE  /\ tokens'[i].kind \in {"newline", "dedent", "eof"}
               /\ tokens'[i].kind = "eof" <=> i = Len(tokens')
    <3>1. i - Len(tokens) = Len(EofTokens) <=> i = Len(tokens')  BY <1>0, <2>3
    <3> QED  BY <2>2, <2>3, <3>1
  <2>6. ~Scan  BY <1>5 DEF Scan, EndOfSource
  <2> QED  BY <1>5, <1>s, <1>l, <1>t, <2>3, <2>4, <2>5, <2>6 DEF Quiet, Extends
<1>6. CASE Deeper
  <2>1. tokens' = tokens \/ tokens' = Append(tokens, Token("indent"))
    BY <1>6 DEF Deeper, Emitted
  <2>2. ~EndOfSource /\ ~Scan
    BY <1>6, <1>l DEF Deeper, LogicalStart, AtLineStart, Scan, InLine, Fail
  <2>3. Token("indent") \in Tokens /\ Token("indent").kind = "indent"  BY <1>0, LayoutTokens
  <2> QED  BY <1>1, <1>3, <1>6, <1>s, <1>l, <2>1, <2>2, <2>3
<1>7. CASE Newline
  <2>1. tokens' = tokens \/ tokens' = Append(tokens, Token("newline"))
    BY <1>7 DEF Newline, Emitted
  <2>2. ~EndOfSource /\ ~Scan  BY <1>0, <1>7, <1>l, StartFacts DEF Newline, Scan, LexInv, LexTypeOK, InLine
  <2>3. Token("newline") \in Tokens /\ Token("newline").kind = "newline"
    BY <1>0, LayoutTokens DEF Token
  <2> QED  BY <1>1, <1>3, <1>s, <1>l, <2>1, <2>2, <2>3
<1>8. CASE MixedLine \/ BlankLine \/ Continued \/ SameLevel
  BY <1>8, <1>1, <1>l
     DEF MixedLine, BlankLine, Continued, SameLevel, LogicalStart, AtLineStart, Scan, InLine, Fail
<1> QED  BY <1>2, <1>4, <1>5, <1>6, <1>7, <1>8 DEF LexNext

LEMMA ScanAdds ==
    ASSUME LexInv, Balance, lexed = "no", Place, Scan
    PROVE  /\ ~AtEnd /\ ~at_line_start /\ col <= Len(Here.text)
           /\ UNCHANGED <<source, line, at_line_start, lexed>> /\ col' = col + 1
           /\ bracket_depth' = BracketsAfter(Here.text[col])
           /\ Here.text # <<>> /\ IsText(tokens'[Len(tokens) + 1])
           /\ tokens'[Len(tokens) + 1] = Token(Here.text[col])
           /\ Extends(tokens', tokens) /\ Len(tokens') = Len(tokens) + 1 /\ EndsInText(tokens')
           /\ Starts(tokens') = Starts(tokens) \cup (IF EndsInText(tokens) THEN {} ELSE {Len(tokens) + 1})
           /\ TokLevel(tokens', Len(tokens) + 1) = TokLevel(tokens, Len(tokens)) + Shift(Here.text[col])
<1>0. tokens \in Seq(Tokens)  BY DEF Balance, Balanced
<1> DEFINE t == Token(Here.text[col])
<1>1. /\ ~AtEnd /\ ~at_line_start /\ col <= Len(Here.text) /\ tokens' = Append(tokens, t)
      /\ UNCHANGED <<source, line, at_line_start, lexed>> /\ col' = col + 1
      /\ bracket_depth' = BracketsAfter(Here.text[col])
  BY DEF Scan, InLine, Emitted
<1>2. t \in Tokens /\ IsText(t) /\ t.kind = Here.text[col] /\ Here.text # <<>>  BY <1>1, HereIsText
<1> HIDE DEF t
<1>3. /\ Extends(tokens', tokens) /\ Len(tokens') = Len(tokens) + 1 /\ EndsInText(tokens')
      /\ tokens'[Len(tokens) + 1] = t
      /\ Starts(tokens') = Starts(tokens) \cup (IF EndsInText(tokens) THEN {} ELSE {Len(tokens) + 1})
      /\ TokLevel(tokens', Len(tokens) + 1) = TokLevel(tokens, Len(tokens)) + Shift(t.kind)
  <2>1. tokens' = Append(tokens, t) /\ t \in Tokens /\ IsText(t)  BY <1>1, <1>2
  <2> QED  BY <1>0, <2>1, TextAdds
<1> QED  BY <1>1, <1>2, <1>3 DEF t

LEMMA StepKeepsEofLast ==
    ASSUME LexInv, Balance, lexed = "no", Place, EofLast, LexNext PROVE EofLast'
<1>0. tokens \in Seq(Tokens) /\ Len(tokens) \in Nat  BY TokenFacts DEF Balance, Balanced
<1>1. \A k \in 1..Len(tokens) : tokens[k].kind # "eof"  BY DEF EofLast
<1>2. CASE Scan
  <2>2. lexed' # "yes"  BY <1>2 DEF Scan, InLine
  <2>3. /\ Extends(tokens', tokens) /\ Len(tokens') = Len(tokens) + 1
        /\ IsText(tokens'[Len(tokens) + 1])
    BY <1>2, ScanAdds
  <2>4. \A k \in 1..Len(tokens') : k \in 1..Len(tokens) \/ k = Len(tokens) + 1  BY <1>0, <2>3
  <2> QED  BY <1>1, <2>2, <2>3, <2>4 DEF EofLast, Extends, IsText
<1>3. CASE EndOfSource
  <2>1. /\ lexed' = "yes" /\ Quiet(tokens', tokens) /\ Len(tokens') > Len(tokens)
        /\ \A i \in (Len(tokens) + 1)..Len(tokens') : tokens'[i].kind = "eof" <=> i = Len(tokens')
    BY <1>3, StepAdds DEF Scan, EndOfSource
  <2>2. Len(tokens') \in Nat  BY <2>1, TokenFacts DEF Quiet, Extends
  <2>3. \A k \in 1..Len(tokens') : k \in 1..Len(tokens) \/ k \in (Len(tokens) + 1)..Len(tokens')
    BY <1>0, <2>2
  <2>4. \A k \in 1..Len(tokens) : tokens'[k] = tokens[k] /\ k # Len(tokens')
    BY <1>0, <2>1, <2>2 DEF Quiet, Extends
  <2>5. Len(tokens') > 0  BY <1>0, <2>1, <2>2
  <2> QED  BY <1>1, <2>1, <2>3, <2>4, <2>5 DEF EofLast
<1>4. CASE ~Scan /\ ~EndOfSource
  <2>1. /\ lexed' # "yes" /\ Quiet(tokens', tokens)
        /\ \A i \in (Len(tokens) + 1)..Len(tokens') : tokens'[i].kind \in {"newline", "dedent", "indent"}
    BY <1>4, StepAdds
  <2>2. Len(tokens') \in Nat  BY <2>1, TokenFacts DEF Quiet, Extends
  <2>3. \A k \in 1..Len(tokens') : k \in 1..Len(tokens) \/ k \in (Len(tokens) + 1)..Len(tokens')
    BY <1>0, <2>2
  <2> QED  BY <1>1, <2>1, <2>3 DEF EofLast, Quiet, Extends
<1> QED  BY <1>2, <1>3, <1>4

LEMMA QuietEnds ==
    ASSUME NEW ts, NEW us, Quiet(us, ts)
    PROVE  /\ Len(us) > Len(ts) => ~EndsInText(us)
           /\ EndsInText(us) => EndsInText(ts)
<1>1. Len(us) \in Nat /\ Len(ts) \in Nat /\ Len(us) >= Len(ts)  BY TokenFacts DEF Quiet, Extends
<1>2. Len(us) > Len(ts) => Len(us) \in (Len(ts) + 1)..Len(us)  BY <1>1
<1>3. Len(us) > Len(ts) => ~EndsInText(us)  BY <1>2 DEF Quiet, EndsInText
<1>4. ASSUME Len(us) = Len(ts), EndsInText(us) PROVE EndsInText(ts)
  <2>1. Len(ts) \in 1..Len(ts) /\ Len(ts) > 0  BY <1>1, <1>4 DEF EndsInText
  <2> QED  BY <1>4, <2>1 DEF Quiet, Extends, EndsInText
<1> QED  BY <1>1, <1>3, <1>4

(* Where the end of a line or of the source is handled, its text was read.   *)
LEMMA LineRead ==
    ASSUME LexInv, Place, TailRule, lexed = "no", ~at_line_start, col > Len(Here.text)
    PROVE  ~AtEnd /\ col > 1 /\ EndsInText(tokens)
<1>1. Len(Lines) \in Nat /\ line \in Nat /\ line <= Len(Lines)
  BY LineFacts DEF Place, LexInv, LexTypeOK
<1>2. ~AtEnd  BY <1>1 DEF AtEnd, Lines
<1>3. Here.text \in Seq(TextKinds) /\ Here.text # <<>>  BY <1>2, StartFacts DEF TailRule
<1>4. Len(Here.text) \in Nat /\ Len(Here.text) # 0  BY <1>3
<1>5. col \in Nat  BY DEF LexInv, LexTypeOK
<1>6. col > 1 /\ col # 1  BY <1>4, <1>5
<1> QED  BY <1>2, <1>6 DEF TailRule

LEMMA StepKeepsTailRule ==
    ASSUME LexInv, Balance, lexed = "no", Place, TailRule, LexNext, lexed' = "no"
    PROVE  TailRule'
<1>0. /\ tokens \in Seq(Tokens) /\ Len(tokens) \in Nat /\ bracket_depth \in Nat /\ col \in Nat
      /\ source' = source /\ ~EndOfSource
  BY StepAdds, TokenFacts DEF Balance, Balanced, LexInv, LexTypeOK
<1>1. CASE BlankLine
  <2>1. col = 1 /\ at_line_start  BY <1>1 DEF BlankLine, AtLineStart, Place
  <2> QED  BY <1>1, <2>1 DEF BlankLine, TailRule
<1>2. CASE Continued \/ Deeper \/ Shallower \/ SameLevel
  <2>1. /\ col = 1 /\ at_line_start /\ at_line_start' = FALSE /\ col' = col /\ line' = line
        /\ bracket_depth' = bracket_depth /\ Here.text # <<>> /\ ~Scan
    BY <1>2 DEF Continued, Deeper, Shallower, SameLevel, LogicalStart, AtLineStart, Place, Scan, InLine
  <2>2. bracket_depth = 0 <=> ~EndsInText(tokens)  BY <2>1 DEF TailRule
  <2>3. Quiet(tokens', tokens)  BY <2>1, StepAdds
  <2>4. bracket_depth = 0 <=> ~EndsInText(tokens')
    <3>1. CASE Continued  BY <2>2, <3>1 DEF Continued
    <3>2. CASE Deeper \/ Shallower \/ SameLevel
      <4>1. bracket_depth = 0  BY <3>2 DEF Deeper, Shallower, SameLevel, LogicalStart
      <4> QED  BY <2>2, <2>3, <4>1, QuietEnds
    <3> QED  BY <1>2, <3>1, <3>2
  <2>5. Here'.text # <<>>  BY <1>0, <2>1 DEF Here
  <2> QED  BY <2>1, <2>4, <2>5 DEF TailRule
<1>3. CASE Scan
  <2>1. line' = line /\ col' = col + 1  BY <1>3, ScanAdds
  <2>2. EndsInText(tokens') /\ Here.text # <<>>  BY <1>3, ScanAdds
  <2>3. col' # 1  BY <2>1 DEF LexInv, LexTypeOK
  <2>4. Here'.text # <<>>  BY <1>0, <2>1, <2>2 DEF Here
  <2> QED  BY <2>2, <2>3, <2>4 DEF TailRule
<1>4. CASE Newline
  <2>1. /\ ~at_line_start /\ col > Len(Here.text) /\ at_line_start' = TRUE /\ col' = 1
        /\ bracket_depth' = bracket_depth
    BY <1>4 DEF Newline, InLine
  <2>2. EndsInText(tokens)  BY <2>1, LineRead
  <2>3. CASE bracket_depth = 0
    <3>1. tokens' = Append(tokens, Token("newline"))  BY <1>4, <2>3 DEF Newline, Emitted
    <3>2. Len(tokens') = Len(tokens) + 1 /\ tokens'[Len(tokens) + 1] = Token("newline")
      BY <1>0, <3>1
    <3>3. ~IsText(Token("newline"))  BY DEF Token, IsText, LayoutKinds
    <3>4. ~EndsInText(tokens')  BY <3>2, <3>3 DEF EndsInText
    <3> QED  BY <2>1, <2>3, <3>4 DEF TailRule
  <2>4. CASE bracket_depth # 0
    <3>1. tokens' = tokens  BY <1>4, <2>4 DEF Newline
    <3> QED  BY <2>1, <2>2, <2>4, <3>1 DEF TailRule
  <2> QED  BY <2>3, <2>4
<1>5. ~MixedLine  BY DEF MixedLine, Fail
<1> QED  BY <1>0, <1>1, <1>2, <1>3, <1>4, <1>5 DEF LexNext

LEMMA StepKeepsIndentRule ==
    ASSUME LexInv, Balance, lexed = "no", Place, TailRule, IndentRule, LexNext,
           lexed' \in {"no", "yes"}
    PROVE  IndentRule'
<1>0. /\ tokens \in Seq(Tokens) /\ Len(tokens) \in Nat /\ line \in Nat
      /\ tokens' \in Seq(Tokens) /\ Len(tokens') \in Nat
  BY StepAdds, TokenFacts DEF Balance, Balanced, LexInv, LexTypeOK
<1>1. ASSUME NEW k \in 1..Len(tokens), tokens[k].kind = "indent"
      PROVE  IF k < Len(tokens) THEN k + 1 \in Starts(tokens) /\ tokens[k + 1].line = tokens[k].line
             ELSE AtFirst /\ tokens[k].line = line
  BY <1>1 DEF IndentRule
<1>2. CASE Scan
  <2>2. /\ Extends(tokens', tokens) /\ Len(tokens') = Len(tokens) + 1
        /\ tokens'[Len(tokens) + 1] = Token(Here.text[col]) /\ IsText(tokens'[Len(tokens) + 1])
        /\ Starts(tokens') = Starts(tokens) \cup (IF EndsInText(tokens) THEN {} ELSE {Len(tokens) + 1})
    BY <1>2, ScanAdds
  <2>3. ASSUME NEW k \in 1..Len(tokens'), tokens'[k].kind = "indent"
        PROVE  k < Len(tokens') /\ k + 1 \in Starts(tokens') /\ tokens'[k + 1].line = tokens'[k].line
    <3>1. k # Len(tokens) + 1  BY <2>2, <2>3 DEF IsText, LayoutKinds
    <3>2. k \in 1..Len(tokens) /\ tokens'[k] = tokens[k] /\ k < Len(tokens')
      BY <1>0, <2>2, <3>1 DEF Extends
    <3>3. CASE k < Len(tokens)
      <4>1. k + 1 \in Starts(tokens) /\ tokens[k + 1].line = tokens[k].line
        BY <1>1, <2>3, <3>2, <3>3
      <4>2. k + 1 \in 1..Len(tokens)  BY <3>2, <3>3
      <4> QED  BY <2>2, <3>2, <4>1, <4>2 DEF Extends
    <3>4. CASE k = Len(tokens)
      <4>1. tokens[k].line = line  BY <1>1, <2>3, <3>2, <3>4
      <4>2. ~EndsInText(tokens)  BY <2>3, <3>2, <3>4 DEF EndsInText, IsText, LayoutKinds
      <4>3. tokens'[k + 1].line = line  BY <2>2, <3>4 DEF Token
      <4> QED  BY <2>2, <3>2, <3>4, <4>1, <4>2, <4>3
    <3> QED  BY <3>2, <3>3, <3>4
  <2> QED  BY <2>3 DEF IndentRule
<1>3. CASE Deeper
  <2>1. /\ at_line_start /\ at_line_start' = FALSE /\ col' = col /\ line' = line
        /\ bracket_depth' = bracket_depth /\ bracket_depth = 0 /\ after_colon
        /\ tokens' = Append(tokens, Token("indent")) /\ lexed' = lexed
    BY <1>3 DEF Deeper, LogicalStart, AtLineStart, Fail, Emitted
  <2>2. AtFirst'  BY <2>1 DEF AtFirst, Place
  <2>3. ~Scan  BY <2>1 DEF Scan, InLine
  <2>4. Starts(tokens') = Starts(tokens) /\ Extends(tokens', tokens)
    BY <2>3, StepAdds, QuietAdds DEF Quiet
  <2>5. Len(tokens') = Len(tokens) + 1 /\ tokens'[Len(tokens) + 1].line = line  BY <1>0, <2>1 DEF Token
  <2>6. ASSUME NEW k \in 1..Len(tokens'), tokens'[k].kind = "indent"
        PROVE  IF k < Len(tokens') THEN k + 1 \in Starts(tokens') /\ tokens'[k + 1].line = tokens'[k].line
               ELSE AtFirst' /\ tokens'[k].line = line'
    <3>1. CASE k = Len(tokens) + 1  BY <2>1, <2>2, <2>5, <3>1
    <3>2. CASE k # Len(tokens) + 1
      <4>1. k \in 1..Len(tokens) /\ tokens'[k] = tokens[k]  BY <1>0, <2>4, <2>5, <3>2 DEF Extends
      <4>2. k < Len(tokens)  BY <1>0, <1>1, <2>1, <2>6, <4>1 DEF AtFirst
      <4>3. k + 1 \in Starts(tokens) /\ tokens[k + 1].line = tokens[k].line  BY <1>1, <2>6, <4>1, <4>2
      <4>4. k + 1 \in 1..Len(tokens) /\ k < Len(tokens')  BY <2>5, <4>1, <4>2
      <4> QED  BY <2>4, <4>1, <4>3, <4>4 DEF Extends
    <3> QED  BY <3>1, <3>2
  <2> QED  BY <2>6 DEF IndentRule
<1>4. CASE ~Scan /\ ~Deeper
  <2>1. /\ Quiet(tokens', tokens)
        /\ \A i \in (Len(tokens) + 1)..Len(tokens') : tokens'[i].kind # "indent"
    BY <1>4, StepAdds
  <2>2. Starts(tokens') = Starts(tokens) /\ Extends(tokens', tokens)  BY <2>1, QuietAdds DEF Quiet
  <2>3. ~AtFirst
    <3> SUFFICES ASSUME AtFirst PROVE FALSE
      OBVIOUS
    <3>1. ~at_line_start /\ Here.text # <<>> /\ col = 1 /\ lexed = "no"  BY DEF AtFirst, TailRule
    <3>2. ~(col > Len(Here.text))  BY <3>1, LineRead
    <3>3. Len(Lines) \in Nat /\ line <= Len(Lines)  BY <3>1, LineFacts DEF Place, LexInv
    <3>4. ~AtEnd  BY <1>0, <3>3 DEF AtEnd, Lines
    <3> QED
      BY <1>4, <3>1, <3>2, <3>4
         DEF LexNext, MixedLine, BlankLine, Continued, Shallower, SameLevel, LogicalStart,
             AtLineStart, Newline, EndOfSource, Exhausted
  <2>4. ASSUME NEW k \in 1..Len(tokens'), tokens'[k].kind = "indent"
        PROVE  k < Len(tokens') /\ k + 1 \in Starts(tokens') /\ tokens'[k + 1].line = tokens'[k].line
    <3>1. k \in 1..Len(tokens)  BY <1>0, <2>1, <2>4
    <3>2. tokens'[k] = tokens[k]  BY <2>2, <3>1 DEF Extends
    <3>3. k < Len(tokens)  BY <1>0, <1>1, <2>3, <2>4, <3>1, <3>2
    <3>4. k + 1 \in Starts(tokens) /\ tokens[k + 1].line = tokens[k].line  BY <1>1, <2>4, <3>1, <3>2, <3>3
    <3>5. k + 1 \in 1..Len(tokens) /\ Len(tokens') >= Len(tokens)  BY <2>2, <3>1, <3>3 DEF Extends
    <3>6. tokens'[k + 1] = tokens[k + 1]  BY <2>2, <3>5 DEF Extends
    <3> QED  BY <1>0, <2>2, <3>2, <3>3, <3>4, <3>5, <3>6
  <2> QED  BY <2>4 DEF IndentRule
<1> QED  BY <1>2, <1>3, <1>4

(* The brackets.                                                             *)
LEMMA LevelPrimed ==
    ASSUME source' = source
    PROVE  LevelRule' <=>
      /\ Sound(tokens', Len(tokens')) => bracket_depth' = TokLevel(tokens', Len(tokens')) /\ ~Surplus'
      /\ lexed' = "no" =>
           IF at_line_start' THEN TokLevel(tokens', Len(tokens')) = DepthBefore(line')
           ELSE /\ TokLevel(tokens', Len(tokens')) = DepthBefore(line') + Level(Lines[line'].text, col' - 1)
                /\ Sound(tokens', Len(tokens')) =>
                     \A n \in 1..(col' - 1) : DepthBefore(line') + Level(Lines[line'].text, n) >= 0
BY DEF LevelRule, DepthBefore, PlacesBefore, Lines

LEMMA SurplusComes ==
    ASSUME LexInv, source' = source, line' \in {line, line + 1}, Surplus'
    PROVE  \/ Surplus
           \/ /\ line' = line + 1
              /\ \E n \in DOMAIN Lines[line].text : DepthBefore(line) + Level(Lines[line].text, n) < 0
<1>1. PICK i \in 1..(line' - 1) : \E n \in DOMAIN Lines[i].text :
               DepthBefore(i) + Level(Lines[i].text, n) < 0
  <2>1. \E i \in 1..(line' - 1) : \E n \in DOMAIN Lines'[i].text :
               DepthBefore(i)' + Level(Lines'[i].text, n) < 0
    BY DEF Surplus
  <2> QED  BY <2>1, LinesStay
<1>2. line \in Nat /\ line # 0  BY DEF LexInv, LexTypeOK
<1>3. CASE i \in 1..(line - 1)  BY <1>1, <1>3 DEF Surplus
<1>4. CASE i \notin 1..(line - 1)
  <2>0. line' \in {line, line + 1} /\ i \in 1..(line' - 1)  BY <1>1
  <2>1. line' # line  BY <1>4, <2>0
  <2>2. line' = line + 1  BY <2>0, <2>1
  <2>3. i \in 1..line  BY <1>2, <2>0, <2>2
  <2>4. i = line  BY <1>2, <1>4, <2>3
  <2> QED  BY <1>1, <2>2, <2>4
<1> QED  BY <1>3, <1>4

LEMMA SoundStays ==
    ASSUME NEW ts, NEW us, Extends(us, ts), Sound(us, Len(us))
    PROVE  Sound(ts, Len(ts))
<1>1. Len(us) \in Nat /\ Len(ts) \in Nat /\ Len(us) >= Len(ts)  BY TokenFacts DEF Extends
<1>2. \A m \in 0..Len(ts) : m \in 0..Len(us) /\ TokLevel(us, m) = TokLevel(ts, m)  BY <1>1, KeptPrefix
<1> QED  BY <1>2 DEF Sound

LEMMA ScanKeepsLevelRule ==
    ASSUME LexInv, Balance, lexed = "no", Place, LevelRule, Scan PROVE LevelRule'
<1> DEFINE t == Lines[line].text
           d == DepthBefore(line)
           n == Len(tokens)
<1>1. /\ ~AtEnd /\ ~at_line_start /\ col <= Len(Here.text) /\ Len(tokens') = n + 1
      /\ source' = source /\ line' = line /\ at_line_start' = FALSE /\ col' = col + 1 /\ lexed' = "no"
      /\ bracket_depth' = BracketsAfter(Here.text[col]) /\ Extends(tokens', tokens)
      /\ TokLevel(tokens', n + 1) = TokLevel(tokens, n) + Shift(Here.text[col])
  <2>1. at_line_start' = at_line_start /\ at_line_start \in BOOLEAN  BY ScanAdds DEF LexInv, LexTypeOK
  <2> QED  BY <2>1, ScanAdds
<1>2. /\ t \in Seq(TextKinds) /\ Len(t) \in Nat /\ Here.text = t /\ d \in Int
  BY <1>1, StartFacts
<1>3. /\ col \in Nat /\ col # 0 /\ bracket_depth \in Nat /\ n \in Nat
  BY TokenFacts DEF LexInv, LexTypeOK, Balance, Balanced
<1>4. /\ Level(t, col - 1) \in Int
      /\ Level(t, col) = Level(t, col - 1) + Shift(t[col])
  <2>1. col - 1 \in Nat /\ col - 1 < Len(t) /\ (col - 1) + 1 = col  BY <1>1, <1>2, <1>3
  <2> HIDE DEF t
  <2>2. /\ Level(t, col - 1) \in Int
        /\ Level(t, col) = CASE t[col] = "open"  -> Level(t, col - 1) + 1
                               [] t[col] = "close" -> Level(t, col - 1) - 1
                               [] OTHER            -> Level(t, col - 1)
    BY <1>2, <2>1, LevelStep
  <2> QED  BY <2>2 DEF Shift
<1>5. TokLevel(tokens, n) = d + Level(t, col - 1)  BY <1>1 DEF LevelRule
<1>6. TokLevel(tokens', n + 1) = d + Level(t, col)
  <2> HIDE DEF d, t, n
  <2>1. Shift(t[col]) \in Int  BY DEF Shift
  <2> QED  BY <1>1, <1>2, <1>4, <1>5, <2>1
<1>7. ASSUME Sound(tokens', n + 1)
      PROVE  /\ bracket_depth' = TokLevel(tokens', n + 1) /\ ~Surplus'
             /\ \A m \in 1..col : d + Level(t, m) >= 0
  <2>1. Sound(tokens, n)  BY <1>1, <1>7, SoundStays
  <2>2. bracket_depth = TokLevel(tokens, n) /\ ~Surplus  BY <2>1 DEF LevelRule
  <2>3. \A m \in 1..(col - 1) : d + Level(t, m) >= 0  BY <1>1, <2>1 DEF LevelRule
  <2>4. TokLevel(tokens', n + 1) >= 0
    <3>1. n + 1 \in 0..(n + 1)  BY <1>3
    <3> QED  BY <1>7, <3>1 DEF Sound
  <2>5. ~Surplus'
    <3>1. line' # line + 1  BY <1>1 DEF LexInv, LexTypeOK
    <3> QED  BY <1>1, <2>2, <3>1, SurplusComes
  <2>6. \A m \in 1..col : d + Level(t, m) >= 0
    <3>1. \A m \in 1..col : m = col \/ m \in 1..(col - 1)  BY <1>3
    <3> QED  BY <1>6, <2>3, <2>4, <3>1
  <2>7. bracket_depth' = TokLevel(tokens', n + 1)
    <3> DEFINE v == TokLevel(tokens', n + 1)
    <3>1. bracket_depth' = CASE t[col] = "open" -> bracket_depth + 1
                             [] t[col] = "close" -> IF bracket_depth > 0 THEN bracket_depth - 1 ELSE 0
                             [] OTHER -> bracket_depth
      BY <1>1, <1>2 DEF BracketsAfter
    <3>2. v = bracket_depth + Shift(t[col]) /\ v >= 0  BY <1>1, <1>2, <2>2, <2>4
    <3> HIDE DEF v, t
    <3>a. ASSUME t[col] = "open" PROVE bracket_depth' = v
      BY <1>3, <3>1, <3>2, <3>a DEF Shift
    <3>b. ASSUME t[col] = "close" PROVE bracket_depth' = v
      BY <1>3, <3>1, <3>2, <3>b DEF Shift
    <3>c. ASSUME t[col] # "open" /\ t[col] # "close" PROVE bracket_depth' = v
      BY <1>3, <3>1, <3>2, <3>c DEF Shift
    <3>3. bracket_depth' = v  BY <3>a, <3>b, <3>c
    <3> QED  BY <3>3 DEF v
  <2> QED  BY <2>5, <2>6, <2>7
<1>8. col' - 1 = col  BY <1>1, <1>3
<1> QED  BY <1>1, <1>6, <1>7, <1>8, LevelPrimed

(* Every other step keeps the counter, and the place between two tokens.     *)
LEMMA StepPlaces ==
    ASSUME LexInv, lexed = "no", Place, TailRule, LexNext, ~Scan
    PROVE  /\ bracket_depth' = bracket_depth
           /\ \/ /\ BlankLine /\ line' = line + 1 /\ at_line_start /\ at_line_start' = TRUE
                 /\ col = 1 /\ col' = 1 /\ ~AtEnd /\ Lines[line].text = <<>>
              \/ /\ Newline /\ line' = line + 1 /\ ~at_line_start /\ at_line_start' = TRUE /\ ~AtEnd
                 /\ col > 1 /\ col' = 1 /\ col - 1 = Len(Lines[line].text)
              \/ /\ line' = line /\ ~AtEnd /\ at_line_start /\ at_line_start' = FALSE /\ col = 1 /\ col' = 1
                 /\ lexed' # "yes"
              \/ /\ line' = line /\ lexed' \notin {"no", "yes"}
              \/ /\ EndOfSource /\ line' = line /\ lexed' = "yes" /\ AtEnd
              \/ /\ EndOfSource /\ line' = line /\ lexed' = "yes" /\ line = Len(Lines) /\ col > 1
<1>0. col \in Nat /\ at_line_start \in BOOLEAN /\ line \in Nat /\ Len(Lines) \in Nat
  BY LineFacts DEF LexInv, LexTypeOK
<1>1. CASE BlankLine
  <2>1. /\ line' = line + 1 /\ at_line_start /\ at_line_start' = at_line_start /\ col' = col /\ ~AtEnd
        /\ Here.text = <<>> /\ bracket_depth' = bracket_depth
    BY <1>1 DEF BlankLine, AtLineStart
  <2>2. Lines[line].text = <<>>  BY <2>1, StartFacts
  <2> QED  BY <1>0, <1>1, <2>1, <2>2 DEF Place
<1>2. CASE Newline
  <2>1. /\ line' = line + 1 /\ ~at_line_start /\ at_line_start' = TRUE /\ col > Len(Here.text) /\ col' = 1
        /\ bracket_depth' = bracket_depth
    BY <1>2 DEF Newline, InLine
  <2>2. ~AtEnd /\ col > 1  BY <2>1, LineRead
  <2>3. Here = Lines[line] /\ Len(Here.text) \in Nat  BY <2>2, StartFacts
  <2>4. col <= Len(Lines[line].text) + 1  BY <2>1 DEF Place
  <2>5. col - 1 = Len(Lines[line].text)  BY <1>0, <2>1, <2>3, <2>4
  <2> QED  BY <1>2, <2>1, <2>2, <2>5
<1>3. CASE Continued \/ Deeper \/ Shallower \/ SameLevel
  <2>1. /\ line' = line /\ ~AtEnd /\ at_line_start /\ at_line_start' = FALSE /\ col' = col
        /\ bracket_depth' = bracket_depth /\ lexed' # "yes"
    BY <1>3 DEF Continued, Deeper, Shallower, SameLevel, LogicalStart, AtLineStart, Fail
  <2> QED  BY <2>1 DEF Place
<1>4. CASE MixedLine  BY <1>4 DEF MixedLine, Fail
<1>5. CASE EndOfSource
  <2>1. line' = line /\ lexed' = "yes" /\ bracket_depth' = bracket_depth /\ Exhausted
    BY <1>5 DEF EndOfSource
  <2>2. CASE AtEnd  BY <1>5, <2>1, <2>2
  <2>3. CASE ~AtEnd
    <3>1. ~at_line_start /\ col > Len(Here.text) /\ ~LineBreak  BY <2>1, <2>3 DEF Exhausted
    <3>2. col > 1  BY <3>1, LineRead
    <3>3. line = Len(Lines)  BY <1>0, <2>3, <3>1 DEF AtEnd, LineBreak, Lines
    <3> QED  BY <1>5, <2>1, <3>2, <3>3
  <2> QED  BY <2>2, <2>3
<1> QED  BY <1>1, <1>2, <1>3, <1>4, <1>5 DEF LexNext

LEMMA StepKeepsLevelRule ==
    ASSUME LexInv, Balance, lexed = "no", Place, TailRule, LevelRule, LexNext PROVE LevelRule'
<1>1. CASE Scan  BY <1>1, ScanKeepsLevelRule
<1>2. CASE ~Scan
  <2> DEFINE d == DepthBefore(line)
             v == TokLevel(tokens, Len(tokens))
             sound == Sound(tokens', Len(tokens'))
  <2>0. line \in Nat /\ Len(Lines) \in Nat /\ Len(tokens) \in Nat /\ Len(tokens') \in Nat
    BY <1>2, StepAdds, TokenFacts, LineFacts DEF LexInv, LexTypeOK, Balance, Balanced
  <2>1. source' = source /\ Extends(tokens', tokens) /\ TokLevel(tokens', Len(tokens')) = v
    <3>1. source' = source /\ Quiet(tokens', tokens)  BY <1>2, StepAdds
    <3>2. Len(tokens') \in Len(tokens)..Len(tokens')  BY <2>0, <3>1 DEF Quiet, Extends
    <3> QED  BY <3>1, <3>2, QuietAdds DEF Quiet
  <2>2. sound => Sound(tokens, Len(tokens))  BY <2>1, SoundStays
  <2>3. bracket_depth' = bracket_depth /\ line' \in {line, line + 1}  BY <1>2, StepPlaces
  <2>4. sound => bracket_depth' = v /\ ~Surplus  BY <2>2, <2>3 DEF LevelRule
  <2> HIDE DEF sound
  <2>5. CASE line' = line
    <3>1. sound => ~Surplus'
      <4>1. line' # line + 1  BY <2>0, <2>5
      <4> QED  BY <2>1, <2>3, <2>4, <4>1, SurplusComes
    <3>2. ASSUME lexed' = "no"
          PROVE  at_line_start' = FALSE /\ v = d + Level(Lines[line].text, col' - 1) /\ col' = 1
      <4>1. at_line_start' = FALSE /\ at_line_start /\ ~AtEnd /\ col' = 1
        <5>1. line' # line + 1 /\ lexed' \in {"no", "yes"} /\ lexed' # "yes"  BY <2>0, <2>5, <3>2
        <5> QED  BY <1>2, <5>1, StepPlaces
      <4>2. Lines[line].text \in Seq(TextKinds) /\ d \in Int  BY <4>1, StartFacts
      <4>3. Level(Lines[line].text, 0) = 0  BY <4>2, LevelNone
      <4>4. v = d  BY <4>1 DEF LevelRule
      <4>5. col' - 1 = 0  BY <4>1
      <4> QED  BY <4>1, <4>2, <4>3, <4>4, <4>5
    <3>3. \A n \in 1..(1 - 1) : FALSE  OBVIOUS
    <3> QED  BY <2>1, <2>4, <2>5, <3>1, <3>2, <3>3, LevelPrimed DEF sound
  <2>6. CASE line' = line + 1
    <3>0. line' # line  BY <2>0, <2>6
    <3>1. /\ at_line_start' = TRUE /\ ~AtEnd
          /\ \/ at_line_start /\ Lines[line].text = <<>>
             \/ ~at_line_start /\ col - 1 = Len(Lines[line].text)
      BY <1>2, <3>0, StepPlaces
    <3>2. line \in 1..Len(Lines) /\ Lines[line].text \in Seq(TextKinds) /\ d \in Int
          /\ DepthBefore(line + 1) = d + Level(Lines[line].text, Len(Lines[line].text))
      BY <3>1, StartFacts, DepthStep DEF LexInv
    <3>3. v = DepthBefore(line + 1)
      <4>1. CASE at_line_start /\ Lines[line].text = <<>>
        <5>1. Level(Lines[line].text, 0) = 0 /\ Len(Lines[line].text) = 0  BY <3>2, <4>1, LevelNone
        <5>2. v = d  BY <4>1 DEF LevelRule
        <5> QED  BY <3>2, <5>1, <5>2
      <4>2. CASE ~at_line_start /\ col - 1 = Len(Lines[line].text)
        BY <3>2, <4>2 DEF LevelRule
      <4> QED  BY <3>1, <4>1, <4>2
    <3>4. ASSUME sound PROVE ~Surplus'
      <4>1. ASSUME NEW n \in DOMAIN Lines[line].text, d + Level(Lines[line].text, n) < 0 PROVE FALSE
        <5>1. n \in 1..Len(Lines[line].text) /\ Len(Lines[line].text) \in Nat  BY <3>2, <4>1
        <5>2. ~at_line_start /\ n \in 1..(col - 1)  BY <3>1, <5>1
        <5>3. d + Level(Lines[line].text, n) >= 0  BY <2>2, <3>4, <5>2 DEF LevelRule
        <5>4. Level(Lines[line].text, n) \in Int
          <6>1. n - 1 \in Nat /\ n - 1 < Len(Lines[line].text) /\ (n - 1) + 1 = n  BY <5>1
          <6> DEFINE t == Lines[line].text
          <6> HIDE DEF t
          <6>2. t \in Seq(TextKinds) /\ n - 1 < Len(t)  BY <3>2, <6>1 DEF t
          <6>3. Level(t, n - 1) \in Int /\
                Level(t, n) = CASE t[n] = "open"  -> Level(t, n - 1) + 1
                                [] t[n] = "close" -> Level(t, n - 1) - 1
                                [] OTHER          -> Level(t, n - 1)
            BY <6>1, <6>2, LevelStep
          <6> QED  BY <6>3 DEF t
        <5> QED  BY <3>2, <4>1, <5>3, <5>4
      <4> QED  BY <2>1, <2>3, <2>4, <3>4, <4>1, SurplusComes
    <3> QED  BY <2>1, <2>4, <2>6, <3>1, <3>3, <3>4, LevelPrimed DEF sound
  <2> QED  BY <2>3, <2>5, <2>6
<1> QED  BY <1>1, <1>2

(* The lines of the tokens.                                                  *)
LEMMA StartsPrimed ==
    ASSUME source' = source
    PROVE  StartsRight' <=>
             (lexed' \in {"no", "yes"} /\ ~Surplus' =>
                StartsAre(tokens', IF lexed' = "yes" THEN Logicals
                                   ELSE {l \in Logicals : l < line' \/ (l = line' /\ col' > 1)}))
BY DEF StartsRight, StartsAre, Headers, Passed, Ahead, Anc, Logicals, DepthBefore, PlacesBefore, WidthOf, Lines

LEMMA OldStarts ==
    ASSUME NEW ts, NEW us, Extends(us, ts), NEW k \in Starts(ts)
    PROVE  /\ k \in 1..Len(ts) /\ us[k] = ts[k]
           /\ Headers(us, k - 1) = Headers(ts, k - 1)
<1>1. Len(ts) \in Nat  BY TokenFacts DEF Extends
<1>2. k \in 1..Len(ts)  BY DEF Starts
<1>3. us[k] = ts[k] /\ k - 1 \in 0..Len(ts)  BY <1>1, <1>2 DEF Extends
<1>4. Opened(us, k - 1) = Opened(ts, k - 1)  BY <1>3, KeptPrefix
<1>5. \A j \in Opened(ts, k - 1) : j \in 1..Len(ts)  BY <1>1, <1>2 DEF Opened
<1>6. \A j \in Opened(ts, k - 1) : us[j] = ts[j]  BY <1>5 DEF Extends
<1>7. Headers(us, k - 1) = Headers(ts, k - 1)  BY <1>4, <1>6 DEF Headers
<1> QED  BY <1>2, <1>3, <1>7

LEMMA SameStarts ==
    ASSUME NEW ts, NEW us, Extends(us, ts), Starts(us) = Starts(ts), NEW p, StartsAre(ts, p)
    PROVE  StartsAre(us, p)
<1>1. \A k \in Starts(us) : us[k] = ts[k]  BY OldStarts
<1>2. {us[k].line : k \in Starts(us)} = p  BY <1>1 DEF StartsAre
<1>3. \A k, m \in Starts(us) : k < m => us[k].line < us[m].line  BY <1>1 DEF StartsAre
<1>4. ASSUME NEW k \in Starts(us)
      PROVE  /\ us[k].kind = Lines[us[k].line].text[1]
             /\ Headers(us, k - 1) = Anc(us[k].line)
  <2>1. k \in Starts(ts) /\ us[k] = ts[k]  BY <1>1
  <2>2. Headers(us, k - 1) = Headers(ts, k - 1)
    BY <2>1, OldStarts
  <2>3. /\ ts[k].kind = Lines[ts[k].line].text[1]
        /\ Headers(ts, k - 1) = Anc(ts[k].line)
    BY <2>1 DEF StartsAre
  <2> QED  BY <2>1, <2>2, <2>3
<1> QED  BY <1>2, <1>3, <1>4 DEF StartsAre

LEMMA NewStart ==
    ASSUME NEW ts, NEW us, Extends(us, ts), NEW n, n = Len(ts) + 1, Starts(us) = Starts(ts) \cup {n},
           NEW p, StartsAre(ts, p), NEW l, us[n].line = l, us[n].kind = Lines[l].text[1],
           Headers(ts, Len(ts)) = Anc(l), \A x \in p : x < l
    PROVE  StartsAre(us, p \cup {l})
<1>0. Len(ts) \in Nat /\ n - 1 = Len(ts) /\ Len(ts) \in 0..Len(ts)  BY TokenFacts DEF Extends
<1>1. \A k \in Starts(ts) : us[k] = ts[k] /\ k < n /\ k \in Nat  BY <1>0, OldStarts
<1>2. {us[k].line : k \in Starts(us)} = p \cup {l}
  <2>1. {us[k].line : k \in Starts(us)} = {us[k].line : k \in Starts(ts)} \cup {us[n].line}  OBVIOUS
  <2>2. {us[k].line : k \in Starts(ts)} = p  BY <1>1 DEF StartsAre
  <2> QED  BY <2>1, <2>2
<1>3. ASSUME NEW k \in Starts(us), NEW m \in Starts(us), k < m PROVE us[k].line < us[m].line
  <2>1. k # n  BY <1>0, <1>1, <1>3
  <2>2. k \in Starts(ts) /\ us[k] = ts[k]  BY <1>1, <2>1
  <2>3. CASE m = n
    <3>1. us[k].line \in p  BY <2>2 DEF StartsAre
    <3> QED  BY <2>3, <3>1
  <2>4. CASE m # n  BY <1>1, <1>3, <2>2, <2>4 DEF StartsAre
  <2> QED  BY <2>3, <2>4
<1>4. Headers(us, n - 1) = Anc(l)
  <2>1. Opened(us, n - 1) = Opened(ts, Len(ts))  BY <1>0, KeptPrefix
  <2>2. \A j \in Opened(ts, Len(ts)) : us[j] = ts[j]  BY <1>0 DEF Opened, Extends
  <2>3. Headers(us, n - 1) = Headers(ts, Len(ts))  BY <2>1, <2>2 DEF Headers
  <2> QED  BY <2>3
<1>5. ASSUME NEW k \in Starts(us)
      PROVE  /\ us[k].kind = Lines[us[k].line].text[1]
             /\ Headers(us, k - 1) = Anc(us[k].line)
  <2>1. CASE k = n  BY <1>4, <2>1
  <2>2. CASE k # n
    <3>1. k \in Starts(ts) /\ us[k] = ts[k]  BY <1>1, <2>2
    <3>2. Headers(us, k - 1) = Headers(ts, k - 1)
      BY <3>1, OldStarts
    <3>3. /\ ts[k].kind = Lines[ts[k].line].text[1]
          /\ Headers(ts, k - 1) = Anc(ts[k].line)
      BY <3>1 DEF StartsAre
    <3> QED  BY <3>1, <3>2, <3>3
  <2> QED  BY <2>1, <2>2
<1> QED  BY <1>2, <1>3, <1>5 DEF StartsAre

(* Where a logical line's first token is read, what is open stands behind    *)
(* the lines it is indented under (LinesNest).                               *)
LEMMA OpenAtLine ==
    ASSUME NestInv, lexed = "no", ~Surplus, ~at_line_start, NEW l \in Logicals, l = line
    PROVE  Headers(tokens, Len(tokens)) = Anc(l)
<1>1. Reached = line /\ line \in Nat  BY DEF Reached, NestInv, LexInv, LexTypeOK
<1>2. PICK h \in Logicals : NestsAt(h)  BY DEF NestInv, Nests, Unopened
<1>3. h = line
  <2>1. h \in Nat  BY LineFacts DEF Logicals, NestInv, LexInv
  <2>2. h <= line /\ line <= h  BY <1>1, <1>2 DEF NestsAt, Newest
  <2> QED  BY <1>1, <2>1, <2>2
<1>4. {Behind(k) : k \in OpenIn(tokens)} = Anc(l)  BY <1>2, <1>3 DEF NestsAt
<1>5. tokens \in Seq(Tokens)  BY DEF NestInv, Balance, Balanced
<1>6. OpenIn(tokens) = Opened(tokens, Len(tokens))  BY <1>5, TokenFacts DEF OpenIn, Opened
<1>7. \A k : Behind(k) = Ahead(tokens[k].line)  BY DEF Behind, Ahead
<1> QED  BY <1>4, <1>6, <1>7 DEF Headers

LEMMA StepKeepsStarts ==
    ASSUME NestInv, LexInv', lexed = "no", TailRule, StartsRight, LexNext, lexed' \in {"no", "yes"}
    PROVE  StartsRight'
<1>0. /\ LexInv /\ Balance /\ Place /\ DepthRight /\ source' = source
      /\ line \in Nat /\ col \in Nat /\ col # 0 /\ Len(Lines) \in Nat
      /\ \A l \in Logicals : l \in 1..Len(Lines)
  <2>1. LexInv /\ Balance /\ Place /\ DepthRight  BY DEF NestInv
  <2>2. source' = source  BY <2>1, StepAdds
  <2> QED  BY <2>1, <2>2, LineFacts DEF LexInv, LexTypeOK, Logicals
<1>1. CASE ~Scan
  <2>1. Extends(tokens', tokens) /\ Starts(tokens') = Starts(tokens)
    BY <1>0, <1>1, StepAdds, QuietAdds DEF Quiet
  <2> DEFINE next == IF lexed' = "yes" THEN Logicals
                     ELSE {l \in Logicals : l < line' \/ (l = line' /\ col' > 1)}
  <2>2. ASSUME ~Surplus' PROVE ~Surplus /\ next = Passed
    <3>1. line' \in {line, line + 1}  BY <1>0, <1>1, StepPlaces
    <3>2. ~Surplus  BY <1>0, <2>2, <3>1, SurplusOnly
    <3>3. Passed = {l \in Logicals : l < line \/ (l = line /\ col > 1)}  BY DEF Passed
    <3>4. CASE BlankLine
      <4>1. line' = line + 1 /\ Lines[line].text = <<>> /\ col = 1 /\ col' = 1 /\ lexed' # "yes"
        <5>1. line' = line + 1 /\ lexed' = lexed /\ col' = col  BY <3>4 DEF BlankLine
        <5>2. line' # line  BY <1>0, <5>1
        <5>3. at_line_start  BY <3>4 DEF BlankLine, AtLineStart
        <5> QED  BY <1>0, <1>1, <5>1, <5>2, <5>3, StepPlaces
      <4>2. line \notin Logicals  BY <4>1 DEF Logicals
      <4>3. \A l \in Logicals : l < line + 1 <=> l < line  BY <1>0, <4>2
      <4> QED  BY <1>0, <3>2, <3>3, <4>1, <4>3
    <3>5. CASE Newline
      <4>1. line' = line + 1 /\ col > 1 /\ col' = 1 /\ lexed' # "yes"
        <5>1. line' = line + 1 /\ lexed' = lexed /\ ~at_line_start  BY <3>5 DEF Newline, InLine
        <5>2. line' # line  BY <1>0, <5>1
        <5> QED  BY <1>0, <1>1, <5>1, <5>2, StepPlaces
      <4>2. \A l \in Logicals : l < line + 1 <=> l < line \/ l = line  BY <1>0
      <4> QED  BY <1>0, <3>2, <3>3, <4>1, <4>2
    <3>6. CASE EndOfSource
      <4>1. lexed' = "yes" /\ line' = line  BY <3>6 DEF EndOfSource
      <4>2. line' # line + 1 /\ lexed' \in {"no", "yes"}  BY <1>0, <4>1
      <4>3. AtEnd \/ (line = Len(Lines) /\ col > 1)
        <5>1. ~(line' = line + 1) /\ ~(lexed' # "yes") /\ ~(lexed' \notin {"no", "yes"})  BY <4>1, <4>2
        <5> QED  BY <1>0, <1>1, <5>1, StepPlaces
      <4>4. \A l \in Logicals : l < line \/ (l = line /\ col > 1)
        BY <1>0, <4>3 DEF AtEnd, Lines
      <4> QED  BY <3>2, <3>3, <4>1, <4>4
    <3>7. CASE ~BlankLine /\ ~Newline /\ ~EndOfSource
      <4>1. line' = line /\ col = 1 /\ col' = 1 /\ lexed' # "yes"
        BY <1>0, <1>1, <3>7, StepPlaces
      <4> QED  BY <3>2, <3>3, <4>1
    <3> QED  BY <3>4, <3>5, <3>6, <3>7
  <2> HIDE DEF next
  <2>3. ~Surplus' => StartsAre(tokens', next)
    BY <2>1, <2>2, SameStarts DEF StartsRight
  <2> QED  BY <1>0, <2>3, StartsPrimed DEF next
<1>2. CASE Scan
  <2>1. /\ ~AtEnd /\ ~at_line_start /\ col <= Len(Here.text) /\ Here.text # <<>> /\ line' = line
        /\ lexed' = lexed /\ col' = col + 1 /\ Extends(tokens', tokens)
        /\ tokens'[Len(tokens) + 1] = Token(Here.text[col])
        /\ Starts(tokens') = Starts(tokens) \cup (IF EndsInText(tokens) THEN {} ELSE {Len(tokens) + 1})
    BY <1>0, <1>2, ScanAdds
  <2>2. /\ line \in 1..Len(Lines) /\ Here = Lines[line] /\ DOMAIN Lines = 1..Len(Lines)
        /\ Lines[line].text \in Seq(TextKinds) /\ DepthBefore(line) \in Int
    BY <1>0, <2>1, StartFacts, LineFacts DEF LexInv
  <2>3. ASSUME ~Surplus'
        PROVE  StartsAre(tokens', {l \in Logicals : l < line \/ l = line})
    <3>1. ~Surplus
      <4>1. line' \in {line, line + 1}  BY <2>1
      <4> QED  BY <1>0, <2>3, <4>1, SurplusOnly
    <3>2. StartsAre(tokens, {l \in Logicals : l < line \/ (l = line /\ col > 1)})
      BY <3>1 DEF StartsRight, Passed
    <3>3. CASE EndsInText(tokens)
      <4>1. Starts(tokens') = Starts(tokens)  BY <2>1, <3>3
      <4>2. StartsAre(tokens', {l \in Logicals : l < line \/ (l = line /\ col > 1)})
        BY <2>1, <3>2, <4>1, SameStarts
      <4>3. CASE col = 1
        <5>1. bracket_depth # 0  BY <3>3, <4>3 DEF TailRule
        <5>2. bracket_depth = DepthBefore(line)
          <6>1. Level(Lines[line].text, 0) = 0 /\ col - 1 = 0  BY <2>2, <4>3, LevelNone
          <6>2. \A n \in 1..(col - 1) : FALSE  BY <4>3
          <6> QED  BY <1>0, <2>1, <2>2, <3>1, <6>1, <6>2 DEF DepthRight
        <5>3. line \notin Logicals  BY <1>0, <5>1, <5>2 DEF Logicals, LexInv, LexTypeOK
        <5>4. {l \in Logicals : l < line \/ (l = line /\ col > 1)} = {l \in Logicals : l < line \/ l = line}
          BY <5>3
        <5> QED  BY <4>2, <5>4
      <4>4. CASE col # 1
        <5>1. col > 1  BY <1>0, <4>4
        <5> QED  BY <4>2, <5>1
      <4> QED  BY <4>3, <4>4
    <3>4. CASE ~EndsInText(tokens)
      <4>1. col = 1 /\ bracket_depth = 0  BY <3>4 DEF TailRule
      <4>2. DepthBefore(line) = 0
        <5>1. Level(Lines[line].text, 0) = 0 /\ col - 1 = 0  BY <2>2, <4>1, LevelNone
        <5>2. \A n \in 1..(col - 1) : FALSE  BY <4>1
        <5> QED  BY <1>0, <2>1, <2>2, <3>1, <4>1, <5>1, <5>2 DEF DepthRight
      <4>3. line \in Logicals  BY <2>1, <2>2, <4>2 DEF Logicals
      <4> DEFINE p == {l \in Logicals : l < line \/ (l = line /\ col > 1)}
                 n == Len(tokens) + 1
      <4>4. /\ Starts(tokens') = Starts(tokens) \cup {n} /\ tokens'[n].line = line
            /\ tokens'[n].kind = Lines[line].text[1]
        BY <2>1, <2>2, <3>4, <4>1 DEF Token
      <4>5. Headers(tokens, Len(tokens)) = Anc(line)
        BY <2>1, <3>1, <4>3, OpenAtLine
      <4>6. \A x \in p : x < line  BY <4>1
      <4>7. p \cup {line} = {l \in Logicals : l < line \/ l = line}  BY <4>1, <4>3
      <4> HIDE DEF p
      <4>8. StartsAre(tokens, p)  BY <3>2 DEF p
      <4>9. StartsAre(tokens', p \cup {line})
        BY <2>1, <4>4, <4>5, <4>6, <4>8, NewStart
      <4> QED  BY <4>7, <4>9
    <3> QED  BY <3>3, <3>4
  <2>4. {l \in Logicals : l < line' \/ (l = line' /\ col' > 1)} = {l \in Logicals : l < line \/ l = line}
    BY <1>0, <2>1
  <2> QED  BY <1>0, <2>1, <2>3, <2>4, StartsPrimed
<1> QED  BY <1>1, <1>2

(* The invariant of the tokens.                                              *)
LEMMA InitLayInv == LexInit => LayInv
<1> SUFFICES ASSUME LexInit PROVE LayInv
  OBVIOUS
<1>1. /\ source \in Sources /\ line = 1 /\ col = 1 /\ tokens = <<>> /\ bracket_depth = 0
      /\ at_line_start = TRUE /\ lexed = "no"
  BY DEF LexInit
<1>2. Len(tokens) = 0 /\ (\A k \in 1..Len(tokens) : FALSE)  BY <1>1
<1>3. EofLast /\ IndentRule  BY <1>1, <1>2 DEF EofLast, IndentRule
<1>4. TailRule  BY <1>1, <1>2 DEF TailRule, EndsInText
<1>5. ~Surplus  BY <1>1 DEF Surplus
<1>6. LevelRule  BY <1>1, <1>2, <1>5, TokLevelNone, DepthFirst DEF LevelRule
<1>7. Starts(tokens) = {}  BY <1>2 DEF Starts
<1>8. Passed = {}
  <2>1. \A l \in Logicals : ~(l < line \/ (l = line /\ col > 1))  BY <1>1, LineFacts DEF Logicals
  <2> QED  BY <1>1, <2>1 DEF Passed
<1>9. StartsRight  BY <1>7, <1>8 DEF StartsRight, StartsAre
<1> QED  BY <1>3, <1>4, <1>6, <1>9 DEF LayInv

LEMMA StepKeepsLayInv == NestInv /\ NestInv' /\ LayInv /\ [LexNext]_lexVars => LayInv'
<1> SUFFICES ASSUME NestInv, NestInv', LayInv, [LexNext]_lexVars PROVE LayInv'
  OBVIOUS
<1>1. CASE LexNext
  <2>1. lexed = "no"
    BY <1>1 DEF LexNext, MixedLine, BlankLine, Continued, Deeper, Shallower, SameLevel,
                LogicalStart, AtLineStart, Scan, Newline, InLine, EndOfSource
  <2>2. LexInv /\ LexInv' /\ Balance /\ Place /\ TailRule  BY <2>1 DEF NestInv, LayInv
  <2>3. EofLast'  BY <1>1, <2>1, <2>2, StepKeepsEofLast DEF LayInv
  <2>4. TailRule'
    <3>1. lexed' = "no" => TailRule'  BY <1>1, <2>1, <2>2, StepKeepsTailRule
    <3> QED  BY <3>1 DEF TailRule
  <2>5. IndentRule'
    <3>1. lexed' \in {"no", "yes"} => IndentRule'
      BY <1>1, <2>1, <2>2, StepKeepsIndentRule DEF LayInv
    <3> QED  BY <3>1 DEF IndentRule
  <2>6. LevelRule'  BY <1>1, <2>1, <2>2, StepKeepsLevelRule DEF LayInv
  <2>7. StartsRight'
    <3>1. lexed' \in {"no", "yes"} => StartsRight'
      BY <1>1, <2>1, <2>2, StepKeepsStarts DEF LayInv
    <3> QED  BY <3>1 DEF StartsRight
  <2> QED  BY <2>3, <2>4, <2>5, <2>6, <2>7 DEF LayInv
<1>2. CASE UNCHANGED lexVars
  <2>1. EofLast' = EofLast /\ TailRule' = TailRule /\ IndentRule' = IndentRule
    BY <1>2 DEF lexVars, EofLast, TailRule, IndentRule, AtFirst, Here
  <2>2. LevelRule' = LevelRule
    BY <1>2 DEF lexVars, LevelRule, Surplus, DepthBefore, PlacesBefore, Lines
  <2>3. StartsRight' = StartsRight
    BY <1>2 DEF lexVars, StartsRight, StartsAre, Headers, Passed, Surplus, Ahead, Logicals, Anc, WidthOf,
                DepthBefore, PlacesBefore, Lines
  <2> QED  BY <2>1, <2>2, <2>3 DEF LayInv
<1> QED  BY <1>1, <1>2

LEMMA LayInvHolds == LexSpec => [](NestInv /\ LayInv)
<1>1. LexInit => NestInv /\ LayInv  BY InitNests, InitLayInv
<1>2. (NestInv /\ LayInv) /\ [LexNext]_lexVars => (NestInv /\ LayInv)'
  BY StepKeepsNestInv, StepKeepsLayInv
<1> QED  BY <1>1, <1>2, PTL DEF LexSpec

-------------------------------------------------------------------------------
(* The INDENTs open after the first tokens, one token at a time: there is    *)
(* one of each height.                                                       *)
LEMMA OpenedStep ==
    ASSUME NEW ts \in Seq(Tokens), NEW m \in Nat, m < Len(ts)
    PROVE  /\ ts[m + 1].kind = "indent" => Opened(ts, m + 1) = Opened(ts, m) \cup {m + 1}
           /\ ts[m + 1].kind = "dedent" =>
                Opened(ts, m + 1) = {j \in Opened(ts, m) : Height(ts, j) < Height(ts, m)}
           /\ ts[m + 1].kind \notin {"indent", "dedent"} => Opened(ts, m + 1) = Opened(ts, m)
<1> DEFINE h == Height(ts, m)
           g == Height(ts, m + 1)
<1>1. h \in Int /\ g \in Int /\ \A j \in 1..m : Height(ts, j) \in Int  BY HeightInt
<1>2. g = CASE ts[m + 1].kind = "indent" -> h + 1
            [] ts[m + 1].kind = "dedent" -> h - 1
            [] OTHER                     -> h
  BY HeightStep
<1>3. \A j \in 1..m : j \in Opened(ts, m + 1) <=> j \in Opened(ts, m) /\ Height(ts, j) <= g
  <2> TAKE j \in 1..m
  <2>1. \A x \in j..(m + 1) : x \in j..m \/ x = m + 1  OBVIOUS
  <2>2. m + 1 \in j..(m + 1) /\ j \in 1..(m + 1) /\ \A x \in j..m : x \in j..(m + 1)  OBVIOUS
  <2> QED  BY <1>1, <2>1, <2>2 DEF Opened
<1>4. m + 1 \in Opened(ts, m + 1) <=> ts[m + 1].kind = "indent"
  <2>1. \A x \in (m + 1)..(m + 1) : x = m + 1  OBVIOUS
  <2> QED  BY <1>1, <2>1 DEF Opened
<1>5. /\ \A j \in Opened(ts, m + 1) : j \in 1..m \/ j = m + 1
      /\ \A j \in Opened(ts, m) : j \in 1..m /\ m \in j..m
  BY DEF Opened
<1>6. \A j \in Opened(ts, m) : Height(ts, j) <= h /\ Height(ts, j) \in Int  BY <1>1, <1>5 DEF Opened
<1> HIDE DEF h, g
<1>7. CASE ts[m + 1].kind = "indent"
  <2>1. \A j \in Opened(ts, m) : Height(ts, j) <= g  BY <1>1, <1>2, <1>6, <1>7
  <2> QED  BY <1>3, <1>4, <1>5, <1>7, <2>1
<1>8. CASE ts[m + 1].kind = "dedent"
  <2>1. \A j \in Opened(ts, m) : Height(ts, j) <= g <=> Height(ts, j) < h
    BY <1>1, <1>2, <1>6, <1>8
  <2> QED  BY <1>3, <1>4, <1>5, <1>8, <2>1 DEF h
<1>9. CASE ts[m + 1].kind \notin {"indent", "dedent"}
  <2>1. \A j \in Opened(ts, m) : Height(ts, j) <= g  BY <1>1, <1>2, <1>6, <1>9
  <2> QED  BY <1>3, <1>4, <1>5, <1>9, <2>1
<1> QED  BY <1>7, <1>8, <1>9

LEMMA OpenedHeights ==
    ASSUME NEW ts \in Seq(Tokens), \A n \in 0..Len(ts) : Height(ts, n) >= 0, NEW m \in 0..Len(ts)
    PROVE  /\ \A j \in Opened(ts, m) : j \in 1..m /\ Height(ts, j) \in 1..Height(ts, m)
           /\ \A j, k \in Opened(ts, m) : j < k => Height(ts, j) < Height(ts, k)
<1>0. Len(ts) \in Nat /\ m \in Nat /\ Height(ts, m) \in Int  BY HeightInt
<1>1. ASSUME NEW j \in Opened(ts, m)
      PROVE  /\ j \in 1..m /\ Height(ts, j) \in 1..Height(ts, m)
             /\ Height(ts, j) = Height(ts, j - 1) + 1 /\ Height(ts, j - 1) \in Nat
  <2>1. j \in 1..m /\ m \in j..m /\ ts[j].kind = "indent" /\ Height(ts, m) >= Height(ts, j)
    BY <1>0 DEF Opened
  <2>2. j - 1 \in Nat /\ j - 1 < Len(ts) /\ (j - 1) + 1 = j /\ j - 1 \in 0..Len(ts)  BY <1>0, <2>1
  <2>3. Height(ts, j) = Height(ts, j - 1) + 1  BY <2>1, <2>2, HeightStep
  <2>4. Height(ts, j - 1) \in Int /\ Height(ts, j - 1) >= 0  BY <2>2, HeightInt
  <2> QED  BY <1>0, <2>1, <2>3, <2>4
<1>2. ASSUME NEW j \in Opened(ts, m), NEW k \in Opened(ts, m), j < k
      PROVE  Height(ts, j) < Height(ts, k)
  <2>1. k - 1 \in j..m  BY <1>0, <1>1, <1>2
  <2>2. Height(ts, k - 1) >= Height(ts, j)  BY <2>1 DEF Opened
  <2>3. Height(ts, j) \in Int /\ Height(ts, k) = Height(ts, k - 1) + 1 /\ Height(ts, k - 1) \in Nat
    BY <1>0, <1>1
  <2> QED  BY <2>2, <2>3
<1> QED  BY <1>1, <1>2

LEMMA EachHeight ==
    ASSUME NEW ts \in Seq(Tokens), \A n \in 0..Len(ts) : Height(ts, n) >= 0
    PROVE  \A m \in 0..Len(ts) : \A i \in 1..Height(ts, m) :
             \E j \in Opened(ts, m) : Height(ts, j) = i
<1> DEFINE T == {m \in Nat : m <= Len(ts) => \A i \in 1..Height(ts, m) :
                                \E j \in Opened(ts, m) : Height(ts, j) = i}
<1>0. Len(ts) \in Nat  OBVIOUS
<1>1. 0 \in T
  <2>1. \A i \in 1..0 : FALSE  OBVIOUS
  <2> QED  BY <2>1, HeightNone
<1>2. ASSUME NEW m \in Nat, m \in T PROVE m + 1 \in T
  <2> SUFFICES ASSUME m + 1 <= Len(ts), NEW i \in 1..Height(ts, m + 1)
               PROVE  \E j \in Opened(ts, m + 1) : Height(ts, j) = i
    OBVIOUS
  <2>1. m < Len(ts) /\ m <= Len(ts)  BY <1>0
  <2>2. \A k \in 1..Height(ts, m) : \E j \in Opened(ts, m) : Height(ts, j) = k  BY <1>2, <2>1
  <2> DEFINE h == Height(ts, m)
             g == Height(ts, m + 1)
  <2>3. h \in Int /\ g \in Int  BY HeightInt
  <2>4. g = CASE ts[m + 1].kind = "indent" -> h + 1
              [] ts[m + 1].kind = "dedent" -> h - 1
              [] OTHER                     -> h
    BY <2>1, HeightStep
  <2>5. CASE ts[m + 1].kind = "indent"
    <3>1. Opened(ts, m + 1) = Opened(ts, m) \cup {m + 1}  BY <2>1, <2>5, OpenedStep
    <3>2. g = h + 1 /\ i \in 1..g  BY <2>4, <2>5
    <3>3. i \in 1..h \/ i = g  BY <2>3, <3>2
    <3> QED  BY <2>2, <3>1, <3>3
  <2>6. CASE ts[m + 1].kind = "dedent"
    <3>1. Opened(ts, m + 1) = {j \in Opened(ts, m) : Height(ts, j) < h}  BY <2>1, <2>6, OpenedStep
    <3>2. g = h - 1 /\ i \in 1..g  BY <2>4, <2>6
    <3>3. i \in 1..h /\ i < h  BY <2>3, <3>2
    <3> QED  BY <2>2, <3>1, <3>3
  <2>7. CASE ts[m + 1].kind \notin {"indent", "dedent"}
    <3>1. Opened(ts, m + 1) = Opened(ts, m)  BY <2>1, <2>7, OpenedStep
    <3>2. g = h /\ i \in 1..g  BY <2>4, <2>7
    <3> QED  BY <2>2, <3>1, <3>2
  <2> QED  BY <2>5, <2>6, <2>7
<1> HIDE DEF T
<1>3. \A m \in Nat : m \in T  BY <1>1, <1>2, NatInduct
<1>4. \A m \in 0..Len(ts) : m \in Nat /\ m <= Len(ts)  BY <1>0
<1> QED  BY <1>3, <1>4 DEF T

(* Over tokens that are neither INDENT nor DEDENT nothing opens or closes.   *)
LEMMA PlainRun ==
    ASSUME NEW ts \in Seq(Tokens), NEW m \in Nat, NEW n \in Nat, m <= n, n <= Len(ts),
           \A x \in (m + 1)..n : ts[x].kind \notin {"indent", "dedent"}
    PROVE  Height(ts, n) = Height(ts, m) /\ Opened(ts, n) = Opened(ts, m)
<1> DEFINE T == {d \in Nat : m + d <= n => /\ Height(ts, m + d) = Height(ts, m)
                                           /\ Opened(ts, m + d) = Opened(ts, m)}
<1>0. Len(ts) \in Nat  OBVIOUS
<1>1. 0 \in T
  <2>1. m + 0 = m  OBVIOUS
  <2> QED  BY <2>1
<1>2. ASSUME NEW d \in Nat, d \in T PROVE d + 1 \in T
  <2> SUFFICES ASSUME m + (d + 1) <= n
               PROVE  /\ Height(ts, m + (d + 1)) = Height(ts, m)
                      /\ Opened(ts, m + (d + 1)) = Opened(ts, m)
    OBVIOUS
  <2> DEFINE x == m + d
  <2>1. x \in Nat /\ x < Len(ts) /\ x <= n /\ m + (d + 1) = x + 1 /\ x + 1 \in (m + 1)..n
    BY <1>0
  <2>2. Height(ts, x) = Height(ts, m) /\ Opened(ts, x) = Opened(ts, m)  BY <1>2, <2>1
  <2> HIDE DEF x
  <2>3. ts[x + 1].kind \notin {"indent", "dedent"}  BY <2>1
  <2>4. Height(ts, x + 1) = Height(ts, x)  BY <2>1, <2>3, HeightStep
  <2>5. Opened(ts, x + 1) = Opened(ts, x)  BY <2>1, <2>3, OpenedStep
  <2> QED  BY <2>1, <2>2, <2>4, <2>5
<1> HIDE DEF T
<1>3. \A d \in Nat : d \in T  BY <1>1, <1>2, NatInduct
<1>4. n - m \in Nat /\ m + (n - m) = n  OBVIOUS
<1> QED  BY <1>3, <1>4 DEF T

-------------------------------------------------------------------------------
(* The lines a line is indented under, the last of them, and the line of the *)
(* same block before it.                                                     *)
Up(l) == Max({0} \cup Anc(l))
Earlier(l) == Max({0} \cup {j \in Logicals : j < l /\ Up(j) = Up(l)})

LEMMA Greatest ==
    ASSUME NEW S \in SUBSET Nat, S # {}, NEW n \in Nat, \A j \in S : j <= n
    PROVE  Max(S) \in S /\ \A j \in S : j <= Max(S)
<1> DEFINE T == {n - j : j \in S}
<1>1. T \in SUBSET Nat /\ T # {}
  <2>1. \A j \in S : n - j \in Nat  OBVIOUS
  <2>2. PICK s \in S : TRUE  OBVIOUS
  <2>3. n - s \in T  OBVIOUS
  <2> QED  BY <2>1, <2>3
<1>2. PICK m \in T : \A x \in T : m <= x  BY <1>1, LeastElement
<1>3. PICK h \in S : m = n - h  BY <1>2
<1>4. ASSUME NEW j \in S PROVE j <= h
  <2>1. n - j \in T  OBVIOUS
  <2>2. n - h <= n - j /\ n \in Nat /\ h \in Nat /\ j \in Nat  BY <1>2, <1>3, <2>1
  <2> QED  BY <2>2
<1>5. Max(S) = h  BY <1>4, MaxIs
<1> QED  BY <1>4, <1>5

LEMMA LogicalFacts ==
    ASSUME source \in Sources
    PROVE  \A l \in Logicals : l \in Nat /\ l > 0
BY LineFacts DEF Logicals

(* What a line is indented under is a chain.                                 *)
LEMMA AncChain ==
    ASSUME source \in Sources, NEW l \in Logicals, NEW j \in Anc(l)
    PROVE  /\ j \in Logicals /\ j < l
           /\ Anc(j) = {k \in Anc(l) : k < j}
<1>0. \A k \in Logicals : k \in Nat /\ WidthOf(k) \in Nat  BY LineFacts DEF Logicals
<1>1. j \in Logicals /\ j < l /\ \A m \in Logicals : m \in (j + 1)..l => WidthOf(j) < WidthOf(m)
  BY DEF Anc
<1>2. ASSUME NEW k \in Anc(j) PROVE k \in Anc(l) /\ k < j
  <2>1. k \in Logicals /\ k < j /\ \A m \in Logicals : m \in (k + 1)..j => WidthOf(k) < WidthOf(m)
    BY DEF Anc
  <2>2. j \in (k + 1)..j  BY <1>0, <1>1, <2>1
  <2>3. ASSUME NEW m \in Logicals, m \in (k + 1)..l PROVE WidthOf(k) < WidthOf(m)
    <3>1. m \in (k + 1)..j \/ m \in (j + 1)..l  BY <1>0, <1>1, <2>1, <2>3
    <3>2. WidthOf(k) < WidthOf(j)  BY <1>1, <2>1, <2>2
    <3> QED  BY <1>0, <1>1, <2>1, <3>1, <3>2
  <2>4. k < l  BY <1>0, <1>1, <2>1
  <2> QED  BY <2>1, <2>3, <2>4 DEF Anc
<1>3. ASSUME NEW k \in Anc(l), k < j PROVE k \in Anc(j)
  <2>1. k \in Logicals /\ \A m \in Logicals : m \in (k + 1)..l => WidthOf(k) < WidthOf(m)
    BY DEF Anc
  <2>2. \A m \in Logicals : m \in (k + 1)..j => m \in (k + 1)..l  BY <1>0, <1>1, <2>1
  <2> QED  BY <1>3, <2>1, <2>2 DEF Anc
<1> QED  BY <1>1, <1>2, <1>3

LEMMA UpFacts ==
    ASSUME source \in Sources, NEW l \in Logicals
    PROVE  /\ Up(l) \in Nat /\ Up(l) < l
           /\ \A j \in Anc(l) : j <= Up(l)
<1> DEFINE S == {0} \cup Anc(l)
<1>1. l \in Nat /\ l > 0  BY LogicalFacts
<1>2. \A j \in Anc(l) : j \in Nat /\ j < l  BY AncChain, LogicalFacts
<1>3. S \in SUBSET Nat /\ S # {} /\ \A j \in S : j <= l /\ j < l  BY <1>1, <1>2
<1> HIDE DEF S
<1>4. Max(S) \in S /\ \A j \in S : j <= Max(S)  BY <1>1, <1>3, Greatest
<1>5. Up(l) = Max(S)  BY DEF Up, S
<1>6. \A j \in Anc(l) : j \in S  BY DEF S
<1> QED  BY <1>3, <1>4, <1>5, <1>6

(* The tokens of a source that has been read and whose brackets close.       *)
Laid ==
    /\ source \in Sources /\ tokens \in Seq(Tokens) /\ Len(tokens) > 0
    /\ \A n \in 0..Len(tokens) : Height(tokens, n) >= 0
    /\ Height(tokens, Len(tokens)) = 0
    /\ \A k \in 1..Len(tokens) : tokens[k].kind = "eof" <=> k = Len(tokens)
    /\ \A k \in 1..Len(tokens) : tokens[k].kind = "indent" =>
         k < Len(tokens) /\ k + 1 \in Starts(tokens) /\ tokens[k + 1].line = tokens[k].line
    /\ StartsAre(tokens, Logicals)

LEMMA StartLine ==
    ASSUME Laid
    PROVE  /\ \A k \in Starts(tokens) :
                /\ k \in 1..Len(tokens) /\ k \in Nat /\ IsText(tokens[k])
                /\ tokens[k].line \in Logicals /\ Headers(tokens, k - 1) = Anc(tokens[k].line)
           /\ \A k, m \in Starts(tokens) : /\ k < m => tokens[k].line < tokens[m].line
                                           /\ tokens[k].line < tokens[m].line => k < m
           /\ \A l \in Logicals : \E k \in Starts(tokens) : tokens[k].line = l
<1>1. /\ {tokens[k].line : k \in Starts(tokens)} = Logicals
      /\ \A k, m \in Starts(tokens) : k < m => tokens[k].line < tokens[m].line
      /\ \A k \in Starts(tokens) : Headers(tokens, k - 1) = Anc(tokens[k].line)
      /\ Len(tokens) \in Nat
  BY TokenFacts DEF Laid, StartsAre
<1>2. \A k \in Starts(tokens) : k \in 1..Len(tokens) /\ k \in Nat /\ IsText(tokens[k])
  BY <1>1 DEF Starts
<1>3. \A k \in Starts(tokens) : tokens[k].line \in Logicals /\ tokens[k].line \in Nat
  BY <1>1, LogicalFacts DEF Laid
<1>4. \A k, m \in Starts(tokens) : tokens[k].line < tokens[m].line => k < m
  <2> SUFFICES ASSUME NEW k \in Starts(tokens), NEW m \in Starts(tokens),
                      tokens[k].line < tokens[m].line, ~(k < m)
               PROVE  FALSE
    OBVIOUS
  <2>1. tokens[k].line \in Nat /\ tokens[m].line \in Nat  BY <1>3
  <2>2. m < k \/ m = k  BY <1>2
  <2>3. m < k => tokens[m].line < tokens[k].line  BY <1>1
  <2> QED  BY <2>1, <2>2, <2>3
<1> QED  BY <1>1, <1>2, <1>3, <1>4

(* The line an INDENT stands behind is the header of the one after it.       *)
LEMMA AheadFacts ==
    ASSUME Laid, NEW j \in 1..Len(tokens), tokens[j].kind = "indent"
    PROVE  /\ j + 1 \in Starts(tokens) /\ tokens[j].line = tokens[j + 1].line
           /\ tokens[j].line \in Logicals
           /\ Ahead(tokens[j].line) \in Logicals /\ Ahead(tokens[j].line) < tokens[j].line
           /\ Headers(tokens, j) = Anc(tokens[j].line)
           /\ Ahead(tokens[j].line) \in Anc(tokens[j].line)
           /\ \A l \in Logicals : l < tokens[j].line => l <= Ahead(tokens[j].line)
           /\ Anc(tokens[j].line) = Anc(Ahead(tokens[j].line)) \cup {Ahead(tokens[j].line)}
<1> DEFINE f == tokens[j].line
           i == Ahead(f)
           S == {l \in Logicals : l < f}
<1>1. j + 1 \in Starts(tokens) /\ tokens[j + 1].line = f  BY DEF Laid
<1>2. f \in Logicals /\ Headers(tokens, (j + 1) - 1) = Anc(f)
  BY <1>1, StartLine
<1>3. (j + 1) - 1 = j  OBVIOUS
<1>4. j \in Opened(tokens, j)
  <2>1. \A x \in j..j : x = j  OBVIOUS
  <2>2. Height(tokens, j) \in Int  BY HeightInt
  <2> QED  BY <2>1, <2>2 DEF Opened
<1>5. i \in Anc(f)  BY <1>2, <1>3, <1>4 DEF Headers
<1>6. i \in Logicals /\ i < f /\ Anc(i) = {k \in Anc(f) : k < i}
  BY <1>2, <1>5, AncChain DEF Laid
<1>7. \A l \in Logicals : l \in Nat  BY LogicalFacts DEF Laid
<1>8. i = Max(S)  BY DEF Ahead
<1>9. \A l \in S : l <= i
  <2>1. S \in SUBSET Nat /\ S # {} /\ f \in Nat /\ \A l \in S : l <= f  BY <1>2, <1>6, <1>7
  <2> HIDE DEF S, f, i
  <2> QED  BY <1>8, <2>1, Greatest
<1>10. Anc(f) = Anc(i) \cup {i}
  <2>1. \A k \in Anc(f) : k \in Logicals /\ k < f  BY <1>2, AncChain DEF Laid
  <2>2. \A k \in Anc(f) : k <= i  BY <1>9, <2>1
  <2>3. \A k \in Anc(f) : k < i \/ k = i  BY <1>6, <1>7, <2>1, <2>2
  <2> HIDE DEF f, i, S
  <2> QED  BY <1>5, <1>6, <2>3
<1> QED  BY <1>1, <1>2, <1>3, <1>5, <1>6, <1>9, <1>10

(* A run of one line: no start between it and the INDENT.                    *)
LEMMA AheadIs ==
    ASSUME Laid, NEW r \in 1..Len(tokens), tokens[r].kind = "indent",
           NEW k \in Starts(tokens), k < r, \A x \in Starts(tokens) : x <= k \/ x > r
    PROVE  Ahead(tokens[r].line) = tokens[k].line
<1> DEFINE f == tokens[r].line
           i == Ahead(f)
<1>1. /\ r + 1 \in Starts(tokens) /\ f = tokens[r + 1].line
      /\ i \in Logicals /\ i < f /\ \A l \in Logicals : l < f => l <= i
  BY AheadFacts
<1>2. k < r + 1 /\ tokens[k].line \in Logicals  BY StartLine
<1>3. tokens[k].line < f  BY <1>1, <1>2, StartLine
<1>4. tokens[k].line <= i  BY <1>1, <1>2, <1>3
<1>5. PICK x \in Starts(tokens) : tokens[x].line = i  BY <1>1, StartLine
<1>6. x < r + 1  BY <1>1, <1>5, StartLine
<1>7. x \in Nat /\ k \in Nat  BY StartLine
<1>8. x <= k  BY <1>6, <1>7
<1>9. tokens[x].line <= tokens[k].line
  <2>1. x < k \/ x = k  BY <1>7, <1>8
  <2>2. x < k => tokens[x].line < tokens[k].line  BY StartLine
  <2>3. tokens[k].line \in Nat /\ tokens[x].line \in Nat  BY <1>1, <1>2, <1>5, LogicalFacts DEF Laid
  <2> QED  BY <2>1, <2>2, <2>3
<1>10. i \in Nat /\ tokens[k].line \in Nat  BY <1>1, <1>2, LogicalFacts DEF Laid
<1> QED  BY <1>4, <1>5, <1>9, <1>10

(* The inner an INDENT is, the later the line it stands behind.              *)
LEMMA OpenedRise ==
    ASSUME Laid, NEW m \in 0..Len(tokens), NEW j \in Opened(tokens, m), NEW k \in Opened(tokens, m), j < k
    PROVE  Ahead(tokens[j].line) < Ahead(tokens[k].line)
<1>0. Len(tokens) \in Nat  BY TokenFacts DEF Laid
<1>1. /\ j \in 1..Len(tokens) /\ tokens[j].kind = "indent"
      /\ k \in 1..Len(tokens) /\ tokens[k].kind = "indent"
  BY <1>0 DEF Opened
<1>2. /\ j + 1 \in Starts(tokens) /\ tokens[j].line = tokens[j + 1].line
      /\ k + 1 \in Starts(tokens) /\ tokens[k].line = tokens[k + 1].line
      /\ tokens[j].line \in Logicals
      /\ Ahead(tokens[j].line) \in Logicals /\ Ahead(tokens[j].line) < tokens[j].line
      /\ Ahead(tokens[k].line) \in Logicals
      /\ \A l \in Logicals : l < tokens[k].line => l <= Ahead(tokens[k].line)
  BY <1>1, AheadFacts
<1>3. j + 1 < k + 1  BY <1>1
<1>4. tokens[j].line < tokens[k].line  BY <1>2, <1>3, StartLine
<1>5. tokens[j].line <= Ahead(tokens[k].line)  BY <1>2, <1>4
<1>6. /\ Ahead(tokens[j].line) \in Nat /\ Ahead(tokens[k].line) \in Nat /\ tokens[j].line \in Nat
  BY <1>2, LogicalFacts DEF Laid
<1> QED  BY <1>2, <1>5, <1>6

-------------------------------------------------------------------------------
(* The lines of the parser's open blocks are those the open INDENTs stand    *)
(* behind, the outermost first.                                              *)
Stacked(bl, m) ==
    /\ bl \in Seq(Nat) /\ Len(bl) >= 1 /\ bl[1] = 0
    /\ Height(tokens, m) = Len(bl) - 1
    /\ \A j \in Opened(tokens, m) : bl[Height(tokens, j) + 1] = Ahead(tokens[j].line)

(* The innermost of them.                                                    *)
LEMMA TopOf ==
    ASSUME Laid, NEW m \in 0..Len(tokens), NEW bl, Stacked(bl, m), Len(bl) > 1
    PROVE  \E j \in Opened(tokens, m) :
             /\ Height(tokens, j) = Height(tokens, m) /\ bl[Len(bl)] = Ahead(tokens[j].line)
             /\ \A x \in Opened(tokens, m) : x <= j /\ Ahead(tokens[x].line) <= Ahead(tokens[j].line)
<1>0. /\ Len(bl) \in Nat /\ Height(tokens, m) = Len(bl) - 1 /\ Len(tokens) \in Nat
      /\ tokens \in Seq(Tokens) /\ \A n \in 0..Len(tokens) : Height(tokens, n) >= 0
  BY TokenFacts DEF Stacked, Laid
<1>1. Height(tokens, m) \in 1..Height(tokens, m)  BY <1>0
<1>2. PICK j \in Opened(tokens, m) : Height(tokens, j) = Height(tokens, m)
  BY <1>0, <1>1, EachHeight
<1>3. \A x \in Opened(tokens, m) : x \in 1..m /\ Height(tokens, x) \in 1..Height(tokens, m)
  BY <1>0, OpenedHeights
<1>4. ASSUME NEW x \in Opened(tokens, m)
      PROVE  x <= j /\ Ahead(tokens[x].line) <= Ahead(tokens[j].line)
  <2>1. x \in Nat /\ j \in Nat  BY <1>3
  <2>2. ~(j < x)
    <3>1. j < x => Height(tokens, j) < Height(tokens, x)  BY <1>0, OpenedHeights
    <3>2. Height(tokens, x) <= Height(tokens, m)  BY <1>0, <1>3
    <3> QED  BY <1>0, <1>2, <1>3, <3>1, <3>2
  <2>3. CASE x = j
    <3>1. j \in 1..Len(tokens) /\ tokens[j].kind = "indent"  BY <1>0, <1>3 DEF Opened
    <3>2. Ahead(tokens[j].line) \in Logicals  BY <3>1, AheadFacts
    <3>3. Ahead(tokens[j].line) \in Nat  BY <3>2, LogicalFacts DEF Laid
    <3> QED  BY <2>1, <2>3, <3>3
  <2>4. CASE x # j
    <3>1. x < j  BY <2>1, <2>2, <2>4
    <3>2. Ahead(tokens[x].line) < Ahead(tokens[j].line)  BY <3>1, OpenedRise
    <3>3. /\ x \in 1..Len(tokens) /\ tokens[x].kind = "indent"
          /\ j \in 1..Len(tokens) /\ tokens[j].kind = "indent"
      BY <1>0, <1>3 DEF Opened
    <3>4. Ahead(tokens[j].line) \in Nat /\ Ahead(tokens[x].line) \in Nat
      BY <3>3, AheadFacts, LogicalFacts DEF Laid
    <3> QED  BY <2>1, <3>1, <3>2, <3>4
  <2> QED  BY <2>3, <2>4
<1>5. bl[Len(bl)] = Ahead(tokens[j].line)
  <2>1. Height(tokens, j) + 1 = Len(bl)  BY <1>0, <1>2
  <2> QED  BY <2>1 DEF Stacked
<1> QED  BY <1>2, <1>4, <1>5

(* At the first token of a line the innermost block is that of the line it   *)
(* is indented under.                                                        *)
LEMMA HeadLine ==
    ASSUME Laid, NEW k \in Starts(tokens), NEW bl, Stacked(bl, k - 1)
    PROVE  bl[Len(bl)] = Up(tokens[k].line) /\ bl[Len(bl)] \in Nat
<1>0. /\ k \in 1..Len(tokens) /\ tokens[k].line \in Logicals
      /\ Headers(tokens, k - 1) = Anc(tokens[k].line) /\ Len(tokens) \in Nat
  BY StartLine, TokenFacts DEF Laid
<1>1. k - 1 \in 0..Len(tokens)  BY <1>0
<1>2. Len(bl) \in Nat /\ Len(bl) >= 1 /\ bl[1] = 0 /\ bl[Len(bl)] \in Nat  BY DEF Stacked
<1>3. Headers(tokens, k - 1) = {Ahead(tokens[j].line) : j \in Opened(tokens, k - 1)}
  BY DEF Headers
<1>4. Anc(tokens[k].line) \in SUBSET Nat  BY <1>0, AncChain, LogicalFacts DEF Laid
<1> DEFINE S == {0} \cup Anc(tokens[k].line)
<1>5. bl[Len(bl)] \in S /\ \A x \in S : x <= bl[Len(bl)]
  <2>1. CASE Len(bl) = 1
    <3>1. Height(tokens, k - 1) = 0  BY <2>1 DEF Stacked
    <3>2. \A j \in Opened(tokens, k - 1) : Height(tokens, j) \in 1..0
      BY <1>1, <3>1, OpenedHeights DEF Laid
    <3>3. \A j \in 1..0 : FALSE  OBVIOUS
    <3>4. Opened(tokens, k - 1) = {}  BY <3>2, <3>3
    <3>5. Anc(tokens[k].line) = {}  BY <1>0, <1>3, <3>4
    <3> QED  BY <1>2, <2>1, <3>5
  <2>2. CASE Len(bl) # 1
    <3>0. Len(bl) > 1  BY <1>2, <2>2
    <3>1. PICK j \in Opened(tokens, k - 1) :
             /\ bl[Len(bl)] = Ahead(tokens[j].line)
             /\ \A x \in Opened(tokens, k - 1) : Ahead(tokens[x].line) <= Ahead(tokens[j].line)
      BY <1>1, <3>0, TopOf
    <3>2. bl[Len(bl)] \in Anc(tokens[k].line)  BY <1>0, <1>3, <3>1
    <3>3. \A x \in Anc(tokens[k].line) : x <= bl[Len(bl)]  BY <1>0, <1>3, <3>1
    <3> QED  BY <1>2, <3>2, <3>3
  <2> QED  BY <2>1, <2>2
<1>6. S \in SUBSET Nat  BY <1>4
<1> HIDE DEF S
<1>7. Max(S) = bl[Len(bl)]  BY <1>5, <1>6, MaxIs
<1> QED  BY <1>2, <1>7 DEF Up, S

(* An else right behind the DEDENT of a block: the block's header is the     *)
(* line of its own width before it.                                          *)
LEMMA ElsePartner ==
    ASSUME Laid, NEW r \in 1..Len(tokens), tokens[r].kind = "dedent", r + 1 \in Starts(tokens),
           NEW bl, Stacked(bl, r - 1), Len(bl) > 1
    PROVE  Earlier(tokens[r + 1].line) = bl[Len(bl)]
<1> DEFINE e == tokens[r + 1].line
           O == Opened(tokens, r - 1)
<1>0. /\ Len(tokens) \in Nat /\ tokens \in Seq(Tokens) /\ source \in Sources
      /\ \A n \in 0..Len(tokens) : Height(tokens, n) >= 0 /\ Height(tokens, n) \in Int
      /\ \A l \in Logicals : l \in Nat /\ l > 0
      /\ r \in Nat /\ r - 1 \in 0..Len(tokens) /\ r - 1 \in Nat /\ (r - 1) + 1 = r /\ (r + 1) - 1 = r
      /\ r - 1 < Len(tokens)
  BY TokenFacts, HeightInt, LogicalFacts DEF Laid
<1>1. PICK j \in O : /\ Height(tokens, j) = Height(tokens, r - 1)
                     /\ bl[Len(bl)] = Ahead(tokens[j].line)
                     /\ \A x \in O : x <= j
  BY <1>0, TopOf
<1> DEFINE f == tokens[j].line
           i == Ahead(f)
<1>2. j \in 1..(r - 1) /\ tokens[j].kind = "indent" /\ j \in 1..Len(tokens)
      /\ \A y \in j..(r - 1) : Height(tokens, y) >= Height(tokens, j)
  <2>1. j \in 1..(r - 1) /\ tokens[j].kind = "indent"
        /\ \A y \in j..(r - 1) : Height(tokens, y) >= Height(tokens, j)
    BY DEF Opened
  <2>2. r - 1 \in Nat /\ Len(tokens) \in Nat /\ r - 1 < Len(tokens)  BY <1>0
  <2>3. j \in 1..Len(tokens)  BY <2>1, <2>2
  <2> QED  BY <2>1, <2>3
<1>3. /\ j + 1 \in Starts(tokens) /\ f = tokens[j + 1].line /\ f \in Logicals
      /\ i \in Logicals /\ i < f /\ Headers(tokens, j) = Anc(f)
      /\ \A l \in Logicals : l < f => l <= i
      /\ Anc(f) = Anc(i) \cup {i}
  BY <1>2, AheadFacts
<1>4. Opened(tokens, j) = O
  <2>1. ASSUME NEW x \in O PROVE x \in Opened(tokens, j)
    <3>1. x \in 1..j /\ tokens[x].kind = "indent"  BY <1>0, <1>1, <1>2, <2>1 DEF Opened
    <3>2. \A y \in x..j : y \in x..(r - 1)  BY <1>0, <1>2, <3>1
    <3> QED  BY <3>1, <3>2 DEF Opened
  <2>2. ASSUME NEW x \in Opened(tokens, j) PROVE x \in O
    <3>1. /\ x \in 1..j /\ tokens[x].kind = "indent" /\ j \in x..j
          /\ \A y \in x..j : Height(tokens, y) >= Height(tokens, x)
      BY <1>2 DEF Opened
    <3>2. ASSUME NEW y \in x..(r - 1) PROVE Height(tokens, y) >= Height(tokens, x)
      <4>1. y \in x..j \/ y \in j..(r - 1)  BY <1>2, <3>1
      <4>2. y \in 0..Len(tokens) /\ x \in 0..Len(tokens) /\ j \in 0..Len(tokens)
        <5>1. r - 1 \in Nat /\ Len(tokens) \in Nat /\ r - 1 < Len(tokens)  BY <1>0
        <5>2. j \in 1..(r - 1) /\ x \in 1..j  BY <1>2, <3>1
        <5> QED  BY <5>1, <5>2
      <4>3. y \in j..(r - 1) => Height(tokens, y) >= Height(tokens, j)  BY <1>2
      <4>4. Height(tokens, j) >= Height(tokens, x)
        <5>1. j \in x..j  BY <3>1
        <5> QED  BY <3>1, <5>1
      <4>5. Height(tokens, y) \in Int /\ Height(tokens, x) \in Int /\ Height(tokens, j) \in Int
        BY <1>0, <4>2
      <4>6. y \in x..j => Height(tokens, y) >= Height(tokens, x)  BY <3>1
      <4> QED  BY <4>1, <4>3, <4>4, <4>5, <4>6
    <3>3. x \in 1..(r - 1)  BY <1>0, <1>2, <3>1
    <3> QED  BY <3>1, <3>2, <3>3 DEF Opened
  <2> QED  BY <2>1, <2>2
<1>5. Anc(f) = {Ahead(tokens[x].line) : x \in O}  BY <1>3, <1>4 DEF Headers
<1>6. Opened(tokens, r) = O \ {j}
  <2>1. Opened(tokens, r) = {x \in O : Height(tokens, x) < Height(tokens, r - 1)}
    BY <1>0, OpenedStep
  <2>2. ASSUME NEW x \in O, x # j PROVE Height(tokens, x) < Height(tokens, r - 1)
    <3>1. x < j  BY <1>0, <1>1, <1>2, <2>2 DEF Opened
    <3> QED  BY <1>0, <1>1, <3>1, OpenedHeights
  <2>3. ~(Height(tokens, j) < Height(tokens, r - 1))  BY <1>0, <1>1
  <2> QED  BY <2>1, <2>2, <2>3
<1>7. Anc(e) = Anc(i)
  <2>1. Anc(e) = {Ahead(tokens[x].line) : x \in O \ {j}}
    <3>1. Headers(tokens, (r + 1) - 1) = Anc(e)  BY StartLine
    <3> QED  BY <1>0, <1>6, <3>1 DEF Headers
  <2>2. \A x \in O \ {j} : Ahead(tokens[x].line) < i
    <3>1. \A x \in O \ {j} : x < j
      BY <1>0, <1>1, <1>2 DEF Opened
    <3> QED  BY <1>0, <3>1, OpenedRise
  <2>3. i \notin Anc(i)  BY <1>0, <1>3, AncChain
  <2>4. \A x \in O \ {j} : Ahead(tokens[x].line) # i  BY <1>0, <1>3, <2>2
  <2> HIDE DEF i, e, O
  <2>5. ASSUME NEW a \in Anc(e) PROVE a \in Anc(i)
    <3>1. PICK x \in O \ {j} : a = Ahead(tokens[x].line)  BY <2>1
    <3>2. a \in Anc(f) /\ a # i  BY <1>5, <2>4, <3>1
    <3> QED  BY <1>3, <3>2
  <2>6. ASSUME NEW a \in Anc(i) PROVE a \in Anc(e)
    <3>1. a \in Anc(f) /\ a # i  BY <1>3, <2>3
    <3>2. PICK x \in O : a = Ahead(tokens[x].line)  BY <1>5, <3>1
    <3>3. x # j  BY <3>1, <3>2 DEF i
    <3> QED  BY <2>1, <3>2, <3>3
  <2> QED  BY <2>5, <2>6
<1>8. Up(e) = Up(i)  BY <1>7 DEF Up
<1>9. e \in Logicals /\ f < e /\ i < e
  <2>1. j + 1 < r + 1  BY <1>0, <1>2
  <2>2. e \in Logicals /\ f < e  BY <1>3, <2>1, StartLine
  <2> QED  BY <1>0, <1>3, <2>2
<1>10. ASSUME NEW l \in Logicals, l < e, Up(l) = Up(e) PROVE l <= i
  <2> SUFFICES ASSUME ~(l <= i) PROVE FALSE
    OBVIOUS
  <2>1. ~(l < f)  BY <1>3
  <2>2. PICK k \in Starts(tokens) : tokens[k].line = l  BY StartLine
  <2>3. k < r + 1 /\ k \in 1..Len(tokens) /\ k # r
    <3>1. k < r + 1 /\ k \in 1..Len(tokens) /\ IsText(tokens[k])  BY <1>10, <2>2, StartLine
    <3>2. ~IsText(tokens[r])  BY DEF IsText, LayoutKinds
    <3> QED  BY <3>1, <3>2
  <2>4. ~(k < j + 1)
    <3>1. k < j + 1 => l < f  BY <1>3, <2>2, StartLine
    <3> QED  BY <2>1, <3>1
  <2>5. k - 1 \in j..(r - 1)  BY <1>0, <1>2, <2>3, <2>4
  <2>6. j \in Opened(tokens, k - 1)
    <3>1. j \in 1..(k - 1) /\ \A y \in j..(k - 1) : y \in j..(r - 1)  BY <1>0, <1>2, <2>5
    <3> QED  BY <1>2, <3>1 DEF Opened
  <2>7. i \in Anc(l)
    <3>1. Headers(tokens, k - 1) = Anc(l)  BY <2>2, StartLine
    <3> QED  BY <2>6, <3>1 DEF Headers
  <2>8. i <= Up(l) /\ Up(i) < i /\ Up(l) \in Nat /\ Up(i) \in Nat /\ i \in Nat
    BY <1>0, <1>3, <2>7, UpFacts
  <2> QED  BY <1>8, <1>10, <2>8
<1> DEFINE S == {0} \cup {l \in Logicals : l < e /\ Up(l) = Up(e)}
<1>11. S \in SUBSET Nat /\ i \in S /\ \A l \in S : l <= i
  <2>1. i \in Nat /\ 0 <= i  BY <1>0, <1>3
  <2>2. S \in SUBSET Nat  BY <1>0
  <2>3. i \in S  BY <1>3, <1>8, <1>9, <1>10
  <2>4. \A l \in S : l <= i  BY <1>8, <1>9, <1>10, <2>1
  <2> QED  BY <2>2, <2>3, <2>4
<1>12. Earlier(e) = Max(S)  BY DEF Earlier
<1> HIDE DEF S, i, e
<1>13. Max(S) = i  BY <1>11, MaxIs
<1> QED  BY <1>1, <1>12, <1>13 DEF i, e

-------------------------------------------------------------------------------
(* What the parser has built when it stands at p with blocks of the lines    *)
(* bl: every line it passed is in one of its two tables.                     *)
StartsTo(p, elses) ==
    {tokens[k].line : k \in {x \in Starts(tokens) : x < p /\ (tokens[x].kind = "else") = elses}}
Recorded(p, pa, pr) ==
    /\ DOMAIN pa = StartsTo(p, FALSE) /\ \A l \in DOMAIN pa : pa[l] = Up(l)
    /\ DOMAIN pr = StartsTo(p, TRUE) /\ \A l \in DOMAIN pr : pr[l] = Earlier(l)
Built(p, bl, pa, pr) == Stacked(bl, p - 1) /\ Recorded(p, pa, pr)

LEMMA SameStartsTo ==
    ASSUME NEW p, NEW q, \A k \in Starts(tokens) : k < q <=> k < p, NEW elses
    PROVE  StartsTo(q, elses) = StartsTo(p, elses)
<1>1. {x \in Starts(tokens) : x < q /\ (tokens[x].kind = "else") = elses}
        = {x \in Starts(tokens) : x < p /\ (tokens[x].kind = "else") = elses}
  OBVIOUS
<1> QED  BY <1>1 DEF StartsTo

(* A line break is passed.                                                   *)
LEMMA WalkBreak ==
    ASSUME Laid, NEW p \in 1..Len(tokens), tokens[p].kind = "newline",
           NEW bl, NEW pa, NEW pr, Built(p, bl, pa, pr)
    PROVE  Built(p + 1, bl, pa, pr)
<1>0. p \in Nat /\ p - 1 \in Nat /\ (p - 1) + 1 = p /\ (p + 1) - 1 = p /\ p - 1 < Len(tokens)
      /\ Len(tokens) \in Nat /\ tokens \in Seq(Tokens)
  BY TokenFacts DEF Laid
<1>1. Height(tokens, p) = Height(tokens, p - 1) /\ Opened(tokens, p) = Opened(tokens, p - 1)
  BY <1>0, HeightStep, OpenedStep
<1>2. Stacked(bl, (p + 1) - 1)  BY <1>0, <1>1 DEF Built, Stacked
<1>3. \A k \in Starts(tokens) : k < p + 1 <=> k < p
  <2>1. ~IsText(tokens[p])  BY DEF IsText, LayoutKinds
  <2>2. \A k \in Starts(tokens) : k \in Nat /\ k # p  BY <2>1, StartLine
  <2> QED  BY <1>0, <2>2
<1>4. StartsTo(p + 1, TRUE) = StartsTo(p, TRUE) /\ StartsTo(p + 1, FALSE) = StartsTo(p, FALSE)
  BY <1>3, SameStartsTo
<1> QED  BY <1>2, <1>4 DEF Built, Recorded

(* A line is passed: the tokens from its first, k, to the one before q.      *)
IsLine(k, q) == /\ k \in Starts(tokens) /\ q \in Nat /\ k < q /\ q <= Len(tokens)
                /\ \A x \in k..(q - 1) : IsText(tokens[x])

LEMMA LinePassed ==
    ASSUME Laid, NEW k, NEW q, IsLine(k, q), NEW bl, Stacked(bl, k - 1)
    PROVE  /\ Stacked(bl, q - 1)
           /\ \A x \in Starts(tokens) : x < q <=> x < k \/ x = k
<1>0. /\ k \in Nat /\ q \in Nat /\ k >= 1 /\ k - 1 \in Nat /\ q - 1 \in Nat /\ k - 1 <= q - 1
      /\ q - 1 <= Len(tokens) /\ tokens \in Seq(Tokens) /\ Len(tokens) \in Nat
  BY StartLine, TokenFacts DEF Laid, IsLine
<1>1. \A x \in ((k - 1) + 1)..(q - 1) : tokens[x].kind \notin {"indent", "dedent"}
  <2>1. \A x \in k..(q - 1) : tokens[x].kind \notin {"indent", "dedent"}
    BY DEF IsLine, IsText, LayoutKinds
  <2> QED  BY <1>0, <2>1
<1>2. Height(tokens, q - 1) = Height(tokens, k - 1) /\ Opened(tokens, q - 1) = Opened(tokens, k - 1)
  BY <1>0, <1>1, PlainRun
<1>3. Stacked(bl, q - 1)  BY <1>2 DEF Stacked
<1>4. ASSUME NEW x \in Starts(tokens), x < q PROVE x < k \/ x = k
  <2> SUFFICES ASSUME x > k PROVE FALSE
    BY <1>0, StartLine
  <2>1. x \in Nat /\ x - 1 \in k..(q - 1) /\ x # 1  BY <1>0, <1>4, StartLine
  <2>2. IsText(tokens[x - 1])  BY <2>1 DEF IsLine
  <2> QED  BY <2>1, <2>2 DEF Starts
<1>5. \A x \in Starts(tokens) : x < k \/ x = k => x < q
  <2>1. \A x \in Starts(tokens) : x \in Nat  BY StartLine
  <2> QED  BY <1>0, <2>1 DEF IsLine
<1> QED  BY <1>3, <1>4, <1>5

LEMMA MoreStarts ==
    ASSUME NEW k \in Starts(tokens), NEW q, \A x \in Starts(tokens) : x < q <=> x < k \/ x = k,
           NEW elses \in BOOLEAN, ~(k < k)
    PROVE  StartsTo(q, elses) = StartsTo(k, elses) \cup
             (IF (tokens[k].kind = "else") = elses THEN {tokens[k].line} ELSE {})
<1>1. {x \in Starts(tokens) : x < q /\ (tokens[x].kind = "else") = elses}
        = {x \in Starts(tokens) : x < k /\ (tokens[x].kind = "else") = elses}
            \cup (IF (tokens[k].kind = "else") = elses THEN {k} ELSE {})
  OBVIOUS
<1> QED  BY <1>1 DEF StartsTo

LEMMA WalkLine ==
    ASSUME Laid, NEW k, NEW q, IsLine(k, q), tokens[k].kind # "else",
           NEW bl, NEW pa, NEW pr, Built(k, bl, pa, pr)
    PROVE  Built(q, bl, Noted(pa, tokens[k].line, bl[Len(bl)]), pr)
<1> DEFINE l == tokens[k].line
           new == Noted(pa, l, bl[Len(bl)])
<1>0. k \in Starts(tokens) /\ Stacked(bl, k - 1) /\ k \in Nat /\ Recorded(k, pa, pr)
  BY StartLine DEF IsLine, Built
<1>1. Stacked(bl, q - 1) /\ \A x \in Starts(tokens) : x < q <=> x < k \/ x = k
  BY <1>0, LinePassed
<1>2. bl[Len(bl)] = Up(l)  BY <1>0, HeadLine
<1>3. StartsTo(q, FALSE) = StartsTo(k, FALSE) \cup {l} /\ StartsTo(q, TRUE) = StartsTo(k, TRUE)
  <2>1. ~(k < k)  BY <1>0
  <2>2. StartsTo(q, FALSE) = StartsTo(k, FALSE) \cup
          (IF (tokens[k].kind = "else") = FALSE THEN {tokens[k].line} ELSE {})
    BY <1>0, <1>1, <2>1, MoreStarts
  <2>3. StartsTo(q, TRUE) = StartsTo(k, TRUE) \cup
          (IF (tokens[k].kind = "else") = TRUE THEN {tokens[k].line} ELSE {})
    BY <1>0, <1>1, <2>1, MoreStarts
  <2> QED  BY <2>2, <2>3
<1>4. /\ DOMAIN new = DOMAIN pa \cup {l} /\ new[l] = bl[Len(bl)]
      /\ \A x \in DOMAIN pa : x # l => new[x] = pa[x]
  BY DEF Noted
<1> HIDE DEF new, l
<1>5. Recorded(q, new, pr)
  <2>1. DOMAIN pa = StartsTo(k, FALSE) /\ \A x \in DOMAIN pa : pa[x] = Up(x)
    BY <1>0 DEF Recorded
  <2>2. DOMAIN new = StartsTo(q, FALSE)  BY <1>3, <1>4, <2>1
  <2>3. \A x \in DOMAIN new : new[x] = Up(x)  BY <1>2, <1>4, <2>1
  <2> QED  BY <1>0, <1>3, <2>2, <2>3 DEF Recorded
<1> QED  BY <1>1, <1>5 DEF Built, new, l

LEMMA WalkElse ==
    ASSUME Laid, NEW k, NEW q, IsLine(k, q), tokens[k].kind = "else",
           NEW bl, NEW pa, NEW pr, Built(k, bl, pa, pr),
           NEW v, v = Earlier(tokens[k].line)
    PROVE  Built(q, bl, pa, Noted(pr, tokens[k].line, v))
<1> DEFINE l == tokens[k].line
           new == Noted(pr, l, v)
<1>0. k \in Starts(tokens) /\ Stacked(bl, k - 1) /\ k \in Nat /\ Recorded(k, pa, pr)
  BY StartLine DEF IsLine, Built
<1>1. Stacked(bl, q - 1) /\ \A x \in Starts(tokens) : x < q <=> x < k \/ x = k
  BY <1>0, LinePassed
<1>3. StartsTo(q, TRUE) = StartsTo(k, TRUE) \cup {l} /\ StartsTo(q, FALSE) = StartsTo(k, FALSE)
  <2>1. ~(k < k)  BY <1>0
  <2>2. StartsTo(q, FALSE) = StartsTo(k, FALSE) \cup
          (IF (tokens[k].kind = "else") = FALSE THEN {tokens[k].line} ELSE {})
    BY <1>0, <1>1, <2>1, MoreStarts
  <2>3. StartsTo(q, TRUE) = StartsTo(k, TRUE) \cup
          (IF (tokens[k].kind = "else") = TRUE THEN {tokens[k].line} ELSE {})
    BY <1>0, <1>1, <2>1, MoreStarts
  <2> QED  BY <2>2, <2>3
<1>4. /\ DOMAIN new = DOMAIN pr \cup {l} /\ new[l] = v
      /\ \A x \in DOMAIN pr : x # l => new[x] = pr[x]
  BY DEF Noted
<1>6. v = Earlier(l)  OBVIOUS
<1> HIDE DEF new, l
<1>5. Recorded(q, pa, new)
  <2>1. DOMAIN pr = StartsTo(k, TRUE) /\ \A x \in DOMAIN pr : pr[x] = Earlier(x)
    BY <1>0 DEF Recorded
  <2>2. DOMAIN new = StartsTo(q, TRUE)  BY <1>3, <1>4, <2>1
  <2>3. \A x \in DOMAIN new : new[x] = Earlier(x)  BY <1>4, <1>6, <2>1
  <2> QED  BY <1>0, <1>3, <2>2, <2>3 DEF Recorded
<1> QED  BY <1>1, <1>5 DEF Built, new, l

(* An INDENT is passed: a block opens, of the line before it.                *)
LEMMA WalkIndent ==
    ASSUME Laid, NEW r \in 1..Len(tokens), tokens[r].kind = "indent",
           NEW bl, NEW pa, NEW pr, Built(r, bl, pa, pr)
    PROVE  Built(r + 1, Append(bl, Ahead(tokens[r].line)), pa, pr)
<1> DEFINE b == Append(bl, Ahead(tokens[r].line))
<1>0. r \in Nat /\ r - 1 \in Nat /\ (r - 1) + 1 = r /\ (r + 1) - 1 = r /\ r - 1 < Len(tokens)
      /\ Len(tokens) \in Nat /\ tokens \in Seq(Tokens) /\ r - 1 \in 0..Len(tokens)
      /\ \A n \in 0..Len(tokens) : Height(tokens, n) >= 0
  BY TokenFacts DEF Laid
<1>1. /\ bl \in Seq(Nat) /\ Len(bl) \in Nat /\ Len(bl) >= 1 /\ bl[1] = 0
      /\ Height(tokens, r - 1) = Len(bl) - 1
      /\ \A j \in Opened(tokens, r - 1) : bl[Height(tokens, j) + 1] = Ahead(tokens[j].line)
  BY DEF Built, Stacked
<1>2. Ahead(tokens[r].line) \in Nat  BY AheadFacts, LogicalFacts DEF Laid
<1>3. /\ b \in Seq(Nat) /\ Len(b) = Len(bl) + 1 /\ b[Len(bl) + 1] = Ahead(tokens[r].line)
      /\ \A i \in 1..Len(bl) : b[i] = bl[i]
  BY <1>1, <1>2
<1> HIDE DEF b
<1>4. Height(tokens, r) = Height(tokens, r - 1) + 1 /\ Opened(tokens, r) = Opened(tokens, r - 1) \cup {r}
  BY <1>0, HeightStep, OpenedStep
<1>5. \A j \in Opened(tokens, r - 1) : Height(tokens, j) \in 1..(Len(bl) - 1)
  BY <1>0, <1>1, OpenedHeights
<1>6. ASSUME NEW j \in Opened(tokens, r) PROVE b[Height(tokens, j) + 1] = Ahead(tokens[j].line)
  <2>1. CASE j = r
    <3>1. Height(tokens, r) + 1 = Len(bl) + 1  BY <1>1, <1>4
    <3> QED  BY <1>3, <2>1, <3>1
  <2>2. CASE j # r
    <3>1. j \in Opened(tokens, r - 1)  BY <1>4, <2>2
    <3>2. Height(tokens, j) + 1 \in 1..Len(bl)  BY <1>1, <1>5, <3>1
    <3> QED  BY <1>1, <1>3, <3>1, <3>2
  <2> QED  BY <2>1, <2>2
<1>7. Stacked(b, (r + 1) - 1)
  <2>1. Height(tokens, r) = Len(b) - 1 /\ Len(b) >= 1 /\ b[1] = 0  BY <1>1, <1>3, <1>4
  <2> QED  BY <1>0, <1>3, <1>6, <2>1 DEF Stacked
<1>8. \A k \in Starts(tokens) : k < r + 1 <=> k < r
  <2>1. ~IsText(tokens[r])  BY DEF IsText, LayoutKinds
  <2>2. \A k \in Starts(tokens) : k \in Nat /\ k # r  BY <2>1, StartLine
  <2> QED  BY <1>0, <2>2
<1>9. StartsTo(r + 1, TRUE) = StartsTo(r, TRUE) /\ StartsTo(r + 1, FALSE) = StartsTo(r, FALSE)
  BY <1>8, SameStartsTo
<1> QED  BY <1>7, <1>9 DEF Built, Recorded, b

(* A DEDENT is passed: the innermost block ends.                             *)
LEMMA WalkDedent ==
    ASSUME Laid, NEW r \in 1..Len(tokens), tokens[r].kind = "dedent",
           NEW bl, NEW pa, NEW pr, Built(r, bl, pa, pr), Len(bl) > 1
    PROVE  Built(r + 1, Front(bl), pa, pr)
<1> DEFINE b == Front(bl)
<1>0. r \in Nat /\ r - 1 \in Nat /\ (r - 1) + 1 = r /\ (r + 1) - 1 = r /\ r - 1 < Len(tokens)
      /\ Len(tokens) \in Nat /\ tokens \in Seq(Tokens) /\ r - 1 \in 0..Len(tokens)
      /\ \A n \in 0..Len(tokens) : Height(tokens, n) >= 0
  BY TokenFacts DEF Laid
<1>1. /\ bl \in Seq(Nat) /\ Len(bl) \in Nat /\ bl[1] = 0
      /\ Height(tokens, r - 1) = Len(bl) - 1
      /\ \A j \in Opened(tokens, r - 1) : bl[Height(tokens, j) + 1] = Ahead(tokens[j].line)
  BY DEF Built, Stacked
<1>3. b \in Seq(Nat) /\ Len(b) = Len(bl) - 1 /\ \A i \in 1..(Len(bl) - 1) : b[i] = bl[i]
  BY <1>1 DEF Front
<1> HIDE DEF b
<1>4. /\ Height(tokens, r) = Height(tokens, r - 1) - 1
      /\ Opened(tokens, r) = {j \in Opened(tokens, r - 1) : Height(tokens, j) < Height(tokens, r - 1)}
  BY <1>0, HeightStep, OpenedStep
<1>5. \A j \in Opened(tokens, r - 1) : Height(tokens, j) \in 1..(Len(bl) - 1)
  BY <1>0, <1>1, OpenedHeights
<1>6. ASSUME NEW j \in Opened(tokens, r) PROVE b[Height(tokens, j) + 1] = Ahead(tokens[j].line)
  <2>1. j \in Opened(tokens, r - 1) /\ Height(tokens, j) < Len(bl) - 1
    <3>1. j \in Opened(tokens, r - 1) /\ Height(tokens, j) < Height(tokens, r - 1)  BY <1>4
    <3>2. Height(tokens, r - 1) = Len(bl) - 1  BY <1>1
    <3> QED  BY <3>1, <3>2
  <2>2. Height(tokens, j) + 1 \in 1..(Len(bl) - 1)  BY <1>1, <1>5, <2>1
  <2> QED  BY <1>1, <1>3, <2>1, <2>2
<1>7. Stacked(b, (r + 1) - 1)
  <2>0. Height(tokens, r) = Height(tokens, r - 1) - 1 /\ Height(tokens, r - 1) = Len(bl) - 1
    BY <1>1, <1>4
  <2>1. Height(tokens, r) = Len(b) - 1 /\ Len(b) >= 1 /\ b[1] = 0
    <3>1. Len(b) = Len(bl) - 1 /\ Len(bl) \in Nat /\ Len(bl) > 1 /\ bl[1] = 0  BY <1>1, <1>3
    <3>2. 1 \in 1..(Len(bl) - 1)  BY <3>1
    <3>3. b[1] = bl[1]  BY <1>3, <3>2
    <3> QED  BY <2>0, <3>1, <3>3
  <2> QED  BY <1>0, <1>3, <1>6, <2>1 DEF Stacked
<1>8. \A k \in Starts(tokens) : k < r + 1 <=> k < r
  <2>1. ~IsText(tokens[r])  BY DEF IsText, LayoutKinds
  <2>2. \A k \in Starts(tokens) : k \in Nat /\ k # r  BY <2>1, StartLine
  <2> QED  BY <1>0, <2>2
<1>9. StartsTo(r + 1, TRUE) = StartsTo(r, TRUE) /\ StartsTo(r + 1, FALSE) = StartsTo(r, FALSE)
  BY <1>8, SameStartsTo
<1> QED  BY <1>7, <1>9 DEF Built, Recorded, b

-------------------------------------------------------------------------------
(* What the parser can rely on whatever the brackets: Eof is the last token, *)
(* and a line's text comes after an INDENT.                                  *)
Ended ==
    /\ tokens \in Seq(Tokens) /\ Len(tokens) > 0
    /\ \A k \in 1..Len(tokens) : tokens[k].kind = "eof" <=> k = Len(tokens)
    /\ \A k \in 1..Len(tokens) : tokens[k].kind = "indent" =>
         k < Len(tokens) /\ k + 1 \in Starts(tokens) /\ tokens[k + 1].line = tokens[k].line

(* The brackets before p close, and none before it closes too many.          *)
Clear(p) == Sound(tokens, p - 1) /\ TokLevel(tokens, p - 1) = 0
(* Where a statement is looked for.                                          *)
Fine(p) == /\ p \in 1..Len(tokens) /\ Clear(p)
           /\ IsText(tokens[p]) => p \in Starts(tokens)

LEMMA EndedFacts ==
    ASSUME Ended
    PROVE  /\ Len(tokens) \in Nat /\ Len(tokens) \in 1..Len(tokens)
           /\ tokens[Len(tokens)].kind = "eof"
           /\ \A k \in 1..Len(tokens) : tokens[k].kind # "eof" => k < Len(tokens)
<1>1. Len(tokens) \in Nat  BY TokenFacts DEF Ended
<1> QED  BY <1>1 DEF Ended

LEMMA MinIs ==
    ASSUME NEW S \in SUBSET Nat, S # {}
    PROVE  Min(S) \in S /\ \A j \in S : Min(S) <= j
<1>1. \E h \in S : \A j \in S : h <= j  BY LeastElement
<1> QED  BY <1>1 DEF Min

LEMMA AtIs ==
    ASSUME Ended, NEW p \in Nat, p > 0
    PROVE  /\ p <= Len(tokens) => At(p) = tokens[p]
           /\ At(p).kind # "eof" => p < Len(tokens) /\ At(p) = tokens[p]
<1> DEFINE n == Len(tokens)
<1>1. n \in Nat /\ tokens[n].kind = "eof"  BY EndedFacts
<1> HIDE DEF n
<1>2. {p, n} \in SUBSET Nat /\ {p, n} # {}  BY <1>1
<1>3. Min({p, n}) \in {p, n} /\ Min({p, n}) <= p /\ Min({p, n}) <= n  BY <1>2, MinIs
<1>4. At(p) = tokens[Min({p, n})]  BY DEF At, n
<1>5. p <= n => Min({p, n}) = p  BY <1>1, <1>3
<1>6. ~(p <= n) => Min({p, n}) = n  BY <1>1, <1>3
<1>7. p = n => At(p).kind = "eof"  BY <1>1, <1>4, <1>5
<1>8. ~(p <= n) => At(p).kind = "eof"  BY <1>1, <1>4, <1>6
<1> QED  BY <1>1, <1>4, <1>5, <1>7, <1>8 DEF n

LEMMA SkipIs ==
    ASSUME Ended, NEW p \in 1..Len(tokens)
    PROVE  /\ SkipNewlines(p) \in p..Len(tokens)
           /\ tokens[SkipNewlines(p)].kind # "newline" /\ At(SkipNewlines(p)) = tokens[SkipNewlines(p)]
           /\ \A x \in p..(SkipNewlines(p) - 1) : tokens[x].kind = "newline"
<1> DEFINE S == {q \in p..Len(tokens) : ~Is(q, "newline")}
           s == SkipNewlines(p)
<1>0. Len(tokens) \in Nat /\ tokens[Len(tokens)].kind = "eof"  BY EndedFacts
<1>1. \A q \in p..Len(tokens) : At(q) = tokens[q]  BY AtIs
<1>2. S \in SUBSET Nat /\ Len(tokens) \in S
  <2>1. Len(tokens) \in p..Len(tokens)  BY <1>0
  <2> QED  BY <1>0, <1>1, <2>1 DEF Is
<1>3. s = Min(S)  BY DEF SkipNewlines
<1>4. s \in S /\ \A q \in S : s <= q
  <2> HIDE DEF S, s
  <2> QED  BY <1>2, <1>3, MinIs
<1>5. s \in p..Len(tokens) /\ At(s) = tokens[s] /\ tokens[s].kind # "newline"
  BY <1>1, <1>4 DEF Is
<1>6. ASSUME NEW x \in p..(s - 1) PROVE tokens[x].kind = "newline"
  <2>1. x \in p..Len(tokens) /\ ~(s <= x)  BY <1>0, <1>5
  <2> QED  BY <1>1, <1>4, <2>1 DEF Is
<1> QED  BY <1>5, <1>6

LEMMA AfterIs ==
    ASSUME Ended, NEW p \in 1..Len(tokens)
    PROVE  /\ AfterExpr(p) \in p..Len(tokens)
           /\ AfterExpr(p) > p => IsExpr(KindsOf(SubSeq(tokens, p, AfterExpr(p) - 1)))
<1> DEFINE E == {q \in p..Len(tokens) : At(q).kind \notin {"word", "open", "close"}}
           X == {q \in p..ExprEnds(p) : IsExpr(KindsOf(SubSeq(tokens, p, q - 1)))}
           S == {p} \cup X
<1>0. Len(tokens) \in Nat /\ tokens[Len(tokens)].kind = "eof"  BY EndedFacts
<1>1. E \in SUBSET Nat /\ Len(tokens) \in E
  <2>1. Len(tokens) \in p..Len(tokens) /\ At(Len(tokens)) = tokens[Len(tokens)]  BY <1>0, AtIs
  <2> QED  BY <1>0, <2>1
<1>2. ExprEnds(p) = Min(E)  BY DEF ExprEnds
<1>3. ExprEnds(p) \in p..Len(tokens)
  <2>1. Min(E) \in E
    <3> HIDE DEF E
    <3> QED  BY <1>1, MinIs
  <2> QED  BY <1>2, <2>1
<1>4. S \in SUBSET Nat /\ S # {} /\ \A q \in S : q <= Len(tokens)  BY <1>0, <1>3
<1>5. AfterExpr(p) = Max(S)  BY DEF AfterExpr
<1>6. AfterExpr(p) \in S
  <2> HIDE DEF S
  <2> QED  BY <1>0, <1>4, <1>5, Greatest
<1>7. AfterExpr(p) = p \/ AfterExpr(p) \in X  BY <1>6
<1>8. AfterExpr(p) \in p..Len(tokens)  BY <1>0, <1>3, <1>7
<1> QED  BY <1>7, <1>8

-------------------------------------------------------------------------------
(* Brackets, token by token and over an expression.                          *)
LEMMA ClearPlain ==
    ASSUME Ended, NEW p \in 1..Len(tokens), Clear(p), tokens[p].kind \notin {"open", "close"}
    PROVE  Clear(p + 1)
<1>1. p - 1 \in Nat /\ p - 1 < Len(tokens) /\ (p - 1) + 1 = p /\ (p + 1) - 1 = p /\ p \in Nat
  BY EndedFacts
<1>2. TokLevel(tokens, p) = TokLevel(tokens, p - 1) + Shift(tokens[p].kind)
  BY <1>1, TokLevelStep DEF Ended
<1>3. TokLevel(tokens, p) = 0  BY <1>2 DEF Clear, Shift
<1>4. \A m \in 0..p : m \in 0..(p - 1) \/ m = p  BY <1>1
<1> QED  BY <1>1, <1>3, <1>4 DEF Clear, Sound

LEMMA ClearExpr ==
    ASSUME Ended, NEW p \in 1..Len(tokens), NEW q \in Nat, p < q, q <= Len(tokens), Clear(p),
           IsExpr(KindsOf(SubSeq(tokens, p, q - 1)))
    PROVE  /\ Clear(q) /\ tokens[p].kind \in {"word", "open"}
           /\ \A x \in p..(q - 1) : tokens[x].kind \in {"word", "open", "close"} /\ IsText(tokens[x])
<1> DEFINE r == SubSeq(tokens, p, q - 1)
           e == KindsOf(r)
           n == q - p
<1>0. Len(tokens) \in Nat /\ tokens \in Seq(Tokens) /\ n \in Nat /\ n > 0 /\ p \in Nat
      /\ \A i \in 1..Len(tokens) : tokens[i].kind \in TokenKinds
  BY EndedFacts, TokenFacts DEF Ended
<1>1. /\ DOMAIN r = 1..n /\ \A i \in 1..n : r[i] = tokens[p + i - 1] /\ p + i - 1 \in 1..Len(tokens)
  BY <1>0
<1>2. e = [i \in 1..n |-> r[i].kind]  BY <1>1 DEF KindsOf
<1>3. e \in Seq(TokenKinds) /\ Len(e) = n /\ \A i \in 1..n : e[i] = tokens[p + i - 1].kind
  <2>1. \A i \in 1..n : r[i].kind \in TokenKinds  BY <1>0, <1>1
  <2> HIDE DEF e, r, n
  <2>2. e \in [1..n -> TokenKinds]  BY <1>2, <2>1
  <2>3. \A i \in 1..n : e[i] = r[i].kind  BY <1>2
  <2>4. n \in Nat  BY <1>0
  <2>5. e \in Seq(TokenKinds) /\ Len(e) = n  BY <2>2, <2>4
  <2>6. \A i \in 1..n : e[i] = tokens[p + i - 1].kind  BY <1>1, <2>3
  <2> QED  BY <2>5, <2>6
<1> HIDE DEF e, r
<1>4. /\ e[1] \in {"word", "open"}
      /\ \A i \in 2..n : Follows(e, i)
      /\ \A i \in 1..n : Level(e, i) >= 0
      /\ Level(e, n) = 0
  <2>1. DOMAIN e = 1..Len(e)  BY <1>3
  <2>2. IsExpr(e)  BY DEF e, r
  <2> QED  BY <1>3, <2>1, <2>2 DEF IsExpr
<1>5. \A i \in 1..n : e[i] \in {"word", "open", "close"}
  <2> TAKE i \in 1..n
  <2>1. CASE i = 1  BY <1>4, <2>1
  <2>2. CASE i # 1
    <3>1. i \in 2..n  BY <1>0, <2>2
    <3> QED  BY <1>4, <3>1 DEF Follows
  <2> QED  BY <2>1, <2>2
<1>6. \A i \in 0..n : TokLevel(tokens, p - 1 + i) = Level(e, i)
  <2> DEFINE T == {i \in Nat : i <= n => TokLevel(tokens, p - 1 + i) = Level(e, i)}
  <2>1. 0 \in T
    <3>1. p - 1 + 0 = p - 1 /\ Level(e, 0) = 0 /\ TokLevel(tokens, p - 1) = 0
      BY <1>0, <1>3, LevelNone DEF Clear
    <3> QED  BY <3>1
  <2>2. ASSUME NEW i \in Nat, i \in T PROVE i + 1 \in T
    <3> SUFFICES ASSUME i + 1 <= n PROVE TokLevel(tokens, p - 1 + (i + 1)) = Level(e, i + 1)
      OBVIOUS
    <3> DEFINE x == p - 1 + i
    <3>1. x \in Nat /\ x < Len(tokens) /\ p - 1 + (i + 1) = x + 1 /\ x + 1 = p + (i + 1) - 1
          /\ i + 1 \in 1..n /\ i <= n /\ i < Len(e)
      BY <1>0, <1>3
    <3>2. TokLevel(tokens, x) = Level(e, i)  BY <2>2, <3>1
    <3>3. e[i + 1] = tokens[x + 1].kind  BY <1>3, <3>1
    <3> HIDE DEF x
    <3>4. TokLevel(tokens, x + 1) = TokLevel(tokens, x) + Shift(tokens[x + 1].kind)
      BY <1>0, <3>1, TokLevelStep
    <3>5. /\ Level(e, i) \in Int
          /\ Level(e, i + 1) = CASE e[i + 1] = "open"  -> Level(e, i) + 1
                                 [] e[i + 1] = "close" -> Level(e, i) - 1
                                 [] OTHER              -> Level(e, i)
      BY <1>3, <3>1, LevelStep
    <3>6. TokLevel(tokens, x + 1) = Level(e, i + 1)  BY <3>2, <3>3, <3>4, <3>5 DEF Shift
    <3> QED  BY <3>1, <3>6
  <2> HIDE DEF T
  <2>3. \A i \in Nat : i \in T  BY <2>1, <2>2, NatInduct
  <2>4. \A i \in 0..n : i \in Nat /\ i <= n  BY <1>0
  <2> QED  BY <2>3, <2>4 DEF T
<1>7. Clear(q)
  <2>1. TokLevel(tokens, q - 1) = 0
    <3>1. n \in 0..n /\ p - 1 + n = q - 1  BY <1>0
    <3> QED  BY <1>4, <1>6, <3>1
  <2>2. ASSUME NEW m \in 0..(q - 1) PROVE TokLevel(tokens, m) >= 0
    <3>1. CASE m <= p - 1
      <4>1. m \in 0..(p - 1)  BY <1>0, <3>1
      <4> QED  BY <4>1 DEF Clear, Sound
    <3>2. CASE ~(m <= p - 1)
      <4>1. m - (p - 1) \in 1..n /\ m - (p - 1) \in 0..n /\ p - 1 + (m - (p - 1)) = m
        BY <1>0, <3>2
      <4> QED  BY <1>4, <1>6, <4>1
    <3> QED  BY <3>1, <3>2
  <2> QED  BY <2>1, <2>2 DEF Clear, Sound
<1>8. \A x \in p..(q - 1) : tokens[x].kind \in {"word", "open", "close"}
  <2> TAKE x \in p..(q - 1)
  <2>1. x - p + 1 \in 1..n /\ p + (x - p + 1) - 1 = x  BY <1>0
  <2> QED  BY <1>3, <1>5, <2>1
<1>9. tokens[p].kind \in {"word", "open"}
  <2>1. 1 \in 1..n /\ p + 1 - 1 = p  BY <1>0
  <2> QED  BY <1>3, <1>4, <2>1
<1> QED  BY <1>7, <1>8, <1>9 DEF IsText, LayoutKinds

-------------------------------------------------------------------------------
(* What the parser's steps pass over.                                        *)

(* Line breaks.                                                              *)
LEMMA PassBreak ==
    ASSUME Ended, NEW p, Fine(p), tokens[p].kind = "newline"
    PROVE  Fine(p + 1) /\ p + 1 \in 1..Len(tokens)
<1>1. p \in 1..Len(tokens) /\ Clear(p)  BY DEF Fine
<1>2. Len(tokens) \in Nat /\ p < Len(tokens)  BY <1>1, EndedFacts
<1>3. p + 1 \in 1..Len(tokens) /\ (p + 1) - 1 = p  BY <1>1, <1>2
<1>4. Clear(p + 1)  BY <1>1, ClearPlain
<1>5. ~IsText(tokens[p])  BY DEF IsText, LayoutKinds
<1>6. IsText(tokens[p + 1]) => p + 1 \in Starts(tokens)  BY <1>3, <1>5 DEF Starts
<1> QED  BY <1>3, <1>4, <1>6 DEF Fine

LEMMA PassBreaks ==
    ASSUME Ended, NEW p, Fine(p)
    PROVE  /\ Fine(SkipNewlines(p))
           /\ Laid => \A bl, pa, pr : Built(p, bl, pa, pr) => Built(SkipNewlines(p), bl, pa, pr)
<1> DEFINE s == SkipNewlines(p)
           T == {d \in Nat : p + d <= s =>
                   /\ Fine(p + d)
                   /\ Laid => \A bl, pa, pr : Built(p, bl, pa, pr) => Built(p + d, bl, pa, pr)}
<1>0. p \in 1..Len(tokens) /\ p \in Nat /\ Len(tokens) \in Nat  BY EndedFacts DEF Fine
<1>1. s \in p..Len(tokens) /\ \A x \in p..(s - 1) : tokens[x].kind = "newline"  BY <1>0, SkipIs
<1>2. 0 \in T
  <2>1. p + 0 = p  BY <1>0
  <2> QED  BY <2>1
<1>3. ASSUME NEW d \in Nat, d \in T PROVE d + 1 \in T
  <2> SUFFICES ASSUME p + (d + 1) <= s
               PROVE  /\ Fine(p + (d + 1))
                      /\ Laid => \A bl, pa, pr : Built(p, bl, pa, pr) => Built(p + (d + 1), bl, pa, pr)
    OBVIOUS
  <2> DEFINE x == p + d
  <2>1. x \in p..(s - 1) /\ x <= s /\ p + (d + 1) = x + 1 /\ x \in 1..Len(tokens)
    BY <1>0, <1>1
  <2>2. /\ Fine(x)
        /\ Laid => \A bl, pa, pr : Built(p, bl, pa, pr) => Built(x, bl, pa, pr)
    BY <1>3, <2>1
  <2>3. tokens[x].kind = "newline"  BY <1>1, <2>1
  <2> HIDE DEF x, s
  <2>4. Fine(x + 1)  BY <2>2, <2>3, PassBreak
  <2>5. ASSUME Laid, NEW bl, NEW pa, NEW pr, Built(p, bl, pa, pr) PROVE Built(x + 1, bl, pa, pr)
    <3>1. Built(x, bl, pa, pr)  BY <2>2, <2>5
    <3> QED  BY <2>1, <2>3, <2>5, <3>1, WalkBreak
  <2> QED  BY <2>1, <2>4, <2>5
<1>4. s - p \in Nat /\ p + (s - p) = s /\ s <= s  BY <1>0, <1>1
<1> HIDE DEF T
<1>5. \A d \in Nat : d \in T  BY <1>2, <1>3, NatInduct
<1>6. s - p \in T  BY <1>4, <1>5
<1> QED  BY <1>4, <1>6 DEF T

(* A line that opens nothing, to the end of its statement.                   *)
LEMMA PassLeaf ==
    ASSUME Ended, NEW k, NEW q, IsLine(k, q), Clear(q), EndsStatement(q), tokens[k].kind # "else"
    PROVE  /\ Fine(AfterStatement(q))
           /\ Laid => \A bl, pa, pr : Built(k, bl, pa, pr) =>
                Built(AfterStatement(q), bl, Noted(pa, tokens[k].line, bl[Len(bl)]), pr)
<1>0. q \in 1..Len(tokens) /\ q \in Nat /\ At(q) = tokens[q]
  <2>1. k \in 1..Len(tokens) /\ q \in Nat /\ k < q /\ q <= Len(tokens) /\ Len(tokens) \in Nat
    BY EndedFacts DEF IsLine, Starts
  <2> QED  BY <2>1, AtIs
<1>1. tokens[q].kind \in {"newline", "dedent", "eof"}  BY <1>0 DEF EndsStatement
<1>2. ~IsText(tokens[q])  BY <1>1 DEF IsText, LayoutKinds
<1>3. Fine(q)  BY <1>0, <1>2 DEF Fine
<1>4. ASSUME Laid, NEW bl, NEW pa, NEW pr, Built(k, bl, pa, pr)
      PROVE  Built(q, bl, Noted(pa, tokens[k].line, bl[Len(bl)]), pr)
  BY <1>4, WalkLine
<1>5. CASE tokens[q].kind = "newline"
  <2>1. AfterStatement(q) = q + 1  BY <1>0, <1>5 DEF AfterStatement, Is
  <2>2. Fine(q + 1)  BY <1>3, <1>5, PassBreak
  <2>3. ASSUME Laid, NEW bl, NEW pa, NEW pr, Built(k, bl, pa, pr)
        PROVE  Built(q + 1, bl, Noted(pa, tokens[k].line, bl[Len(bl)]), pr)
    <3>1. Built(q, bl, Noted(pa, tokens[k].line, bl[Len(bl)]), pr)  BY <1>4, <2>3
    <3> QED  BY <1>0, <1>5, <2>3, <3>1, WalkBreak
  <2> QED  BY <2>1, <2>2, <2>3
<1>6. CASE tokens[q].kind # "newline"
  <2>1. AfterStatement(q) = q  BY <1>0, <1>6 DEF AfterStatement, Is
  <2> QED  BY <1>3, <1>4, <2>1
<1> QED  BY <1>5, <1>6

(* The colon, line break and INDENT of a header.                             *)
LEMMA PassColon ==
    ASSUME Ended, NEW k, NEW q, q \in Nat, k <= q, Clear(q), BlockAt(q), k \in Starts(tokens),
           \A x \in k..(q - 1) : IsText(tokens[x])
    PROVE  /\ IsLine(k, q + 1) /\ Fine(q + 3)
           /\ Laid => \A bl, pa, pr : Built(q + 1, bl, pa, pr) =>
                Built(q + 3, Append(bl, tokens[k].line), pa, pr)
<1>0. k \in Nat /\ k \in 1..Len(tokens) /\ Len(tokens) \in Nat /\ q \in Nat /\ q > 0
      /\ k <= q /\ q + 1 \in Nat /\ q + 1 > 0 /\ q + 2 \in Nat /\ q + 2 > 0
  BY EndedFacts DEF Starts
<1>1. /\ At(q).kind = "colon" /\ At(q + 1).kind = "newline" /\ At(q + 2).kind = "indent"
  BY DEF BlockAt, Is
<1>2. /\ q < Len(tokens) /\ tokens[q].kind = "colon"
      /\ q + 1 < Len(tokens) /\ tokens[q + 1].kind = "newline"
      /\ q + 2 < Len(tokens) /\ tokens[q + 2].kind = "indent"
  BY <1>0, <1>1, AtIs
<1>3. /\ q \in 1..Len(tokens) /\ q + 1 \in 1..Len(tokens) /\ q + 2 \in 1..Len(tokens)
      /\ q + 3 \in 1..Len(tokens)
      /\ (q + 1) + 1 = q + 2 /\ (q + 2) + 1 = q + 3 /\ (q + 3) - 1 = q + 2 /\ (q + 1) - 1 = q
  BY <1>0, <1>2
<1>4. IsText(tokens[q]) /\ ~IsText(tokens[q + 1]) /\ ~IsText(tokens[q + 2])
  BY <1>2 DEF IsText, LayoutKinds
<1>5. IsLine(k, q + 1)
  <2>1. \A x \in k..((q + 1) - 1) : x \in k..(q - 1) \/ x = q  BY <1>0
  <2> QED  BY <1>0, <1>2, <1>4, <2>1 DEF IsLine
<1>6. Clear(q + 3)
  <2>1. Clear(q + 1)  BY <1>2, <1>3, ClearPlain
  <2>2. Clear(q + 2)  BY <1>2, <1>3, <2>1, ClearPlain
  <2> QED  BY <1>2, <1>3, <2>2, ClearPlain
<1>7. Fine(q + 3)
  <2>1. q + 3 \in Starts(tokens)  BY <1>2, <1>3 DEF Ended
  <2> QED  BY <1>3, <1>6, <2>1 DEF Fine
<1>8. ASSUME Laid, NEW bl, NEW pa, NEW pr, Built(q + 1, bl, pa, pr)
      PROVE  Built(q + 3, Append(bl, tokens[k].line), pa, pr)
  <2>1. Built(q + 2, bl, pa, pr)  BY <1>2, <1>3, <1>8, WalkBreak
  <2>2. Built(q + 3, Append(bl, Ahead(tokens[q + 2].line)), pa, pr)
    BY <1>2, <1>3, <1>8, <2>1, WalkIndent
  <2>3. Ahead(tokens[q + 2].line) = tokens[k].line
    <3>1. \A x \in Starts(tokens) : x <= k \/ x > q + 2
      <4> SUFFICES ASSUME NEW x \in Starts(tokens), ~(x <= k), ~(x > q + 2) PROVE FALSE
        OBVIOUS
      <4>1. x \in 1..Len(tokens) /\ IsText(tokens[x]) /\ (x = 1 \/ ~IsText(tokens[x - 1]))
        BY DEF Starts
      <4>2. x # q + 1 /\ x # q + 2  BY <1>4, <4>1
      <4>3. x - 1 \in k..(q - 1) /\ x # 1  BY <1>0, <4>1, <4>2
      <4> QED  BY <4>1, <4>3
    <3>2. k < q + 2  BY <1>0
    <3> QED  BY <1>2, <1>3, <1>8, <3>1, <3>2, AheadIs
  <2> QED  BY <2>2, <2>3
<1> QED  BY <1>5, <1>7, <1>8

LEMMA PassHeader ==
    ASSUME Ended, NEW k, NEW q, q \in Nat, k < q, Clear(q), BlockAt(q), k \in Starts(tokens),
           \A x \in k..(q - 1) : IsText(tokens[x]), tokens[k].kind # "else"
    PROVE  /\ Fine(q + 3)
           /\ Laid => \A bl, pa, pr : Built(k, bl, pa, pr) =>
                Built(q + 3, Append(bl, tokens[k].line), Noted(pa, tokens[k].line, bl[Len(bl)]), pr)
<1>0. k \in 1..Len(tokens) /\ k <= q  BY EndedFacts DEF Starts
<1>1. /\ IsLine(k, q + 1) /\ Fine(q + 3)
      /\ Laid => \A bl, pa, pr : Built(q + 1, bl, pa, pr) =>
           Built(q + 3, Append(bl, tokens[k].line), pa, pr)
  BY <1>0, PassColon
<1>2. ASSUME Laid, NEW bl, NEW pa, NEW pr, Built(k, bl, pa, pr)
      PROVE  Built(q + 3, Append(bl, tokens[k].line), Noted(pa, tokens[k].line, bl[Len(bl)]), pr)
  <2>1. Built(q + 1, bl, Noted(pa, tokens[k].line, bl[Len(bl)]), pr)  BY <1>1, <1>2, WalkLine
  <2> QED  BY <1>1, <1>2, <2>1
<1> QED  BY <1>1, <1>2

(* The DEDENT of a block, and the else behind it.                            *)
LEMMA PassDedent ==
    ASSUME Ended, NEW r, Fine(r), tokens[r].kind = "dedent"
    PROVE  /\ Fine(r + 1)
           /\ Laid => \A bl, pa, pr : Built(r, bl, pa, pr) /\ Len(bl) > 1 =>
                Built(r + 1, Front(bl), pa, pr)
<1>1. r \in 1..Len(tokens) /\ Clear(r)  BY DEF Fine
<1>2. Len(tokens) \in Nat /\ r < Len(tokens)  BY <1>1, EndedFacts
<1>3. r + 1 \in 1..Len(tokens) /\ (r + 1) - 1 = r  BY <1>1, <1>2
<1>4. Clear(r + 1)  BY <1>1, ClearPlain
<1>5. ~IsText(tokens[r])  BY DEF IsText, LayoutKinds
<1>6. IsText(tokens[r + 1]) => r + 1 \in Starts(tokens)  BY <1>3, <1>5 DEF Starts
<1>7. ASSUME Laid, NEW bl, NEW pa, NEW pr, Built(r, bl, pa, pr), Len(bl) > 1
      PROVE  Built(r + 1, Front(bl), pa, pr)
  BY <1>1, <1>7, WalkDedent
<1> QED  BY <1>3, <1>4, <1>6, <1>7 DEF Fine

LEMMA PassElse ==
    ASSUME Ended, NEW r, Fine(r), tokens[r].kind = "dedent",
           r + 1 \in 1..Len(tokens), tokens[r + 1].kind = "else", BlockAt(r + 2)
    PROVE  /\ Fine(r + 5)
           /\ Laid => \A bl, pa, pr : Built(r, bl, pa, pr) /\ Len(bl) > 1 =>
                Built(r + 5, Append(Front(bl), tokens[r + 1].line), pa,
                      Noted(pr, tokens[r + 1].line, bl[Len(bl)]))
<1> DEFINE k == r + 1
<1>0. /\ r \in 1..Len(tokens) /\ Len(tokens) \in Nat /\ k \in 1..Len(tokens) /\ r + 2 = k + 1
      /\ r + 5 = (k + 1) + 3 /\ k + 1 \in Nat /\ k \in Nat /\ k < k + 1 /\ k <= k + 1
      /\ \A x \in k..((k + 1) - 1) : x = k
  BY EndedFacts DEF Fine
<1>1. /\ Fine(k)
      /\ Laid => \A bl, pa, pr : Built(r, bl, pa, pr) /\ Len(bl) > 1 =>
           Built(k, Front(bl), pa, pr)
  BY PassDedent
<1> HIDE DEF k
<1>2. IsText(tokens[k]) /\ tokens[k].kind = "else"  BY DEF IsText, LayoutKinds, k
<1>3. k \in Starts(tokens) /\ Clear(k)  BY <1>1, <1>2 DEF Fine
<1>4. Clear(k + 1)  BY <1>0, <1>2, <1>3, ClearPlain
<1>5. BlockAt(k + 1)  BY <1>0
<1>6. /\ IsLine(k, (k + 1) + 1) /\ Fine((k + 1) + 3)
      /\ Laid => \A bl, pa, pr : Built((k + 1) + 1, bl, pa, pr) =>
           Built((k + 1) + 3, Append(bl, tokens[k].line), pa, pr)
  BY <1>0, <1>2, <1>3, <1>4, <1>5, PassColon
<1>7. ASSUME Laid, NEW bl, NEW pa, NEW pr, Built(r, bl, pa, pr), Len(bl) > 1
      PROVE  Built((k + 1) + 3, Append(Front(bl), tokens[k].line), pa,
                   Noted(pr, tokens[k].line, bl[Len(bl)]))
  <2>1. Built(k, Front(bl), pa, pr)  BY <1>1, <1>7
  <2>2. bl[Len(bl)] = Earlier(tokens[k].line)
    <3>1. Stacked(bl, r - 1)  BY <1>7 DEF Built
    <3> QED  BY <1>0, <1>3, <1>7, <3>1, ElsePartner DEF k
  <2>3. Built((k + 1) + 1, Front(bl), pa, Noted(pr, tokens[k].line, bl[Len(bl)]))
    BY <1>2, <1>6, <1>7, <2>1, <2>2, WalkElse
  <2> QED  BY <1>6, <1>7, <2>3
<1> QED  BY <1>0, <1>6, <1>7 DEF k

-------------------------------------------------------------------------------
(* The parser's blocks.                                                      *)
BlockKinds == {"program", "body", "then", "else", "match", "struct", "trait", "impl"}
OpenBlocks == [kind : BlockKinds, line : Nat, count : Nat]
Typed(bs) == bs \in Seq(OpenBlocks) /\ Len(bs) >= 1 /\ bs[1].kind = "program" /\ bs[1].line = 0
LinesOf(bs) == [i \in 1..Len(bs) |-> bs[i].line]

LEMMA TypedFacts ==
    ASSUME NEW bs, Typed(bs)
    PROVE  /\ Len(bs) \in Nat /\ LinesOf(bs) \in Seq(Nat) /\ Len(LinesOf(bs)) = Len(bs)
           /\ \A i \in 1..Len(bs) : LinesOf(bs)[i] = bs[i].line /\ bs[i] \in OpenBlocks
           /\ Last(bs).line = LinesOf(bs)[Len(LinesOf(bs))]
           /\ Last(bs).kind # "program" => Len(bs) > 1
<1>1. Len(bs) \in Nat /\ Len(bs) >= 1 /\ \A i \in 1..Len(bs) : bs[i] \in OpenBlocks
  BY DEF Typed
<1>2. \A i \in 1..Len(bs) : bs[i].line \in Nat  BY <1>1 DEF OpenBlocks
<1>3. LinesOf(bs) \in [1..Len(bs) -> Nat]  BY <1>2 DEF LinesOf
<1>4. LinesOf(bs) \in Seq(Nat) /\ Len(LinesOf(bs)) = Len(bs)  BY <1>1, <1>3
<1>5. \A i \in 1..Len(bs) : LinesOf(bs)[i] = bs[i].line  BY DEF LinesOf
<1>6. Last(bs) = bs[Len(bs)] /\ Len(bs) \in 1..Len(bs)  BY <1>1 DEF Last
<1>7. ASSUME Last(bs).kind # "program" PROVE Len(bs) > 1
  <2>1. Len(bs) # 1  BY <1>6, <1>7 DEF Typed
  <2> QED  BY <1>1, <2>1
<1> QED  BY <1>1, <1>4, <1>5, <1>6, <1>7

LEMMA Pushed ==
    ASSUME NEW bs, Typed(bs), NEW b \in OpenBlocks
    PROVE  Typed(Append(bs, b)) /\ LinesOf(Append(bs, b)) = Append(LinesOf(bs), b.line)
<1> DEFINE cs == Append(bs, b)
<1>1. /\ cs \in Seq(OpenBlocks) /\ Len(cs) = Len(bs) + 1 /\ cs[Len(bs) + 1] = b
      /\ \A i \in 1..Len(bs) : cs[i] = bs[i]
      /\ Len(bs) \in Nat /\ Len(bs) >= 1
  BY DEF Typed
<1> HIDE DEF cs
<1>2. Typed(cs)  BY <1>1 DEF Typed
<1> DEFINE ls == LinesOf(bs)
           ms == LinesOf(cs)
           n == Len(bs)
<1>3. ms \in Seq(Nat) /\ Len(ms) = Len(cs) /\ \A i \in 1..Len(cs) : ms[i] = cs[i].line
  BY <1>2, TypedFacts
<1>4. ls \in Seq(Nat) /\ Len(ls) = n /\ \A i \in 1..n : ls[i] = bs[i].line
  BY TypedFacts
<1>5. b.line \in Nat  BY DEF OpenBlocks
<1>8. n \in Nat /\ Len(cs) = n + 1 /\ cs[n + 1] = b /\ \A i \in 1..n : cs[i] = bs[i]
  BY <1>1
<1> HIDE DEF ls, ms, n
<1>9. n + 1 \in 1..(n + 1) /\ \A i \in 1..n : i \in 1..(n + 1)  BY <1>8
<1>6. /\ ms \in Seq(Nat) /\ Len(ms) = n + 1 /\ ls \in Seq(Nat) /\ Len(ls) = n
      /\ ms[n + 1] = b.line /\ \A i \in 1..n : ms[i] = ls[i]
  BY <1>3, <1>4, <1>8, <1>9
<1>7. ms = Append(ls, b.line)  BY <1>5, <1>6, <1>8
<1> QED  BY <1>2, <1>7 DEF cs, ls, ms

LEMMA Popped ==
    ASSUME NEW bs, Typed(bs), Len(bs) > 1
    PROVE  Typed(Front(bs)) /\ LinesOf(Front(bs)) = Front(LinesOf(bs))
<1> DEFINE cs == Front(bs)
           n == Len(bs) - 1
<1>1. /\ cs \in Seq(OpenBlocks) /\ Len(cs) = n /\ n \in Nat /\ n >= 1
      /\ \A i \in 1..n : cs[i] = bs[i]
  BY DEF Typed, Front
<1>0. bs[1].kind = "program" /\ bs[1].line = 0  BY DEF Typed
<1>4. LinesOf(bs) \in Seq(Nat) /\ Len(LinesOf(bs)) = n + 1
      /\ \A i \in 1..n : LinesOf(bs)[i] = bs[i].line
  BY TypedFacts
<1> HIDE DEF cs, n
<1>2. Typed(cs)  BY <1>0, <1>1 DEF Typed
<1>3. LinesOf(cs) \in Seq(Nat) /\ Len(LinesOf(cs)) = n
      /\ \A i \in 1..n : LinesOf(cs)[i] = cs[i].line
  BY <1>1, <1>2, TypedFacts
<1> DEFINE ls == LinesOf(bs)
           ms == LinesOf(cs)
<1>6. /\ ms \in Seq(Nat) /\ Len(ms) = n /\ ls \in Seq(Nat) /\ Len(ls) = n + 1
      /\ \A i \in 1..n : ms[i] = ls[i]
  BY <1>1, <1>3, <1>4
<1> HIDE DEF ls, ms
<1>7. ms = Front(ls)
  <2>1. /\ Front(ls) \in Seq(Nat) /\ Len(Front(ls)) = n /\ \A i \in 1..n : Front(ls)[i] = ls[i]
    BY <1>1, <1>6 DEF Front
  <2> QED  BY <1>1, <1>6, <2>1
<1> QED  BY <1>2, <1>7 DEF cs, ls, ms

LEMMA CountedIs ==
    ASSUME Typed(blocks)
    PROVE  Typed(Counted) /\ LinesOf(Counted) = LinesOf(blocks)
<1> DEFINE n == Len(blocks)
<1>1. n \in Nat /\ n \in 1..n /\ \A i \in 1..n : blocks[i] \in OpenBlocks  BY TypedFacts DEF Typed
<1>2. blocks[n].kind \in BlockKinds /\ blocks[n].line \in Nat /\ blocks[n].count \in Nat
  BY <1>1 DEF OpenBlocks
<1>3. Counted = [blocks EXCEPT ![n] = [blocks[n] EXCEPT !.count = blocks[n].count + 1]]
  BY DEF Counted
<1> DEFINE b == [blocks[n] EXCEPT !.count = blocks[n].count + 1]
<1>4. b \in OpenBlocks /\ b.kind = blocks[n].kind /\ b.line = blocks[n].line
  BY <1>1, <1>2 DEF OpenBlocks
<1> HIDE DEF b
<1>5. Counted = [blocks EXCEPT ![n] = b]  BY <1>3 DEF b
<1>6. /\ Counted \in Seq(OpenBlocks) /\ Len(Counted) = n
      /\ \A i \in 1..n : Counted[i] = IF i = n THEN b ELSE blocks[i]
  BY <1>1, <1>4, <1>5 DEF Typed
<1>7. \A i \in 1..n : Counted[i].kind = blocks[i].kind /\ Counted[i].line = blocks[i].line
  BY <1>4, <1>6
<1>8. Typed(Counted)
  <2>1. 1 \in 1..n  BY <1>1
  <2> QED  BY <1>1, <1>6, <1>7, <2>1 DEF Typed
<1>9. LinesOf(Counted) = LinesOf(blocks)  BY <1>6, <1>7 DEF LinesOf
<1> QED  BY <1>8, <1>9

LEMMA HeadFacts ==
    ASSUME NEW b, NEW h, h \in HeadsIn(b)
    PROVE  /\ b = "match" => h = "word"
           /\ b # "match" => /\ h \in {"fn", "struct", "trait", "impl", "if", "while", "match"}
                             /\ Opens[h] \in BlockKinds
<1>1. b \in {"program", "impl", "match", "body"} /\ h \in Heads[b]  BY DEF HeadsIn, Heads
<1>2. CASE b = "match"
  <2>1. Heads[b] = {"word"}  BY <1>2 DEF Heads
  <2> QED  BY <1>1, <1>2, <2>1
<1>3. CASE b # "match"
  <2>1. Heads["program"] = {"fn", "struct", "trait", "impl"} /\ Heads["impl"] = {"fn"}
        /\ Heads["body"] = {"if", "while", "match"}
    BY DEF Heads
  <2>2. h \in {"fn", "struct", "trait", "impl", "if", "while", "match"}  BY <1>1, <1>3, <2>1
  <2>3. /\ Opens["fn"] = "body" /\ Opens["while"] = "body" /\ Opens["if"] = "then"
        /\ Opens["match"] = "match" /\ Opens["struct"] = "struct" /\ Opens["trait"] = "trait"
        /\ Opens["impl"] = "impl"
    BY DEF Opens
  <2> QED  BY <1>3, <2>2, <2>3 DEF BlockKinds
<1> QED  BY <1>2, <1>3

-------------------------------------------------------------------------------
(* The parser.  Before its first step nothing is read; after it the place,   *)
(* the blocks and the two tables are what the indentation of the lines       *)
(* passed gives, unless the lexer was left inside brackets.                  *)
Whole == ~Surplus /\ bracket_depth = 0
Fresh == /\ pos = 1 /\ blocks = <<[kind |-> "program", line |-> 0, count |-> 0]>>
         /\ parent = <<>> /\ partner = <<>>
Placed(p, bs, pa, pr) == /\ Typed(bs) /\ Fine(p)
                         /\ Whole => Built(p, LinesOf(bs), pa, pr)
ParInv ==
    /\ lexed # "yes" => Fresh /\ parsed # "program"
    /\ lexed = "yes" /\ parsed = "no" => Fresh \/ Placed(pos, blocks, parent, partner)
    /\ parsed = "program" => Placed(pos, blocks, parent, partner) /\ Is(Start, "eof")

(* What the lexer has left.                                                  *)
LEMMA LexerLeft ==
    ASSUME NestInv, LayInv, AtBottom, lexed = "yes"
    PROVE  Ended /\ (Whole => Laid)
<1>1. /\ source \in Sources /\ tokens \in Seq(Tokens)
      /\ \A n \in 0..Len(tokens) : Height(tokens, n) >= 0
      /\ Height(tokens, Len(tokens)) = Len(indent_stack) - 1
  BY DEF NestInv, LexInv, Balance, Balanced
<1>2. /\ Len(tokens) > 0
      /\ \A k \in 1..Len(tokens) : tokens[k].kind = "eof" <=> k = Len(tokens)
  BY DEF LayInv, EofLast
<1>3. \A k \in 1..Len(tokens) : tokens[k].kind = "indent" =>
         k < Len(tokens) /\ k + 1 \in Starts(tokens) /\ tokens[k + 1].line = tokens[k].line
  BY DEF LayInv, IndentRule, AtFirst
<1>4. Whole => StartsAre(tokens, Logicals)  BY DEF LayInv, StartsRight, Passed, Whole
<1>5. Whole => Height(tokens, Len(tokens)) = 0  BY <1>1 DEF AtBottom, Whole
<1> QED  BY <1>1, <1>2, <1>3, <1>4, <1>5 DEF Ended, Laid

LEMMA FreshPlaced ==
    ASSUME Ended, Whole => Laid, Fresh PROVE Placed(pos, blocks, parent, partner)
<1> DEFINE b == [kind |-> "program", line |-> 0, count |-> 0]
           bs == <<b>>
<1>1. b \in OpenBlocks /\ b.kind = "program" /\ b.line = 0  BY DEF OpenBlocks, BlockKinds
<1> HIDE DEF b
<1>2. bs \in Seq(OpenBlocks) /\ Len(bs) = 1 /\ bs[1] = b  BY <1>1
<1> HIDE DEF bs
<1>3. pos = 1 /\ blocks = bs /\ parent = <<>> /\ partner = <<>>  BY DEF Fresh, bs, b
<1>4. Typed(bs)  BY <1>1, <1>2 DEF Typed
<1>5. Fine(1)
  <2>1. Len(tokens) \in Nat /\ 1 \in 1..Len(tokens)  BY EndedFacts DEF Ended
  <2>2. 1 - 1 = 0 /\ TokLevel(tokens, 0) = 0 /\ \A m \in 0..0 : m = 0  BY TokLevelNone
  <2>3. Clear(1)  BY <2>2 DEF Clear, Sound
  <2> QED  BY <2>1, <2>3 DEF Fine, Starts
<1>6. ASSUME Laid PROVE Built(1, LinesOf(bs), <<>>, <<>>)
  <2>1. LinesOf(bs) \in Seq(Nat) /\ Len(LinesOf(bs)) = 1 /\ LinesOf(bs)[1] = 0
    BY <1>1, <1>2, <1>4, TypedFacts
  <2>2. 1 - 1 = 0 /\ Height(tokens, 0) = 0 /\ Opened(tokens, 0) = {}
    BY HeightNone DEF Opened
  <2>3. Stacked(LinesOf(bs), 1 - 1)  BY <2>1, <2>2 DEF Stacked
  <2>4. \A k \in Starts(tokens) : ~(k < 1)  BY <1>6, StartLine
  <2>5. StartsTo(1, TRUE) = {} /\ StartsTo(1, FALSE) = {}  BY <2>4 DEF StartsTo
  <2>6. DOMAIN <<>> = {}  OBVIOUS
  <2>7. Recorded(1, <<>>, <<>>)  BY <2>5, <2>6 DEF Recorded
  <2> QED  BY <2>3, <2>7 DEF Built
<1> QED  BY <1>3, <1>4, <1>5, <1>6 DEF Placed

(* Where a statement is looked for, the parser has passed the line breaks.   *)
LEMMA AtStart ==
    ASSUME Ended, Whole => Laid, Placed(pos, blocks, parent, partner)
    PROVE  /\ Start \in 1..Len(tokens) /\ Start \in Nat /\ Fine(Start) /\ Clear(Start)
           /\ At(Start) = tokens[Start] /\ Typed(blocks)
           /\ tokens[Start].kind # "eof" => Start < Len(tokens)
           /\ Whole => Laid /\ Built(Start, LinesOf(blocks), parent, partner)
           /\ LinesOf(blocks)[Len(LinesOf(blocks))] = Block.line
<1>1. Fine(pos) /\ pos \in 1..Len(tokens) /\ Typed(blocks)  BY DEF Placed, Fine
<1>2. Fine(Start) /\ (Laid => \A bl, pa, pr : Built(pos, bl, pa, pr) => Built(Start, bl, pa, pr))
  BY <1>1, PassBreaks DEF Start
<1>3. Start \in 1..Len(tokens) /\ Clear(Start) /\ Len(tokens) \in Nat  BY <1>2, EndedFacts DEF Fine
<1>4. Start \in Nat /\ Start > 0 /\ Start <= Len(tokens)  BY <1>3
<1>5. At(Start) = tokens[Start]  BY <1>4, AtIs
<1>6. tokens[Start].kind # "eof" => Start < Len(tokens)  BY <1>3, EndedFacts
<1>7. Whole => Laid /\ Built(Start, LinesOf(blocks), parent, partner)  BY <1>2 DEF Placed
<1>8. LinesOf(blocks)[Len(LinesOf(blocks))] = Block.line  BY <1>1, TypedFacts DEF Block
<1> QED  BY <1>1, <1>2, <1>3, <1>4, <1>5, <1>6, <1>7, <1>8

(* A statement, field, signature or import that is read.                     *)
LEMMA LeafPlaced ==
    ASSUME Ended, Whole => Laid, Placed(pos, blocks, parent, partner),
           NEW q, IsLine(Start, q), Clear(q), EndsStatement(q), tokens[Start].kind # "else", Leaf(q)
    PROVE  Placed(pos', blocks', parent', partner') /\ parsed' = parsed
<1>1. /\ pos' = AfterStatement(q) /\ blocks' = Counted /\ partner' = partner /\ parsed' = parsed
      /\ parent' = Noted(parent, At(Start).line, Block.line)
  BY DEF Leaf, Adopt
<1>2. /\ At(Start) = tokens[Start] /\ Typed(blocks)
      /\ Whole => Laid /\ Built(Start, LinesOf(blocks), parent, partner)
      /\ LinesOf(blocks)[Len(LinesOf(blocks))] = Block.line
  BY AtStart
<1>3. Typed(Counted) /\ LinesOf(Counted) = LinesOf(blocks)  BY <1>2, CountedIs
<1>4. /\ Fine(AfterStatement(q))
      /\ Laid => \A bl, pa, pr : Built(Start, bl, pa, pr) =>
           Built(AfterStatement(q), bl, Noted(pa, tokens[Start].line, bl[Len(bl)]), pr)
  BY PassLeaf
<1>5. ASSUME Whole
      PROVE  Built(AfterStatement(q), LinesOf(blocks),
                   Noted(parent, tokens[Start].line, LinesOf(blocks)[Len(LinesOf(blocks))]), partner)
  BY <1>2, <1>4, <1>5
<1>6. Whole => Built(pos', LinesOf(blocks'), parent', partner')
  BY <1>1, <1>2, <1>3, <1>5
<1> QED  BY <1>1, <1>3, <1>4, <1>6 DEF Placed

(* An expression that is read.                                               *)
LEMMA ExprRead ==
    ASSUME Ended, NEW p \in 1..Len(tokens), Clear(p), AfterExpr(p) > p
    PROVE  /\ AfterExpr(p) \in Nat /\ AfterExpr(p) <= Len(tokens) /\ Clear(AfterExpr(p))
           /\ tokens[p].kind \in {"word", "open"}
           /\ \A x \in p..(AfterExpr(p) - 1) : IsText(tokens[x])
<1>1. AfterExpr(p) \in p..Len(tokens) /\ IsExpr(KindsOf(SubSeq(tokens, p, AfterExpr(p) - 1)))
  BY AfterIs
<1> DEFINE q == AfterExpr(p)
<1>2. q \in Nat /\ p < q /\ q <= Len(tokens)  BY <1>1
<1>3. IsExpr(KindsOf(SubSeq(tokens, p, q - 1)))  BY <1>1
<1> HIDE DEF q
<1>4. /\ Clear(q) /\ tokens[p].kind \in {"word", "open"}
      /\ \A x \in p..(q - 1) : tokens[x].kind \in {"word", "open", "close"} /\ IsText(tokens[x])
  BY <1>2, <1>3, ClearExpr
<1> QED  BY <1>2, <1>4 DEF q

-------------------------------------------------------------------------------
(* The parser's steps, one lemma each: a step moves on, or it is an error.   *)
Moved == Placed(pos', blocks', parent', partner') /\ parsed' = parsed
Refused == parsed' \notin {"no", "program"}

LEMMA Rejects ==
    ASSUME NEW error, Reject(error), error \notin {"no", "program"} PROVE Refused
BY DEF Reject, Refused

(* The first token of a statement is text, and starts a logical line.        *)
LEMMA StartsText ==
    ASSUME Ended, Whole => Laid, Placed(pos, blocks, parent, partner), IsText(tokens[Start])
    PROVE  Start \in Starts(tokens) /\ Start < Len(tokens) /\ tokens[Start].kind # "eof"
<1>1. /\ Fine(Start) /\ (tokens[Start].kind # "eof" => Start < Len(tokens))  BY AtStart
<1>2. tokens[Start].kind # "eof"  BY DEF IsText
<1> QED  BY <1>1, <1>2 DEF Fine

LEMMA StepHeader ==
    ASSUME Ended, Whole => Laid, Placed(pos, blocks, parent, partner), Header
    PROVE  Moved \/ Refused
<1> DEFINE k == Start
           h == At(Start).kind
           b == ListOf(Block.kind)
           l == At(Start).line
           p == IF b = "match" THEN k ELSE k + 1
           q == AfterExpr(p)
           kind == IF b = "match" THEN "body" ELSE Opens[h]
           block == [kind |-> kind, line |-> l, count |-> 0]
<1>1. /\ h \in HeadsIn(b)
      /\ IF q > p /\ (Named(h) => Is(p, "word")) /\ BlockAt(q)
         THEN /\ pos' = q + 3
              /\ blocks' = Append(Counted, block)
              /\ Adopt(l)
              /\ UNCHANGED <<partner, parsed>>
         ELSE Reject("header")
  BY DEF Header
<1>2. /\ k \in 1..Len(tokens) /\ k \in Nat /\ Clear(k) /\ At(k) = tokens[k] /\ Typed(blocks)
      /\ Whole => Laid /\ Built(k, LinesOf(blocks), parent, partner)
      /\ LinesOf(blocks)[Len(LinesOf(blocks))] = Block.line
  BY AtStart
<1>3. /\ b = "match" => h = "word"
      /\ b # "match" => /\ h \in {"fn", "struct", "trait", "impl", "if", "while", "match"}
                        /\ Opens[h] \in BlockKinds
  BY <1>1, HeadFacts
<1>4. h \in {"word", "fn", "struct", "trait", "impl", "if", "while", "match"} /\ kind \in BlockKinds
  BY <1>3 DEF BlockKinds
<1>5. h = tokens[k].kind /\ l = tokens[k].line  BY <1>2
<1>6. IsText(tokens[k]) /\ tokens[k].kind \notin {"else", "open", "close"}
  BY <1>4, <1>5 DEF IsText, LayoutKinds
<1>7. k \in Starts(tokens) /\ k < Len(tokens)  BY <1>6, StartsText
<1>8. p \in 1..Len(tokens) /\ Clear(p) /\ p \in Nat /\ (p = k \/ p = k + 1)
  <2>1. Len(tokens) \in Nat  BY EndedFacts
  <2>2. CASE p = k  BY <1>2, <2>2
  <2>3. CASE p = k + 1
    <3>1. Clear(k + 1)  BY <1>2, <1>6, ClearPlain
    <3> QED  BY <1>2, <1>7, <2>1, <2>3, <3>1
  <2> QED  BY <2>2, <2>3
<1> HIDE DEF p, b, h, l, kind
<1>9. CASE q > p /\ (Named(h) => Is(p, "word")) /\ BlockAt(q)
  <2>1. /\ pos' = q + 3 /\ blocks' = Append(Counted, block) /\ partner' = partner /\ parsed' = parsed
        /\ parent' = Noted(parent, l, Block.line)
    BY <1>1, <1>9 DEF Adopt
  <2>2. /\ q \in Nat /\ q <= Len(tokens) /\ Clear(q) /\ \A x \in p..(q - 1) : IsText(tokens[x])
    BY <1>8, <1>9, ExprRead
  <2>3. BlockAt(q) /\ q > p  BY <1>9
  <2> HIDE DEF q
  <2>4. k < q /\ \A x \in k..(q - 1) : IsText(tokens[x])
    <3>1. \A x \in k..(q - 1) : x = k \/ x \in p..(q - 1)  BY <1>2, <1>8, <2>2
    <3>2. k < q  BY <1>2, <1>8, <2>2, <2>3
    <3> QED  BY <1>6, <2>2, <3>1, <3>2
  <2>5. /\ Fine(q + 3)
        /\ Laid => \A bl, pa, pr : Built(k, bl, pa, pr) =>
             Built(q + 3, Append(bl, tokens[k].line), Noted(pa, tokens[k].line, bl[Len(bl)]), pr)
    <3>1. tokens[k].kind # "else" /\ k \in Starts(tokens)  BY <1>6, <1>7
    <3> HIDE DEF k
    <3> QED  BY <2>2, <2>3, <2>4, <3>1, PassHeader
  <2>6. l \in Nat
    <3>1. tokens \in Seq(Tokens)  BY DEF Ended
    <3> QED  BY <1>2, <1>5, <3>1, TokenFacts
  <2>7. block \in OpenBlocks /\ block.line = l  BY <1>4, <2>6 DEF OpenBlocks
  <2> HIDE DEF block
  <2>8. Typed(Counted) /\ LinesOf(Counted) = LinesOf(blocks)  BY <1>2, CountedIs
  <2>9. Typed(Append(Counted, block)) /\ LinesOf(Append(Counted, block)) = Append(LinesOf(blocks), l)
    BY <2>7, <2>8, Pushed
  <2>10. ASSUME Whole
         PROVE  Built(q + 3, Append(LinesOf(blocks), l),
                      Noted(parent, l, LinesOf(blocks)[Len(LinesOf(blocks))]), partner)
    BY <1>2, <1>5, <2>5, <2>10
  <2>11. Whole => Built(pos', LinesOf(blocks'), parent', partner')
    BY <1>2, <2>1, <2>9, <2>10
  <2> QED  BY <2>1, <2>5, <2>9, <2>11 DEF Moved, Placed
<1>10. CASE ~(q > p /\ (Named(h) => Is(p, "word")) /\ BlockAt(q))
  <2>1. Reject("header")  BY <1>1, <1>10
  <2> QED  BY <2>1, Rejects
<1> QED  BY <1>9, <1>10

(* Lines that open nothing: a statement, a field, a signature, an import.    *)
LEMMA LeafOrNot ==
    ASSUME Ended, Whole => Laid, Placed(pos, blocks, parent, partner),
           NEW q, IsLine(Start, q), Clear(q), tokens[Start].kind # "else", Leaf(q)
    PROVE  Moved \/ Refused
<1>1. CASE EndsStatement(q)  BY <1>1, LeafPlaced DEF Moved
<1>2. CASE ~EndsStatement(q)
  <2>1. Reject("expected newline")  BY <1>2 DEF Leaf
  <2> QED  BY <2>1, Rejects
<1> QED  BY <1>1, <1>2

LEMMA StepStatement ==
    ASSUME Ended, Whole => Laid, Placed(pos, blocks, parent, partner), Statement
    PROVE  Moved \/ Refused
<1> DEFINE q == AfterExpr(Start)
<1>1. IF q > Start THEN Leaf(q) ELSE Reject("expected expression")  BY DEF Statement
<1>2. Start \in 1..Len(tokens) /\ Start \in Nat /\ Clear(Start)  BY AtStart
<1>3. CASE q > Start
  <2>1. /\ q \in Nat /\ q <= Len(tokens) /\ Clear(q) /\ tokens[Start].kind \in {"word", "open"}
        /\ \A x \in Start..(q - 1) : IsText(tokens[x])
    BY <1>2, <1>3, ExprRead
  <2>2. IsText(tokens[Start]) /\ tokens[Start].kind # "else"  BY <2>1 DEF IsText, LayoutKinds
  <2>3. Start \in Starts(tokens)  BY <2>2, StartsText
  <2>4. Start < q  BY <1>3, <1>2, <2>1
  <2>5. Leaf(q)  BY <1>1, <1>3
  <2> HIDE DEF q
  <2>6. IsLine(Start, q)  BY <2>1, <2>3, <2>4 DEF IsLine
  <2> QED  BY <2>1, <2>2, <2>5, <2>6, LeafOrNot
<1>4. CASE ~(q > Start)
  <2>1. Reject("expected expression")  BY <1>1, <1>4
  <2> QED  BY <2>1, Rejects
<1> QED  BY <1>3, <1>4

LEMMA StepField ==
    ASSUME Ended, Whole => Laid, Placed(pos, blocks, parent, partner), Field
    PROVE  Moved \/ Refused
<1> DEFINE k == Start
<1>1. IF Is(k, "word") /\ Is(k + 1, "colon") /\ Is(k + 2, "word") THEN Leaf(k + 3) ELSE Reject("field")
  BY DEF Field
<1>2. /\ k \in 1..Len(tokens) /\ k \in Nat /\ Clear(k) /\ k > 0 /\ k + 1 > 0 /\ k + 2 > 0
      /\ k + 1 \in Nat /\ k + 2 \in Nat
  BY AtStart
<1>3. CASE Is(k, "word") /\ Is(k + 1, "colon") /\ Is(k + 2, "word")
  <2>1. Leaf(k + 3)  BY <1>1, <1>3
  <2>2. Len(tokens) \in Nat  BY EndedFacts
  <2>3. /\ tokens[k].kind = "word" /\ k < Len(tokens)
        /\ tokens[k + 1].kind = "colon" /\ k + 1 < Len(tokens)
        /\ tokens[k + 2].kind = "word" /\ k + 2 < Len(tokens)
    <3> HIDE DEF k
    <3>1. At(k).kind = "word" /\ At(k + 1).kind = "colon" /\ At(k + 2).kind = "word"  BY <1>3 DEF Is
    <3> QED  BY <1>2, <3>1, AtIs
  <2>4. IsText(tokens[k]) /\ IsText(tokens[k + 1]) /\ IsText(tokens[k + 2])
    BY <2>3 DEF IsText, LayoutKinds
  <2>5. k \in Starts(tokens)  BY <2>4, StartsText
  <2>6. Clear(k + 3)
    <3> HIDE DEF k
    <3>0. k + 1 \in 1..Len(tokens) /\ k + 2 \in 1..Len(tokens) /\ (k + 1) + 1 = k + 2 /\ (k + 2) + 1 = k + 3
      BY <1>2, <2>2, <2>3
    <3>1. Clear(k + 1)  BY <1>2, <2>3, ClearPlain
    <3>2. Clear(k + 2)  BY <3>0, <3>1, <2>3, ClearPlain
    <3> QED  BY <3>0, <3>2, <2>3, ClearPlain
  <2>7. IsLine(k, k + 3)
    <3> HIDE DEF k
    <3>1. \A x \in k..((k + 3) - 1) : x = k \/ x = k + 1 \/ x = k + 2  BY <1>2
    <3>2. \A x \in k..((k + 3) - 1) : IsText(tokens[x])  BY <2>4, <3>1
    <3>3. k + 3 \in Nat /\ k < k + 3 /\ k + 3 <= Len(tokens)  BY <1>2, <2>2, <2>3
    <3> QED  BY <2>5, <3>2, <3>3 DEF IsLine
  <2> QED  BY <2>1, <2>3, <2>6, <2>7, LeafOrNot
<1>4. CASE ~(Is(k, "word") /\ Is(k + 1, "colon") /\ Is(k + 2, "word"))
  <2>1. Reject("field")  BY <1>1, <1>4
  <2> QED  BY <2>1, Rejects
<1> QED  BY <1>3, <1>4

LEMMA StepSignature ==
    ASSUME Ended, Whole => Laid, Placed(pos, blocks, parent, partner), Signature
    PROVE  Moved \/ Refused
<1> DEFINE k == Start
           q == AfterExpr(k + 1)
<1>1. IF Is(k, "fn") /\ q > k + 1 THEN Leaf(q) ELSE Reject("signature")  BY DEF Signature
<1>2. k \in 1..Len(tokens) /\ k \in Nat /\ Clear(k) /\ At(k) = tokens[k]  BY AtStart
<1>3. CASE Is(k, "fn") /\ q > k + 1
  <2>1. Leaf(q)  BY <1>1, <1>3
  <2>2. tokens[k].kind = "fn"  BY <1>2, <1>3 DEF Is
  <2>3. IsText(tokens[k]) /\ tokens[k].kind \notin {"else", "open", "close"}
    BY <2>2 DEF IsText, LayoutKinds
  <2>4. k \in Starts(tokens) /\ k < Len(tokens)  BY <2>3, StartsText
  <2>5. Clear(k + 1)  BY <1>2, <2>3, ClearPlain
  <2>6. k + 1 \in 1..Len(tokens) /\ k + 1 \in Nat
    <3>1. Len(tokens) \in Nat  BY EndedFacts
    <3> QED  BY <1>2, <2>4, <3>1
  <2>7. /\ q \in Nat /\ q <= Len(tokens) /\ Clear(q) /\ \A x \in (k + 1)..(q - 1) : IsText(tokens[x])
    BY <1>3, <2>5, <2>6, ExprRead
  <2>8. q > k + 1  BY <1>3
  <2> HIDE DEF q
  <2>9. IsLine(k, q)
    <3>1. \A x \in k..(q - 1) : x = k \/ x \in (k + 1)..(q - 1)  BY <1>2, <2>7
    <3>2. k < q  BY <1>2, <2>7, <2>8
    <3> QED  BY <2>3, <2>4, <2>7, <3>1, <3>2 DEF IsLine
  <2> QED  BY <2>1, <2>3, <2>7, <2>9, LeafOrNot
<1>4. CASE ~(Is(k, "fn") /\ q > k + 1)
  <2>1. Reject("signature")  BY <1>1, <1>4
  <2> QED  BY <2>1, Rejects
<1> QED  BY <1>3, <1>4

LEMMA StepImport ==
    ASSUME Ended, Whole => Laid, Placed(pos, blocks, parent, partner), Import
    PROVE  Moved \/ Refused
<1> DEFINE k == Start
<1>1. /\ Is(k, "import")
      /\ IF NoItems /\ Is(k + 1, "word") THEN Leaf(k + 2) ELSE Reject("import")
  BY DEF Import
<1>2. k \in 1..Len(tokens) /\ k \in Nat /\ Clear(k) /\ k > 0 /\ k + 1 > 0 /\ k + 1 \in Nat
  BY AtStart
<1>3. CASE NoItems /\ Is(k + 1, "word")
  <2>1. Leaf(k + 2)  BY <1>1, <1>3
  <2>2. Len(tokens) \in Nat  BY EndedFacts
  <2>3. tokens[k].kind = "import" /\ k < Len(tokens) /\ tokens[k + 1].kind = "word" /\ k + 1 < Len(tokens)
    <3> HIDE DEF k
    <3>1. At(k).kind = "import" /\ At(k + 1).kind = "word"  BY <1>1, <1>3 DEF Is
    <3> QED  BY <1>2, <3>1, AtIs
  <2>4. IsText(tokens[k]) /\ IsText(tokens[k + 1])  BY <2>3 DEF IsText, LayoutKinds
  <2>5. k \in Starts(tokens)  BY <2>4, StartsText
  <2>6. Clear(k + 2)
    <3> HIDE DEF k
    <3>0. k + 1 \in 1..Len(tokens) /\ (k + 1) + 1 = k + 2  BY <1>2, <2>2, <2>3
    <3>1. Clear(k + 1)  BY <1>2, <2>3, ClearPlain
    <3> QED  BY <3>0, <3>1, <2>3, ClearPlain
  <2>7. IsLine(k, k + 2)
    <3> HIDE DEF k
    <3>1. \A x \in k..((k + 2) - 1) : x = k \/ x = k + 1  BY <1>2
    <3>2. \A x \in k..((k + 2) - 1) : IsText(tokens[x])  BY <2>4, <3>1
    <3>3. k + 2 \in Nat /\ k < k + 2 /\ k + 2 <= Len(tokens)  BY <1>2, <2>2, <2>3
    <3> QED  BY <2>5, <3>2, <3>3 DEF IsLine
  <2> QED  BY <2>1, <2>3, <2>6, <2>7, LeafOrNot
<1>4. CASE ~(NoItems /\ Is(k + 1, "word"))
  <2>1. Reject("import")  BY <1>1, <1>4
  <2> QED  BY <2>1, Rejects
<1> QED  BY <1>3, <1>4

-------------------------------------------------------------------------------
(* The end of a block.                                                       *)
LEMMA StepEndBlock ==
    ASSUME Ended, Whole => Laid, Placed(pos, blocks, parent, partner), EndBlock
    PROVE  Moved \/ Refused
<1> DEFINE r == Start
           p == IF Is(r, "dedent") THEN r + 1 ELSE r
           bl == LinesOf(blocks)
           block == [kind |-> "else", line |-> At(p).line, count |-> 0]
<1>1. /\ Block.kind # "program" /\ At(r).kind \in {"dedent", "eof"}
      /\ IF Block.count = 0 THEN Reject("empty block")
         ELSE IF Block.kind = "then" /\ Is(p, "else")
         THEN IF BlockAt(p + 1)
              THEN /\ pos' = p + 4
                   /\ blocks' = Append(Front(blocks), block)
                   /\ partner' = Noted(partner, At(p).line, Block.line)
                   /\ UNCHANGED <<parent, parsed>>
              ELSE Reject("else")
         ELSE /\ pos' = p
              /\ blocks' = Front(blocks)
              /\ UNCHANGED <<parent, partner, parsed>>
  BY DEF EndBlock, AtBlockEnd
<1>2. /\ r \in 1..Len(tokens) /\ r \in Nat /\ Fine(r) /\ At(r) = tokens[r] /\ Typed(blocks)
      /\ Whole => Laid /\ Built(r, bl, parent, partner)
      /\ bl[Len(bl)] = Block.line
  BY AtStart
<1>3. Len(tokens) \in Nat  BY EndedFacts
<1>4. Len(blocks) > 1 /\ Len(bl) = Len(blocks) /\ bl \in Seq(Nat) /\ Len(bl) > 1 /\ Len(bl) - 1 # 0
  <2>1. Len(blocks) > 1 /\ Len(bl) = Len(blocks) /\ bl \in Seq(Nat)
    BY <1>1, <1>2, TypedFacts DEF Block
  <2> HIDE DEF bl
  <2>2. Len(bl) \in Nat /\ Len(bl) > 1  BY <2>1
  <2> QED  BY <2>1, <2>2
<1>5. Typed(Front(blocks)) /\ LinesOf(Front(blocks)) = Front(bl)
  BY <1>2, <1>4, Popped
<1> HIDE DEF r, bl
<1>6. CASE Block.count = 0
  <2>1. Reject("empty block")  BY <1>1, <1>6
  <2> QED  BY <2>1, Rejects
<1>7. CASE Block.count # 0 /\ Block.kind = "then" /\ Is(p, "else")
  <2>1. IF BlockAt(p + 1)
        THEN /\ pos' = p + 4
             /\ blocks' = Append(Front(blocks), block)
             /\ partner' = Noted(partner, At(p).line, Block.line)
             /\ UNCHANGED <<parent, parsed>>
        ELSE Reject("else")
    BY <1>1, <1>7
  <2>2. CASE ~BlockAt(p + 1)
    <3>1. Reject("else")  BY <2>1, <2>2
    <3> QED  BY <3>1, Rejects
  <2>3. CASE BlockAt(p + 1)
    <3>1. tokens[r].kind = "dedent" /\ p = r + 1
      <4>1. CASE ~Is(r, "dedent")
        <5>1. p = r /\ At(r).kind = "eof"  BY <1>1, <4>1 DEF Is
        <5>2. At(r).kind = "else"  BY <1>7, <5>1 DEF Is
        <5> QED  BY <5>1, <5>2
      <4> QED  BY <1>2, <4>1 DEF Is
    <3>2. p \in Nat /\ p > 0 /\ At(p).kind = "else"  BY <1>2, <1>7, <3>1 DEF Is
    <3>3. p < Len(tokens) /\ At(p) = tokens[p]  BY <3>2, AtIs
    <3>4. /\ pos' = p + 4 /\ blocks' = Append(Front(blocks), block) /\ parent' = parent
          /\ partner' = Noted(partner, tokens[p].line, Block.line) /\ parsed' = parsed
      BY <2>1, <2>3, <3>3
    <3>5. tokens[p].line \in Nat
      <4>1. tokens \in Seq(Tokens) /\ p \in 1..Len(tokens)  BY <1>3, <3>2, <3>3 DEF Ended
      <4> QED  BY <4>1, TokenFacts
    <3>6. block \in OpenBlocks /\ block.line = tokens[p].line
      BY <3>3, <3>5 DEF OpenBlocks, BlockKinds
    <3> HIDE DEF block
    <3>7. Typed(Append(Front(blocks), block))
          /\ LinesOf(Append(Front(blocks), block)) = Append(Front(bl), tokens[p].line)
      BY <1>5, <3>6, Pushed
    <3>8. /\ r + 1 \in 1..Len(tokens) /\ tokens[r + 1].kind = "else" /\ BlockAt(r + 2)
          /\ p + 4 = r + 5
      <4>1. p + 1 = r + 2 /\ p + 4 = r + 5 /\ r + 1 \in 1..Len(tokens)
        BY <1>2, <1>3, <3>1, <3>3
      <4> QED  BY <2>3, <3>1, <3>2, <3>3, <4>1
    <3> HIDE DEF p
    <3>9. /\ Fine(r + 5)
          /\ Laid => \A cl, pa, pr : Built(r, cl, pa, pr) /\ Len(cl) > 1 =>
               Built(r + 5, Append(Front(cl), tokens[r + 1].line), pa,
                     Noted(pr, tokens[r + 1].line, cl[Len(cl)]))
      BY <1>2, <3>1, <3>8, PassElse
    <3>10. ASSUME Whole
           PROVE  Built(r + 5, Append(Front(bl), tokens[p].line), parent,
                        Noted(partner, tokens[p].line, bl[Len(bl)]))
      BY <1>2, <1>4, <3>1, <3>9, <3>10
    <3>11. Whole => Built(pos', LinesOf(blocks'), parent', partner')
      BY <1>2, <3>4, <3>7, <3>8, <3>10
    <3> QED  BY <3>4, <3>7, <3>8, <3>9, <3>11 DEF Moved, Placed
  <2> QED  BY <2>2, <2>3
<1>8. CASE Block.count # 0 /\ ~(Block.kind = "then" /\ Is(p, "else"))
  <2>1. /\ pos' = p /\ blocks' = Front(blocks)
        /\ parent' = parent /\ partner' = partner /\ parsed' = parsed
    BY <1>1, <1>8
  <2>2. CASE tokens[r].kind = "dedent"
    <3>1. p = r + 1  BY <1>2, <2>2 DEF Is
    <3>2. /\ Fine(r + 1)
          /\ Laid => \A cl, pa, pr : Built(r, cl, pa, pr) /\ Len(cl) > 1 =>
               Built(r + 1, Front(cl), pa, pr)
      BY <1>2, <2>2, PassDedent
    <3>3. Whole => Built(pos', LinesOf(blocks'), parent', partner')
      BY <1>2, <1>4, <1>5, <2>1, <3>1, <3>2
    <3> QED  BY <1>5, <2>1, <3>1, <3>2, <3>3 DEF Moved, Placed
  <2>3. CASE tokens[r].kind # "dedent"
    <3>1. p = r /\ tokens[r].kind = "eof"  BY <1>1, <1>2, <2>3 DEF Is
    <3>2. ~Whole
      <4> SUFFICES ASSUME Whole PROVE FALSE
        OBVIOUS
      <4>1. Height(tokens, r - 1) = Len(bl) - 1  BY <1>2 DEF Built, Stacked
      <4>2. /\ Height(tokens, Len(tokens)) = 0 /\ r = Len(tokens) /\ tokens \in Seq(Tokens)
        BY <1>2, <3>1 DEF Laid
      <4>3. r - 1 \in Nat /\ r - 1 < Len(tokens) /\ (r - 1) + 1 = r  BY <1>2, <1>3
      <4>4. Height(tokens, r) = Height(tokens, r - 1)  BY <3>1, <4>2, <4>3, HeightStep
      <4>5. Len(bl) - 1 # 0  BY <1>4
      <4> QED  BY <4>1, <4>2, <4>4, <4>5
    <3> QED  BY <1>2, <1>5, <2>1, <3>1, <3>2 DEF Moved, Placed
  <2> QED  BY <2>2, <2>3
<1> QED  BY <1>6, <1>7, <1>8

-------------------------------------------------------------------------------
(* The parser reads the lexer's tokens and leaves them alone.                *)
LEMMA LinesPrimed ==
    ASSUME UNCHANGED lexVars
    PROVE  /\ Whole' = Whole /\ Logicals' = Logicals
           /\ \A l : Anc(l)' = Anc(l)
<1>1. source' = source /\ tokens' = tokens /\ line' = line /\ bracket_depth' = bracket_depth
  BY DEF lexVars
<1>2. Lines' = Lines  BY <1>1 DEF Lines
<1>3. \A i, kind : PlacesBefore(i, kind)' = PlacesBefore(i, kind)  BY <1>2 DEF PlacesBefore
<1>4. \A i : DepthBefore(i)' = DepthBefore(i)  BY <1>3 DEF DepthBefore
<1>5. Logicals' = Logicals  BY <1>2, <1>4 DEF Logicals
<1>6. \A i : WidthOf(i)' = WidthOf(i)  BY <1>2 DEF WidthOf
<1>7. \A l : Anc(l)' = Anc(l)  BY <1>5, <1>6 DEF Anc
<1>8. Whole' = Whole  BY <1>1, <1>2, <1>4 DEF Whole, Surplus
<1> QED  BY <1>5, <1>7, <1>8

LEMMA PlacedPrimed ==
    ASSUME UNCHANGED lexVars
    PROVE  Placed(pos, blocks, parent, partner)' = Placed(pos', blocks', parent', partner')
<1>1. tokens' = tokens  BY DEF lexVars
<1>2. Whole' = Whole /\ Logicals' = Logicals /\ \A l : Anc(l)' = Anc(l)  BY LinesPrimed
<1>3. \A l : Up(l)' = Up(l)  BY <1>2 DEF Up
<1>4. \A l : Earlier(l)' = Earlier(l) /\ Ahead(l)' = Ahead(l)  BY <1>2, <1>3 DEF Earlier, Ahead
<1>5. Fine(pos)' = Fine(pos')  BY <1>1 DEF Fine, Clear
<1>6. StartsTo(pos, TRUE)' = StartsTo(pos', TRUE) /\ StartsTo(pos, FALSE)' = StartsTo(pos', FALSE)
  BY <1>1 DEF StartsTo
<1>7. Recorded(pos, parent, partner)' = Recorded(pos', parent', partner')
  BY <1>3, <1>4, <1>6 DEF Recorded
<1>8. Stacked(LinesOf(blocks), pos - 1)' = Stacked(LinesOf(blocks'), pos' - 1)
  BY <1>1, <1>4 DEF Stacked
<1>9. Built(pos, LinesOf(blocks), parent, partner)' = Built(pos', LinesOf(blocks'), parent', partner')
  BY <1>7, <1>8 DEF Built
<1> QED  BY <1>2, <1>5, <1>9 DEF Placed

LEMMA StepKeepsParInv ==
    ASSUME NestInv, LayInv, AtBottom, ParInv, [Next]_vars
    PROVE  ParInv'
<1>1. CASE Lex
  <2>1. lexed = "no"
    BY <1>1 DEF Lex, LexNext, MixedLine, BlankLine, Continued, Deeper, Shallower, SameLevel,
                LogicalStart, AtLineStart, Scan, Newline, InLine, EndOfSource
  <2>2. Fresh /\ parsed # "program"  BY <2>1 DEF ParInv
  <2>3. Fresh' /\ parsed' # "program"  BY <1>1, <2>2 DEF Lex, parVars, Fresh
  <2> QED  BY <2>3 DEF ParInv
<1>2. CASE LexError
  <2>1. /\ lexed \notin {"no", "yes"} /\ parsed' = lexed /\ lexed' = lexed
        /\ pos' = pos /\ blocks' = blocks /\ parent' = parent /\ partner' = partner
    BY <1>2 DEF LexError, Reject, lexVars
  <2>2. lexed # "program"  BY <2>1 DEF NestInv, LexInv, LexTypeOK, Errors
  <2>3. Fresh'  BY <2>1 DEF ParInv, Fresh
  <2> QED  BY <2>1, <2>2, <2>3 DEF ParInv
<1>3. ASSUME Ready, UNCHANGED lexVars
      PROVE  /\ lexed = "yes" /\ parsed = "no" /\ lexed' = "yes"
             /\ Ended /\ (Whole => Laid) /\ Placed(pos, blocks, parent, partner)
  <2>1. lexed = "yes" /\ parsed = "no" /\ lexed' = "yes"  BY <1>3 DEF Ready, lexVars
  <2>2. Ended /\ (Whole => Laid)  BY <2>1, LexerLeft
  <2>3. Fresh \/ Placed(pos, blocks, parent, partner)  BY <2>1 DEF ParInv
  <2> QED  BY <2>1, <2>2, <2>3, FreshPlaced
<1>4. CASE Finish
  <2>1. /\ Ready /\ UNCHANGED lexVars /\ Is(Start, "eof") /\ parsed' = "program"
        /\ pos' = pos /\ blocks' = blocks /\ parent' = parent /\ partner' = partner
    BY <1>4 DEF Finish
  <2>2. lexed' = "yes" /\ Placed(pos, blocks, parent, partner)  BY <1>3, <2>1
  <2>3. Placed(pos, blocks, parent, partner)'  BY <2>1, <2>2, PlacedPrimed
  <2>4. tokens' = tokens  BY <2>1 DEF lexVars
  <2>5. Is(Start, "eof")'  BY <2>1, <2>4 DEF Is, At, Start, SkipNewlines
  <2> QED  BY <2>1, <2>2, <2>3, <2>5 DEF ParInv
<1>5. ASSUME Header \/ Statement \/ Field \/ Signature \/ Import \/ Misplaced \/ EndBlock
      PROVE  ParInv'
  <2>1. Ready /\ UNCHANGED lexVars
    BY <1>5 DEF Header, Statement, Field, Signature, Import, Misplaced, EndBlock, Reading
  <2>2. /\ lexed = "yes" /\ parsed = "no" /\ lexed' = "yes"
        /\ Ended /\ (Whole => Laid) /\ Placed(pos, blocks, parent, partner)
    BY <1>3, <2>1
  <2>3. ASSUME Misplaced PROVE Refused
    <3>1. Reject("unexpected token")  BY <2>3 DEF Misplaced
    <3> QED  BY <3>1, Rejects
  <2>4. Moved \/ Refused
    BY <1>5, <2>2, <2>3, StepHeader, StepStatement, StepField, StepSignature, StepImport, StepEndBlock
  <2>5. CASE Moved
    <3>1. Placed(pos, blocks, parent, partner)' /\ parsed' = "no"
      BY <2>1, <2>2, <2>5, PlacedPrimed DEF Moved
    <3> QED  BY <2>2, <3>1 DEF ParInv
  <2>6. CASE Refused  BY <2>2, <2>6 DEF ParInv, Refused
  <2> QED  BY <2>4, <2>5, <2>6
<1>6. CASE Done \/ UNCHANGED vars
  <2>1. /\ UNCHANGED lexVars /\ parsed' = parsed /\ lexed' = lexed /\ tokens' = tokens
        /\ pos' = pos /\ blocks' = blocks /\ parent' = parent /\ partner' = partner
    BY <1>6 DEF Done, vars, lexVars
  <2>2. Fresh' = Fresh  BY <2>1 DEF Fresh
  <2>3. Placed(pos, blocks, parent, partner)' = Placed(pos, blocks, parent, partner)
    BY <2>1, PlacedPrimed
  <2>4. Is(Start, "eof")' = Is(Start, "eof")  BY <2>1 DEF Is, At, Start, SkipNewlines
  <2> QED  BY <2>1, <2>2, <2>3, <2>4 DEF ParInv
<1> QED  BY <1>1, <1>2, <1>4, <1>5, <1>6 DEF Next, Parse

LEMMA ParInvHolds == Spec => [](NestInv /\ LayInv /\ AtBottom /\ ParInv)
<1>1. Init => ParInv
  BY DEF Init, LexInit, ParInv, Fresh
<1>2. (NestInv /\ LayInv /\ AtBottom) /\ ParInv /\ [Next]_vars => ParInv'
  BY StepKeepsParInv
<1> QED  BY <1>1, <1>2, SpecLexes, LayInvHolds, AtBottomHolds, PTL DEF Spec

-------------------------------------------------------------------------------
(* The outline of a source, in the terms of the proof.                       *)
LEMMA OutlineUp ==
    ASSUME source \in Sources
    PROVE  \A i \in Logicals : Outline.up[i] = Up(i)
<1> TAKE i \in Logicals
<1> DEFINE Less == {j \in Logicals : j < i /\ WidthOf(j) < WidthOf(i)}
           S == {0} \cup Less
           A == {0} \cup Anc(i)
<1>1. Outline.up[i] = Max(S)  BY DEF Outline, Logicals
<1>2. /\ \A l \in Logicals : l \in Nat /\ l > 0
      /\ \A l \in Logicals : WidthOf(l) \in Nat
  BY LogicalFacts, LineFacts DEF Logicals
<1>3. S \in SUBSET Nat /\ S # {} /\ \A j \in S : j <= i  BY <1>2
<1>4. Max(S) \in S /\ \A j \in S : j <= Max(S)
  <2> HIDE DEF S
  <2> QED  BY <1>2, <1>3, Greatest
<1>5. A \subseteq S
  <2>1. ASSUME NEW j \in Anc(i) PROVE j \in Less
    <3>1. j \in Logicals /\ j < i /\ \A k \in Logicals : k \in (j + 1)..i => WidthOf(j) < WidthOf(k)
      BY DEF Anc
    <3>2. i \in (j + 1)..i  BY <1>2, <3>1
    <3> QED  BY <3>1, <3>2
  <2> QED  BY <2>1
<1>6. Max(S) \in A
  <2>1. CASE Max(S) = 0  BY <2>1
  <2>2. CASE Max(S) # 0
    <3> DEFINE g == Max(S)
    <3>1. g \in Less  BY <1>4, <2>2
    <3>2. ASSUME NEW k \in Logicals, k \in (g + 1)..i PROVE WidthOf(g) < WidthOf(k)
      <4>1. g \in Nat /\ k \in Nat /\ i \in Nat /\ WidthOf(g) \in Nat /\ WidthOf(k) \in Nat
            /\ WidthOf(i) \in Nat
        BY <1>2, <3>1
      <4>2. CASE k = i  BY <3>1, <4>2
      <4>3. CASE k # i
        <5>1. k < i /\ ~(k <= g)  BY <3>2, <4>1, <4>3
        <5>2. k \notin S  BY <1>4, <5>1
        <5>3. ~(WidthOf(k) < WidthOf(i))  BY <5>1, <5>2
        <5> QED  BY <3>1, <4>1, <5>3
      <4> QED  BY <4>2, <4>3
    <3> QED  BY <3>1, <3>2 DEF Anc
  <2> QED  BY <2>1, <2>2
<1>7. \A j \in A : j <= Max(S)  BY <1>4, <1>5
<1>8. A \in SUBSET Nat  BY <1>3, <1>5
<1>9. Max(A) = Max(S)
  <2>1. A # {} /\ i \in Nat /\ \A j \in A : j <= i  BY <1>2, <1>3, <1>5
  <2> HIDE DEF A, S
  <2>2. Max(A) \in A /\ \A j \in A : j <= Max(A)  BY <1>8, <2>1, Greatest
  <2>3. Max(A) <= Max(S) /\ Max(S) <= Max(A) /\ Max(A) \in Nat /\ Max(S) \in Nat
    BY <1>6, <1>7, <1>8, <2>2
  <2> QED  BY <2>3
<1>10. Up(i) = Max(A)  BY DEF Up
<1> QED  BY <1>1, <1>9, <1>10

LEMMA OutlineHead ==
    ASSUME source \in Sources
    PROVE  \A i \in Logicals : HeadOf(Outline, i) = Lines[i].text[1]
<1> TAKE i \in Logicals
<1> DEFINE E == {Len(Lines)} \cup {j - 1 : j \in {k \in Logicals : k > i}}
           n == Min(E) - i + 1
           s == [j \in 1..n |-> Lines[i + j - 1].text]
<1>1. Outline.text[i] = FlattenSeq(s)  BY DEF Outline, Logicals
<1>2. /\ Len(Lines) \in Nat /\ i \in 1..Len(Lines) /\ Lines[i].text # <<>>
      /\ \A l \in Logicals : l \in 1..Len(Lines)
      /\ \A l \in 1..Len(Lines) : Lines[l].text \in Seq(TextKinds)
  BY LineFacts DEF Logicals
<1>3. E \in SUBSET Nat /\ E # {} /\ \A x \in E : x >= i /\ x <= Len(Lines)  BY <1>2
<1>4. Min(E) \in E
  <2> HIDE DEF E
  <2> QED  BY <1>3, MinIs
<1>5. n \in Nat /\ n >= 1 /\ \A j \in 1..n : i + j - 1 \in 1..Len(Lines)
  <2>1. Min(E) \in Nat /\ Min(E) >= i /\ Min(E) <= Len(Lines)  BY <1>3, <1>4
  <2> HIDE DEF E
  <2> QED  BY <1>2, <2>1
<1> HIDE DEF n
<1>6. /\ s \in Seq(Seq(TextKinds)) /\ Len(s) = n /\ s[1] = Lines[i].text
  <2>1. \A j \in 1..n : Lines[i + j - 1].text \in Seq(TextKinds)  BY <1>2, <1>5
  <2>2. s \in [1..n -> Seq(TextKinds)]  BY <2>1
  <2>3. s[1] = Lines[i + 1 - 1].text /\ i + 1 - 1 = i  BY <1>2, <1>5
  <2> HIDE DEF s
  <2> QED  BY <1>5, <2>2, <2>3
<1> HIDE DEF s
<1>7. Len(s[1]) > 0
  <2>1. Lines[i].text \in Seq(TextKinds)  BY <1>2
  <2> QED  BY <1>2, <1>6, <2>1
<1>8. FlattenSeq(s)[1] = s[1][1]  BY <1>5, <1>6, <1>7, FlattenFirst
<1> QED  BY <1>1, <1>6, <1>8 DEF HeadOf

LEMMA OutlineBefore ==
    ASSUME source \in Sources
    PROVE  \A i \in Logicals : Before(Outline, i) = Earlier(i)
<1> TAKE i \in Logicals
<1>1. Outline.logical = Logicals /\ \A j \in Logicals : Outline.up[j] = Up(j)
  BY OutlineLogicals, OutlineUp
<1>2. {j \in ChildrenOf(Outline, Outline.up[i]) : j < i} = {j \in Logicals : j < i /\ Up(j) = Up(i)}
  BY <1>1 DEF ChildrenOf
<1> QED  BY <1>2 DEF Before, Earlier

(* A source the parser accepts closes its brackets, and its tokens are read  *)
(* to the Eof behind all of them.                                            *)
LEMMA AcceptedWhole ==
    ASSUME NestInv, LayInv, AtBottom, ParInv, parsed = "program"
    PROVE  Whole /\ Laid /\ Recorded(Len(tokens), parent, partner)
<1>1. /\ lexed = "yes" /\ Placed(pos, blocks, parent, partner) /\ Is(Start, "eof")
  BY DEF ParInv
<1>2. Ended /\ (Whole => Laid)  BY <1>1, LexerLeft
<1>3. /\ Start \in 1..Len(tokens) /\ Clear(Start) /\ At(Start) = tokens[Start]
      /\ Whole => Laid /\ Built(Start, LinesOf(blocks), parent, partner)
  BY <1>1, <1>2, AtStart
<1>4. tokens[Start].kind = "eof"  BY <1>1, <1>3 DEF Is
<1>5. Start = Len(tokens) /\ Len(tokens) \in Nat  BY <1>2, <1>3, <1>4, EndedFacts DEF Ended
<1>6. Clear(Start + 1)  BY <1>2, <1>3, <1>4, ClearPlain
<1>7. (Start + 1) - 1 = Len(tokens)  BY <1>5
<1>8. Sound(tokens, Len(tokens)) /\ TokLevel(tokens, Len(tokens)) = 0  BY <1>6, <1>7 DEF Clear
<1>9. Whole  BY <1>8 DEF LayInv, LevelRule, Whole
<1> QED  BY <1>3, <1>5, <1>9 DEF Built

(* On every source the parser accepts, whatever its lines, their widths and  *)
(* brackets: each statement stands in the block of the line it is indented   *)
(* under (parse_body, parser.rs:318), and each else belongs to the if of its *)
(* own width before it, not to a nearer one of another width (parse_if).     *)
THEOREM TreeFollowsIndentation == Spec => []TreeRight
<1>1. ASSUME NestInv, LayInv, AtBottom, ParInv PROVE TreeRight
  <2> SUFFICES ASSUME parsed = "program"
               PROVE  /\ DOMAIN partner = {i \in Outline.logical : HeadOf(Outline, i) = "else"}
                      /\ \A i \in DOMAIN partner : partner[i] = Before(Outline, i)
                      /\ DOMAIN parent = Outline.logical \ DOMAIN partner
                      /\ \A i \in DOMAIN parent : parent[i] = Outline.up[i]
    BY DEF TreeRight
  <2> DEFINE n == Len(tokens)
             Elses == {i \in Logicals : Lines[i].text[1] = "else"}
  <2>1. Laid /\ Recorded(n, parent, partner)  BY <1>1, AcceptedWhole
  <2>2. source \in Sources  BY <2>1 DEF Laid
  <2>3. ASSUME NEW k \in Starts(tokens)
        PROVE  /\ k < n /\ tokens[k].line \in Logicals
               /\ tokens[k].kind = Lines[tokens[k].line].text[1]
    <3>1. k \in 1..n /\ IsText(tokens[k]) /\ tokens[k].line \in Logicals  BY <2>1, StartLine
    <3>2. n \in Nat /\ tokens[n].kind = "eof" /\ n \in 1..n
      <4>1. n \in Nat /\ n > 0  BY <2>1, TokenFacts DEF Laid
      <4> QED  BY <2>1, <4>1 DEF Laid
    <3>3. k # n  BY <3>1, <3>2 DEF IsText
    <3>4. tokens[k].kind = Lines[tokens[k].line].text[1]  BY <2>1 DEF Laid, StartsAre
    <3> QED  BY <3>1, <3>2, <3>3, <3>4
  <2>4. \A l \in Logicals : \E k \in Starts(tokens) : tokens[k].line = l  BY <2>1, StartLine
  <2>5. StartsTo(n, TRUE) = Elses
    <3>1. ASSUME NEW l \in StartsTo(n, TRUE) PROVE l \in Elses
      <4>1. PICK k \in Starts(tokens) : l = tokens[k].line /\ tokens[k].kind = "else"
        BY <3>1 DEF StartsTo
      <4> QED  BY <2>3, <4>1
    <3>2. ASSUME NEW l \in Elses PROVE l \in StartsTo(n, TRUE)
      <4>1. PICK k \in Starts(tokens) : tokens[k].line = l  BY <2>4
      <4>2. k < n /\ tokens[k].kind = "else"  BY <2>3, <4>1
      <4>3. k \in {x \in Starts(tokens) : x < n /\ (tokens[x].kind = "else") = TRUE}  BY <4>2
      <4> QED  BY <4>1, <4>3 DEF StartsTo
    <3> QED  BY <3>1, <3>2
  <2>6. StartsTo(n, FALSE) = Logicals \ Elses
    <3>1. ASSUME NEW l \in StartsTo(n, FALSE) PROVE l \in Logicals \ Elses
      <4>1. PICK k \in Starts(tokens) : l = tokens[k].line /\ tokens[k].kind # "else"
        BY <3>1 DEF StartsTo
      <4> QED  BY <2>3, <4>1
    <3>2. ASSUME NEW l \in Logicals \ Elses PROVE l \in StartsTo(n, FALSE)
      <4>1. PICK k \in Starts(tokens) : tokens[k].line = l  BY <2>4
      <4>2. k < n /\ tokens[k].kind # "else"  BY <2>3, <4>1
      <4>3. k \in {x \in Starts(tokens) : x < n /\ (tokens[x].kind = "else") = FALSE}  BY <4>2
      <4> QED  BY <4>1, <4>3 DEF StartsTo
    <3> QED  BY <3>1, <3>2
  <2>7. /\ DOMAIN parent = Logicals \ Elses /\ \A l \in DOMAIN parent : parent[l] = Up(l)
        /\ DOMAIN partner = Elses /\ \A l \in DOMAIN partner : partner[l] = Earlier(l)
    BY <2>1, <2>5, <2>6 DEF Recorded
  <2>8. /\ Outline.logical = Logicals
        /\ \A i \in Logicals : /\ Outline.up[i] = Up(i) /\ Before(Outline, i) = Earlier(i)
                               /\ HeadOf(Outline, i) = Lines[i].text[1]
    BY <2>2, OutlineLogicals, OutlineUp, OutlineBefore, OutlineHead
  <2>9. Elses = {i \in Outline.logical : HeadOf(Outline, i) = "else"}  BY <2>8
  <2> HIDE DEF Elses
  <2>10. \A i \in Elses : i \in Logicals  BY <2>8, <2>9
  <2> QED  BY <2>7, <2>8, <2>9, <2>10
<1> QED  BY <1>1, ParInvHolds, PTL

===============================================================================
